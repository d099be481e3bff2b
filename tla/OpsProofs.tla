------------------------------ MODULE OpsProofs ------------------------------
(***************************************************************************)
(* Proofs about the operator's tools (pyrmts_ops, pyrmts_aws) and about the*)
(* cascade of rungs (pyrmts/cascade.py, canonicalize.py).  The deployment  *)
(* of functions, with every deployer, rule and function there may be: what *)
(* a deployment ends with is what its job asked for.  The rebuild driver,  *)
(* with every ladder, clock, outage and limit there may be: what it writes *)
(* is new, what it calls clean is complete, and what it spends is within   *)
(* the limit.  The cascade, with every ladder, base, error and id-map there*)
(* may be: every rung holds the base once, and a rollup nothing older.     *)
(* The materializer (pyrmts_engine/materialize.py), with every ladder, set *)
(* of raw rows, clock and loss there may be: a stored shard holds its bins *)
(* once with all their raw rows, what buildable_at says can be built is    *)
(* stored, and what is stored is registered.                               *)
(***************************************************************************)
EXTENDS LambdaDeploy, Rebuild, Cascade, Materializer, FiniteSetTheorems, TLAPS

LEMMA JobParts ==
    \A j \in Jobs : /\ j.rule \in Rules /\ j.fn \in Functions
                    /\ j.package \in {"Zip", "Image"}
                    /\ j.enabled \in {"preserve", "ENABLED", "DISABLED"}
BY DeployAssumption DEF Rules, Functions

LEMMA InitDeployType == InitDeploy => TypeDeploy
<1> SUFFICES ASSUME InitDeploy PROVE TypeDeploy
  OBVIOUS
<1>1. job \in [Deployers -> Jobs]
  <2>1. (CHOOSE j \in Jobs : TRUE) \in Jobs
    BY DeployAssumption
  <2> QED BY <2>1 DEF InitDeploy
<1> QED BY <1>1, DeployAssumption DEF InitDeploy, TypeDeploy, Calls

\* Every step of a deployment and of the operator keeps the types.
LEMMA NextDeployType == TypeDeploy /\ [NextDeploy]_deployVars => TypeDeploy'
<1> SUFFICES ASSUME TypeDeploy, [NextDeploy]_deployVars PROVE TypeDeploy'
  OBVIOUS
<1> USE JobParts DEF TypeDeploy, Calls
<1>1. CASE UNCHANGED deployVars
  BY <1>1 DEF deployVars, awsVars
<1>2. ASSUME NEW d \in Deployers, Deploy(d) PROVE TypeDeploy'
  BY <1>2, DeployAssumption DEF Deploy, Goto, awsVars
<1>3. ASSUME NEW d \in Deployers, UpsertRole(d) PROVE TypeDeploy'
  BY <1>3 DEF UpsertRole, Goto
<1>4. ASSUME NEW d \in Deployers, AttachPolicy(d) PROVE TypeDeploy'
  BY <1>4 DEF AttachPolicy, Goto
<1>5. ASSUME NEW d \in Deployers, UpsertFunction(d) PROVE TypeDeploy'
  <2>1. /\ package' \in [Functions -> {"absent", "Zip", "Image"}] /\ bound' \subseteq Rules
        /\ statements' \in [Functions -> SUBSET ((Rules \cup {"invoke"}) \X Rules)]
    BY <1>5 DEF UpsertFunction
  <2> QED BY <1>5, <2>1 DEF UpsertFunction, Goto
<1>6. ASSUME NEW d \in Deployers, CreateFunction(d) PROVE TypeDeploy'
  BY <1>6 DEF CreateFunction, AfterFunction, Goto
<1>7. ASSUME NEW d \in Deployers, UpdateFunction(d) PROVE TypeDeploy'
  BY <1>7 DEF UpdateFunction, AfterFunction, Goto, awsVars
<1>8. ASSUME NEW d \in Deployers, DescribeRule(d) PROVE TypeDeploy'
  BY <1>8 DEF DescribeRule, Goto, awsVars
<1>9. ASSUME NEW d \in Deployers, PutRule(d) PROVE TypeDeploy'
  BY <1>9 DEF PutRule, StateToPut, Goto
<1>10. ASSUME NEW d \in Deployers, PutTargets(d) PROVE TypeDeploy'
  BY <1>10 DEF PutTargets, Goto
<1>11. ASSUME NEW d \in Deployers, AddPermission(d) PROVE TypeDeploy'
  <2>1. job[d].rule \in Rules /\ job[d].fn \in Functions
    OBVIOUS
  <2>2. statements' \in [Functions -> SUBSET ((Rules \cup {"invoke"}) \X Rules)]
    BY <1>11, <2>1 DEF AddPermission, StatementId
  <2> QED BY <1>11, <2>1, <2>2 DEF AddPermission, Goto
<1>12. ASSUME NEW d \in Deployers, Dies(d) PROVE TypeDeploy'
  BY <1>12 DEF Dies, Goto, awsVars
<1>13. ASSUME NEW r \in Rules, NEW on \in BOOLEAN, Operator(r, on) PROVE TypeDeploy'
  BY <1>13 DEF Operator
<1> QED BY <1>1, <1>2, <1>3, <1>4, <1>5, <1>6, <1>7, <1>8, <1>9, <1>10, <1>11, <1>12, <1>13
        DEF NextDeploy

\* Every variable of a deployment has its type.
THEOREM DeployTypes == SpecDeploy => []TypeDeploy
BY InitDeployType, NextDeployType, PTL DEF SpecDeploy

-----------------------------------------------------------------------------
(* The inductive invariant of a deployment *)

\* A statement's id is its rule, so an id that is taken is the rule's own.
StatementInv == \A f \in Functions : \A s \in statements[f] : s[1] = s[2]

\* A deployer past a call has what the call makes.
ProgressInv ==
    \A d \in Deployers :
        /\ pc[d] \in {"targets", "permit"} => state[job[d].rule] # "absent"
        /\ pc[d] = "permit" => target[job[d].rule] = job[d].fn

\* A deployer about to preserve the state of a rule that was turned off has read
\* that it is.
ReadInv ==
    \A d \in Deployers :
        (pc[d] = "put" /\ job[d].enabled = "preserve" /\ job[d].rule \in retired)
            => read[d] = "DISABLED"

DeployInv == TypeDeploy /\ StatementInv /\ ProgressInv /\ DeployVerifies

\* No rule loses its state, its target or its function's package and statement, but
\* those of a function that is made anew, which are bound no more.
LEMMA NextDeployInv == DeployInv /\ [NextDeploy]_deployVars => DeployInv'
<1> SUFFICES ASSUME DeployInv, [NextDeploy]_deployVars PROVE DeployInv'
  OBVIOUS
<1>0. /\ TypeDeploy /\ TypeDeploy' /\ StatementInv /\ ProgressInv /\ DeployVerifies
  BY NextDeployType DEF DeployInv
<1>1. CASE UNCHANGED <<statements, state, target, package, bound, job>>
           /\ \A d \in Deployers : pc'[d] \in {"targets", "permit"} => pc'[d] = pc[d]
  BY <1>0, <1>1 DEF DeployInv, StatementInv, ProgressInv, DeployVerifies, Verified
<1>2. UNCHANGED deployVars \/ (\E d \in Deployers : \/ UpsertRole(d) \/ AttachPolicy(d)
            \/ UpdateFunction(d) \/ DescribeRule(d) \/ Dies(d)) => DeployInv'
  <2>1. ASSUME NEW d \in Deployers, UpsertRole(d) \/ AttachPolicy(d)
               \/ UpdateFunction(d) \/ DescribeRule(d) \/ Dies(d)
        PROVE  DeployInv'
    <3>1. /\ UNCHANGED <<statements, state, target, package, bound, job>>
          /\ \E c \in {"policy", "function", "describe", "put", "idle"} : pc' = [pc EXCEPT ![d] = c]
      BY <2>1 DEF UpsertRole, AttachPolicy, UpdateFunction, DescribeRule, Dies, AfterFunction, Goto,
                  awsVars
    <3> QED BY <1>0, <1>1, <3>1 DEF TypeDeploy
  <2>2. CASE UNCHANGED deployVars
    BY <1>1, <2>2 DEF deployVars, awsVars
  <2> QED BY <2>1, <2>2
<1>3. ASSUME NEW d \in Deployers, Deploy(d) PROVE DeployInv'
  <2>1. /\ UNCHANGED <<statements, state, target, package, bound>>
        /\ pc' = [pc EXCEPT ![d] = "role"] /\ \E j \in Jobs : job' = [job EXCEPT ![d] = j]
    BY <1>3 DEF Deploy, Goto, awsVars
  <2> QED BY <1>0, <2>1 DEF TypeDeploy, DeployInv, StatementInv, ProgressInv, DeployVerifies, Verified
<1>4. ASSUME NEW d \in Deployers, UpsertFunction(d) PROVE DeployInv'
  <2>1. /\ UNCHANGED <<state, target, job>> /\ job[d].fn \in Functions
        /\ \E c \in {"update", "create"} : pc' = [pc EXCEPT ![d] = c]
    BY <1>0, <1>4, JobParts DEF UpsertFunction, Goto, TypeDeploy
  <2>2. ProgressInv'
    BY <1>0, <2>1 DEF TypeDeploy, ProgressInv
  <2>3. CASE UNCHANGED <<package, statements, bound>>
    BY <1>0, <2>1, <2>2, <2>3 DEF DeployInv, StatementInv, DeployVerifies, Verified
  <2>4. CASE /\ package' = [package EXCEPT ![job[d].fn] = "absent"]
             /\ statements' = [statements EXCEPT ![job[d].fn] = {}]
             /\ bound' = bound \ {r \in bound : \E j \in Jobs : j.rule = r /\ j.fn = job[d].fn}
    <3>1. StatementInv'
      BY <1>0, <2>4 DEF TypeDeploy, StatementInv
    <3>2. ASSUME NEW j \in Jobs, j.rule \in bound' PROVE Verified(j.rule, j.fn)'
      <4>1. j.rule \in bound /\ j.fn # job[d].fn
        BY <2>4, <3>2
      <4>2. package'[j.fn] = package[j.fn] /\ statements'[j.fn] = statements[j.fn]
        BY <1>0, <2>4, <4>1, JobParts DEF TypeDeploy
      <4> QED BY <1>0, <2>1, <4>1, <4>2 DEF DeployVerifies, Verified
    <3> QED BY <1>0, <2>2, <3>1, <3>2 DEF DeployInv, DeployVerifies
  <2> QED BY <1>4, <2>3, <2>4 DEF UpsertFunction
<1>5. ASSUME NEW d \in Deployers, CreateFunction(d) PROVE DeployInv'
  <2>1. /\ UNCHANGED <<statements, state, target, job, bound>>
        /\ package' = [package EXCEPT ![job[d].fn] = job[d].package] /\ job[d].package # "absent"
        /\ \E c \in {"describe", "put"} : pc' = [pc EXCEPT ![d] = c]
    BY <1>0, <1>5, JobParts DEF CreateFunction, AfterFunction, Goto, TypeDeploy
  <2>2. \A f \in Functions : package[f] # "absent" => package'[f] # "absent"
    BY <1>0, <2>1 DEF TypeDeploy
  <2>3. DeployVerifies'
    BY <1>0, <2>1, <2>2, JobParts DEF DeployVerifies, Verified
  <2> QED BY <1>0, <2>1, <2>3 DEF TypeDeploy, DeployInv, StatementInv, ProgressInv
<1>6. ASSUME NEW d \in Deployers, PutRule(d) PROVE DeployInv'
  <2>1. /\ UNCHANGED <<statements, target, package, job, bound>> /\ pc' = [pc EXCEPT ![d] = "targets"]
        /\ state' = [state EXCEPT ![job[d].rule] = StateToPut(d)] /\ StateToPut(d) # "absent"
        /\ job[d].rule \in Rules
    BY <1>0, <1>6, JobParts DEF PutRule, StateToPut, Goto, TypeDeploy
  <2>2. state'[job[d].rule] # "absent" /\ \A r \in Rules : state[r] # "absent" => state'[r] # "absent"
    BY <1>0, <2>1 DEF TypeDeploy
  <2>3. DeployVerifies'
    BY <1>0, <2>1, <2>2, JobParts DEF DeployVerifies, Verified
  <2>4. ProgressInv'
    BY <1>0, <2>1, <2>2, JobParts DEF TypeDeploy, ProgressInv
  <2> QED BY <1>0, <2>1, <2>3, <2>4 DEF DeployInv, StatementInv
<1>7. ASSUME NEW d \in Deployers, PutTargets(d) PROVE DeployInv'
  <2>1. /\ UNCHANGED <<statements, state, package, job, bound>> /\ pc[d] = "targets"
        /\ pc' = [pc EXCEPT ![d] = "permit"] /\ target' = [target EXCEPT ![job[d].rule] = job[d].fn]
        /\ job[d] \in Jobs
    BY <1>0, <1>7 DEF PutTargets, Goto, TypeDeploy
  <2>2. \A j \in Jobs : target[j.rule] = j.fn => target'[j.rule] = j.fn
    BY <1>0, <2>1, JobParts, DeployAssumption DEF TypeDeploy
  <2>3. target'[job[d].rule] = job[d].fn
    BY <1>0, <2>1, JobParts DEF TypeDeploy
  <2>4. DeployVerifies'
    BY <1>0, <2>1, <2>2 DEF DeployVerifies, Verified
  <2>5. ProgressInv'
    BY <1>0, <2>1, <2>2, <2>3 DEF TypeDeploy, ProgressInv
  <2> QED BY <1>0, <2>1, <2>4, <2>5 DEF DeployInv, StatementInv
<1>8. ASSUME NEW d \in Deployers, AddPermission(d) PROVE DeployInv'
  <2> DEFINE r == job[d].rule
             f == job[d].fn
  <2>1. /\ UNCHANGED <<state, target, package, job>> /\ pc' = [pc EXCEPT ![d] = "idle"]
        /\ pc[d] = "permit" /\ package[f] # "absent" /\ bound' = bound \cup {r}
        /\ statements' = IF \E s \in statements[f] : s[1] = r THEN statements
                         ELSE [statements EXCEPT ![f] = statements[f] \cup {<<r, r>>}]
    BY <1>8 DEF AddPermission, Goto, StatementId
  <2>2. r \in Rules /\ f \in Functions /\ job[d] \in Jobs
    BY <1>0, JobParts DEF TypeDeploy
  <2>3. state[r] # "absent" /\ target[r] = f
    BY <1>0, <2>1 DEF ProgressInv
  <2>4. /\ \E s \in statements'[f] : s[2] = r
        /\ \A g \in Functions : statements[g] \subseteq statements'[g]
        /\ StatementInv'
    <3>1. CASE \E s \in statements[f] : s[1] = r
      BY <1>0, <2>1, <2>2, <3>1 DEF StatementInv
    <3>2. CASE ~\E s \in statements[f] : s[1] = r
      <4>1. /\ statements'[f] = statements[f] \cup {<<r, r>>}
            /\ \A g \in Functions : g # f => statements'[g] = statements[g]
        BY <1>0, <2>1, <2>2, <3>2 DEF TypeDeploy
      <4>2. <<r, r>> \in statements'[f] /\ <<r, r>>[1] = r /\ <<r, r>>[2] = r
        BY <4>1
      <4> HIDE DEF r, f
      <4>3. StatementInv'
        BY <1>0, <4>1 DEF StatementInv
      <4> QED BY <4>1, <4>2, <4>3
    <3> QED BY <3>1, <3>2
  <2>5. ASSUME NEW j \in Jobs, j.rule \in bound' PROVE Verified(j.rule, j.fn)'
    <3>1. CASE j.rule = r
      <4>1. j.fn = f
        BY <2>2, <3>1, DeployAssumption
      <4> QED BY <2>1, <2>3, <2>4, <3>1, <4>1 DEF Verified
    <3>2. CASE j.rule # r
      BY <1>0, <2>1, <2>4, <2>5, <3>2, JobParts DEF DeployVerifies, Verified
    <3> QED BY <3>1, <3>2
  <2>6. ProgressInv'
    BY <1>0, <2>1 DEF TypeDeploy, ProgressInv
  <2> QED BY <1>0, <2>4, <2>5, <2>6 DEF DeployInv, DeployVerifies
<1>9. ASSUME NEW r \in Rules, NEW on \in BOOLEAN, Operator(r, on) PROVE DeployInv'
  <2>1. /\ UNCHANGED <<statements, target, package, job, pc, bound>>
        /\ state' = [state EXCEPT ![r] = IF on THEN "ENABLED" ELSE "DISABLED"]
    BY <1>9 DEF Operator
  <2>2. \A q \in Rules : state[q] # "absent" => state'[q] # "absent"
    BY <1>0, <2>1 DEF TypeDeploy
  <2>3. DeployVerifies'
    BY <1>0, <2>1, <2>2, JobParts DEF DeployVerifies, Verified
  <2>4. ProgressInv'
    BY <1>0, <2>1, <2>2, JobParts DEF TypeDeploy, ProgressInv
  <2> QED BY <1>0, <2>1, <2>3, <2>4 DEF DeployInv, StatementInv
<1> QED BY <1>2, <1>3, <1>4, <1>5, <1>6, <1>7, <1>8, <1>9 DEF NextDeploy

\* A rule deployed to the end passes verify_schedules, whatever else is deployed,
\* fails and is run again.
THEOREM DeployVerifiesHolds == SpecDeploy => []DeployVerifies
<1>1. InitDeploy => DeployInv
  BY InitDeployType DEF InitDeploy, DeployInv, StatementInv, ProgressInv, DeployVerifies
<1>2. DeployInv => DeployVerifies
  BY DEF DeployInv
<1> QED BY <1>1, <1>2, NextDeployInv, PTL DEF SpecDeploy

\* A preserved state is what the operator left.
LEMMA NextRetired ==
    ASSUME QuietOperator, TypeDeploy, ReadInv, DisableSticks, [NextDeploy]_deployVars
    PROVE  ReadInv' /\ DisableSticks'
<1> USE DEF ReadInv, DisableSticks
<1>0. TypeDeploy
  OBVIOUS
<1>1. CASE UNCHANGED <<state, retired, read, job>> /\ \A d \in Deployers : pc'[d] = "put" => pc[d] = "put"
  BY <1>1
<1>2. ASSUME NEW d \in Deployers, UpsertRole(d) \/ AttachPolicy(d) \/ UpsertFunction(d) \/ Dies(d)
                                  \/ PutTargets(d) \/ AddPermission(d)
      PROVE  ReadInv' /\ DisableSticks'
  <2>1. /\ UNCHANGED <<state, retired, read, job>>
        /\ \E c \in Calls \ {"put"} : pc' = [pc EXCEPT ![d] = c]
    BY <1>2 DEF UpsertRole, AttachPolicy, UpsertFunction, Dies, PutTargets, AddPermission, Goto,
                awsVars, Calls
  <2> QED BY <1>0, <1>1, <2>1 DEF TypeDeploy
<1>3. ASSUME NEW d \in Deployers, Deploy(d) PROVE ReadInv' /\ DisableSticks'
  <2>1. /\ UNCHANGED <<state, retired, read>> /\ pc' = [pc EXCEPT ![d] = "role"]
        /\ \E j \in Jobs : job' = [job EXCEPT ![d] = j]
    BY <1>3 DEF Deploy, Goto, awsVars
  <2> QED BY <1>0, <2>1 DEF TypeDeploy
<1>4. ASSUME NEW d \in Deployers, CreateFunction(d) \/ UpdateFunction(d) PROVE ReadInv' /\ DisableSticks'
  <2>1. /\ UNCHANGED <<state, retired, read, job>>
        /\ pc' = [pc EXCEPT ![d] = IF job[d].enabled = "preserve" THEN "describe" ELSE "put"]
    BY <1>4 DEF CreateFunction, UpdateFunction, AfterFunction, Goto, awsVars
  <2> QED BY <1>0, <2>1 DEF TypeDeploy
<1>5. ASSUME NEW d \in Deployers, DescribeRule(d) PROVE ReadInv' /\ DisableSticks'
  <2>1. /\ UNCHANGED <<state, retired, job>> /\ pc' = [pc EXCEPT ![d] = "put"]
        /\ read' = [read EXCEPT ![d] = IF state[job[d].rule] = "absent" THEN "ENABLED"
                                       ELSE state[job[d].rule]]
    BY <1>5 DEF DescribeRule, Goto, awsVars
  <2> QED BY <1>0, <2>1 DEF TypeDeploy
<1>6. ASSUME NEW d \in Deployers, PutRule(d) PROVE ReadInv' /\ DisableSticks'
  <2>1. /\ UNCHANGED <<read, job>> /\ pc[d] = "put" /\ pc' = [pc EXCEPT ![d] = "targets"]
        /\ state' = [state EXCEPT ![job[d].rule] = StateToPut(d)]
        /\ retired' = IF job[d].enabled = "ENABLED" THEN retired \ {job[d].rule} ELSE retired
        /\ job[d].enabled \in {"preserve", "ENABLED", "DISABLED"} /\ job[d].rule \in Rules
    BY <1>0, <1>6, JobParts DEF PutRule, Goto, TypeDeploy
  <2>2. job[d].rule \in retired' => StateToPut(d) = "DISABLED"
    BY <2>1 DEF StateToPut
  <2> QED BY <1>0, <2>1, <2>2 DEF TypeDeploy
<1>7. ASSUME NEW r \in Rules, NEW on \in BOOLEAN, Operator(r, on) PROVE ReadInv' /\ DisableSticks'
  <2>1. /\ UNCHANGED <<read, job, pc>> /\ ~\E d \in Deployers : pc[d] = "put" /\ job[d].rule = r
        /\ state' = [state EXCEPT ![r] = IF on THEN "ENABLED" ELSE "DISABLED"]
        /\ retired' = IF on THEN retired \ {r} ELSE retired \cup {r}
    BY <1>7 DEF Operator
  <2> QED BY <1>0, <2>1 DEF TypeDeploy
<1>8. CASE UNCHANGED deployVars
  BY <1>1, <1>8 DEF deployVars, awsVars
<1> QED BY <1>2, <1>3, <1>4, <1>5, <1>6, <1>7, <1>8 DEF NextDeploy

\* Where nobody turns a rule off between a deployment's read and its write, what
\* was deployed passes verify_schedules and what was turned off stays off.
THEOREM DeploySoundHolds == QuietOperator => (SpecDeploy => []DeploySound)
<1> SUFFICES ASSUME QuietOperator PROVE SpecDeploy => []DeploySound
  OBVIOUS
<1>1. InitDeploy => ReadInv /\ DisableSticks
  BY DEF InitDeploy, ReadInv, DisableSticks
<1>2. TypeDeploy /\ ReadInv /\ DisableSticks /\ [NextDeploy]_deployVars => (ReadInv /\ DisableSticks)'
  BY NextRetired
<1>3. SpecDeploy => []DisableSticks
  BY <1>1, <1>2, DeployTypes, PTL DEF SpecDeploy
<1> QED BY <1>3, DeployVerifiesHolds, PTL DEF DeploySound

(***************************************************************************)
(* The rebuild driver: numbers, rungs and slots first.                     *)
(***************************************************************************)

LEMMA LeastIn ==
    ASSUME NEW S, S \subseteq Nat, S # {}
    PROVE  Min(S) \in S /\ \A y \in S : Min(S) <= y
<1>1. PICK x \in S : \A y \in S : ~(<<y, x>> \in OpToRel(<, Nat))
  BY NatLessThanWellFounded, WFMin
<1>2. \A y \in S : ~(y < x)
  BY <1>1, Zenon DEF OpToRel
<1>3. \A y \in S : x <= y
  BY <1>2
<1> QED BY <1>3 DEF Min

LEMMA GreatestIn ==
    ASSUME NEW S, NEW n \in Nat, S \subseteq 0 .. n, S # {}
    PROVE  Max(S) \in S /\ \A y \in S : y <= Max(S)
<1> DEFINE T == {n - x : x \in S}
<1>1. T \subseteq Nat /\ T # {}
  <2>1. T \subseteq Nat
    <3> SUFFICES ASSUME NEW x \in S PROVE n - x \in Nat
      OBVIOUS
    <3>1. x \in 0 .. n
      OBVIOUS
    <3> QED BY <3>1
  <2>2. PICK x \in S : TRUE
    OBVIOUS
  <2>3. n - x \in T
    OBVIOUS
  <2> HIDE DEF T
  <2> QED BY <2>1, <2>3
<1>2. Min(T) \in T /\ \A y \in T : Min(T) <= y
  BY <1>1, LeastIn
<1>3. PICK x \in S : Min(T) = n - x
  BY <1>2
<1>4. \A y \in S : y <= x
  <2> SUFFICES ASSUME NEW y \in S PROVE y <= x
    OBVIOUS
  <2>1. n - x <= n - y
    BY <1>2, <1>3
  <2> QED BY <2>1
<1> QED BY <1>4 DEF Max

LEMMA DivMult ==
    ASSUME NEW a \in Nat, NEW c \in Nat \ {0}
    PROVE  a \div c \in Nat /\ (a \div c) * c <= a /\ a < (a \div c + 1) * c
OBVIOUS

LEMMA DivMono ==
    ASSUME NEW a \in Nat, NEW b \in Nat, NEW c \in Nat \ {0}, a <= b
    PROVE  a \div c <= b \div c
OBVIOUS

LEMMA NextMultiple ==
    ASSUME NEW j \in Nat, NEW k \in Nat, NEW c \in Nat \ {0}, NEW u \in Nat,
           k * c <= u, u < j * c
    PROVE  (k + 1) * c <= j * c
<1>1. k < j
  OBVIOUS
<1> QED BY <1>1

LEMMA Quotient ==
    ASSUME NEW e \in Nat, NEW d \in Nat \ {0}, e % d = 0
    PROVE  \E q \in Nat : e = q * d
OBVIOUS

-----------------------------------------------------------------------------
(* The ladder *)

\* The numbers of the ladder; that the rungs of a tier divide each other is left out.
LEMMA RebuildNumbers ==
    /\ Len(RebuildLadder) \in Nat /\ DOMAIN RebuildLadder = 1 .. Len(RebuildLadder)
    /\ \A t \in DOMAIN RebuildLadder : RebuildLadder[t].bin \in Nat \ {0}
    /\ RebuildGenesis \in Nat /\ Budget \in Nat /\ Limits \subseteq Nat
    /\ QuietTicks \in BOOLEAN /\ MaxRebuildFaults \in Nat
BY RebuildAssumption, Zenon

LEMMA RebuildRungs ==
    /\ \E t \in DOMAIN RebuildLadder : \E e \in RebuildLadder[t].shards :
          \A r \in DOMAIN RebuildLadder : RebuildLadder[r].shards \subseteq 1 .. e
    /\ \A t \in DOMAIN RebuildLadder : \E d \in RebuildLadder[t].shards : d \div SourceBin(t) <= Budget
    /\ \A t \in DOMAIN RebuildLadder :
          t > 1 => \E c \in 1 .. t - 1 : RebuildLadder[t].bin % RebuildLadder[c].bin = 0
    /\ \E n \in Clocks : Clocks \subseteq 1 .. n
    /\ \A t \in DOMAIN RebuildLadder :
          \A d, e \in RebuildLadder[t].shards : d <= e => e % d = 0
BY RebuildAssumption, Zenon

LEMMA RungFacts ==
    \A t \in DOMAIN RebuildLadder :
        /\ t \in Nat \ {0} /\ RebuildLadder[t].shards \subseteq Nat \ {0}
        /\ \E n \in Nat : RebuildLadder[t].shards \subseteq 0 .. n
<1>1. PICK b \in DOMAIN RebuildLadder : \E e \in RebuildLadder[b].shards :
          \A r \in DOMAIN RebuildLadder : RebuildLadder[r].shards \subseteq 1 .. e
  BY RebuildRungs
<1>2. PICK e \in RebuildLadder[b].shards :
          \A r \in DOMAIN RebuildLadder : RebuildLadder[r].shards \subseteq 1 .. e
  BY <1>1
<1>3. e \in 1 .. e
  BY <1>2
<1>4. e \in Nat
  BY <1>3
<1>5. 1 .. e \subseteq Nat \ {0} /\ 1 .. e \subseteq 0 .. e
  BY <1>4
<1>6. \A t \in DOMAIN RebuildLadder : t \in Nat \ {0}
  BY RebuildNumbers
<1> QED BY <1>2, <1>4, <1>5, <1>6

LEMMA EndFacts == RebuildEnd \in Nat \ {0} /\ \A n \in Clocks : n \in Nat /\ n <= RebuildEnd
<1>1. PICK m \in Clocks : Clocks \subseteq 1 .. m
  BY RebuildAssumption
<1>2. m \in Nat /\ Clocks \subseteq 0 .. m /\ Clocks # {}
  BY <1>1
<1>3. Max(Clocks) \in Clocks /\ \A n \in Clocks : n <= Max(Clocks)
  BY <1>2, GreatestIn
<1>4. RebuildEnd \in Clocks /\ \A n \in Clocks : n <= RebuildEnd
  BY <1>3 DEF RebuildEnd
<1>5. \A n \in Clocks : n \in Nat \ {0}
  BY <1>1
<1> QED BY <1>4, <1>5

LEMMA SourceBinType == \A t \in DOMAIN RebuildLadder : SourceBin(t) \in Nat \ {0}
<1> SUFFICES ASSUME NEW t \in DOMAIN RebuildLadder PROVE SourceBin(t) \in Nat \ {0}
  OBVIOUS
<1>1. CASE t = 1
  BY <1>1, RebuildAssumption DEF SourceBin
<1>2. CASE t # 1
  <2> DEFINE S == {c \in 1 .. t - 1 : RebuildLadder[t].bin % RebuildLadder[c].bin = 0}
  <2>1. t \in Nat /\ t > 1
    BY <1>2, RebuildAssumption
  <2>2. S # {} /\ S \subseteq 0 .. t
    <3>1. \E c \in 1 .. t - 1 : RebuildLadder[t].bin % RebuildLadder[c].bin = 0
      BY <2>1, RebuildRungs
    <3>2. S \subseteq 0 .. t
      BY <2>1
    <3> QED BY <3>1, <3>2
  <2>3. Max(S) \in S
    BY <2>1, <2>2, GreatestIn
  <2>4. SourceTier(t) \in DOMAIN RebuildLadder
    <3>1. Max(S) \in 1 .. t - 1
      BY <2>3
    <3>2. 1 .. t - 1 \subseteq DOMAIN RebuildLadder
      BY <2>1, RebuildNumbers
    <3>3. SourceTier(t) = Max(S)
      BY <2>1 DEF SourceTier
    <3> QED BY <3>1, <3>2, <3>3
  <2> QED BY <1>2, <2>4, RebuildNumbers DEF SourceBin
<1> QED BY <1>1, <1>2

\* The rung that is built whole is one of the tier's, and within the budget.
LEMMA SafeRungFits ==
    \A t \in DOMAIN RebuildLadder :
        SafeRung(t) \in RebuildLadder[t].shards /\ SafeRung(t) \div SourceBin(t) <= Budget
<1> SUFFICES ASSUME NEW t \in DOMAIN RebuildLadder
             PROVE  SafeRung(t) \in RebuildLadder[t].shards /\ SafeRung(t) \div SourceBin(t) <= Budget
  OBVIOUS
<1> DEFINE S == {d \in RebuildLadder[t].shards : d \div CostBin(t) <= Budget}
<1>1. PICK n \in Nat : RebuildLadder[t].shards \subseteq 0 .. n
  BY RungFacts
<1>2. S # {} /\ S \subseteq 0 .. n
  BY <1>1, RebuildRungs DEF CostBin
<1>3. Max(S) \in S
  BY <1>2, GreatestIn
<1> QED BY <1>3 DEF SafeRung, CostBin

\* A shard is a period of one of its tier's rungs.
LEMMA ShardShape ==
    ASSUME NEW t \in DOMAIN RebuildLadder, NEW durs \in SUBSET RebuildLadder[t].shards,
           NEW s \in ShardsOf(t, durs, RebuildEnd)
    PROVE  /\ s \in RTier(t) /\ s[1] = t /\ Dur(s) \in durs
           /\ s[2] \in Nat /\ s[3] \in Nat /\ s[3] = s[2] + Dur(s)
           /\ \E k \in Nat : /\ k <= (RebuildEnd - 1) \div Dur(s)
                             /\ s = <<t, k * Dur(s), (k + 1) * Dur(s)>>
<1>1. PICK d \in durs : \E k \in 0 .. (RebuildEnd - 1) \div d : s = <<t, k * d, (k + 1) * d>>
  BY DEF ShardsOf, Spans
<1>0. PICK k \in 0 .. (RebuildEnd - 1) \div d : s = <<t, k * d, (k + 1) * d>>
  BY <1>1
<1>2. d \in Nat \ {0} /\ RebuildEnd - 1 \in Nat
  BY RungFacts, EndFacts
<1>3. (RebuildEnd - 1) \div d \in Nat /\ k \in Nat
  BY <1>2
<1>4. k * d \in Nat /\ (k + 1) * d \in Nat /\ (k + 1) * d = k * d + d
  BY <1>2, <1>3
<1>5. s[1] = t /\ s[2] = k * d /\ s[3] = (k + 1) * d
  BY <1>0
<1>6. Dur(s) = d
  BY <1>2, <1>4, <1>5 DEF Dur
<1>7. s \in RTier(t)
  BY <1>1 DEF RTier, ShardsOf, Spans
<1> QED BY <1>0, <1>3, <1>4, <1>5, <1>6, <1>7

LEMMA TierShape ==
    ASSUME NEW t \in DOMAIN RebuildLadder, NEW s \in RTier(t)
    PROVE  /\ s[1] = t /\ Dur(s) \in RebuildLadder[t].shards /\ s \in RShards
           /\ s[2] \in Nat /\ s[3] \in Nat /\ s[3] = s[2] + Dur(s)
           /\ \E k \in Nat : /\ k <= (RebuildEnd - 1) \div Dur(s)
                             /\ s = <<t, k * Dur(s), (k + 1) * Dur(s)>>
BY ShardShape DEF RTier, RShards

LEMMA ShardsFinite == IsFiniteSet(RShards)
<1>1. PICK b \in DOMAIN RebuildLadder : \E e \in RebuildLadder[b].shards :
          \A r \in DOMAIN RebuildLadder : RebuildLadder[r].shards \subseteq 1 .. e
  BY RebuildRungs
<1>7. PICK e \in RebuildLadder[b].shards :
          \A r \in DOMAIN RebuildLadder : RebuildLadder[r].shards \subseteq 1 .. e
  BY <1>1
<1> DEFINE X == 1 .. Len(RebuildLadder)
           Y == 0 .. RebuildEnd + e
           f == [s \in RShards |-> <<s[1], <<s[2], s[3]>>>>]
<1>2. e \in Nat \ {0} /\ RebuildEnd \in Nat \ {0}
  BY RungFacts, EndFacts
<1>3. IsFiniteSet(X) /\ IsFiniteSet(Y)
  <2>1. 1 \in Int /\ 0 \in Int /\ Len(RebuildLadder) \in Int /\ RebuildEnd + e \in Int
    BY <1>2, RebuildNumbers
  <2>2. IsFiniteSet(X)
    BY <2>1, FS_Interval
  <2>3. IsFiniteSet(Y)
    BY <2>1, FS_Interval
  <2> QED BY <2>2, <2>3
<1>4. IsFiniteSet(X \X (Y \X Y))
  <2>1. IsFiniteSet(Y \X Y)
    BY <1>3, FS_Product
  <2> QED BY <1>3, <2>1, FS_Product
<1>5. \A s \in RShards : s[1] \in X /\ s[2] \in Y /\ s[3] \in Y /\ s = <<s[1], s[2], s[3]>>
  <2> SUFFICES ASSUME NEW s \in RShards
               PROVE  s[1] \in X /\ s[2] \in Y /\ s[3] \in Y /\ s = <<s[1], s[2], s[3]>>
    OBVIOUS
  <2>1. PICK t \in DOMAIN RebuildLadder : s \in RTier(t)
    BY DEF RShards
  <2>2. PICK k \in Nat : /\ k <= (RebuildEnd - 1) \div Dur(s)
                        /\ s = <<t, k * Dur(s), (k + 1) * Dur(s)>>
    BY <2>1, TierShape
  <2>3. Dur(s) \in 1 .. e /\ s[2] \in Nat /\ s[3] = s[2] + Dur(s)
    BY <1>7, <2>1, TierShape
  <2>4. k * Dur(s) <= RebuildEnd - 1
    <3> DEFINE d == Dur(s)
               m == RebuildEnd - 1
    <3>1. d \in Nat \ {0} /\ m \in Nat
      BY <2>3, <1>2
    <3>2. m \div d \in Nat /\ (m \div d) * d <= m
      BY <3>1, DivMult
    <3>3. k * d <= (m \div d) * d
      BY <2>2, <3>1, <3>2
    <3> QED BY <3>1, <3>2, <3>3
  <2>5. s[2] <= RebuildEnd
    BY <2>2, <2>4, <1>2, <2>3
  <2>6. s[2] \in Y /\ s[3] \in Y
    BY <2>3, <2>5, <1>2
  <2>7. s[1] = t /\ s = <<s[1], s[2], s[3]>>
    BY <2>2
  <2> QED BY <2>6, <2>7, RebuildNumbers
<1>6. f \in Injection(RShards, X \X (Y \X Y))
  <2>1. f \in [RShards -> X \X (Y \X Y)]
    BY <1>5
  <2>2. \A x, y \in RShards : f[x] = f[y] => x = y
    BY <1>5
  <2> HIDE DEF f, X, Y
  <2> QED BY <2>1, <2>2 DEF Injection, IsInjective
<1> HIDE DEF f, X, Y
<1> QED BY <1>4, <1>6, FS_Injection

\* The period of a rung that a unit lies in.
LEMMA PeriodAt ==
    ASSUME NEW t \in DOMAIN RebuildLadder, NEW d \in RebuildLadder[t].shards,
           NEW u \in Nat, u < RebuildEnd
    PROVE  LET s == <<t, (u \div d) * d, (u \div d + 1) * d>>
           IN /\ s \in ShardsOf(t, {d}, RebuildEnd) /\ s \in RTier(t)
              /\ Dur(s) = d /\ Holds(s, u) /\ u \div d \in Nat
<1> DEFINE j == u \div d
           s == <<t, j * d, (j + 1) * d>>
<1>1. d \in Nat \ {0} /\ RebuildEnd - 1 \in Nat /\ u <= RebuildEnd - 1
  BY RungFacts, EndFacts
<1>2. j \in Nat /\ j * d <= u /\ u < (j + 1) * d
  BY <1>1, DivMult
<1>3. j <= (RebuildEnd - 1) \div d
  BY <1>1, DivMono
<1>4. j \in 0 .. (RebuildEnd - 1) \div d
  BY <1>1, <1>2, <1>3
<1>5. (j + 1) * d - j * d = d /\ j * d \in Nat /\ (j + 1) * d \in Nat
  BY <1>1, <1>2
<1> HIDE DEF j
<1>6. s \in ShardsOf(t, {d}, RebuildEnd) /\ s \in RTier(t)
  <2>1. <<j * d, (j + 1) * d>> \in Spans(d, RebuildEnd)
    BY <1>4 DEF Spans
  <2>2. s \in {<<t, iv[1], iv[2]>> : iv \in Spans(d, RebuildEnd)}
    <3>1. s = <<t, <<j * d, (j + 1) * d>>[1], <<j * d, (j + 1) * d>>[2]>>
      OBVIOUS
    <3> QED BY <2>1, <3>1, Zenon
  <2> HIDE DEF s
  <2> QED BY <2>2 DEF ShardsOf, RTier
<1>7. Dur(s) = d /\ Holds(s, u)
  BY <1>2, <1>5 DEF Dur, Holds
<1> QED BY <1>2, <1>6, <1>7 DEF j

\* A shard that lies in a period of a rung that its own divides ends in it.
LEMMA Nested ==
    ASSUME NEW t \in DOMAIN RebuildLadder, NEW s \in RTier(t), NEW o \in RTier(t),
           Dur(s) <= Dur(o), NEW u \in Nat, Holds(s, u), Holds(o, u)
    PROVE  Within(s, o)
<1> DEFINE c == Dur(s)
           d == Dur(o)
<1>1. c \in Nat \ {0} /\ d \in Nat \ {0} /\ d % c = 0
  <2>1. c \in RebuildLadder[t].shards /\ d \in RebuildLadder[t].shards
    BY TierShape
  <2>2. c \in Nat \ {0} /\ d \in Nat \ {0}
    BY <2>1, RungFacts
  <2> HIDE DEF c, d
  <2>3. c <= d
    BY DEF c, d
  <2> QED BY <2>1, <2>2, <2>3, RebuildRungs
<1>2. PICK k \in Nat : s = <<t, k * c, (k + 1) * c>>
  BY TierShape
<1>3. PICK j \in Nat : o = <<t, j * d, (j + 1) * d>>
  BY TierShape
<1>4. PICK q \in Nat : d = q * c
  BY <1>1, Quotient
<1>5. k * c <= u /\ u < (k + 1) * c /\ j * d <= u /\ u < (j + 1) * d
  BY <1>2, <1>3 DEF Holds
<1> HIDE DEF c, d
<1>6. (k + 1) * c <= (j + 1) * d
  <2>1. (j + 1) * q \in Nat /\ ((j + 1) * q) * c = (j + 1) * d
    BY <1>1, <1>4
  <2> QED BY <1>1, <1>5, <2>1, NextMultiple
<1>7. j * d <= k * c
  <2>1. j * q \in Nat /\ (j * q) * c = j * d
    BY <1>1, <1>4
  <2>2. (j * q + 1) * c <= (k + 1) * c
    BY <1>1, <1>5, <2>1, NextMultiple
  <2>3. (j * q + 1) * c = (j * q) * c + c /\ (k + 1) * c = k * c + c
    BY <1>1, <2>1
  <2>4. (j * q) * c \in Nat /\ k * c \in Nat
    BY <1>1, <2>1
  <2> QED BY <1>1, <2>1, <2>2, <2>3, <2>4
<1> QED BY <1>2, <1>3, <1>6, <1>7 DEF Within

\* The slots of a tier are periods of its smallest rung.
LEMMA SlotShape ==
    ASSUME NEW t \in DOMAIN RebuildLadder, NEW g \in RTier(t), NEW u \in Nat, u < RebuildEnd
    PROVE  /\ Slot(g, u) \in RTier(t) /\ Holds(Slot(g, u), u)
           /\ \A d \in RebuildLadder[t].shards : Dur(Slot(g, u)) <= d
<1> DEFINE m == Min(RebuildLadder[t].shards)
<1>1. m \in RebuildLadder[t].shards /\ \A d \in RebuildLadder[t].shards : m <= d
  <2>1. RebuildLadder[t].shards \subseteq Nat
    BY RungFacts
  <2>2. RebuildLadder[t].shards # {}
    BY RebuildRungs
  <2> QED BY <2>1, <2>2, LeastIn
<1>2. g[1] = t
  BY TierShape
<1>3. \E s \in RTier(t) : Holds(s, u) /\ Dur(s) = m
  BY <1>1, PeriodAt
<1>4. Slot(g, u) \in RTier(t) /\ Holds(Slot(g, u), u) /\ Dur(Slot(g, u)) = m
  BY <1>2, <1>3 DEF Slot
<1> QED BY <1>1, <1>4

-----------------------------------------------------------------------------
(* The budget *)

Done(s)    == s \in Fresh \/ ~HasData(s)
Long(t, d) == SafeRung(t) < d

\* Of some shards with lengths there is a longest.
LEMMA LargestExists ==
    ASSUME NEW C, C # {}, NEW n \in Nat, \A s \in C : Dur(s) \in Nat /\ Dur(s) <= n
    PROVE  Largest(C) # {}
<1> DEFINE S == {Dur(s) : s \in C}
<1>1. S \subseteq 0 .. n /\ S # {}
  OBVIOUS
<1>2. Max(S) \in S /\ \A d \in S : d <= Max(S)
  BY <1>1, GreatestIn
<1>3. PICK s \in C : Dur(s) = Max(S)
  BY <1>2
<1>4. \A o \in C : Dur(o) <= Dur(s)
  BY <1>2, <1>3
<1> QED BY <1>3, <1>4 DEF Largest

\* A call reads no more source bins with data than the budget, when what is longer
\* than the safe rung finds its slots built, or without data.
LEMMA HolesBound ==
    ASSUME stored \subseteq RShards, written \subseteq stored, cutoff \in BOOLEAN,
           NEW t \in DOMAIN RebuildLadder, NEW g \in RTier(t), g[3] <= RebuildEnd,
           Long(t, Dur(g)) => \A s \in SlotsIn(t, {g}) : Done(s)
    PROVE  Cardinality(HoleUnits(g, FreshKeys) \ drought) \div SourceBin(t) \in 0 .. Budget
<1> DEFINE H  == HoleUnits(g, FreshKeys) \ drought
           d0 == SafeRung(t)
<1>1. /\ d0 \in RebuildLadder[t].shards /\ d0 \in Nat \ {0} /\ Dur(g) \in Nat \ {0}
      /\ g[2] \in Nat /\ g[3] \in Nat /\ g[3] = g[2] + Dur(g) /\ g[1] = t
  BY SafeRungFits, TierShape, RungFacts
<1>2. Fresh \subseteq RShards
  BY DEF Fresh
<1>3. H \subseteq g[2] .. g[3] - 1
  BY DEF HoleUnits
<1>4. IsFiniteSet(H) /\ Cardinality(H) \in Nat /\ Cardinality(H) <= d0
  <2>1. CASE ~Long(t, Dur(g))
    <3>1. IsFiniteSet(g[2] .. g[3] - 1) /\ Cardinality(g[2] .. g[3] - 1) = Dur(g)
      <4> DEFINE b == g[3] - 1
      <4>1. g[2] \in Int /\ b \in Int /\ ~(g[2] > b) /\ b - g[2] + 1 = Dur(g)
        BY <1>1
      <4> HIDE DEF b
      <4>2. IsFiniteSet(g[2] .. b) /\ Cardinality(g[2] .. b) = b - g[2] + 1
        BY <4>1, FS_Interval
      <4> QED BY <4>1, <4>2 DEF b
    <3>2. IsFiniteSet(H) /\ Cardinality(H) <= Dur(g)
      BY <1>3, <3>1, FS_Subset
    <3>3. Cardinality(H) \in Nat
      BY <3>2, FS_CardinalityType
    <3> QED BY <1>1, <2>1, <3>2, <3>3 DEF Long
  <2>2. CASE Long(t, Dur(g))
    <3> DEFINE B == RebuildGenesis - d0 + 1 .. RebuildGenesis - 1
    <3>1. ASSUME NEW u \in H PROVE u \in B
      <4>1. u \in Nat /\ g[2] <= u /\ u < g[3] /\ u < RebuildEnd /\ u \notin drought
        BY <1>1, <1>3, EndFacts
      <4>2. SubTile(g, u, Fresh) = {} /\ Slot(g, u)[3] > RebuildGenesis
        BY DEF HoleUnits, FreshKeys
      <4>3. PICK s \in ShardsOf(t, {d0}, RebuildEnd) : s \in RTier(t) /\ Dur(s) = d0 /\ Holds(s, u)
        BY <1>1, <4>1, PeriodAt
      <4>4. s[2] \in Nat /\ s[3] = s[2] + d0 /\ s[1] = t
        BY <4>3, TierShape
      <4>5. Within(s, g)
        BY <1>1, <2>2, <4>1, <4>3, Nested DEF Long, Holds
      <4>6. s[3] > RebuildGenesis
        <5>1. Slot(g, u) \in RTier(t) /\ Holds(Slot(g, u), u) /\ Dur(Slot(g, u)) <= d0
          BY <1>1, <4>1, SlotShape
        <5>2. Within(Slot(g, u), s)
          BY <4>1, <4>3, <5>1, Nested
        <5>3. Slot(g, u)[3] \in Nat /\ s[3] \in Nat /\ RebuildGenesis \in Nat
          BY <5>1, <4>3, TierShape, RebuildNumbers
        <5>4. Slot(g, u)[3] <= s[3]
          BY <5>2 DEF Within
        <5> QED BY <4>2, <5>3, <5>4
      <4>7. s \in SlotsIn(t, {g})
        BY <4>3, <4>5, <4>6 DEF SlotsIn
      <4>8. s \notin Fresh
        <5> SUFFICES ASSUME s \in Fresh PROVE FALSE
          OBVIOUS
        <5> DEFINE C == {x \in Fresh : x[1] = g[1] /\ Dur(x) < Dur(g) /\ Within(x, g) /\ Holds(x, u)}
        <5>1. s \in C
          BY <1>1, <2>2, <4>3, <4>4, <4>5 DEF Long
        <5>2. \A x \in C : Dur(x) \in Nat /\ Dur(x) <= Dur(g)
          <6> SUFFICES ASSUME NEW x \in C PROVE Dur(x) \in Nat /\ Dur(x) <= Dur(g)
            OBVIOUS
          <6>1. PICK r \in DOMAIN RebuildLadder : x \in RTier(r)
            BY <1>2 DEF RShards
          <6>2. Dur(x) \in Nat
            BY <6>1, TierShape, RungFacts
          <6> QED BY <6>2, <1>1
        <5>3. Largest(C) # {}
          <6> HIDE DEF C
          <6> QED BY <5>1, <5>2, <1>1, LargestExists
        <5> QED BY <4>2, <5>3 DEF SubTile
      <4>9. ~HasData(s)
        BY <2>2, <4>7, <4>8 DEF Done
      <4>10. u < RebuildGenesis
        <5> SUFFICES ASSUME u >= RebuildGenesis PROVE FALSE
          BY <4>1, RebuildNumbers
        <5>1. s[2] <= u /\ u < s[3] /\ LargerOf(s[2], RebuildGenesis) \in {s[2], RebuildGenesis}
          BY <4>3 DEF LargerOf, Holds
        <5>2. u \in LargerOf(s[2], RebuildGenesis) .. s[3] - 1
          <6> DEFINE m == LargerOf(s[2], RebuildGenesis)
                     b == s[3] - 1
          <6>1. RebuildGenesis \in Nat
            BY RebuildNumbers
          <6>2. m \in Nat /\ m <= u
            BY <4>4, <5>1, <6>1
          <6>3. b \in Int /\ u <= b
            BY <4>1, <4>4, <5>1, <1>1
          <6> HIDE DEF m, b
          <6>4. u \in m .. b
            BY <4>1, <6>2, <6>3
          <6> QED BY <6>4 DEF m, b
        <5> QED BY <4>1, <4>9, <5>2 DEF HasData
      <4>11. s[2] <= u
        BY <4>3 DEF Holds
      <4>12. RebuildGenesis \in Nat
        BY RebuildNumbers
      <4>13. RebuildGenesis - d0 + 1 <= u /\ u <= RebuildGenesis - 1
        BY <4>1, <4>4, <4>6, <4>10, <4>11, <4>12, <1>1
      <4> QED BY <4>1, <4>13
    <3>2. IsFiniteSet(B) /\ Cardinality(B) <= d0
      <4> DEFINE a == RebuildGenesis - d0 + 1
                 b == RebuildGenesis - 1
      <4>4. RebuildGenesis \in Nat
        BY RebuildNumbers
      <4>5. d0 \in Nat
        BY <1>1
      <4> HIDE DEF d0
      <4>1. a \in Int /\ b \in Int /\ b - a + 1 <= d0 /\ 0 <= d0
        BY <4>4, <4>5
      <4> HIDE DEF a, b
      <4>2. IsFiniteSet(a .. b) /\ Cardinality(a .. b) = IF a > b THEN 0 ELSE b - a + 1
        BY <4>1, FS_Interval
      <4>3. IsFiniteSet(a .. b) /\ Cardinality(a .. b) <= d0
        BY <4>1, <4>2
      <4> QED BY <4>3 DEF a, b
    <3>3. H \subseteq B
      BY <3>1
    <3> HIDE DEF H, B
    <3>4. IsFiniteSet(H) /\ Cardinality(H) <= Cardinality(B)
      BY <3>2, <3>3, FS_Subset
    <3>5. Cardinality(H) \in Nat /\ Cardinality(B) \in Nat
      BY <3>2, <3>4, FS_CardinalityType
    <3> QED BY <3>2, <3>4, <3>5, <1>1
  <2> QED BY <2>1, <2>2
<1>5. SourceBin(t) \in Nat \ {0} /\ d0 \div SourceBin(t) <= Budget
  BY SourceBinType, SafeRungFits
<1> HIDE DEF H, d0
<1>6. Cardinality(H) \div SourceBin(t) <= d0 \div SourceBin(t)
  BY <1>1, <1>4, <1>5, DivMono
<1>7. Cardinality(H) \div SourceBin(t) \in Nat /\ d0 \div SourceBin(t) \in Nat
  BY <1>1, <1>4, <1>5, DivMult
<1>8. Cardinality(H) \div SourceBin(t) \in 0 .. Budget
  BY <1>5, <1>6, <1>7, RebuildNumbers
<1> QED BY <1>8 DEF H

-----------------------------------------------------------------------------
(* The plan *)

LayerOk(l) ==
    /\ l.tier \in DOMAIN RebuildLadder /\ l.dur \in RebuildLadder[l.tier].shards
    /\ l.batch \subseteq RTier(l.tier)
    /\ \A g \in l.batch : /\ g[3] <= RebuildEnd
                          /\ Dur(g) = IF l.scaffold THEN SafeRung(l.tier) ELSE l.dur

PlanLayer(gaps, t, d) ==
    [tier |-> t, dur |-> d, scaffold |-> FALSE, batch |-> GapsOf(gaps, t, d)]
ScaffoldLayer(gaps, t, d) ==
    [tier |-> t, dur |-> d, scaffold |-> TRUE,
     batch |-> SlotsIn(t, GapsOf(gaps, t, d)) \ SlotsBefore(gaps, t, d)]

\* A layer of the plan is a rung's gaps, or scaffolds before a longer rung.
LEMMA LayerKinds ==
    ASSUME NEW gaps, NEW l
    PROVE  l \in LayersOf(gaps) <=>
              \E g \in gaps :
                  \/ l = PlanLayer(gaps, g[1], Dur(g))
                  \/ /\ Long(g[1], Dur(g)) /\ l = ScaffoldLayer(gaps, g[1], Dur(g))
                     /\ l.batch # {}
<1> DEFINE rungs == {<<g[1], Dur(g)>> : g \in gaps}
           A == {PlanLayer(gaps, td[1], td[2]) : td \in rungs}
           B == {ScaffoldLayer(gaps, td[1], td[2]) : td \in {x \in rungs : x[2] > SafeRung(x[1])}}
<1>1. LayersOf(gaps) = A \cup {k \in B : k.batch # {}}
  BY DEF LayersOf, PlanLayer, ScaffoldLayer
<1>2. l \in A <=> \E g \in gaps : l = PlanLayer(gaps, g[1], Dur(g))
  <2>1. ASSUME l \in A PROVE \E g \in gaps : l = PlanLayer(gaps, g[1], Dur(g))
    <3>1. PICK td \in rungs : l = PlanLayer(gaps, td[1], td[2])
      BY <2>1
    <3>2. PICK g \in gaps : td = <<g[1], Dur(g)>>
      BY <3>1
    <3> QED BY <3>1, <3>2
  <2>2. ASSUME NEW g \in gaps, l = PlanLayer(gaps, g[1], Dur(g)) PROVE l \in A
    <3>1. <<g[1], Dur(g)>> \in rungs
      OBVIOUS
    <3>2. l = PlanLayer(gaps, <<g[1], Dur(g)>>[1], <<g[1], Dur(g)>>[2])
      BY <2>2
    <3> QED BY <3>1, <3>2, Zenon
  <2> QED BY <2>1, <2>2
<1>3. l \in B <=> \E g \in gaps : SafeRung(g[1]) < Dur(g) /\ l = ScaffoldLayer(gaps, g[1], Dur(g))
  <2>1. ASSUME l \in B
        PROVE  \E g \in gaps : SafeRung(g[1]) < Dur(g) /\ l = ScaffoldLayer(gaps, g[1], Dur(g))
    <3>1. PICK td \in rungs : SafeRung(td[1]) < td[2] /\ l = ScaffoldLayer(gaps, td[1], td[2])
      BY <2>1
    <3>2. PICK g \in gaps : td = <<g[1], Dur(g)>>
      BY <3>1
    <3>3. td[1] = g[1] /\ td[2] = Dur(g)
      BY <3>2
    <3> QED BY <3>1, <3>3
  <2>2. ASSUME NEW g \in gaps, SafeRung(g[1]) < Dur(g), l = ScaffoldLayer(gaps, g[1], Dur(g))
        PROVE  l \in B
    <3> DEFINE td == <<g[1], Dur(g)>>
    <3>1. td \in rungs /\ td[1] = g[1] /\ td[2] = Dur(g)
      OBVIOUS
    <3>2. td \in {x \in rungs : x[2] > SafeRung(x[1])} /\ l = ScaffoldLayer(gaps, td[1], td[2])
      BY <2>2, <3>1
    <3> HIDE DEF td
    <3> QED BY <3>2, Zenon
  <2> QED BY <2>1, <2>2
<1> HIDE DEF A, B
<1> QED BY <1>1, <1>2, <1>3 DEF Long

LEMMA GapTier ==
    ASSUME NEW g \in RShards
    PROVE  g[1] \in DOMAIN RebuildLadder /\ g \in RTier(g[1]) /\ Dur(g) \in RebuildLadder[g[1]].shards
<1>1. PICK t \in DOMAIN RebuildLadder : g \in RTier(t)
  BY DEF RShards
<1> QED BY <1>1, TierShape

\* The slots in gaps are shards of the safe rung that end where the gaps do.
LEMMA SlotFacts ==
    ASSUME NEW t \in DOMAIN RebuildLadder, NEW gs \in SUBSET RTier(t),
           \A g \in gs : g[3] <= RebuildEnd, NEW s \in SlotsIn(t, gs)
    PROVE  s \in RTier(t) /\ Dur(s) = SafeRung(t) /\ s[3] <= RebuildEnd
<1>1. s \in ShardsOf(t, {SafeRung(t)}, RebuildEnd) /\ \E g \in gs : Within(s, g)
  BY DEF SlotsIn
<1>2. {SafeRung(t)} \in SUBSET RebuildLadder[t].shards
  BY SafeRungFits
<1>3. s \in RTier(t) /\ Dur(s) \in {SafeRung(t)} /\ s[3] \in Nat
  BY <1>1, <1>2, ShardShape
<1>4. PICK g \in gs : s[3] <= g[3] /\ g[3] <= RebuildEnd
  BY <1>1 DEF Within
<1>5. g[3] \in Nat
  BY TierShape
<1> QED BY <1>3, <1>4, <1>5, EndFacts

LEMMA LayersOk ==
    ASSUME NEW gaps \in SUBSET RShards, \A g \in gaps : g[3] <= RebuildEnd, NEW l \in LayersOf(gaps)
    PROVE  LayerOk(l)
<1>1. PICK g \in gaps :
          \/ l = PlanLayer(gaps, g[1], Dur(g))
          \/ /\ Long(g[1], Dur(g)) /\ l = ScaffoldLayer(gaps, g[1], Dur(g))
             /\ l.batch # {}
  BY LayerKinds
<1> DEFINE t == g[1]
           d == Dur(g)
<1>2. t \in DOMAIN RebuildLadder /\ d \in RebuildLadder[t].shards
  BY GapTier
<1>3. /\ GapsOf(gaps, t, d) \subseteq RTier(t)
      /\ \A x \in GapsOf(gaps, t, d) : x[3] <= RebuildEnd /\ Dur(x) = d
  BY GapTier DEF GapsOf
<1>4. CASE l = PlanLayer(gaps, t, d)
  BY <1>2, <1>3, <1>4 DEF PlanLayer, LayerOk
<1>5. CASE l = ScaffoldLayer(gaps, t, d)
  <2>1. \A s \in l.batch : s \in SlotsIn(t, GapsOf(gaps, t, d))
    BY <1>5 DEF ScaffoldLayer
  <2>2. \A s \in l.batch : s \in RTier(t) /\ Dur(s) = SafeRung(t) /\ s[3] <= RebuildEnd
    BY <1>2, <1>3, <2>1, SlotFacts
  <2>3. l.tier = t /\ l.dur = d /\ l.scaffold
    BY <1>5 DEF ScaffoldLayer
  <2> QED BY <1>2, <2>2, <2>3 DEF LayerOk
<1> QED BY <1>1, <1>4, <1>5

\* Every gap is in a layer of the plan.
LEMMA PlanCovers ==
    ASSUME NEW gaps, NEW g \in gaps
    PROVE  \E l \in LayersOf(gaps) : g \in l.batch
<1> DEFINE l == PlanLayer(gaps, g[1], Dur(g))
<1>1. l \in LayersOf(gaps)
  BY LayerKinds
<1>2. g \in l.batch
  BY DEF PlanLayer, GapsOf
<1> QED BY <1>1, <1>2

\* Each slot in a layer that is longer than the safe rung is in a scaffold layer
\* of its rung, or of a shorter one.
Scaffolded(ls, l, s) ==
    \E k \in ls : k.tier = l.tier /\ k.dur <= l.dur /\ k.scaffold /\ s \in k.batch

LEMMA PlanScaffolds ==
    ASSUME NEW gaps \in SUBSET RShards, NEW l \in LayersOf(gaps), ~l.scaffold, Long(l.tier, l.dur),
           NEW s \in SlotsIn(l.tier, l.batch)
    PROVE  Scaffolded(LayersOf(gaps), l, s)
<1>1. PICK g \in gaps : l = PlanLayer(gaps, g[1], Dur(g))
  BY LayerKinds DEF ScaffoldLayer
<1> DEFINE t == g[1]
           d == Dur(g)
           E == {e \in RebuildLadder[t].shards : Long(t, e) /\ e <= d /\ s \in SlotsIn(t, GapsOf(gaps, t, e))}
           e == Min(E)
<1>2. t \in DOMAIN RebuildLadder /\ d \in RebuildLadder[t].shards /\ d \in Nat
      /\ RebuildLadder[t].shards \subseteq Nat
  BY GapTier, RungFacts
<1>3. l.tier = t /\ l.dur = d /\ l.batch = GapsOf(gaps, t, d)
  BY <1>1 DEF PlanLayer
<1>4. d \in E /\ E \subseteq Nat
  BY <1>2, <1>3
<1>5. e \in E /\ \A x \in E : e <= x
  <2> HIDE DEF E
  <2> QED BY <1>4, LeastIn
<1> HIDE DEF e
<1>6. s \notin SlotsBefore(gaps, t, e)
  <2> SUFFICES ASSUME NEW x \in RebuildLadder[t].shards, SafeRung(t) < x, x < e,
                      s \in SlotsIn(t, GapsOf(gaps, t, x))
               PROVE  FALSE
    BY DEF SlotsBefore
  <2>1. x \in Nat /\ e \in Nat /\ e <= d
    BY <1>2, <1>5
  <2>2. x \in E
    BY <1>2, <2>1 DEF Long
  <2> QED BY <1>5, <2>1, <2>2
<1>7. PICK x \in gaps : x[1] = t /\ Dur(x) = e
  BY <1>5 DEF SlotsIn, GapsOf
<1> DEFINE k == ScaffoldLayer(gaps, t, e)
<1>8. s \in k.batch /\ k.tier = t /\ k.dur = e /\ k.scaffold
  BY <1>5, <1>6 DEF ScaffoldLayer
<1>9. k \in LayersOf(gaps)
  <2> HIDE DEF k, E
  <2>1. Long(x[1], Dur(x)) /\ k = ScaffoldLayer(gaps, x[1], Dur(x)) /\ k.batch # {}
    <3>1. Long(t, e)
      BY <1>5 DEF E
    <3> QED BY <3>1, <1>7, <1>8 DEF k
  <2> QED BY <2>1, LayerKinds
<1> HIDE DEF k
<1> QED BY <1>3, <1>5, <1>8, <1>9 DEF Scaffolded

-----------------------------------------------------------------------------
(* The invariant of a rebuild *)

\* The limit is reached as soon as the calls under way are over.
Full == limit > 0 /\ count + Cardinality(calls) >= limit

RunInv ==
    /\ cutoff \in BOOLEAN /\ stored \subseteq RShards /\ written \subseteq stored
    /\ rebuildClock \in Clocks /\ limit \in Nat /\ count \in Nat
    /\ calls \subseteq RShards /\ \A g \in calls : g[3] <= RebuildEnd
    /\ \A x \in strays : x[1] \in RShards
    /\ \A l \in layers : LayerOk(l)

FreshInv == IF cutoff THEN written \cap outdated = {} ELSE outdated = {}

\* What the cover lacks is in a layer to come or in a call, until the limit cuts
\* a layer or a shard bounces.
CoverInv ==
    /\ (driver = "layers" /\ ~bad /\ ~Full) =>
          \A s \in CoverAt(at) : HasData(s) => s \in Fresh \/ s \in calls \/ \E l \in layers : s \in l.batch
    /\ (driver = "clean" \/ outcome = "done") => \A s \in CoverAt(at) : HasData(s) => s \in Fresh
    /\ outcome = "done" => driver = "idle"

\* Scaffolds are built before what is longer.
SlotInv ==
    (driver = "layers" /\ ~bad) =>
        /\ \A g \in calls : Long(g[1], Dur(g)) => \A s \in SlotsIn(g[1], {g}) : Done(s)
        /\ ~Full => \A l \in layers : (~l.scaffold /\ Long(l.tier, l.dur)) =>
              \A s \in SlotsIn(l.tier, l.batch) : Done(s) \/ s \in calls \/ Scaffolded(layers, l, s)

RebuildInv == RunInv /\ FreshInv /\ CoverInv /\ SlotInv /\ BudgetKept

LEMMA CoverFacts ==
    \A n \in Clocks : CoverAt(n) \subseteq RShards /\ \A s \in CoverAt(n) : s[3] <= RebuildEnd
<1> SUFFICES ASSUME NEW n \in Clocks, NEW s \in CoverAt(n)
             PROVE  s \in RShards /\ s[3] <= RebuildEnd
  OBVIOUS
<1>1. s \in RShards /\ s[3] <= n
  BY DEF CoverAt, MinCover
<1>2. s[3] \in Nat
  BY <1>1, GapTier, TierShape
<1> QED BY <1>1, <1>2, EndFacts

LEMMA InitRebuildInv == InitRebuild => RebuildInv
<1> SUFFICES ASSUME InitRebuild PROVE RebuildInv
  OBVIOUS
<1>1. stored \subseteq RShards
  <2>1. PICK past \in Pasts : stored = {s \in UNION {CoverAt(n) : n \in past} : HasData(s)}
    BY DEF InitRebuild
  <2>2. \A n : CoverAt(n) \subseteq RShards
    BY DEF CoverAt, MinCover
  <2> QED BY <2>1, <2>2
<1>2. rebuildClock \in Clocks
  <2>1. Clocks \subseteq Nat /\ Clocks # {}
    BY RebuildRungs, EndFacts
  <2>2. Min(Clocks) \in Clocks
    BY <2>1, LeastIn
  <2> QED BY <2>2 DEF InitRebuild
<1>3. RunInv
  BY <1>1, <1>2 DEF InitRebuild, RunInv
<1>4. FreshInv /\ CoverInv /\ SlotInv
  BY DEF InitRebuild, FreshInv, CoverInv, SlotInv
<1>5. BudgetKept
  BY RebuildNumbers DEF InitRebuild, BudgetKept
<1> QED BY <1>3, <1>4, <1>5 DEF RebuildInv

\* A shard that is put is fresh, and made of fresh ones.
LEMMA PutFresh ==
    ASSUME RunInv, FreshInv, UNCHANGED cutoff, NEW g \in RShards, NEW keys, PutNew(g, keys),
           cutoff => keys = written
    PROVE  /\ FreshInv' /\ Fresh \subseteq Fresh' /\ g \in Fresh'
           /\ stored' \subseteq RShards /\ written' \subseteq stored'
<1>1. TilesOf(g, keys) \subseteq keys
  BY DEF TilesOf, SubTile, SourceTile, Largest
<1>2. CASE cutoff
  BY <1>1, <1>2 DEF RunInv, FreshInv, PutNew, Fresh
<1>3. CASE ~cutoff
  BY <1>1, <1>3 DEF RunInv, FreshInv, PutNew, Fresh
<1> QED BY <1>2, <1>3

\* The limit stays reached while calls return.
LEMMA FullStays ==
    ASSUME RunInv, NEW g \in calls, Returned(g), Full
    PROVE  Full'
<1>1. IsFiniteSet(calls)
  BY ShardsFinite, FS_Subset DEF RunInv
<1>2. Cardinality(calls) \in Nat /\ Cardinality(calls \ {g}) = Cardinality(calls) - 1
  BY <1>1, FS_CardinalityType, FS_RemoveElement
<1>3. calls' = calls \ {g} /\ count' = count + 1 /\ limit' = limit
  BY DEF Returned
<1> QED BY <1>2, <1>3 DEF RunInv, Full

\* A call that does not bounce leaves its shard built or without data.
LEMMA CallOut ==
    ASSUME RebuildInv, NEW g \in calls, Call(g) \/ CallFails(g), driver = "layers"
    PROVE  /\ FreshInv' /\ Fresh \subseteq Fresh'
           /\ stored' \subseteq RShards /\ written' \subseteq stored'
           /\ ~bad' => ~bad /\ Done(g)'
           /\ BudgetKept'
<1>1. RunInv /\ FreshInv /\ SlotInv /\ BudgetKept /\ g \in RShards /\ g[3] <= RebuildEnd
  BY DEF RebuildInv, RunInv
<1>2. Returned(g) /\ UNCHANGED <<cutoff, drought>>
  BY DEF Call, CallFails, Returned
<1>3. \/ UNCHANGED <<stored, registered, written, outdated, used>>
      \/ ToDo(g) /\ HasData(g) /\ Wrote(g)
  BY DEF Call, CallFails
<1>4. /\ FreshInv' /\ Fresh \subseteq Fresh'
      /\ stored' \subseteq RShards /\ written' \subseteq stored'
  <2>1. CASE UNCHANGED <<stored, registered, written, outdated, used>>
    BY <1>1, <1>2, <2>1 DEF FreshInv, Fresh, RunInv
  <2>2. CASE Wrote(g)
    <3>1. PutNew(g, FreshKeys) /\ (cutoff => FreshKeys = written)
      BY <2>2 DEF Wrote, FreshKeys, Fresh
    <3> QED BY <1>1, <1>2, <3>1, PutFresh
  <2> QED BY <1>3, <2>1, <2>2
<1>5. ASSUME ~bad' PROVE ~bad /\ Done(g)'
  <2>1. Call(g) /\ ~bad /\ ~NoInputs(g)
    BY <1>5 DEF Call, CallFails
  <2>2. CASE ToDo(g) /\ HasData(g)
    <3>1. g \in Fresh'
      BY <2>1, <2>2, <1>2 DEF Call, Wrote, PutNew, Fresh
    <3> QED BY <2>1, <3>1 DEF Done
  <2>3. CASE ~ToDo(g) /\ HasData(g)
    <3>1. g \in Fresh
      BY <2>1, <2>3 DEF NoInputs, ToDo
    <3> QED BY <2>1, <3>1, <1>4 DEF Done
  <2>4. CASE ~HasData(g)
    <3>1. ~HasData(g)'
      BY <2>4, <1>2 DEF HasData
    <3> QED BY <2>1, <3>1 DEF Done
  <2> QED BY <2>2, <2>3, <2>4
<1>6. BudgetKept'
  <2> SUFFICES ASSUME ~bad' PROVE ~(used' > Budget)
    BY DEF BudgetKept
  <2>1. ~bad /\ ~(used > Budget)
    BY <1>1, <1>5 DEF BudgetKept
  <2>2. CASE UNCHANGED used
    BY <2>1, <2>2
  <2>3. CASE Wrote(g)
    <3> DEFINE X == Cardinality(HoleUnits(g, FreshKeys) \ drought) \div SourceBin(g[1])
    <3>1. g[1] \in DOMAIN RebuildLadder /\ g \in RTier(g[1])
      BY <1>1, GapTier
    <3>2. Long(g[1], Dur(g)) => \A s \in SlotsIn(g[1], {g}) : Done(s)
      BY <1>1, <2>1 DEF SlotInv
    <3>3. X \in 0 .. Budget
      BY <1>1, <3>1, <3>2, HolesBound DEF RunInv
    <3>4. used' = LargerOf(used, X)
      BY <2>3 DEF Wrote
    <3>5. used' = used \/ used' = X
      BY <3>4 DEF LargerOf
    <3> HIDE DEF X
    <3> QED BY <2>1, <3>3, <3>5, RebuildNumbers
  <2> QED BY <1>3, <2>2, <2>3
<1> QED BY <1>4, <1>5, <1>6

LEMMA CallRebuild ==
    ASSUME RebuildInv, NEW g \in calls, Call(g) \/ CallFails(g)
    PROVE  RebuildInv'
<1>1. RunInv /\ CoverInv /\ SlotInv /\ driver = "layers" /\ Returned(g)
  BY DEF RebuildInv, Call, CallFails, Returned
<1>2. /\ FreshInv' /\ Fresh \subseteq Fresh'
      /\ stored' \subseteq RShards /\ written' \subseteq stored'
      /\ ~bad' => ~bad /\ Done(g)'
      /\ BudgetKept'
  BY <1>1, CallOut
<1>3. /\ calls' = calls \ {g} /\ count' = count + 1
      /\ UNCHANGED <<rebuildClock, cutoff, drought, driver, at, limit, layers, outcome, strays>>
  BY <1>1 DEF Returned
<1>4. Full => Full'
  BY <1>1, FullStays
<1>5. \A s : Done(s) => Done(s)'
  BY <1>2, <1>3 DEF Done, HasData
<1>6. RunInv'
  BY <1>1, <1>2, <1>3 DEF RunInv, LayerOk
<1>7. CoverInv'
  <2>1. (CoverAt(at))' = CoverAt(at) /\ \A s : HasData(s)' <=> HasData(s)
    BY <1>3 DEF HasData
  <2>2. ASSUME driver' = "layers", ~bad', ~Full', NEW s \in CoverAt(at), HasData(s)
        PROVE  s \in Fresh' \/ s \in calls' \/ \E l \in layers' : s \in l.batch
    <3>1. s \in Fresh \/ s \in calls \/ \E l \in layers : s \in l.batch
      BY <1>1, <1>2, <1>4, <2>2 DEF CoverInv
    <3>2. s = g => s \in Fresh'
      BY <1>2, <2>1, <2>2 DEF Done
    <3> QED BY <1>2, <1>3, <3>1, <3>2
  <2>3. driver' # "clean" /\ outcome' # "done"
    BY <1>1, <1>3 DEF CoverInv
  <2> QED BY <2>1, <2>2, <2>3 DEF CoverInv
<1>8. SlotInv'
  <2>1. ASSUME ~bad', NEW x \in calls', Long(x[1], Dur(x)), NEW s \in SlotsIn(x[1], {x})
        PROVE  Done(s)'
    <3>1. Done(s)
      BY <1>1, <1>2, <1>3, <2>1 DEF SlotInv
    <3> QED BY <1>5, <3>1
  <2>2. ASSUME ~bad', ~Full', NEW l \in layers, ~l.scaffold, Long(l.tier, l.dur),
               NEW s \in SlotsIn(l.tier, l.batch)
        PROVE  Done(s)' \/ s \in calls' \/ Scaffolded(layers', l, s)
    <3>1. Done(s) \/ s \in calls \/ Scaffolded(layers, l, s)
      BY <1>1, <1>2, <1>4, <2>2 DEF SlotInv
    <3> QED BY <1>2, <1>3, <1>5, <2>2, <3>1
  <2> QED BY <1>3, <2>1, <2>2 DEF SlotInv
<1> QED BY <1>2, <1>6, <1>7, <1>8 DEF RebuildInv

LEMMA StartRebuildInv == ASSUME RebuildInv, StartRebuild PROVE RebuildInv'
<1> DEFINE gaps == CoverAt(rebuildClock) \ Fresh
<1>1. /\ driver' = "layers" /\ at' = rebuildClock /\ limit' \in Limits /\ layers' = LayersOf(gaps)
      /\ calls' = {} /\ count' = 0 /\ bad' = FALSE /\ used' = 0 /\ outcome' = "none"
      /\ UNCHANGED <<rebuildClock, cutoff, drought, stored, written, outdated, strays>>
  BY DEF StartRebuild
<1>2. RunInv /\ FreshInv
  BY DEF RebuildInv
<1>3. gaps \in SUBSET RShards /\ \A g \in gaps : g[3] <= RebuildEnd
  BY <1>2, CoverFacts DEF RunInv
<1>4. Fresh' = Fresh /\ \A s : HasData(s)' <=> HasData(s)
  BY <1>1 DEF Fresh, HasData
<1> HIDE DEF gaps
<1>5. RunInv'
  <2>1. \A l \in layers' : LayerOk(l)
    BY <1>1, <1>3, LayersOk
  <2> QED BY <1>1, <1>2, <2>1, RebuildNumbers DEF RunInv, LayerOk
<1>6. FreshInv' /\ BudgetKept'
  BY <1>1, <1>2, RebuildNumbers DEF FreshInv, BudgetKept
<1>7. CoverInv'
  <2>1. ASSUME NEW s \in CoverAt(at'), s \notin Fresh'
        PROVE  \E l \in layers' : s \in l.batch
    <3>1. s \in gaps
      BY <1>1, <1>4, <2>1 DEF gaps
    <3> QED BY <1>1, <3>1, PlanCovers
  <2>2. driver' # "clean" /\ outcome' # "done"
    BY <1>1
  <2>3. (CoverAt(at))' = CoverAt(at')
    BY DEF CoverAt
  <2> QED BY <2>1, <2>2, <2>3 DEF CoverInv
<1>8. SlotInv'
  <2>1. ASSUME NEW l \in layers', ~l.scaffold, Long(l.tier, l.dur), NEW s \in SlotsIn(l.tier, l.batch)
        PROVE  Scaffolded(layers', l, s)
    BY <1>1, <1>3, <2>1, PlanScaffolds
  <2> QED BY <1>1, <2>1 DEF SlotInv
<1> QED BY <1>5, <1>6, <1>7, <1>8 DEF RebuildInv

\* The limit cuts a layer only when it is then reached: before the first shard that
\* is left out there are as many as it allows.
LEMMA CutIsFull ==
    ASSUME NEW batch \in SUBSET RShards, limit \in Nat, count \in Nat,
           NEW called, called = {s \in batch : limit = 0 \/ Cardinality({o \in batch : o[2] < s[2]}) < limit - count},
           called # batch
    PROVE  limit > 0 /\ count + Cardinality(called) >= limit
<1> DEFINE Earlier(s) == {o \in batch : o[2] < s[2]}
           Out == batch \ called
           Starts == {s[2] : s \in Out}
<1>1. \A s \in batch : s[2] \in Nat
  <2> SUFFICES ASSUME NEW s \in batch PROVE s[2] \in Nat
    OBVIOUS
  <2> QED BY GapTier, TierShape
<1>2. \A s \in batch : IsFiniteSet(Earlier(s)) /\ Cardinality(Earlier(s)) \in Nat
  <2> SUFFICES ASSUME NEW s \in batch PROVE IsFiniteSet(Earlier(s)) /\ Cardinality(Earlier(s)) \in Nat
    OBVIOUS
  <2>1. IsFiniteSet(Earlier(s))
    BY ShardsFinite, FS_Subset
  <2> QED BY <2>1, FS_CardinalityType
<1>3. \A s \in batch : s \in called <=> (limit = 0 \/ Cardinality(Earlier(s)) < limit - count)
  OBVIOUS
<1> HIDE DEF Earlier
<1>4. Starts \subseteq Nat /\ Starts # {}
  <2>1. PICK s \in Out : TRUE
    OBVIOUS
  <2>2. s[2] \in Starts
    OBVIOUS
  <2> QED BY <1>1, <2>2
<1>5. Min(Starts) \in Starts /\ \A n \in Starts : Min(Starts) <= n
  <2> HIDE DEF Starts
  <2> QED BY <1>4, LeastIn
<1>6. PICK s \in Out : s[2] = Min(Starts)
  BY <1>5
<1>7. limit > 0 /\ Cardinality(Earlier(s)) >= limit - count
  BY <1>2, <1>3, <1>6
<1>8. Earlier(s) \subseteq called
  <2> SUFFICES ASSUME NEW o \in batch, o[2] < s[2], o \notin called PROVE FALSE
    BY DEF Earlier
  <2>1. o[2] \in Starts
    OBVIOUS
  <2>2. s \in batch
    BY <1>6
  <2>3. o[2] \in Nat /\ s[2] \in Nat
    BY <1>1, <2>2
  <2> HIDE DEF Out, Starts
  <2>4. s[2] <= o[2]
    BY <1>5, <1>6, <2>1
  <2> QED BY <2>3, <2>4
<1>9. IsFiniteSet(called)
  BY ShardsFinite, FS_Subset
<1> HIDE DEF Out, Starts
<1>10. Cardinality(Earlier(s)) <= Cardinality(called) /\ Cardinality(called) \in Nat
  BY <1>8, <1>9, FS_Subset, FS_CardinalityType
<1>11. s \in batch
  BY DEF Out
<1> QED BY <1>2, <1>7, <1>10, <1>11

LEMMA NextLayerInv == ASSUME RebuildInv, NextLayer PROVE RebuildInv'
<1>1. RunInv /\ FreshInv /\ CoverInv /\ SlotInv /\ BudgetKept
  BY DEF RebuildInv
<1>2. PICK l \in layers :
          /\ \A k \in layers : Comes(l, k)
          /\ layers' = layers \ {l}
          /\ calls' = {s \in l.batch : limit = 0 \/ Cardinality({o \in l.batch : o[2] < s[2]}) < limit - count}
  BY DEF NextLayer
<1>3. /\ driver = "layers" /\ calls = {} /\ ~AtLimit
      /\ UNCHANGED <<rebuildClock, cutoff, drought, stored, written, outdated, driver, at, limit, count,
                     bad, used, outcome, strays>>
  BY DEF NextLayer
<1>4. LayerOk(l) /\ l.tier \in DOMAIN RebuildLadder /\ l.batch \subseteq RShards
  <2>1. LayerOk(l)
    BY <1>1 DEF RunInv
  <2> QED BY <2>1 DEF LayerOk, RShards
<1>5. Fresh' = Fresh /\ \A s : (HasData(s)' <=> HasData(s)) /\ (Done(s)' <=> Done(s))
  BY <1>3 DEF Fresh, HasData, Done
<1>6. ~Full
  BY <1>1, <1>3, FS_EmptySet DEF Full, AtLimit, RunInv
<1>7. ~Full' => calls' = l.batch
  <2> SUFFICES ASSUME calls' # l.batch PROVE Full'
    OBVIOUS
  <2>1. limit > 0 /\ count + Cardinality(calls') >= limit
    BY <1>1, <1>2, <1>4, CutIsFull DEF RunInv
  <2> QED BY <1>3, <2>1 DEF Full
<1>8. RunInv'
  <2>1. \A g \in calls' : g \in RShards /\ g[3] <= RebuildEnd
    BY <1>2, <1>4 DEF LayerOk
  <2>2. \A k \in layers' : LayerOk(k)
    BY <1>1, <1>2 DEF RunInv
  <2> QED BY <1>1, <1>3, <2>1, <2>2 DEF RunInv, LayerOk
<1>9. FreshInv' /\ BudgetKept'
  BY <1>1, <1>3 DEF FreshInv, BudgetKept
<1>10. CoverInv'
  <2>1. (CoverAt(at))' = CoverAt(at)
    BY <1>3
  <2>2. ASSUME ~bad', ~Full', NEW s \in CoverAt(at), HasData(s)
        PROVE  s \in Fresh' \/ s \in calls' \/ \E k \in layers' : s \in k.batch
    <3>1. s \in Fresh \/ \E k \in layers : s \in k.batch
      BY <1>1, <1>3, <1>6, <2>2 DEF CoverInv
    <3> QED BY <1>2, <1>5, <1>7, <2>2, <3>1
  <2>3. driver' # "clean" /\ outcome' # "done"
    BY <1>1, <1>3 DEF CoverInv
  <2> QED BY <1>5, <2>1, <2>2, <2>3 DEF CoverInv
<1>11. SlotInv'
  <2>1. ASSUME ~bad', NEW x \in calls', Long(x[1], Dur(x)), NEW s \in SlotsIn(x[1], {x})
        PROVE  Done(s)'
    <3>1. x \in l.batch /\ x \in RTier(l.tier) /\ Dur(x) = IF l.scaffold THEN SafeRung(l.tier) ELSE l.dur
      BY <1>2, <1>4 DEF LayerOk
    <3>2. x[1] = l.tier /\ Dur(x) \in Nat
      BY <1>4, <3>1, TierShape, RungFacts
    <3>3. ~l.scaffold /\ Long(l.tier, l.dur)
      BY <2>1, <3>1, <3>2 DEF Long
    <3>4. s \in SlotsIn(l.tier, l.batch)
      BY <3>1, <3>2 DEF SlotsIn
    <3>5. Done(s) \/ Scaffolded(layers, l, s)
      BY <1>1, <1>3, <1>6, <2>1, <3>3, <3>4 DEF SlotInv
    <3>6. ~Scaffolded(layers, l, s)
      <4> SUFFICES ASSUME NEW k \in layers, k.tier = l.tier, k.dur <= l.dur, k.scaffold PROVE FALSE
        BY DEF Scaffolded
      <4>1. Comes(l, k) /\ LayerOk(k)
        BY <1>1, <1>2 DEF RunInv
      <4>2. l.tier \in Nat /\ k.dur \in Nat /\ l.dur \in Nat
        BY <1>4, <4>1, RungFacts DEF LayerOk
      <4> QED BY <3>3, <4>1, <4>2 DEF Comes
    <3> QED BY <1>5, <3>5, <3>6
  <2>2. ASSUME ~bad', ~Full', NEW m \in layers', ~m.scaffold, Long(m.tier, m.dur),
               NEW s \in SlotsIn(m.tier, m.batch)
        PROVE  Done(s)' \/ s \in calls' \/ Scaffolded(layers', m, s)
    <3>1. Done(s) \/ Scaffolded(layers, m, s)
      BY <1>1, <1>2, <1>3, <1>6, <2>2 DEF SlotInv
    <3>2. ASSUME NEW k \in layers, k.tier = m.tier, k.dur <= m.dur, k.scaffold, s \in k.batch
          PROVE  s \in calls' \/ Scaffolded(layers', m, s)
      BY <1>2, <1>7, <2>2, <3>2 DEF Scaffolded
    <3> QED BY <1>5, <3>1, <3>2 DEF Scaffolded
  <2> QED BY <1>3, <2>1, <2>2 DEF SlotInv
<1> QED BY <1>8, <1>9, <1>10, <1>11 DEF RebuildInv

LEMMA EndLayersInv == ASSUME RebuildInv, EndLayers PROVE RebuildInv'
<1>1. RunInv /\ FreshInv /\ CoverInv /\ BudgetKept
  BY DEF RebuildInv
<1>2. /\ driver = "layers" /\ calls = {} /\ (layers = {} \/ AtLimit)
      /\ \/ driver' = "idle" /\ outcome' = "bounced"
         \/ ~bad /\ ~AtLimit /\ driver' = "clean" /\ outcome' = outcome
      /\ UNCHANGED <<rebuildClock, cutoff, drought, stored, written, outdated, at, limit, layers, calls,
                     count, bad, used, strays>>
  BY DEF EndLayers
<1>3. Fresh' = Fresh /\ (CoverAt(at))' = CoverAt(at) /\ \A s : HasData(s)' <=> HasData(s)
  BY <1>2 DEF Fresh, HasData
<1>4. RunInv' /\ FreshInv' /\ BudgetKept'
  BY <1>1, <1>2 DEF RunInv, FreshInv, BudgetKept, LayerOk
<1>5. ASSUME driver' = "clean", NEW s \in CoverAt(at), HasData(s) PROVE s \in Fresh
  <2>1. ~Full
    BY <1>1, <1>2, <1>5, FS_EmptySet DEF Full, AtLimit, RunInv
  <2> QED BY <1>1, <1>2, <1>5, <2>1 DEF CoverInv
<1>6. outcome' # "done" /\ driver' # "layers"
  BY <1>1, <1>2 DEF CoverInv
<1>7. CoverInv' /\ SlotInv'
  BY <1>3, <1>5, <1>6 DEF CoverInv, SlotInv
<1> QED BY <1>4, <1>7 DEF RebuildInv

LEMMA CleanScaffoldInv == ASSUME RebuildInv, CleanScaffold PROVE RebuildInv'
<1>1. RunInv /\ FreshInv /\ CoverInv /\ BudgetKept
  BY DEF RebuildInv
<1>2. /\ driver = "clean"
      /\ \/ driver' = "idle" /\ UNCHANGED <<stored, written, outdated>>
         \/ /\ driver' = driver /\ outcome' = outcome
            /\ \E s \in ToClean : /\ stored' = stored \ {s} /\ written' = written \ {s}
                                  /\ outdated' = outdated \ {s}
      /\ UNCHANGED <<rebuildClock, cutoff, drought, at, limit, layers, calls, count, bad, used, strays>>
  BY DEF CleanScaffold
<1>3. Fresh \cap CoverAt(at) \subseteq Fresh' /\ (CoverAt(at))' = CoverAt(at)
      /\ \A s : HasData(s)' <=> HasData(s)
  BY <1>2 DEF Fresh, HasData, ToClean
<1>4. FreshInv' /\ BudgetKept'
  BY <1>1, <1>2 DEF FreshInv, BudgetKept
<1>5. RunInv'
  <2>1. stored' \subseteq RShards /\ written' \subseteq stored'
    BY <1>1, <1>2 DEF RunInv
  <2> QED BY <1>1, <1>2, <2>1 DEF RunInv, LayerOk
<1>6. CoverInv' /\ SlotInv'
  <2>1. \A s \in CoverAt(at) : HasData(s) => s \in Fresh'
    BY <1>1, <1>2, <1>3 DEF CoverInv
  <2>2. driver' # "layers" /\ (outcome' = "done" => driver' = "idle")
    BY <1>1, <1>2 DEF CoverInv
  <2> QED BY <1>3, <2>1, <2>2 DEF CoverInv, SlotInv
<1> QED BY <1>4, <1>5, <1>6 DEF RebuildInv

LEMMA DriverDiesInv == ASSUME RebuildInv, DriverDies PROVE RebuildInv'
<1>1. RunInv /\ FreshInv /\ CoverInv /\ BudgetKept
  BY DEF RebuildInv
<1>2. /\ driver' = "idle" /\ outcome' = "died" /\ layers' = {} /\ calls' = {}
      /\ \A x \in strays' : x \in strays \/ x[1] \in calls
      /\ UNCHANGED <<rebuildClock, cutoff, drought, stored, written, outdated, at, limit, count, bad, used>>
  BY DEF DriverDies
<1>3. RunInv' /\ FreshInv' /\ BudgetKept'
  BY <1>1, <1>2 DEF RunInv, FreshInv, BudgetKept
<1>4. CoverInv' /\ SlotInv'
  BY <1>2 DEF CoverInv, SlotInv
<1> QED BY <1>3, <1>4 DEF RebuildInv

\* What somebody else stores beside the driver.
LEMMA Beside ==
    ASSUME RebuildInv, FreshInv', Fresh \subseteq Fresh', stored' \subseteq RShards, written' \subseteq stored',
           UNCHANGED <<rebuildClock, cutoff, drought, driver, at, limit, layers, calls, count, bad, used,
                       outcome>>,
           strays' \subseteq strays
    PROVE  RebuildInv'
<1>1. RunInv /\ FreshInv /\ CoverInv /\ SlotInv /\ BudgetKept
  BY DEF RebuildInv
<1>2. \A x : (HasData(x)' <=> HasData(x)) /\ (Done(x) => Done(x)')
  BY DEF HasData, Done
<1>3. Full' <=> Full
  BY DEF Full
<1>4. RunInv' /\ BudgetKept'
  BY <1>1 DEF RunInv, BudgetKept, LayerOk
<1>5. CoverInv'
  <2>1. (CoverAt(at))' = CoverAt(at)
    OBVIOUS
  <2> QED BY <1>1, <1>2, <1>3, <2>1 DEF CoverInv
<1>6. SlotInv'
  <2>1. ASSUME driver = "layers", ~bad, NEW x \in calls, Long(x[1], Dur(x)), NEW o \in SlotsIn(x[1], {x})
        PROVE  Done(o)'
    BY <1>1, <1>2, <2>1 DEF SlotInv
  <2>2. ASSUME driver = "layers", ~bad, ~Full, NEW l \in layers, ~l.scaffold, Long(l.tier, l.dur),
               NEW o \in SlotsIn(l.tier, l.batch)
        PROVE  Done(o)' \/ o \in calls \/ Scaffolded(layers, l, o)
    BY <1>1, <1>2, <2>2 DEF SlotInv
  <2> QED BY <1>3, <2>1, <2>2 DEF SlotInv
<1> QED BY <1>4, <1>5, <1>6 DEF RebuildInv

LEMMA TickFillsInv == ASSUME RebuildInv, QuietTicks, TickFills PROVE RebuildInv'
<1>1. RunInv /\ FreshInv
  BY DEF RebuildInv
<1>2. /\ ~cutoff
      /\ UNCHANGED <<rebuildClock, cutoff, drought, driver, at, limit, layers, calls, count, bad, used,
                     outcome, strays>>
  BY DEF TickFills
<1>3. PICK s \in CoverAt(rebuildClock) : PutNew(s, stored)
  BY DEF TickFills
<1>4. s \in RShards
  BY <1>1, CoverFacts DEF RunInv
<1> QED BY <1>1, <1>2, <1>3, <1>4, PutFresh, Beside

LEMMA StrayInv == ASSUME RebuildInv, NEW x \in strays, Stray(x[1], x[2]) PROVE RebuildInv'
<1>1. RunInv /\ FreshInv /\ x[1] \in RShards
  BY DEF RebuildInv, RunInv
<1>2. /\ strays' \subseteq strays
      /\ UNCHANGED <<rebuildClock, cutoff, drought, driver, at, limit, layers, calls, count, bad, used,
                     outcome>>
  BY DEF Stray
<1>3. PutNew(x[1], FreshKeys) \/ UNCHANGED <<stored, written, outdated>>
  BY DEF Stray
<1>4. CASE PutNew(x[1], FreshKeys)
  <2>1. cutoff => FreshKeys = written
    BY DEF FreshKeys, Fresh
  <2> QED BY <1>1, <1>2, <1>4, <2>1, PutFresh, Beside
<1>5. CASE UNCHANGED <<stored, written, outdated>>
  <2>1. FreshInv' /\ Fresh' = Fresh /\ stored' \subseteq RShards /\ written' \subseteq stored'
    BY <1>1, <1>2, <1>5 DEF RunInv, FreshInv, Fresh
  <2> QED BY <1>2, <2>1, Beside
<1> QED BY <1>3, <1>4, <1>5

LEMMA NextRebuildInv == QuietTicks /\ RebuildInv /\ [NextRebuild]_rebuildVars => RebuildInv'
<1> SUFFICES ASSUME QuietTicks, RebuildInv, [NextRebuild]_rebuildVars PROVE RebuildInv'
  OBVIOUS
<1>1. CASE UNCHANGED rebuildVars
  <2>1. /\ Fresh' = Fresh /\ (Full' <=> Full) /\ (CoverAt(at))' = CoverAt(at)
        /\ \A s : (HasData(s)' <=> HasData(s)) /\ (Done(s)' <=> Done(s))
    BY <1>1 DEF rebuildVars, Fresh, Full, HasData, Done
  <2>2. RunInv' /\ FreshInv' /\ BudgetKept'
    BY <1>1 DEF rebuildVars, RebuildInv, RunInv, FreshInv, BudgetKept, LayerOk
  <2>3. CoverInv' /\ SlotInv'
    BY <1>1, <2>1 DEF rebuildVars, RebuildInv, CoverInv, SlotInv, Scaffolded
  <2> QED BY <2>2, <2>3 DEF RebuildInv
<1>2. CASE PassTime
  <2>1. /\ rebuildClock' \in Clocks
        /\ UNCHANGED <<cutoff, drought, stored, written, outdated, driver, at, limit, layers, calls, count,
                       bad, used, outcome, strays>>
    BY <1>2 DEF PassTime
  <2>2. /\ Fresh' = Fresh /\ (Full' <=> Full) /\ (CoverAt(at))' = CoverAt(at)
        /\ \A s : (HasData(s)' <=> HasData(s)) /\ (Done(s)' <=> Done(s))
    BY <2>1 DEF Fresh, Full, HasData, Done
  <2>3. RunInv' /\ FreshInv' /\ BudgetKept'
    BY <2>1 DEF RebuildInv, RunInv, FreshInv, BudgetKept, LayerOk
  <2>4. CoverInv' /\ SlotInv'
    BY <2>1, <2>2 DEF RebuildInv, CoverInv, SlotInv, Scaffolded
  <2> QED BY <2>3, <2>4 DEF RebuildInv
<1>3. CASE StartRebuild
  BY <1>3, StartRebuildInv
<1>4. CASE NextLayer
  BY <1>4, NextLayerInv
<1>5. CASE \E g \in calls : Call(g) \/ CallFails(g)
  BY <1>5, CallRebuild
<1>6. CASE EndLayers
  BY <1>6, EndLayersInv
<1>7. CASE CleanScaffold
  BY <1>7, CleanScaffoldInv
<1>8. CASE DriverDies
  BY <1>8, DriverDiesInv
<1>9. CASE TickFills
  BY <1>9, TickFillsInv
<1>10. CASE \E x \in strays : Stray(x[1], x[2])
  BY <1>10, StrayInv
<1> QED BY <1>1, <1>2, <1>3, <1>4, <1>5, <1>6, <1>7, <1>8, <1>9, <1>10 DEF NextRebuild

\* For every ladder, range, limit and number of failed calls and dead drivers, whose
\* calls run on, when no scheduled fill runs after a stale_before: what counts as written since stale_before
\* holds nothing older; a rebuild that ends without a bounce has left the whole cover;
\* no call reads more than the budget while none has bounced.
THEOREM RebuildSoundHolds == QuietTicks => (SpecRebuild => []RebuildSound)
<1> SUFFICES ASSUME QuietTicks PROVE SpecRebuild => []RebuildSound
  OBVIOUS
<1>1. RebuildInv => RebuildSound
  <2> SUFFICES ASSUME RebuildInv PROVE RebuildSound
    OBVIOUS
  <2>1. FreshMeansNew /\ \A s \in Fresh : s \notin outdated
    BY DEF RebuildInv, RunInv, FreshInv, FreshMeansNew, Fresh
  <2>2. CleanMeansComplete
    BY <2>1 DEF RebuildInv, CoverInv, CleanMeansComplete
  <2> QED BY <2>1, <2>2 DEF RebuildSound, RebuildInv
<1> QED BY <1>1, InitRebuildInv, NextRebuildInv, PTL DEF SpecRebuild
(***************************************************************************)
(* The cascade.  Its figures are sums of sums: a sum over a finite set is   *)
(* the size of a union of disjoint sets, one per member, so that a sum of   *)
(* partial sums is the size of the same union.                              *)
(***************************************************************************)

Picked(s) == CHOOSE x \in s : TRUE

\* What MapThenSumSet recurs on, for weights w.
Sums(S, w, f) ==
    f = [s \in SUBSET S |-> IF s = {} THEN 0 ELSE w[Picked(s)] + f[s \ {Picked(s)}]]

Image(F, s) == UNION {F[x] : x \in s}

\* Disjoint sets of the sizes w.
Sized(S, w, F) ==
    /\ \A x \in S : IsFiniteSet(F[x]) /\ w[x] = Cardinality(F[x])
    /\ \A x, y \in S : \A u : u \in F[x] /\ u \in F[y] => x = y

LEMMA ImageFinite ==
    ASSUME NEW S, IsFiniteSet(S), NEW F, \A x \in S : IsFiniteSet(F[x])
    PROVE  IsFiniteSet(Image(F, S))
<1> DEFINE T == {F[x] : x \in S}
           g == [x \in S |-> F[x]]
<1>1. g \in Surjection(S, T)
  <2>1. g \in [S -> T] /\ \A t \in T : \E x \in S : g[x] = t
    OBVIOUS
  <2> QED BY <2>1 DEF Surjection
<1>2. IsFiniteSet(T)
  BY <1>1, FS_Surjection
<1> QED BY <1>2, FS_UNION DEF Image

LEMMA ImagePicked ==
    ASSUME NEW S, IsFiniteSet(S), NEW w, NEW F, Sized(S, w, F), NEW s \in SUBSET S, s # {}
    PROVE  /\ Picked(s) \in s
           /\ Cardinality(Image(F, s)) = w[Picked(s)] + Cardinality(Image(F, s \ {Picked(s)}))
<1>1. PICK x : x = Picked(s)
  OBVIOUS
<1>2. x \in s /\ x \in S
  BY <1>1 DEF Picked
<1>3. IsFiniteSet(s \ {x})
  BY FS_Subset
<1>4. IsFiniteSet(F[x]) /\ w[x] = Cardinality(F[x]) /\ IsFiniteSet(Image(F, s \ {x}))
  BY <1>2, <1>3, ImageFinite DEF Sized
<1>5. Image(F, s) = F[x] \cup Image(F, s \ {x})
  BY <1>2 DEF Image
<1>6. F[x] \cap Image(F, s \ {x}) = {}
  BY <1>2 DEF Image, Sized
<1>7. Cardinality(F[x]) \in Nat /\ Cardinality(Image(F, s \ {x})) \in Nat /\ Cardinality({}) = 0
  BY <1>4, FS_CardinalityType, FS_EmptySet
<1>8. Cardinality(Image(F, s)) = Cardinality(F[x]) + Cardinality(Image(F, s \ {x}))
  <2>1. PICK A, B : A = F[x] /\ B = Image(F, s \ {x})
    OBVIOUS
  <2>2. Cardinality(A \cup B) = Cardinality(A) + Cardinality(B) - Cardinality(A \cap B)
    BY <1>4, <2>1, FS_Union
  <2>3. A \cap B = {} /\ A \cup B = Image(F, s)
    BY <1>5, <1>6, <2>1
  <2>4. Cardinality(A) \in Nat /\ Cardinality(B) \in Nat /\ Cardinality(A \cap B) = 0
    BY <1>7, <2>1, <2>3
  <2>5. Cardinality(A \cup B) = Cardinality(A) + Cardinality(B)
    BY <2>2, <2>4
  <2>6. Cardinality(Image(F, s)) = Cardinality(A) + Cardinality(B)
    BY <2>3, <2>5
  <2> QED BY <2>1, <2>6
<1> QED BY <1>1, <1>2, <1>4, <1>8

LEMMA SumsTo ==
    ASSUME NEW S, IsFiniteSet(S), NEW w, NEW F, Sized(S, w, F), NEW f, Sums(S, w, f)
    PROVE  f[S] = Cardinality(Image(F, S))
<1> DEFINE Bad == {n \in Nat : \E s \in SUBSET S : Cardinality(s) = n /\ f[s] # Cardinality(Image(F, s))}
<1>1. SUFFICES Bad = {}
  <2>1. S \in SUBSET S /\ Cardinality(S) \in Nat
    BY FS_CardinalityType
  <2> QED BY <1>1, <2>1
<1>2. SUFFICES ASSUME Bad # {} PROVE FALSE
  OBVIOUS
<1>3. PICK n \in Bad : \A m \in Bad : n <= m
  BY <1>2, LeastIn
<1> HIDE DEF Bad
<1>4. PICK s \in SUBSET S : Cardinality(s) = n /\ f[s] # Cardinality(Image(F, s))
  BY <1>3 DEF Bad
<1>5. IsFiniteSet(s)
  BY FS_Subset
<1>6. CASE s = {}
  <2>1. Image(F, s) = {}
    BY <1>6 DEF Image
  <2>2. f[s] = 0
    BY <1>6 DEF Sums
  <2> QED BY <1>4, <2>1, <2>2, FS_EmptySet
<1>7. CASE s # {}
  <2>1. PICK x, t : x = Picked(s) /\ t = s \ {x}
    OBVIOUS
  <2>2. x \in s /\ Cardinality(Image(F, s)) = w[x] + Cardinality(Image(F, t))
    BY <1>7, <2>1, ImagePicked
  <2>3. f[s] = w[x] + f[t]
    BY <1>7, <2>1 DEF Sums
  <2>4. t \in SUBSET S /\ Cardinality(t) = Cardinality(s) - 1
    BY <1>5, <2>1, <2>2, FS_RemoveElement
  <2>5. Cardinality(t) \in Nat /\ n \in Nat
    <3>1. IsFiniteSet(t)
      BY <1>5, <2>1, FS_RemoveElement
    <3>2. Cardinality(t) \in Nat /\ Cardinality(s) \in Nat
      BY <1>5, <3>1, FS_CardinalityType
    <3> QED BY <1>4, <3>2
  <2>6. Cardinality(t) \notin Bad
    BY <1>3, <1>4, <2>4, <2>5
  <2>7. f[t] = Cardinality(Image(F, t))
    BY <2>4, <2>5, <2>6 DEF Bad
  <2> QED BY <1>4, <2>2, <2>3, <2>7
<1> QED BY <1>6, <1>7

\* There is such a recursion, for all natural weights.
LEMMA SumsExist ==
    ASSUME NEW S, IsFiniteSet(S), NEW w, \A x \in S : w[x] \in Nat
    PROVE  \E f : Sums(S, w, f)
<1> DEFINE F == [x \in S |-> {x} \X (1 .. w[x])]
           f == [s \in SUBSET S |-> Cardinality(Image(F, s))]
<1>1. Sized(S, w, F)
  <2>1. ASSUME NEW x \in S PROVE IsFiniteSet(F[x]) /\ w[x] = Cardinality(F[x])
    <3>1. IsFiniteSet({x}) /\ Cardinality({x}) = 1
      BY FS_Singleton
    <3>2. w[x] \in Nat /\ IsFiniteSet(1 .. w[x]) /\ Cardinality(1 .. w[x]) = w[x]
      <4>1. \A n \in Nat : IsFiniteSet(1 .. n) /\ Cardinality(1 .. n) = n
        BY FS_Interval
      <4> QED BY <4>1
    <3>3. IsFiniteSet({x} \X (1 .. w[x])) /\ Cardinality({x} \X (1 .. w[x])) = 1 * w[x]
      <4>1. PICK A, B : A = {x} /\ B = 1 .. w[x]
        OBVIOUS
      <4>2. IsFiniteSet(A \X B) /\ Cardinality(A \X B) = Cardinality(A) * Cardinality(B)
        BY <3>1, <3>2, <4>1, FS_Product
      <4> QED BY <3>1, <3>2, <4>1, <4>2
    <3> QED BY <3>2, <3>3
  <2> QED BY <2>1 DEF Sized
<1> HIDE DEF F
<1>2. ASSUME NEW s \in SUBSET S
      PROVE  f[s] = IF s = {} THEN 0 ELSE w[Picked(s)] + f[s \ {Picked(s)}]
  <2>1. CASE s = {}
    <3>1. Image(F, s) = {}
      BY <2>1 DEF Image
    <3> QED BY <2>1, <3>1, FS_EmptySet
  <2>2. CASE s # {}
    BY <1>1, <2>2, ImagePicked
  <2> QED BY <2>1, <2>2
<1>3. Sums(S, w, f)
  BY <1>2 DEF Sums
<1> QED BY <1>3

Weights(S)     == [row \in S |-> row[3]]
PairWeights(S) == [p \in S |-> p[2][3]]

\* The sums of the module, as what they recur on.
TotalOf(S, f) ==
    f = [s \in SUBSET S |-> IF s = {} THEN 0 ELSE LET x == CHOOSE y \in s : TRUE IN x[3] + f[s \ {x}]]
SumOfPairs(S, f) ==
    f = [s \in SUBSET S |-> IF s = {} THEN 0 ELSE LET x == CHOOSE y \in s : TRUE IN x[2][3] + f[s \ {x}]]

LEMMA TotalIs ==
    ASSUME NEW S, IsFiniteSet(S), \A row \in S : row[3] \in Nat
    PROVE  \E f : Sums(S, Weights(S), f) /\ Total(S) = f[S]
<1>1. PICK g : Sums(S, Weights(S), g)
  BY SumsExist DEF Weights
<1>2. \A f : Sums(S, Weights(S), f) <=> TotalOf(S, f)
  BY DEF Sums, Weights, Picked, TotalOf
<1>3. PICK c : c = CHOOSE f : TotalOf(S, f)
  OBVIOUS
<1>4. TotalOf(S, c)
  BY <1>1, <1>2, <1>3
<1>5. Total(S) = c[S]
  BY <1>3 DEF Total, MapThenSumSet, MapThenFoldSet, TotalOf
<1> QED BY <1>2, <1>4, <1>5

LEMMA SumIs ==
    ASSUME NEW S, IsFiniteSet(S), \A p \in S : p[2][3] \in Nat
    PROVE  \E f : Sums(S, PairWeights(S), f) /\ SumOf(S) = f[S]
<1>1. PICK g : Sums(S, PairWeights(S), g)
  BY SumsExist DEF PairWeights
<1>2. \A f : Sums(S, PairWeights(S), f) <=> SumOfPairs(S, f)
  BY DEF Sums, PairWeights, Picked, SumOfPairs
<1>3. PICK c : c = CHOOSE f : SumOfPairs(S, f)
  OBVIOUS
<1>4. SumOfPairs(S, c)
  BY <1>1, <1>2, <1>3
<1>5. SumOf(S) = c[S]
  BY <1>3 DEF SumOf, MapThenSumSet, MapThenFoldSet, SumOfPairs
<1> QED BY <1>2, <1>4, <1>5

\* A row as many units as it weighs, and the units of rows.
Own(row) == {row} \X (1 .. row[3])
Cells(S) == UNION {Own(row) : row \in S}
Weighed(S) == IsFiniteSet(S) /\ \A row \in S : row[3] \in Nat

LEMMA OwnSize ==
    ASSUME NEW row, row[3] \in Nat
    PROVE  IsFiniteSet(Own(row)) /\ Cardinality(Own(row)) = row[3]
<1>1. IsFiniteSet({row}) /\ Cardinality({row}) = 1
  BY FS_Singleton
<1>2. \A n \in Nat : IsFiniteSet(1 .. n) /\ Cardinality(1 .. n) = n
  BY FS_Interval
<1>3. PICK n \in Nat : n = row[3]
  OBVIOUS
<1>4. IsFiniteSet({row} \X (1 .. n)) /\ Cardinality({row} \X (1 .. n)) = n
  <2>1. PICK A, B : A = {row} /\ B = 1 .. n
    OBVIOUS
  <2>2. IsFiniteSet(A) /\ Cardinality(A) = 1 /\ IsFiniteSet(B) /\ Cardinality(B) = n
    BY <1>1, <1>2, <2>1
  <2>3. IsFiniteSet(A \X B) /\ Cardinality(A \X B) = 1 * n
    BY <2>2, FS_Product
  <2> QED BY <2>1, <2>3
<1> QED BY <1>3, <1>4 DEF Own

LEMMA TotalCells ==
    ASSUME NEW S, Weighed(S)
    PROVE  Total(S) = Cardinality(Cells(S)) /\ IsFiniteSet(Cells(S)) /\ Total(S) \in Nat
<1>1. PICK f : Sums(S, Weights(S), f) /\ Total(S) = f[S]
  BY TotalIs DEF Weighed
<1>2. PICK F : F = [row \in S |-> Own(row)]
  OBVIOUS
<1>3. Sized(S, Weights(S), F)
  <2>1. \A row \in S : IsFiniteSet(F[row]) /\ Weights(S)[row] = Cardinality(F[row])
    BY <1>2, OwnSize DEF Weighed, Weights
  <2>2. \A x, y \in S : \A u : u \in F[x] /\ u \in F[y] => x = y
    BY <1>2 DEF Own
  <2> QED BY <2>1, <2>2 DEF Sized
<1>4. Image(F, S) = Cells(S)
  BY <1>2 DEF Image, Cells
<1>5. f[S] = Cardinality(Image(F, S))
  BY <1>1, <1>3, SumsTo DEF Weighed
<1>6. IsFiniteSet(Cells(S))
  BY <1>3, <1>4, ImageFinite DEF Weighed, Sized
<1> QED BY <1>1, <1>4, <1>5, <1>6, FS_CardinalityType

LEMMA TotalFacts ==
    /\ Total({}) = 0
    /\ \A row : row[3] \in Nat => Total({row}) = row[3]
    /\ \A S : Weighed(S) /\ S # {} /\ (\A row \in S : row[3] # 0) => Total(S) > 0
<1>1. Total({}) = 0
  <2>1. Weighed({}) /\ Cells({}) = {}
    BY FS_EmptySet DEF Weighed, Cells
  <2> QED BY <2>1, TotalCells, FS_EmptySet
<1>2. ASSUME NEW row, row[3] \in Nat PROVE Total({row}) = row[3]
  <2>1. Weighed({row}) /\ Cells({row}) = Own(row)
    BY <1>2, FS_Singleton DEF Weighed, Cells
  <2> QED BY <1>2, <2>1, TotalCells, OwnSize
<1>3. ASSUME NEW S, Weighed(S), S # {}, \A row \in S : row[3] # 0 PROVE Total(S) > 0
  <2>1. PICK row \in S : TRUE
    BY <1>3
  <2>2. <<row, 1>> \in Cells(S)
    <3>1. row[3] \in Nat /\ row[3] # 0
      BY <1>3 DEF Weighed
    <3>2. 1 \in 1 .. row[3]
      BY <3>1
    <3> QED BY <3>2 DEF Cells, Own
  <2>3. Total(S) = Cardinality(Cells(S)) /\ IsFiniteSet(Cells(S)) /\ Total(S) \in Nat
    BY <1>3, TotalCells
  <2>4. Total(S) # 0
    BY <2>2, <2>3, FS_EmptySet
  <2> QED BY <2>3, <2>4
<1> QED BY <1>1, <1>2, <1>3

\* Where each pair carries the total of rows of its own, the sum is the total of all.
LEMMA SumOfTotals ==
    ASSUME NEW P, IsFiniteSet(P), NEW G,
           \A p \in P : Weighed(G[p]) /\ p[2][3] = Total(G[p]),
           \A p, q \in P : \A row : row \in G[p] /\ row \in G[q] => p = q
    PROVE  Weighed(Image(G, P)) /\ SumOf(P) = Total(Image(G, P))
<1>1. Weighed(Image(G, P))
  <2>1. IsFiniteSet(Image(G, P))
    BY ImageFinite DEF Weighed
  <2> QED BY <2>1 DEF Image, Weighed
<1>2. \A p \in P : p[2][3] \in Nat
  BY TotalCells
<1>3. PICK f : Sums(P, PairWeights(P), f) /\ SumOf(P) = f[P]
  BY <1>2, SumIs
<1>4. PICK F : F = [p \in P |-> Cells(G[p])]
  OBVIOUS
<1>5. Sized(P, PairWeights(P), F)
  <2>1. \A p \in P : IsFiniteSet(F[p]) /\ PairWeights(P)[p] = Cardinality(F[p])
    BY <1>4, TotalCells DEF PairWeights
  <2>2. ASSUME NEW p \in P, NEW q \in P, NEW u, u \in F[p], u \in F[q] PROVE p = q
    <3>1. u[1] \in G[p] /\ u[1] \in G[q]
      BY <1>4, <2>2 DEF Cells, Own
    <3> QED BY <3>1
  <2> QED BY <2>1, <2>2 DEF Sized
<1>6. Image(F, P) = Cells(Image(G, P))
  BY <1>4 DEF Image, Cells
<1>7. f[P] = Cardinality(Image(F, P))
  BY <1>3, <1>5, SumsTo
<1> QED BY <1>1, <1>3, <1>6, <1>7, TotalCells

-----------------------------------------------------------------------------
\* Bins: the multiple of c at or below x.
Low(x, c) == (x \div c) * c

LEMMA LowFacts ==
    ASSUME NEW c \in Nat \ {0}, NEW x \in Nat
    PROVE  Low(x, c) \in Nat /\ Low(x, c) % c = 0 /\ Low(x, c) <= x /\ x < Low(x, c) + c
<1>1. PICK q : q = x \div c
  OBVIOUS
<1>2. q \in Nat /\ q * c <= x /\ x < (q + 1) * c
  BY <1>1, DivMult
<1>3. (q * c) % c = 0 /\ q * c \in Nat /\ (q + 1) * c = q * c + c
  BY <1>2
<1> QED BY <1>1, <1>2, <1>3 DEF Low

LEMMA LowUnique ==
    ASSUME NEW c \in Nat \ {0}, NEW x \in Nat, NEW m \in Nat, m % c = 0, m <= x, x < m + c
    PROVE  m = Low(x, c)
<1>1. PICK k \in Nat : m = k * c
  BY Quotient
<1>2. PICK q : q = x \div c
  OBVIOUS
<1>3. q \in Nat /\ q * c <= x /\ x < (q + 1) * c
  BY <1>2, DivMult
<1>4. m + c = (k + 1) * c
  BY <1>1
<1>5. q < k + 1 /\ k < q + 1
  <2>1. q * c < (k + 1) * c /\ k * c < (q + 1) * c
    BY <1>1, <1>3, <1>4
  <2> QED BY <1>3, <2>1
<1>6. q = k
  BY <1>3, <1>5
<1> QED BY <1>1, <1>2, <1>6 DEF Low

LEMMA LowAbove ==
    ASSUME NEW c \in Nat \ {0}, NEW x \in Nat, NEW m \in Nat, m % c = 0
    PROVE  (m <= x => m <= Low(x, c)) /\ (x < m => Low(x, c) + c <= m)
<1>1. PICK k \in Nat : m = k * c
  BY Quotient
<1>2. PICK q : q = x \div c
  OBVIOUS
<1>3. q \in Nat /\ q * c <= x /\ x < (q + 1) * c /\ q * c + c = (q + 1) * c
  BY <1>2, DivMult
<1>4. ASSUME m <= x PROVE m <= Low(x, c)
  <2>1. k * c < (q + 1) * c
    BY <1>1, <1>3, <1>4
  <2>2. k <= q
    BY <1>3, <2>1
  <2>3. k * c <= q * c
    BY <1>3, <2>2
  <2> QED BY <1>1, <1>2, <2>3 DEF Low
<1>5. ASSUME x < m PROVE Low(x, c) + c <= m
  <2>1. q * c <= x /\ x < k * c
    BY <1>1, <1>3, <1>5
  <2>2. (q + 1) * c <= k * c
    BY <1>3, <2>1, NextMultiple
  <2> QED BY <1>1, <1>2, <1>3, <2>2 DEF Low
<1> QED BY <1>4, <1>5

LEMMA ModTrans ==
    ASSUME NEW c \in Nat \ {0}, NEW d \in Nat \ {0}, d % c = 0, NEW m \in Nat, m % d = 0
    PROVE  m % c = 0
<1>1. PICK i \in Nat, j \in Nat : d = i * c /\ m = j * d
  BY Quotient
<1>2. m = (j * i) * c /\ j * i \in Nat
  BY <1>1
<1>3. \A n \in Nat : (n * c) % c = 0
  OBVIOUS
<1> QED BY <1>2, <1>3

\* The bin of a bin, where the bins divide each other.
LEMMA LowLow ==
    ASSUME NEW c \in Nat \ {0}, NEW d \in Nat \ {0}, d % c = 0, NEW x \in Nat
    PROVE  Low(Low(x, c), d) = Low(x, d) /\ Low(x, d) <= Low(x, c) /\ Low(x, c) + c <= Low(x, d) + d
<1>1. PICK a, b : a = Low(x, c) /\ b = Low(x, d)
  OBVIOUS
<1>2. /\ a \in Nat /\ a % c = 0 /\ a <= x /\ x < a + c
      /\ b \in Nat /\ b % d = 0 /\ b <= x /\ x < b + d
  BY <1>1, LowFacts
<1>3. b % c = 0
  BY <1>2, ModTrans
<1>4. b <= a
  BY <1>1, <1>2, <1>3, LowAbove
<1>5. b + d \in Nat /\ (b + d) % c = 0
  <2>1. PICK i \in Nat, j \in Nat : d = i * c /\ b = j * c
    <3>1. PICK i \in Nat : d = i * c
      BY Quotient
    <3>2. PICK j \in Nat : b = j * c
      BY <1>2, <1>3, Quotient
    <3> QED BY <3>1, <3>2
  <2>2. b + d = (i + j) * c
    BY <2>1
  <2>3. \A n \in Nat : (n * c) % c = 0
    OBVIOUS
  <2> QED BY <1>2, <2>1, <2>2, <2>3
<1>6. a + c <= b + d
  BY <1>1, <1>2, <1>5, LowAbove
<1>7. b = Low(a, d)
  BY <1>2, <1>4, LowUnique
<1> QED BY <1>1, <1>4, <1>6, <1>7

-----------------------------------------------------------------------------
\* Slots and rows.
Bin(r)  == CascadeRungs[r].bin
AnyRow  == Nat \X (Tokens \cup CanonicalTokens) \X (Nat \ {0})

LEMMA RungIs ==
    ASSUME NEW r \in DOMAIN CascadeRungs
    PROVE  r \in Nat \ {0} /\ Bin(r) \in Nat \ {0} /\ CascadeRungs[r].periods \subseteq Nat \X Nat
<1>1. PICK T : T = [bin : Nat \ {0}, periods : SUBSET (Nat \X Nat)]
  OBVIOUS
<1>2. CascadeRungs \in Seq(T)
  BY <1>1, CascadeAssumption
<1>3. r \in Nat \ {0} /\ CascadeRungs[r] \in T
  BY <1>2
<1>4. PICK e : e = CascadeRungs[r]
  OBVIOUS
<1>5. e \in [bin : Nat \ {0}, periods : SUBSET (Nat \X Nat)]
  BY <1>1, <1>3, <1>4
<1>6. e.bin \in Nat \ {0} /\ e.periods \in SUBSET (Nat \X Nat)
  BY <1>5
<1> QED BY <1>3, <1>4, <1>6 DEF Bin

LEMMA SlotIs ==
    ASSUME NEW s \in CascadeSlots
    PROVE  /\ s[1] \in DOMAIN CascadeRungs /\ s[1] \in Nat \ {0}
           /\ <<s[2], s[3]>> \in CascadeRungs[s[1]].periods /\ s = <<s[1], s[2], s[3]>>
           /\ s[2] \in Nat /\ s[3] \in Nat /\ s[2] < s[3]
           /\ Bin(s[1]) \in Nat \ {0} /\ s[2] % Bin(s[1]) = 0 /\ s[3] % Bin(s[1]) = 0
<1>1. PICK r \in DOMAIN CascadeRungs : \E p \in CascadeRungs[r].periods : s = <<r, p[1], p[2]>>
  BY DEF CascadeSlots
<1>2. PICK p \in CascadeRungs[r].periods : s = <<r, p[1], p[2]>>
  BY <1>1
<1>3. r \in Nat \ {0} /\ p \in Nat \X Nat /\ Bin(r) \in Nat \ {0}
  BY RungIs
<1>4. p[1] < p[2] /\ p[1] % Bin(r) = 0 /\ p[2] % Bin(r) = 0
  BY CascadeAssumption DEF Bin
<1>5. s[1] = r /\ s[2] = p[1] /\ s[3] = p[2] /\ p = <<p[1], p[2]>> /\ p[1] \in Nat /\ p[2] \in Nat
  BY <1>2, <1>3
<1> QED BY <1>2, <1>3, <1>4, <1>5

LEMMA SlotOf ==
    ASSUME NEW r \in DOMAIN CascadeRungs, NEW p \in CascadeRungs[r].periods
    PROVE  <<r, p[1], p[2]>> \in RungSlots(r)
BY DEF RungSlots, CascadeSlots

LEMMA SlotsApart ==
    ASSUME NEW s \in CascadeSlots, NEW o \in CascadeSlots, s[1] = o[1],
           NEW u \in Nat, s[2] <= u, u < s[3], o[2] <= u, u < o[3]
    PROVE  s = o
<1>1. PICK r, p, q : r = s[1] /\ p = <<s[2], s[3]>> /\ q = <<o[2], o[3]>>
  OBVIOUS
<1>2. r \in DOMAIN CascadeRungs /\ p \in CascadeRungs[r].periods /\ q \in CascadeRungs[r].periods
  BY <1>1, SlotIs
<1>3. p = q \/ p[2] <= q[1] \/ q[2] <= p[1]
  BY <1>2, CascadeAssumption
<1>4. s[2] \in Nat /\ s[3] \in Nat /\ o[2] \in Nat /\ o[3] \in Nat
  BY SlotIs
<1>5. p = q
  BY <1>1, <1>3, <1>4
<1>6. s[2] = o[2] /\ s[3] = o[3]
  BY <1>1, <1>5
<1> QED BY <1>6, SlotIs

LEMMA SlotsFinite == \A r \in DOMAIN CascadeRungs : IsFiniteSet(RungSlots(r))
<1> SUFFICES ASSUME NEW r \in DOMAIN CascadeRungs PROVE IsFiniteSet(RungSlots(r))
  OBVIOUS
<1> DEFINE P == CascadeRungs[r].periods
           f == [p \in P |-> <<r, p[1], p[2]>>]
<1>1. IsFiniteSet(P)
  BY CascadeAssumption
<1>2. \A s \in RungSlots(r) : \E p \in P : f[p] = s
  <2> SUFFICES ASSUME NEW s \in RungSlots(r) PROVE \E p \in P : f[p] = s
    OBVIOUS
  <2>1. <<s[2], s[3]>> \in P /\ s = <<r, s[2], s[3]>>
    BY SlotIs DEF RungSlots
  <2> QED BY <2>1
<1>3. f \in [P -> RungSlots(r)]
  BY SlotOf
<1>4. f \in Surjection(P, RungSlots(r))
  BY <1>2, <1>3 DEF Surjection
<1> QED BY <1>1, <1>4, FS_Surjection

\* The slot of the rung below that has a base unit.
LEMMA SlotBelow ==
    ASSUME NEW s \in CascadeSlots, s[1] > 1, NEW o \in RungSlots(1), NEW u \in Nat,
           s[2] <= u, u < s[3], o[2] <= u, u < o[3]
    PROVE  /\ s[1] - 1 \in DOMAIN CascadeRungs /\ Bin(s[1]) % Bin(s[1] - 1) = 0
           /\ \E q \in RungSlots(s[1] - 1) : q[2] <= u /\ u < q[3]
<1>1. PICK r, p, b : r = s[1] /\ p = <<s[2], s[3]>> /\ b = <<o[2], o[3]>>
  OBVIOUS
<1>2. r \in DOMAIN CascadeRungs /\ p \in CascadeRungs[r].periods /\ r > 1 /\ p[1] <= u /\ u < p[2]
  BY <1>1, SlotIs
<1>3. o \in CascadeSlots /\ o[1] = 1
  BY DEF RungSlots
<1>4. b \in CascadeRungs[1].periods /\ b[1] <= u /\ u < b[2]
  BY <1>1, <1>3, SlotIs
<1>5. u \in p[1] .. p[2] - 1
  <2>1. s[2] \in Nat /\ s[3] \in Nat
    BY SlotIs
  <2> QED BY <1>1, <1>2, <2>1
<1>6. /\ CascadeRungs[r].bin % CascadeRungs[r - 1].bin = 0
      /\ \E q \in CascadeRungs[r - 1].periods : q[1] <= u /\ u < q[2]
  BY <1>2, <1>4, <1>5, CascadeAssumption
<1>7. r - 1 \in DOMAIN CascadeRungs
  <2>1. CascadeRungs \in Seq([bin : Nat \ {0}, periods : SUBSET (Nat \X Nat)])
    BY CascadeAssumption
  <2> QED BY <1>2, <2>1
<1>8. PICK q \in CascadeRungs[r - 1].periods : q[1] <= u /\ u < q[2]
  BY <1>6
<1>9. <<r - 1, q[1], q[2]>> \in RungSlots(r - 1)
  BY <1>7, SlotOf
<1> QED BY <1>1, <1>6, <1>7, <1>8, <1>9 DEF Bin

LEMMA RungBelow ==
    ASSUME NEW s \in CascadeSlots, s[1] > 1
    PROVE  /\ s[1] - 1 \in DOMAIN CascadeRungs /\ Bin(s[1]) % Bin(s[1] - 1) = 0
           /\ Bin(s[1] - 1) \in Nat \ {0}
<1>1. PICK r, p : r = s[1] /\ p = <<s[2], s[3]>>
  OBVIOUS
<1>2. r \in DOMAIN CascadeRungs /\ p \in CascadeRungs[r].periods /\ r > 1
  BY <1>1, SlotIs
<1>3. CascadeRungs[r].bin % CascadeRungs[r - 1].bin = 0
  BY <1>2, CascadeAssumption
<1>4. CascadeRungs \in Seq([bin : Nat \ {0}, periods : SUBSET (Nat \X Nat)])
  BY CascadeAssumption
<1>5. r - 1 \in DOMAIN CascadeRungs
  BY <1>2, <1>4
<1>6. Bin(r - 1) \in Nat \ {0}
  BY <1>5, RungIs
<1> QED BY <1>1, <1>3, <1>5, <1>6 DEF Bin

\* Rows of a slot: whole bins of it, one per bin and token.
ShapedRows(s, R) ==
    /\ R \subseteq AnyRow /\ IsFiniteSet(R)
    /\ \A row \in R : s[2] <= row[1] /\ row[1] < s[3] /\ row[1] % Bin(s[1]) = 0
    /\ \A x, y \in R : x[1] = y[1] /\ x[2] = y[2] => x = y
Shaped == /\ shards \in [CascadeSlots -> SUBSET AnyRow]
          /\ \A s \in CascadeSlots : ShapedRows(s, shards[s])

BaseOf(R)      == UNION {R[o] : o \in RungSlots(1)}
BaseLeaf(s, y) == y \in BaseOf(shards) /\ y[2] \in Tokens /\ s[2] <= y[1] /\ y[1] < s[3]
Exact(s)       == Leaves(shards[s]) = Expected(s)

LEMMA RowParts == \A row \in AnyRow : row[1] \in Nat /\ row[3] \in Nat \ {0} /\ row = <<row[1], row[2], row[3]>>
BY DEF AnyRow

LEMMA BaseFacts ==
    ASSUME Shaped
    PROVE  /\ IsFiniteSet(BaseOf(shards)) /\ BaseOf(shards) \subseteq AnyRow
           /\ \A y \in BaseOf(shards) : \E o \in RungSlots(1) : y \in shards[o] /\ o[2] <= y[1] /\ y[1] < o[3]
<1>1. RungSlots(1) \subseteq CascadeSlots /\ IsFiniteSet(RungSlots(1))
  <2>1. 1 \in DOMAIN CascadeRungs
    BY CascadeAssumption
  <2> QED BY <2>1, SlotsFinite DEF RungSlots
<1>2. \A o \in RungSlots(1) : ShapedRows(o, shards[o])
  BY <1>1 DEF Shaped
<1>3. PICK F : F = shards
  OBVIOUS
<1>4. IsFiniteSet(Image(F, RungSlots(1)))
  BY <1>1, <1>2, <1>3, ImageFinite DEF ShapedRows
<1> QED BY <1>2, <1>3, <1>4 DEF Image, BaseOf, ShapedRows

LEMMA BaseInFacts ==
    ASSUME Shaped, NEW s, NEW b, NEW k
    PROVE  /\ Weighed(BaseIn(s, b, k)) /\ \A row \in BaseIn(s, b, k) : row[3] # 0
           /\ Total(BaseIn(s, b, k)) \in Nat
           /\ BaseIn(s, b, k) # {} => Total(BaseIn(s, b, k)) > 0
<1>1. BaseIn(s, b, k) \in SUBSET BaseOf(shards)
  BY DEF BaseIn, BaseOf
<1>2. IsFiniteSet(BaseIn(s, b, k))
  BY <1>1, BaseFacts, FS_Subset
<1>3. \A row \in BaseIn(s, b, k) : row[3] \in Nat /\ row[3] # 0
  BY <1>1, BaseFacts, RowParts
<1>4. Weighed(BaseIn(s, b, k))
  BY <1>2, <1>3 DEF Weighed
<1> QED BY <1>3, <1>4, TotalCells, TotalFacts

LEMMA BaseInIs ==
    ASSUME Shaped, NEW s \in CascadeSlots, NEW y, NEW b \in Nat, b % Bin(s[1]) = 0, NEW k
    PROVE  y \in BaseIn(s, b, k) <=>
               y \in BaseOf(shards) /\ y[2] = k /\ s[2] <= y[1] /\ y[1] < s[3] /\ Low(y[1], Bin(s[1])) = b
<1>1. PICK c \in Nat \ {0} : c = Bin(s[1])
  BY SlotIs
<1>2. y \in BaseOf(shards) => y[1] \in Nat
  BY BaseFacts, RowParts
<1>3. ASSUME y[1] \in Nat PROVE b <= y[1] /\ y[1] < b + c <=> Low(y[1], c) = b
  <2>1. PICK x \in Nat : x = y[1]
    BY <1>3
  <2>2. b <= x /\ x < b + c => Low(x, c) = b
    BY <1>1, LowUnique
  <2>3. Low(x, c) <= x /\ x < Low(x, c) + c
    BY LowFacts
  <2> QED BY <2>1, <2>2, <2>3
<1>4. y \in BaseIn(s, b, k) <=> /\ y \in BaseOf(shards) /\ y[2] = k /\ s[2] <= y[1] /\ y[1] < s[3]
                                /\ b <= y[1] /\ y[1] < b + c
  BY <1>1 DEF BaseIn, BaseOf, Bin
<1> QED BY <1>1, <1>2, <1>3, <1>4

\* Each leaf a slot should hold comes from a base leaf.
ShouldHold(s, y) ==
    <<Low(y[1], Bin(s[1])), y[2], Total(BaseIn(s, Low(y[1], Bin(s[1])), y[2]))>>

LEMMA BaseLeafIn ==
    ASSUME Shaped, NEW s \in CascadeSlots, NEW y, BaseLeaf(s, y)
    PROVE  /\ Low(y[1], Bin(s[1])) \in Nat /\ Low(y[1], Bin(s[1])) % Bin(s[1]) = 0
           /\ s[2] <= Low(y[1], Bin(s[1])) /\ Low(y[1], Bin(s[1])) <= y[1]
           /\ y[1] < Low(y[1], Bin(s[1])) + Bin(s[1]) /\ y[1] \in Nat
           /\ y \in BaseIn(s, Low(y[1], Bin(s[1])), y[2])
<1>1. PICK c \in Nat \ {0}, x \in Nat : c = Bin(s[1]) /\ x = y[1]
  BY SlotIs, BaseFacts, RowParts DEF BaseLeaf
<1>2. Low(x, c) \in Nat /\ Low(x, c) % c = 0 /\ Low(x, c) <= x /\ x < Low(x, c) + c
  BY LowFacts
<1>3. s[2] <= Low(x, c)
  <2>1. s[2] \in Nat /\ s[2] % c = 0 /\ s[2] <= x
    BY <1>1, SlotIs DEF BaseLeaf
  <2> QED BY <2>1, LowAbove
<1>4. y \in BaseIn(s, Low(x, c), y[2])
  <2>1. PICK b \in Nat : b = Low(x, c)
    BY <1>2
  <2>2. b % Bin(s[1]) = 0 /\ Low(y[1], Bin(s[1])) = b
    BY <1>1, <1>2, <2>1
  <2>3. y \in BaseIn(s, b, y[2])
    BY <2>2, BaseInIs DEF BaseLeaf
  <2> QED BY <2>1, <2>3
<1> QED BY <1>1, <1>2, <1>3, <1>4

LEMMA ExpectedIs ==
    ASSUME Shaped, NEW s \in CascadeSlots, NEW x
    PROVE  x \in Expected(s) <=> \E y : BaseLeaf(s, y) /\ x = ShouldHold(s, y)
<1>1. PICK c \in Nat \ {0} : c = Bin(s[1])
  BY SlotIs
<1>2. x \in Expected(s) <=> \E b \in 0 .. s[3] - 1, k \in Tokens :
          b % c = 0 /\ x = <<b, k, Total(BaseIn(s, b, k))>> /\ Total(BaseIn(s, b, k)) > 0
  BY <1>1 DEF Expected, Bin
<1>3. ASSUME NEW b \in 0 .. s[3] - 1, NEW k \in Tokens,
             b % c = 0, x = <<b, k, Total(BaseIn(s, b, k))>>, Total(BaseIn(s, b, k)) > 0
      PROVE  \E y : BaseLeaf(s, y) /\ x = ShouldHold(s, y)
  <2>1. BaseIn(s, b, k) # {}
    <3>1. PICK B : B = BaseIn(s, b, k)
      OBVIOUS
    <3>2. Total(B) > 0
      BY <1>3, <3>1
    <3>3. B = {} => Total(B) = 0
      BY TotalFacts
    <3> QED BY <3>1, <3>2, <3>3
  <2>2. PICK y : y \in BaseIn(s, b, k)
    BY <2>1
  <2>3. b \in Nat
    BY SlotIs
  <2>4. y \in BaseOf(shards) /\ y[2] = k /\ s[2] <= y[1] /\ y[1] < s[3] /\ Low(y[1], c) = b
    BY <1>1, <1>3, <2>2, <2>3, BaseInIs
  <2>5. BaseLeaf(s, y)
    BY <2>4 DEF BaseLeaf
  <2>6. x = ShouldHold(s, y)
    BY <1>1, <1>3, <2>4 DEF ShouldHold
  <2> QED BY <2>5, <2>6
<1>4. ASSUME NEW y, BaseLeaf(s, y), x = ShouldHold(s, y) PROVE x \in Expected(s)
  <2>1. PICK b, k : b = Low(y[1], Bin(s[1])) /\ k = y[2]
    OBVIOUS
  <2>2. b \in Nat /\ b % c = 0 /\ b <= y[1] /\ y[1] \in Nat /\ y \in BaseIn(s, b, k)
    BY <1>1, <1>4, <2>1, BaseLeafIn
  <2>3. Total(BaseIn(s, b, k)) > 0
    BY <2>2, BaseInFacts
  <2>4. b \in 0 .. s[3] - 1 /\ k \in Tokens
    <3>1. y[1] < s[3] /\ k \in Tokens
      BY <1>4, <2>1 DEF BaseLeaf
    <3>2. s[3] \in Nat
      BY SlotIs
    <3>3. PICK n, v : n = s[3] /\ v = y[1]
      OBVIOUS
    <3>4. n \in Nat /\ v \in Nat /\ b \in Nat /\ b <= v /\ v < n
      BY <2>2, <3>1, <3>2, <3>3
    <3>5. b \in 0 .. n - 1
      BY <3>4
    <3> QED BY <3>1, <3>3, <3>5
  <2>5. x = <<b, k, Total(BaseIn(s, b, k))>>
    BY <1>4, <2>1 DEF ShouldHold
  <2> QED BY <1>2, <2>2, <2>3, <2>4, <2>5
<1> QED BY <1>2, <1>3, <1>4

-----------------------------------------------------------------------------
\* Rows summed by bin and token.
GroupOf(P, c, b, k) == {p \in P : Low(p[2][1], c) = b /\ p[2][2] = k}
GroupRow(P, c, p)   ==
    <<Low(p[2][1], c), p[2][2], SumOf(GroupOf(P, c, Low(p[2][1], c), p[2][2]))>>

LEMMA SummedIs ==
    ASSUME NEW P, NEW c, NEW row
    PROVE  row \in Summed(P, c) <=> \E p \in P : row = GroupRow(P, c, p)
<1> DEFINE rowOf(g) == <<g[1], g[2], SumOf({q \in P : (q[2][1] \div c) * c = g[1] /\ q[2][2] = g[2]})>>
<1>1. Summed(P, c) = {rowOf(g) : g \in {<<(p[2][1] \div c) * c, p[2][2]>> : p \in P}}
  BY DEF Summed
<1>2. ASSUME NEW p \in P PROVE rowOf(<<(p[2][1] \div c) * c, p[2][2]>>) = GroupRow(P, c, p)
  BY DEF GroupRow, GroupOf, Low
<1> HIDE DEF rowOf
<1>3. row \in Summed(P, c) <=> \E p \in P : row = rowOf(<<(p[2][1] \div c) * c, p[2][2]>>)
  BY <1>1
<1> QED BY <1>2, <1>3

LEMMA SumPositive ==
    ASSUME NEW P, IsFiniteSet(P), P # {}, \A p \in P : p[2][3] \in Nat \ {0}
    PROVE  SumOf(P) \in Nat \ {0}
<1> DEFINE unit(p) == <<p, 0, p[2][3]>>
<1>1. PICK G : G = [p \in P |-> {unit(p)}]
  OBVIOUS
<1>2. \A p \in P : Weighed(G[p]) /\ p[2][3] = Total(G[p])
  <2> SUFFICES ASSUME NEW p \in P PROVE Weighed(G[p]) /\ p[2][3] = Total(G[p])
    OBVIOUS
  <2>1. PICK r : r = unit(p)
    OBVIOUS
  <2>2. r[3] = p[2][3] /\ r[3] \in Nat /\ G[p] = {r}
    BY <1>1, <2>1
  <2>3. IsFiniteSet({r}) /\ \A row \in {r} : row[3] \in Nat
    BY <2>2, FS_Singleton
  <2>4. Total({r}) = r[3]
    BY <2>2, TotalFacts
  <2> QED BY <2>2, <2>3, <2>4 DEF Weighed
<1>3. \A p, q \in P : \A row : row \in G[p] /\ row \in G[q] => p = q
  BY <1>1
<1>4. Weighed(Image(G, P)) /\ SumOf(P) = Total(Image(G, P))
  BY <1>2, <1>3, SumOfTotals
<1>5. Image(G, P) # {} /\ \A row \in Image(G, P) : row[3] # 0
  <2>1. PICK q \in P : TRUE
    OBVIOUS
  <2>2. unit(q) \in Image(G, P)
    BY <1>1 DEF Image
  <2>3. ASSUME NEW row \in Image(G, P) PROVE row[3] # 0
    <3>1. PICK p \in P : row \in G[p]
      BY <2>3 DEF Image
    <3>2. row = unit(p)
      BY <1>1, <3>1
    <3> QED BY <3>2
  <2> QED BY <2>2, <2>3
<1>6. Total(Image(G, P)) > 0 /\ Total(Image(G, P)) \in Nat
  BY <1>4, <1>5, TotalFacts, TotalCells
<1> QED BY <1>4, <1>6

LEMMA ImageOfFinite ==
    ASSUME NEW S, IsFiniteSet(S), NEW f, NEW T, \A t \in T : \E x \in S : t = f[x]
    PROVE  IsFiniteSet(T)
<1> DEFINE F == [x \in S |-> {f[x]}]
<1>1. \A x \in S : IsFiniteSet(F[x])
  BY FS_Singleton
<1>2. IsFiniteSet(Image(F, S))
  BY <1>1, ImageFinite
<1>3. T \in SUBSET Image(F, S)
  BY DEF Image
<1> QED BY <1>2, <1>3, FS_Subset

LEMMA SummedShaped ==
    ASSUME NEW P, IsFiniteSet(P), NEW c \in Nat \ {0}, \A p \in P : p[2] \in AnyRow
    PROVE  /\ Summed(P, c) \subseteq AnyRow /\ IsFiniteSet(Summed(P, c))
           /\ \A x, y \in Summed(P, c) : x[1] = y[1] /\ x[2] = y[2] => x = y
<1>1. \A row \in Summed(P, c) : \E p \in P : row = GroupRow(P, c, p)
  BY SummedIs
<1>2. IsFiniteSet(Summed(P, c))
  <2>1. PICK f : f = [p \in P |-> GroupRow(P, c, p)]
    OBVIOUS
  <2>2. \A row \in Summed(P, c) : \E p \in P : row = f[p]
    BY <1>1, <2>1
  <2> QED BY <2>2, ImageOfFinite
<1>3. ASSUME NEW p \in P PROVE GroupRow(P, c, p) \in AnyRow
  <2>1. PICK Q : Q = GroupOf(P, c, Low(p[2][1], c), p[2][2])
    OBVIOUS
  <2>2. Q \in SUBSET P /\ p \in Q
    BY <2>1 DEF GroupOf
  <2>3. IsFiniteSet(Q) /\ \A q \in Q : q[2][3] \in Nat \ {0}
    BY <2>2, FS_Subset, RowParts
  <2>4. SumOf(Q) \in Nat \ {0}
    BY <2>2, <2>3, SumPositive
  <2>5. Low(p[2][1], c) \in Nat
    BY RowParts, LowFacts
  <2>6. p[2][2] \in Tokens \cup CanonicalTokens
    BY DEF AnyRow
  <2> QED BY <2>1, <2>4, <2>5, <2>6 DEF GroupRow, AnyRow
<1>4. \A p, q \in P : GroupRow(P, c, p)[1] = GroupRow(P, c, q)[1] /\ GroupRow(P, c, p)[2] = GroupRow(P, c, q)[2]
                          => GroupRow(P, c, p) = GroupRow(P, c, q)
  BY DEF GroupRow
<1> QED BY <1>1, <1>2, <1>3, <1>4

-----------------------------------------------------------------------------
\* A shard is combined from what the slots of the rung below hold of its period.
Pairs(s) ==
    UNION {{<<o, row>> : row \in Clipped(s, shards[o])} :
              o \in {o \in RungSlots(s[1] - 1) : o[2] < s[3] /\ s[2] < o[3]}}

LEMMA PairsAre ==
    ASSUME NEW s, NEW p
    PROVE  p \in Pairs(s) <=>
              \E o \in RungSlots(s[1] - 1) : \E row \in shards[o] :
                  o[2] < s[3] /\ s[2] < o[3] /\ s[2] <= row[1] /\ row[1] < s[3] /\ p = <<o, row>>
BY DEF Pairs, Clipped

LEMMA PairsShaped ==
    ASSUME Shaped, NEW s \in CascadeSlots, s[1] > 1
    PROVE  /\ IsFiniteSet(Pairs(s)) /\ Combine(s) = Summed(Pairs(s), Bin(s[1]))
           /\ \A p \in Pairs(s) : /\ p[1] \in RungSlots(s[1] - 1) /\ p[1] \in CascadeSlots /\ p[2] \in shards[p[1]]
                                  /\ p[2] \in AnyRow /\ s[2] <= p[2][1] /\ p[2][1] < s[3] /\ p = <<p[1], p[2]>>
                                  /\ p[1][2] <= p[2][1] /\ p[2][1] < p[1][3] /\ p[2][1] % Bin(s[1] - 1) = 0
<1>1. PICK R : R = RungSlots(s[1] - 1)
  OBVIOUS
<1>2. IsFiniteSet(R) /\ R \subseteq CascadeSlots /\ \A o \in R : o[1] = s[1] - 1
  BY <1>1, RungBelow, SlotsFinite DEF RungSlots
<1>3. ASSUME NEW p \in Pairs(s)
      PROVE  /\ p[1] \in R /\ p[1] \in CascadeSlots /\ p[2] \in shards[p[1]]
             /\ p[2] \in AnyRow /\ s[2] <= p[2][1] /\ p[2][1] < s[3] /\ p = <<p[1], p[2]>>
             /\ p[1][2] <= p[2][1] /\ p[2][1] < p[1][3] /\ p[2][1] % Bin(s[1] - 1) = 0
  <2>1. PICK o \in R : \E row \in shards[o] : s[2] <= row[1] /\ row[1] < s[3] /\ p = <<o, row>>
    BY <1>1, PairsAre
  <2>2. PICK row \in shards[o] : s[2] <= row[1] /\ row[1] < s[3] /\ p = <<o, row>>
    BY <2>1
  <2>3. ShapedRows(o, shards[o]) /\ o[1] = s[1] - 1
    BY <1>2 DEF Shaped
  <2> QED BY <1>2, <2>2, <2>3 DEF ShapedRows
<1>4. IsFiniteSet(Pairs(s))
  <2> DEFINE F == [o \in R |-> {o} \X shards[o]]
  <2>1. ASSUME NEW o \in R PROVE IsFiniteSet(F[o])
    <3>1. PICK A : A = shards[o]
      OBVIOUS
    <3>2. IsFiniteSet(A) /\ IsFiniteSet({o})
      BY <1>2, <3>1, FS_Singleton DEF Shaped, ShapedRows
    <3>3. IsFiniteSet({o} \X A)
      BY <3>2, FS_Product
    <3> QED BY <3>1, <3>3
  <2>2. IsFiniteSet(Image(F, R))
    BY <1>2, <2>1, ImageFinite
  <2>3. Pairs(s) \in SUBSET Image(F, R)
    BY <1>3 DEF Image
  <2> QED BY <2>2, <2>3, FS_Subset
<1>5. Combine(s) = Summed(Pairs(s), Bin(s[1]))
  BY DEF Combine, Pairs, Bin
<1> QED BY <1>1, <1>3, <1>4, <1>5

LEMMA LeafPair ==
    ASSUME Shaped, NEW s \in CascadeSlots, s[1] > 1, \A o \in RungSlots(s[1] - 1) : Exact(o),
           NEW y, BaseLeaf(s, y)
    PROVE  \E p \in Pairs(s) : BaseLeaf(p[1], y) /\ p[2] = ShouldHold(p[1], y)
<1>1. PICK e \in RungSlots(1) : y \in shards[e] /\ e[2] <= y[1] /\ y[1] < e[3]
  BY BaseFacts DEF BaseLeaf
<1>2. y[1] \in Nat /\ s[2] <= y[1] /\ y[1] < s[3]
  BY BaseFacts, RowParts DEF BaseLeaf
<1>3. PICK o \in RungSlots(s[1] - 1) : o[2] <= y[1] /\ y[1] < o[3]
  BY <1>1, <1>2, SlotBelow
<1>4. o \in CascadeSlots /\ o[1] = s[1] - 1
  BY DEF RungSlots
<1>5. BaseLeaf(o, y)
  BY <1>3 DEF BaseLeaf
<1>6. PICK row : row = ShouldHold(o, y)
  OBVIOUS
<1>7. row \in shards[o]
  <2>1. row \in Expected(o)
    BY <1>4, <1>5, <1>6, ExpectedIs
  <2> QED BY <2>1 DEF Exact, Leaves
<1>8. s[2] <= row[1] /\ row[1] < s[3]
  <2>1. PICK c \in Nat \ {0}, x \in Nat : c = Bin(o[1]) /\ x = y[1]
    BY <1>2, <1>4, SlotIs
  <2>2. s[2] \in Nat /\ s[2] % c = 0 /\ s[3] \in Nat
    <3>1. Bin(s[1]) \in Nat \ {0} /\ Bin(s[1]) % c = 0 /\ s[2] \in Nat /\ s[2] % Bin(s[1]) = 0 /\ s[3] \in Nat
      BY <1>4, <2>1, RungBelow, SlotIs
    <3> QED BY <3>1, ModTrans
  <2>3. s[2] <= Low(x, c) /\ Low(x, c) <= x /\ Low(x, c) \in Nat
    BY <1>2, <2>1, <2>2, LowAbove, LowFacts
  <2>4. row[1] = Low(x, c)
    BY <1>6, <2>1 DEF ShouldHold
  <2> QED BY <1>2, <2>1, <2>2, <2>3, <2>4
<1>9. o[2] < s[3] /\ s[2] < o[3]
  <2>1. o[2] \in Nat /\ o[3] \in Nat /\ s[2] \in Nat /\ s[3] \in Nat
    BY <1>4, SlotIs
  <2> QED BY <1>2, <1>3, <2>1
<1>10. <<o, row>> \in Pairs(s)
  BY <1>7, <1>8, <1>9, PairsAre
<1>11. PICK p : p = <<o, row>>
  OBVIOUS
<1> QED BY <1>5, <1>6, <1>10, <1>11

LEMMA PairLeaf ==
    ASSUME Shaped, NEW s \in CascadeSlots, s[1] > 1, \A o \in RungSlots(s[1] - 1) : Exact(o),
           NEW p \in Pairs(s), p[2][2] \in Tokens
    PROVE  \E y : BaseLeaf(s, y) /\ BaseLeaf(p[1], y) /\ p[2] = ShouldHold(p[1], y)
<1>1. PICK o, row : o = p[1] /\ row = p[2]
  OBVIOUS
<1>2. /\ o \in RungSlots(s[1] - 1) /\ o \in CascadeSlots /\ row \in shards[o] /\ row \in AnyRow
      /\ s[2] <= row[1] /\ row[1] < s[3] /\ row[1] % Bin(s[1] - 1) = 0
  BY <1>1, PairsShaped
<1>3. row \in Expected(o)
  BY <1>1, <1>2 DEF Exact, Leaves
<1>4. PICK y : BaseLeaf(o, y) /\ row = ShouldHold(o, y)
  BY <1>2, <1>3, ExpectedIs
<1>5. PICK c : c = Bin(s[1] - 1)
  OBVIOUS
<1>6. o[1] = s[1] - 1
  BY <1>2 DEF RungSlots
<1>7. c \in Nat \ {0} /\ s[3] \in Nat /\ s[2] \in Nat /\ s[3] % c = 0
  <2>1. c \in Nat \ {0} /\ Bin(s[1]) % c = 0 /\ Bin(s[1]) \in Nat \ {0} /\ s[2] \in Nat /\ s[3] \in Nat /\ s[3] % Bin(s[1]) = 0
    BY <1>5, RungBelow, SlotIs
  <2> QED BY <2>1, ModTrans
<1>8. row[1] = Low(y[1], c) /\ y[1] \in Nat
  <2>1. row[1] = Low(y[1], Bin(o[1]))
    BY <1>4 DEF ShouldHold
  <2> QED BY <1>2, <1>4, <1>5, <1>6, <2>1, BaseLeafIn
<1>9. row[1] \in Nat /\ row[1] <= y[1] /\ y[1] < row[1] + c
  BY <1>7, <1>8, LowFacts
<1>10. s[2] <= y[1]
  BY <1>2, <1>7, <1>8, <1>9
<1>11. y[1] < s[3]
  <2>1. y[1] < s[3] \/ s[3] <= y[1]
    BY <1>7, <1>8
  <2>2. s[3] <= y[1] => s[3] <= row[1]
    BY <1>7, <1>8, LowAbove
  <2> QED BY <1>2, <1>7, <1>9, <2>1, <2>2
<1>12. BaseLeaf(s, y)
  BY <1>4, <1>10, <1>11 DEF BaseLeaf
<1> QED BY <1>1, <1>4, <1>12

\* The group of a bin and token carries exactly the base rows of that bin and token.
LEMMA GroupExact ==
    ASSUME Shaped, NEW s \in CascadeSlots, s[1] > 1, \A o \in RungSlots(s[1] - 1) : Exact(o),
           NEW y, BaseLeaf(s, y)
    PROVE  SumOf(GroupOf(Pairs(s), Bin(s[1]), Low(y[1], Bin(s[1])), y[2])) = ShouldHold(s, y)[3]
<1>1. PICK b, k, c, d : b = Low(y[1], Bin(s[1])) /\ k = y[2] /\ c = Bin(s[1] - 1) /\ d = Bin(s[1])
  OBVIOUS
<1>2. c \in Nat \ {0} /\ d \in Nat \ {0} /\ d % c = 0 /\ k \in Tokens /\ b \in Nat /\ b % d = 0
  BY <1>1, RungBelow, SlotIs, BaseLeafIn DEF BaseLeaf
<1>3. PICK P : P = GroupOf(Pairs(s), d, b, k)
  OBVIOUS
<1>4. \A p : p \in P <=> p \in Pairs(s) /\ Low(p[2][1], d) = b /\ p[2][2] = k
  BY <1>3 DEF GroupOf
<1>5. IsFiniteSet(P)
  <2>1. P \in SUBSET Pairs(s)
    BY <1>4
  <2> QED BY <2>1, PairsShaped, FS_Subset
<1>6. PICK G : G = [p \in P |-> BaseIn(p[1], p[2][1], k)]
  OBVIOUS
<1>7. ASSUME NEW p \in P
      PROVE  /\ p[1] \in RungSlots(s[1] - 1) /\ p[1] \in CascadeSlots /\ p[1][1] = s[1] - 1 /\ p = <<p[1], p[2]>>
             /\ p[2] \in AnyRow /\ p[2][1] \in Nat /\ p[2][1] % c = 0
             /\ Weighed(G[p]) /\ p[2][3] = Total(G[p])
             /\ \E z : p[2] = ShouldHold(p[1], z)
  <2>1. p \in Pairs(s) /\ p[2][2] = k
    BY <1>4
  <2>2. /\ p[1] \in RungSlots(s[1] - 1) /\ p[1] \in CascadeSlots /\ p = <<p[1], p[2]>>
        /\ p[2] \in AnyRow /\ p[2][1] % c = 0
    BY <1>1, <2>1, PairsShaped
  <2>3. p[1][1] = s[1] - 1
    BY <2>2 DEF RungSlots
  <2>4. PICK z : BaseLeaf(p[1], z) /\ p[2] = ShouldHold(p[1], z)
    BY <1>2, <2>1, PairLeaf
  <2>5. p[2][3] = Total(BaseIn(p[1], p[2][1], p[2][2]))
    BY <2>4 DEF ShouldHold
  <2>6. Weighed(G[p]) /\ p[2][3] = Total(G[p])
    BY <1>6, <2>1, <2>5, BaseInFacts
  <2> QED BY <2>2, <2>3, <2>4, <2>6, RowParts
<1>8. ASSUME NEW p \in P, NEW row
      PROVE  row \in G[p] <=> /\ row \in BaseOf(shards) /\ row[2] = k
                              /\ p[1][2] <= row[1] /\ row[1] < p[1][3] /\ Low(row[1], c) = p[2][1]
  <2>1. PICK o, m : o = p[1] /\ m = p[2][1]
    OBVIOUS
  <2>2. o \in CascadeSlots /\ m \in Nat /\ m % Bin(o[1]) = 0 /\ Bin(o[1]) = c /\ G[p] = BaseIn(o, m, k)
    BY <1>1, <1>6, <1>7, <2>1
  <2> QED BY <2>1, <2>2, BaseInIs
<1>9. ASSUME NEW p \in P, NEW q \in P, NEW row, row \in G[p], row \in G[q] PROVE p = q
  <2>1. row[1] \in Nat
    BY <1>8, <1>9, BaseFacts, RowParts
  <2>2. p[1] = q[1]
    BY <1>7, <1>8, <1>9, <2>1, SlotsApart
  <2>3. p[2][1] = q[2][1] /\ p[2][2] = k /\ q[2][2] = k
    BY <1>4, <1>8, <1>9
  <2>4. p[2] \in shards[p[1]] /\ q[2] \in shards[p[1]] /\ ShapedRows(p[1], shards[p[1]])
    BY <1>4, <1>7, <2>2, PairsShaped DEF Shaped
  <2>5. p[2] = q[2]
    BY <2>3, <2>4 DEF ShapedRows
  <2> QED BY <1>7, <2>2, <2>5
<1>10. Weighed(Image(G, P)) /\ SumOf(P) = Total(Image(G, P))
  BY <1>5, <1>7, <1>9, SumOfTotals
<1>11. ASSUME NEW row \in BaseIn(s, b, k) PROVE row \in Image(G, P)
  <2>1. row \in BaseOf(shards) /\ row[2] = k /\ s[2] <= row[1] /\ row[1] < s[3] /\ Low(row[1], d) = b
    BY <1>1, <1>2, BaseInIs
  <2>2. BaseLeaf(s, row)
    BY <1>2, <2>1 DEF BaseLeaf
  <2>3. PICK p \in Pairs(s) : BaseLeaf(p[1], row) /\ p[2] = ShouldHold(p[1], row)
    BY <2>2, LeafPair
  <2>4. p[1][1] = s[1] - 1
    BY PairsShaped DEF RungSlots
  <2>5. p[2][1] = Low(row[1], c) /\ p[2][2] = k
    BY <1>1, <2>1, <2>3, <2>4 DEF ShouldHold
  <2>6. row[1] \in Nat
    BY <2>1, BaseFacts, RowParts
  <2>7. Low(p[2][1], d) = b
    BY <1>2, <2>1, <2>5, <2>6, LowLow
  <2>8. p \in P
    BY <1>4, <2>5, <2>7
  <2>9. row \in G[p]
    BY <1>8, <2>1, <2>3, <2>5, <2>8 DEF BaseLeaf
  <2> QED BY <2>8, <2>9 DEF Image
<1>12. ASSUME NEW p \in P, NEW row \in G[p] PROVE row \in BaseIn(s, b, k)
  <2>1. /\ row \in BaseOf(shards) /\ row[2] = k /\ p[1][2] <= row[1] /\ row[1] < p[1][3]
        /\ Low(row[1], c) = p[2][1] /\ Low(p[2][1], d) = b
    BY <1>4, <1>8, <1>12
  <2>2. row[1] \in Nat
    BY <2>1, BaseFacts, RowParts
  <2>3. Low(row[1], d) = b
    BY <1>2, <2>1, <2>2, LowLow
  <2>4. s[2] <= p[2][1] /\ p[2][1] < s[3]
    BY <1>4, PairsShaped
  <2>5. p[2][1] \in Nat /\ p[2][1] <= row[1] /\ row[1] < p[2][1] + c
    BY <1>2, <2>1, <2>2, LowFacts
  <2>6. s[2] \in Nat /\ s[3] \in Nat /\ s[3] % c = 0
    BY <1>1, <1>2, SlotIs, ModTrans
  <2>7. s[2] <= row[1]
    BY <2>2, <2>4, <2>5, <2>6
  <2>8. row[1] < s[3]
    <3>1. s[3] <= row[1] => s[3] <= Low(row[1], c)
      BY <1>2, <2>2, <2>6, LowAbove
    <3>2. ~(s[3] <= p[2][1])
      BY <2>4, <2>5, <2>6
    <3> QED BY <2>1, <2>2, <2>6, <3>1, <3>2
  <2> QED BY <1>1, <1>2, <2>1, <2>3, <2>7, <2>8, BaseInIs
<1>13. Image(G, P) = BaseIn(s, b, k)
  BY <1>11, <1>12 DEF Image
<1> QED BY <1>1, <1>3, <1>10, <1>13 DEF ShouldHold

LEMMA CombineExact ==
    ASSUME Shaped, NEW s \in CascadeSlots, s[1] > 1, \A o \in RungSlots(s[1] - 1) : Exact(o)
    PROVE  Leaves(Combine(s)) = Expected(s)
<1>1. PICK P, d : P = Pairs(s) /\ d = Bin(s[1])
  OBVIOUS
<1>2. \A row : row \in Combine(s) <=> \E p \in P : row = GroupRow(P, d, p)
  BY <1>1, PairsShaped, SummedIs
<1>3. d \in Nat \ {0} /\ Bin(s[1] - 1) \in Nat \ {0} /\ d % Bin(s[1] - 1) = 0
  BY <1>1, SlotIs, RungBelow
<1>4. ASSUME NEW p \in P, NEW y, BaseLeaf(s, y), BaseLeaf(p[1], y), p[2] = ShouldHold(p[1], y)
      PROVE  GroupRow(P, d, p) = ShouldHold(s, y)
  <2>1. p[1][1] = s[1] - 1 /\ p[1] \in CascadeSlots
    BY <1>1, PairsShaped DEF RungSlots
  <2>2. p[2][1] = Low(y[1], Bin(s[1] - 1)) /\ p[2][2] = y[2]
    BY <1>4, <2>1 DEF ShouldHold
  <2>3. y[1] \in Nat
    BY <1>4, BaseLeafIn
  <2>4. Low(p[2][1], d) = Low(y[1], d)
    BY <1>3, <2>2, <2>3, LowLow
  <2>5. SumOf(GroupOf(P, d, Low(y[1], d), y[2])) = ShouldHold(s, y)[3]
    BY <1>1, <1>4, GroupExact
  <2> QED BY <1>1, <2>2, <2>4, <2>5 DEF GroupRow, ShouldHold
<1>5. ASSUME NEW row \in Combine(s), row[2] \in Tokens PROVE row \in Expected(s)
  <2>1. PICK p \in P : row = GroupRow(P, d, p)
    BY <1>2, <1>5
  <2>2. p[2][2] \in Tokens
    BY <1>5, <2>1 DEF GroupRow
  <2>3. PICK y : BaseLeaf(s, y) /\ BaseLeaf(p[1], y) /\ p[2] = ShouldHold(p[1], y)
    BY <1>1, <2>2, PairLeaf
  <2> QED BY <1>4, <2>1, <2>3, ExpectedIs
<1>6. ASSUME NEW x \in Expected(s) PROVE x \in Leaves(Combine(s))
  <2>1. PICK y : BaseLeaf(s, y) /\ x = ShouldHold(s, y)
    BY ExpectedIs
  <2>2. PICK p \in P : BaseLeaf(p[1], y) /\ p[2] = ShouldHold(p[1], y)
    BY <1>1, <2>1, LeafPair
  <2>3. x = GroupRow(P, d, p)
    BY <1>4, <2>1, <2>2
  <2>4. x[2] \in Tokens
    BY <2>1 DEF ShouldHold, BaseLeaf
  <2> QED BY <1>2, <2>3, <2>4 DEF Leaves
<1> QED BY <1>5, <1>6 DEF Leaves

\* The base is what it should hold.
LEMMA BaseExact ==
    ASSUME Shaped, NEW s \in RungSlots(1)
    PROVE  Exact(s)
<1>1. s \in CascadeSlots /\ s[1] = 1 /\ Bin(s[1]) = 1 /\ ShapedRows(s, shards[s])
  BY CascadeAssumption DEF RungSlots, Bin, Shaped
<1>2. \A x \in Nat : Low(x, 1) = x
  BY DEF Low
<1>3. ASSUME NEW y, BaseLeaf(s, y) PROVE y \in shards[s]
  <2>1. PICK o \in RungSlots(1) : y \in shards[o] /\ o[2] <= y[1] /\ y[1] < o[3]
    BY <1>3, BaseFacts DEF BaseLeaf
  <2>2. o \in CascadeSlots /\ o[1] = 1 /\ y[1] \in Nat
    BY <1>3, BaseFacts, RowParts DEF BaseLeaf, RungSlots
  <2>3. o = s
    BY <1>1, <1>3, <2>1, <2>2, SlotsApart DEF BaseLeaf
  <2> QED BY <2>1, <2>3
<1>4. ASSUME NEW y \in shards[s], y[2] \in Tokens PROVE BaseLeaf(s, y) /\ ShouldHold(s, y) = y
  <2>1. y \in AnyRow /\ s[2] <= y[1] /\ y[1] < s[3]
    BY <1>1 DEF ShapedRows
  <2>2. BaseLeaf(s, y)
    BY <1>4, <2>1 DEF BaseLeaf, BaseOf
  <2>3. y[1] \in Nat /\ y[3] \in Nat /\ y = <<y[1], y[2], y[3]>>
    BY <2>1, RowParts
  <2>4. PICK b : b = y[1]
    OBVIOUS
  <2>5. b \in Nat /\ b % Bin(s[1]) = 0
    BY <1>1, <2>3, <2>4
  <2>6. ASSUME NEW z \in BaseIn(s, b, y[2]) PROVE z = y
    <3>1. z \in BaseOf(shards) /\ z[2] = y[2] /\ s[2] <= z[1] /\ z[1] < s[3] /\ Low(z[1], 1) = b
      BY <1>1, <2>5, <2>6, BaseInIs
    <3>2. z[1] = b
      <4>1. z[1] \in Nat
        BY <3>1, BaseFacts, RowParts
      <4> QED BY <1>2, <3>1, <4>1
    <3>3. z \in shards[s]
      BY <1>3, <1>4, <3>1 DEF BaseLeaf
    <3> QED BY <1>1, <2>4, <3>1, <3>2, <3>3 DEF ShapedRows
  <2>7. y \in BaseIn(s, b, y[2])
    BY <1>1, <1>2, <2>2, <2>3, <2>4, BaseLeafIn
  <2>8. BaseIn(s, b, y[2]) = {y}
    BY <2>6, <2>7
  <2>9. Total({y}) = y[3]
    BY <2>3, TotalFacts
  <2> QED BY <1>1, <1>2, <2>2, <2>3, <2>4, <2>8, <2>9 DEF ShouldHold
<1>5. ASSUME NEW y \in Leaves(shards[s]) PROVE y \in Expected(s)
  <2>1. BaseLeaf(s, y) /\ y = ShouldHold(s, y)
    BY <1>4 DEF Leaves
  <2> QED BY <1>1, <2>1, ExpectedIs
<1>6. ASSUME NEW x \in Expected(s) PROVE x \in Leaves(shards[s])
  <2>1. PICK y : BaseLeaf(s, y) /\ x = ShouldHold(s, y)
    BY <1>1, ExpectedIs
  <2>2. y \in shards[s] /\ y[2] \in Tokens
    BY <1>3, <2>1 DEF BaseLeaf
  <2>3. x = y
    BY <1>4, <2>1, <2>2
  <2> QED BY <2>2, <2>3 DEF Leaves
<1> QED BY <1>5, <1>6 DEF Exact

\* A combined shard is one row per whole bin and token, too.
LEMMA CombineShaped ==
    ASSUME Shaped, NEW s \in CascadeSlots, s[1] > 1
    PROVE  ShapedRows(s, Combine(s))
<1>1. PICK P, d : P = Pairs(s) /\ d = Bin(s[1])
  OBVIOUS
<1>2. d \in Nat \ {0} /\ s[2] \in Nat /\ s[3] \in Nat /\ s[2] % d = 0
  BY <1>1, SlotIs
<1>3. Combine(s) = Summed(P, d) /\ IsFiniteSet(P) /\ \A p \in P : p[2] \in AnyRow /\ s[2] <= p[2][1] /\ p[2][1] < s[3]
  BY <1>1, PairsShaped
<1>4. ASSUME NEW row \in Combine(s) PROVE s[2] <= row[1] /\ row[1] < s[3] /\ row[1] % d = 0
  <2>1. PICK p \in P : row = GroupRow(P, d, p)
    BY <1>3, SummedIs
  <2>2. PICK x : x = p[2][1]
    OBVIOUS
  <2>3. row[1] = Low(x, d) /\ x \in Nat /\ s[2] <= x /\ x < s[3]
    BY <1>3, <2>1, <2>2, RowParts DEF GroupRow
  <2>4. s[2] <= Low(x, d) /\ Low(x, d) <= x /\ Low(x, d) % d = 0 /\ Low(x, d) \in Nat
    BY <1>2, <2>3, LowAbove, LowFacts
  <2> QED BY <1>2, <2>3, <2>4
<1>5. /\ Combine(s) \subseteq AnyRow /\ IsFiniteSet(Combine(s))
      /\ \A x, y \in Combine(s) : x[1] = y[1] /\ x[2] = y[2] => x = y
  BY <1>2, <1>3, SummedShaped
<1> QED BY <1>1, <1>4, <1>5 DEF ShapedRows

-----------------------------------------------------------------------------
\* A leaf of a shard is of a bin and a token that the base has.
Supported(s) ==
    \A row \in Leaves(shards[s]) : \E y : BaseLeaf(s, y) /\ row[1] = Low(y[1], Bin(s[1])) /\ row[2] = y[2]

LEMMA CombineSupported ==
    ASSUME Shaped, NEW s \in CascadeSlots, s[1] > 1, \A o \in RungSlots(s[1] - 1) : Supported(o),
           NEW row \in Leaves(Combine(s))
    PROVE  \E y : BaseLeaf(s, y) /\ row[1] = Low(y[1], Bin(s[1])) /\ row[2] = y[2]
<1>1. PICK c, d : c = Bin(s[1] - 1) /\ d = Bin(s[1])
  OBVIOUS
<1>2. c \in Nat \ {0} /\ d \in Nat \ {0} /\ d % c = 0
  BY <1>1, SlotIs, RungBelow
<1>3. PICK p \in Pairs(s) : row = GroupRow(Pairs(s), d, p)
  BY <1>1, PairsShaped, SummedIs DEF Leaves
<1>4. PICK o, m : o = p[1] /\ m = p[2][1]
  OBVIOUS
<1>5. row[1] = Low(m, d) /\ row[2] = p[2][2] /\ row[2] \in Tokens
  BY <1>3, <1>4 DEF GroupRow, Leaves
<1>6. o \in RungSlots(s[1] - 1) /\ o[1] = s[1] - 1 /\ p[2] \in shards[o] /\ s[2] <= m /\ m < s[3]
  BY <1>4, PairsShaped DEF RungSlots
<1>7. PICK y : BaseLeaf(o, y) /\ m = Low(y[1], c) /\ row[2] = y[2]
  BY <1>1, <1>4, <1>5, <1>6 DEF Supported, Leaves
<1>8. y[1] \in Nat
  BY <1>7, BaseFacts, RowParts DEF BaseLeaf
<1>9. PICK x \in Nat : x = y[1]
  BY <1>8
<1>10. m \in Nat /\ m <= x /\ x < m + c /\ Low(m, d) = Low(x, d)
  BY <1>2, <1>7, <1>9, LowFacts, LowLow
<1>11. s[2] \in Nat /\ s[3] \in Nat /\ s[3] % c = 0
  BY <1>1, <1>2, SlotIs, ModTrans
<1>12. s[2] <= x
  BY <1>6, <1>10, <1>11
<1>13. x < s[3]
  <2>1. s[3] <= x => s[3] <= m
    BY <1>2, <1>7, <1>9, <1>11, LowAbove
  <2> QED BY <1>6, <1>10, <1>11, <2>1
<1>14. BaseLeaf(s, y)
  BY <1>7, <1>9, <1>12, <1>13 DEF BaseLeaf
<1> QED BY <1>1, <1>5, <1>7, <1>9, <1>10, <1>14

\* Where nothing is combined, a supported shard has no leaf.
LEMMA NothingToCombine ==
    ASSUME Shaped, NEW s \in CascadeSlots, s[1] > 1, \A o \in RungSlots(s[1] - 1) : Exact(o),
           Combine(s) = {}, Supported(s)
    PROVE  Exact(s)
<1>1. Expected(s) = {}
  BY CombineExact DEF Leaves
<1>2. Leaves(shards[s]) = {}
  <2> SUFFICES ASSUME NEW row \in Leaves(shards[s]) PROVE FALSE
    OBVIOUS
  <2>1. PICK y : BaseLeaf(s, y)
    BY DEF Supported
  <2>2. ShouldHold(s, y) \in Expected(s)
    BY <2>1, ExpectedIs
  <2> QED BY <1>1, <2>2
<1> QED BY <1>1, <1>2 DEF Exact

-----------------------------------------------------------------------------
\* A rollup: the leaves stay, and the canonical rows are their sums.
Renamed(R, m) ==
    {<<row, <<row[1], m[row[2]], row[3]>>>> : row \in {x \in Leaves(R) : x[2] \in DOMAIN m}}
Merged(R, m, b, k) == {row \in R : row[1] = b /\ row[2] \in {t \in DOMAIN m : m[t] = k}}
RolledBy(R, m) ==
    \A k \in CanonicalTokens : \A b \in {row[1] : row \in R} :
        {row \in R : row[1] = b /\ row[2] = k}
            = IF Merged(R, m, b, k) = {} THEN {} ELSE {<<b, k, Total(Merged(R, m, b, k))>>}

LEMMA RenamedIs ==
    ASSUME NEW s, NEW R, ShapedRows(s, R), NEW m \in IdMaps
    PROVE  /\ IsFiniteSet(Renamed(R, m))
           /\ \A p : p \in Renamed(R, m) <=>
                 \E row \in Leaves(R) : row[2] \in DOMAIN m /\ p = <<row, <<row[1], m[row[2]], row[3]>>>>
           /\ \A p \in Renamed(R, m) : /\ p[1] \in Leaves(R) /\ p[1][2] \in DOMAIN m /\ m[p[1][2]] = p[2][2]
                                       /\ p[2][1] = p[1][1] /\ p[2][3] = p[1][3]
                                       /\ p[2] \in AnyRow /\ p[2][2] \in CanonicalTokens
                                       /\ p = <<p[1], <<p[1][1], m[p[1][2]], p[1][3]>>>>
<1>1. \A p : p \in Renamed(R, m) <=>
          \E row \in Leaves(R) : row[2] \in DOMAIN m /\ p = <<row, <<row[1], m[row[2]], row[3]>>>>
  BY DEF Renamed
<1>2. Leaves(R) \in SUBSET R /\ R \subseteq AnyRow /\ IsFiniteSet(R)
  BY DEF Leaves, ShapedRows
<1>3. IsFiniteSet(Renamed(R, m))
  <2>1. IsFiniteSet(Leaves(R))
    BY <1>2, FS_Subset
  <2>2. PICK f : f = [row \in Leaves(R) |-> <<row, <<row[1], m[row[2]], row[3]>>>>]
    OBVIOUS
  <2>3. \A p \in Renamed(R, m) : \E row \in Leaves(R) : p = f[row]
    BY <1>1, <2>2
  <2> QED BY <2>1, <2>3, ImageOfFinite
<1>4. ASSUME NEW p \in Renamed(R, m)
      PROVE  /\ p[1] \in Leaves(R) /\ p[1][2] \in DOMAIN m /\ m[p[1][2]] = p[2][2]
             /\ p[2][1] = p[1][1] /\ p[2][3] = p[1][3]
             /\ p[2] \in AnyRow /\ p[2][2] \in CanonicalTokens
             /\ p = <<p[1], <<p[1][1], m[p[1][2]], p[1][3]>>>>
  <2>1. PICK row \in Leaves(R) : row[2] \in DOMAIN m /\ p = <<row, <<row[1], m[row[2]], row[3]>>>>
    BY <1>1
  <2>2. m[row[2]] \in CanonicalTokens
    BY <2>1 DEF CanonicalTokens
  <2>3. row[1] \in Nat /\ row[3] \in Nat \ {0}
    BY <1>2, RowParts
  <2> QED BY <2>1, <2>2, <2>3 DEF AnyRow
<1> QED BY <1>1, <1>3, <1>4

LEMMA RollRows ==
    ASSUME NEW s, NEW R, ShapedRows(s, R), NEW m \in IdMaps, NEW row
    PROVE  row \in Rollup(R, m) <=>
               \/ row \in Leaves(R)
               \/ \E p \in Renamed(R, m) : row = <<p[1][1], p[2][2], Total(Merged(R, m, p[1][1], p[2][2]))>>
<1>1. PICK P : P = Renamed(R, m)
  OBVIOUS
<1>2. Rollup(R, m) = Leaves(R) \cup Summed(P, 1)
  BY <1>1 DEF Rollup, Renamed
<1>3. \A x \in R : x \in AnyRow /\ x[1] \in Nat /\ x[3] \in Nat
  BY RowParts DEF ShapedRows
<1>4. ASSUME NEW p \in P PROVE GroupRow(P, 1, p) = <<p[1][1], p[2][2], Total(Merged(R, m, p[1][1], p[2][2]))>>
  <2>1. PICK b, k : b = p[1][1] /\ k = p[2][2]
    OBVIOUS
  <2>2. PICK Q : Q = GroupOf(P, 1, b, k)
    OBVIOUS
  <2>3. \A x \in Nat : Low(x, 1) = x
    BY DEF Low
  <2>4. \A q \in P : q[1] \in Leaves(R) /\ q[1] \in R /\ q[1][1] = q[2][1] /\ q[1][1] \in Nat /\ q[1][3] \in Nat
    BY <1>1, <1>3, RenamedIs DEF Leaves
  <2>5. \A q : q \in Q <=> q \in P /\ q[1][1] = b /\ q[2][2] = k
    BY <2>2, <2>3, <2>4 DEF GroupOf
  <2>6. Q \in SUBSET P /\ IsFiniteSet(P)
    BY <1>1, <2>5, RenamedIs
  <2>7. IsFiniteSet(Q)
    BY <2>6, FS_Subset
  <2>8. PICK G : G = [q \in Q |-> {q[1]}]
    OBVIOUS
  <2>9. \A q \in Q : Weighed(G[q]) /\ q[2][3] = Total(G[q])
    <3> SUFFICES ASSUME NEW q \in Q PROVE Weighed(G[q]) /\ q[2][3] = Total(G[q])
      OBVIOUS
    <3>1. q[1][3] \in Nat /\ q[2][3] = q[1][3]
      BY <1>1, <2>4, <2>5, RenamedIs
    <3>2. Weighed({q[1]}) /\ Total({q[1]}) = q[1][3]
      BY <3>1, TotalFacts, FS_Singleton DEF Weighed
    <3> QED BY <2>8, <3>1, <3>2
  <2>10. \A q, r \in Q : \A x : x \in G[q] /\ x \in G[r] => q = r
    <3> SUFFICES ASSUME NEW q \in Q, NEW r \in Q, q[1] = r[1] PROVE q = r
      BY <2>8
    <3>1. q \in P /\ r \in P
      BY <2>5
    <3>2. q = <<q[1], <<q[1][1], m[q[1][2]], q[1][3]>>>> /\ r = <<r[1], <<r[1][1], m[r[1][2]], r[1][3]>>>>
      BY <1>1, <3>1, RenamedIs
    <3> QED BY <3>2
  <2>11. SumOf(Q) = Total(Image(G, Q))
    BY <2>7, <2>9, <2>10, SumOfTotals
  <2>12. Image(G, Q) = Merged(R, m, b, k)
    <3>1. ASSUME NEW x \in Image(G, Q) PROVE x \in Merged(R, m, b, k)
      <4>1. PICK q \in Q : x = q[1]
        BY <2>8, <3>1 DEF Image
      <4>2. q \in P /\ q[1][1] = b /\ q[2][2] = k
        BY <2>5
      <4>3. q[1][2] \in DOMAIN m /\ m[q[1][2]] = q[2][2] /\ q[1] \in R
        BY <1>1, <2>4, <4>2, RenamedIs
      <4> QED BY <4>1, <4>2, <4>3 DEF Merged
    <3>2. ASSUME NEW x \in Merged(R, m, b, k) PROVE x \in Image(G, Q)
      <4>1. x \in R /\ x[1] = b /\ x[2] \in DOMAIN m /\ m[x[2]] = k
        BY <3>2 DEF Merged
      <4>2. x \in Leaves(R)
        BY <4>1, CascadeAssumption DEF Leaves
      <4>3. PICK q : q = <<x, <<x[1], m[x[2]], x[3]>>>>
        OBVIOUS
      <4>4. q \in P
        BY <1>1, <4>1, <4>2, <4>3, RenamedIs
      <4>5. q[1] = x /\ q[2][2] = k
        BY <4>1, <4>3
      <4>6. q \in Q
        BY <2>5, <4>1, <4>4, <4>5
      <4> QED BY <2>8, <4>5, <4>6 DEF Image
    <3> QED BY <3>1, <3>2
  <2>13. GroupRow(P, 1, p) = <<Low(p[2][1], 1), k, SumOf(GroupOf(P, 1, Low(p[2][1], 1), k))>>
    BY <2>1 DEF GroupRow
  <2>14. Low(p[2][1], 1) = b
    BY <2>1, <2>3, <2>4
  <2> QED BY <2>1, <2>2, <2>11, <2>12, <2>13, <2>14
<1>5. row \in Summed(P, 1) <=> \E p \in P : row = GroupRow(P, 1, p)
  BY SummedIs
<1> QED BY <1>1, <1>2, <1>4, <1>5

LEMMA RollLeaves ==
    ASSUME NEW s, NEW R, ShapedRows(s, R), NEW m \in IdMaps
    PROVE  Leaves(Rollup(R, m)) = Leaves(R)
<1>1. \A row \in Rollup(R, m) : row \in Leaves(R) \/ row[2] \in CanonicalTokens
  BY RollRows, RenamedIs
<1>2. \A row \in Leaves(R) : row \in Rollup(R, m) /\ row[2] \in Tokens
  BY RollRows DEF Leaves
<1> QED BY <1>1, <1>2, CascadeAssumption DEF Leaves

LEMMA RollShaped ==
    ASSUME NEW s \in CascadeSlots, NEW R, ShapedRows(s, R), NEW m \in IdMaps
    PROVE  ShapedRows(s, Rollup(R, m))
<1>1. PICK P : P = Renamed(R, m)
  OBVIOUS
<1>2. Rollup(R, m) = Leaves(R) \cup Summed(P, 1)
  BY <1>1 DEF Rollup, Renamed
<1>3. IsFiniteSet(P) /\ \A p \in P : p[2] \in AnyRow
  BY <1>1, RenamedIs
<1>4. /\ Summed(P, 1) \subseteq AnyRow /\ IsFiniteSet(Summed(P, 1))
      /\ \A x, y \in Summed(P, 1) : x[1] = y[1] /\ x[2] = y[2] => x = y
  BY <1>3, SummedShaped
<1>5. Leaves(R) \in SUBSET R /\ R \subseteq AnyRow /\ IsFiniteSet(R)
  BY DEF ShapedRows, Leaves
<1>6. IsFiniteSet(Rollup(R, m))
  <2>1. PICK A, B : A = Leaves(R) /\ B = Summed(P, 1)
    OBVIOUS
  <2>2. IsFiniteSet(A) /\ IsFiniteSet(B)
    BY <1>4, <1>5, <2>1, FS_Subset
  <2>3. IsFiniteSet(A \cup B)
    BY <2>2, FS_Union
  <2> QED BY <1>2, <2>1, <2>3
<1>7. \A row \in Summed(P, 1) : row[2] \in CanonicalTokens /\ \E x \in Leaves(R) : row[1] = x[1]
  <2> SUFFICES ASSUME NEW row \in Summed(P, 1)
               PROVE  row[2] \in CanonicalTokens /\ \E x \in Leaves(R) : row[1] = x[1]
    OBVIOUS
  <2>1. PICK p \in P : row = GroupRow(P, 1, p)
    BY SummedIs
  <2>2. p[1] \in Leaves(R) /\ p[2][1] = p[1][1] /\ p[2][2] \in CanonicalTokens /\ p[2] \in AnyRow
    BY <1>1, RenamedIs
  <2>3. p[2][1] \in Nat
    BY <2>2, RowParts
  <2>4. Low(p[2][1], 1) = p[2][1]
    BY <2>3 DEF Low
  <2> QED BY <2>1, <2>2, <2>4 DEF GroupRow
<1>8. \A row \in Leaves(R) : row[2] \in Tokens /\ row \in R
  BY DEF Leaves
<1>9. ASSUME NEW row \in Rollup(R, m) PROVE s[2] <= row[1] /\ row[1] < s[3] /\ row[1] % Bin(s[1]) = 0
  <2>1. \E x \in R : row[1] = x[1]
    BY <1>2, <1>7, <1>8
  <2> QED BY <2>1 DEF ShapedRows
<1>10. ASSUME NEW x \in Rollup(R, m), NEW y \in Rollup(R, m), x[1] = y[1], x[2] = y[2] PROVE x = y
  <2>1. \A row \in Leaves(R) : row[2] \notin CanonicalTokens
    BY <1>8, CascadeAssumption
  <2>2. (x \in Leaves(R) /\ y \in Leaves(R)) \/ (x \in Summed(P, 1) /\ y \in Summed(P, 1))
    BY <1>2, <1>7, <1>10, <2>1
  <2> QED BY <1>4, <1>8, <1>10, <2>2 DEF ShapedRows
<1> QED BY <1>2, <1>4, <1>5, <1>6, <1>9, <1>10 DEF ShapedRows

LEMMA RollRolled ==
    ASSUME NEW s, NEW R, ShapedRows(s, R), NEW m \in IdMaps
    PROVE  RolledBy(Rollup(R, m), m)
<1>1. PICK S : S = Rollup(R, m)
  OBVIOUS
<1> SUFFICES ASSUME NEW k \in CanonicalTokens, NEW b
             PROVE  {row \in S : row[1] = b /\ row[2] = k}
                        = IF Merged(S, m, b, k) = {} THEN {} ELSE {<<b, k, Total(Merged(S, m, b, k))>>}
  BY <1>1 DEF RolledBy
<1>2. Merged(S, m, b, k) = Merged(R, m, b, k)
  <2>1. Leaves(S) = Leaves(R)
    BY <1>1, RollLeaves
  <2>2. DOMAIN m \subseteq Tokens
    BY CascadeAssumption
  <2>3. \A row : row \in Merged(S, m, b, k) <=> row \in Leaves(S) /\ row[1] = b /\ row[2] \in DOMAIN m /\ m[row[2]] = k
    BY <2>2 DEF Merged, Leaves
  <2>4. \A row : row \in Merged(R, m, b, k) <=> row \in Leaves(R) /\ row[1] = b /\ row[2] \in DOMAIN m /\ m[row[2]] = k
    BY <2>2 DEF Merged, Leaves
  <2> QED BY <2>1, <2>3, <2>4
<1>3. PICK t : t = Total(Merged(R, m, b, k))
  OBVIOUS
<1>4. ASSUME NEW row \in S, row[1] = b, row[2] = k PROVE Merged(R, m, b, k) # {} /\ row = <<b, k, t>>
  <2>1. row \notin Leaves(R)
    BY <1>4, CascadeAssumption DEF Leaves
  <2>2. PICK p \in Renamed(R, m) : row = <<p[1][1], p[2][2], Total(Merged(R, m, p[1][1], p[2][2]))>>
    BY <1>1, <2>1, RollRows
  <2>3. p[1][1] = b /\ p[2][2] = k
    BY <1>4, <2>2
  <2>4. p[1] \in R /\ p[1][2] \in DOMAIN m /\ m[p[1][2]] = k
    BY <2>3, RenamedIs DEF Leaves
  <2>5. p[1] \in Merged(R, m, b, k)
    BY <2>3, <2>4 DEF Merged
  <2> QED BY <1>3, <2>2, <2>3, <2>5
<1>5. ASSUME Merged(R, m, b, k) # {} PROVE <<b, k, t>> \in S
  <2>1. PICK x : x \in R /\ x[1] = b /\ x[2] \in DOMAIN m /\ m[x[2]] = k
    BY <1>5 DEF Merged
  <2>2. x \in Leaves(R)
    BY <2>1, CascadeAssumption DEF Leaves
  <2>3. PICK p : p = <<x, <<x[1], m[x[2]], x[3]>>>>
    OBVIOUS
  <2>4. p \in Renamed(R, m) /\ p[1][1] = b /\ p[2][2] = k
    BY <2>1, <2>2, <2>3, RenamedIs
  <2>5. <<b, k, t>> = <<p[1][1], p[2][2], Total(Merged(R, m, p[1][1], p[2][2]))>>
    BY <1>3, <2>4
  <2> QED BY <1>1, <2>4, <2>5, RollRows
<1> QED BY <1>2, <1>3, <1>4, <1>5

-----------------------------------------------------------------------------
\* The base of the two states is the same where its leaves are.
LEMMA BaseSame ==
    ASSUME \A o \in RungSlots(1) : Leaves(shards'[o]) = Leaves(shards[o])
    PROVE  /\ \A s \in CascadeSlots : Expected(s)' = Expected(s)
           /\ \A s, y : BaseLeaf(s, y)' <=> BaseLeaf(s, y)
<1>1. \A s, b : \A k \in Tokens : BaseIn(s, b, k)' = BaseIn(s, b, k)
  <2> SUFFICES ASSUME NEW s, NEW b, NEW k \in Tokens PROVE BaseIn(s, b, k)' = BaseIn(s, b, k)
    OBVIOUS
  <2>1. \A row : row[2] = k => (row \in UNION {shards'[o] : o \in RungSlots(1)} <=> row \in UNION {shards[o] : o \in RungSlots(1)})
    BY DEF Leaves
  <2> QED BY <2>1 DEF BaseIn
<1>2. ASSUME NEW s \in CascadeSlots PROVE Expected(s)' = Expected(s)
  <2>1. \A b, k : (k \in Tokens) => Total(BaseIn(s, b, k)') = Total(BaseIn(s, b, k))
    BY <1>1
  <2> QED BY <2>1 DEF Expected
<1>3. \A s, y : BaseLeaf(s, y)' <=> BaseLeaf(s, y)
  BY DEF BaseLeaf, BaseOf, Leaves
<1> QED BY <1>2, <1>3

LEMMA BaseRowsShaped ==
    ASSUME NEW s \in RungSlots(1), NEW w \in Nat
    PROVE  ShapedRows(s, BaseRows(s[2], s[3], w))
<1>1. s \in CascadeSlots /\ s[1] = 1 /\ Bin(s[1]) = 1
  BY CascadeAssumption DEF RungSlots, Bin
<1>2. s[2] \in Nat /\ s[3] \in Nat
  BY <1>1, SlotIs
<1>3. CASE w = 0
  BY <1>3, FS_EmptySet DEF BaseRows, ShapedRows
<1>4. CASE w # 0
  <2>1. PICK A, R : A = s[2] .. s[3] - 1 /\ R = BaseRows(s[2], s[3], w)
    OBVIOUS
  <2>2. \A row : row \in R <=> \E u \in A, k \in Tokens : row = <<u, k, w>>
    BY <1>4, <2>1 DEF BaseRows
  <2>3. IsFiniteSet(R)
    <3>1. IsFiniteSet(A) /\ IsFiniteSet(Tokens)
      <4>1. \A m, n \in Int : IsFiniteSet(m .. n)
        BY FS_Interval
      <4> QED BY <1>2, <2>1, <4>1, CascadeAssumption
    <3>2. IsFiniteSet(A \X Tokens)
      BY <3>1, FS_Product
    <3>3. PICK f : f = [p \in A \X Tokens |-> <<p[1], p[2], w>>]
      OBVIOUS
    <3>4. \A row \in R : \E p \in A \X Tokens : row = f[p]
      <4> SUFFICES ASSUME NEW row \in R PROVE \E p \in A \X Tokens : row = f[p]
        OBVIOUS
      <4>1. PICK u \in A, k \in Tokens : row = <<u, k, w>>
        BY <2>2
      <4>2. <<u, k>> \in A \X Tokens /\ f[<<u, k>>] = row
        BY <3>3, <4>1
      <4> QED BY <4>2
    <3> QED BY <3>2, <3>4, ImageOfFinite
  <2>4. \A row \in R : /\ row \in AnyRow /\ s[2] <= row[1] /\ row[1] < s[3] /\ row[1] % 1 = 0
                       /\ row = <<row[1], row[2], w>>
    BY <1>2, <1>4, <2>1, <2>2 DEF AnyRow
  <2> QED BY <1>1, <2>1, <2>3, <2>4 DEF ShapedRows
<1> QED BY <1>3, <1>4

-----------------------------------------------------------------------------
\* What holds of a run at every step.
CascadeTypes ==
    /\ cascadeJob \in {"idle", "cascade", "canonicalize"} /\ rung \in Nat \ {0} /\ jobTodo \subseteq CascadeSlots
    /\ overwrite \in BOOLEAN /\ due \in BOOLEAN /\ rolled \in BOOLEAN
    /\ (cascadeJob = "cascade" => rung > 1 /\ jobTodo \subseteq RungSlots(rung))
    /\ (cascadeJob = "canonicalize" => idMap \in IdMaps)
AllSupported == \A s \in CascadeSlots : Supported(s)
\* The slots a cascade has built, and those it would leave alone, are exact.
Built ==
    ~due => IF cascadeJob = "cascade"
            THEN \A s \in CascadeSlots :
                    /\ s[1] < rung \/ (s[1] = rung /\ s \notin jobTodo) => Exact(s)
                    /\ ~overwrite => Exact(s) \/ shards[s] = {}
            ELSE \A s \in CascadeSlots : Exact(s)
Rolled ==
    rolled => /\ cascadeJob # "cascade"
              /\ \A s \in CascadeSlots : cascadeJob = "idle" \/ s \notin jobTodo => RolledBy(shards[s], idMap)
CascadeInv == CascadeTypes /\ Shaped /\ AllSupported /\ Built /\ Rolled

LEMMA CascadeInit == InitCascade => CascadeInv
<1> SUFFICES ASSUME InitCascade PROVE CascadeInv
  OBVIOUS
<1>1. PICK b \in BaseChoices :
          shards = [s \in CascadeSlots |-> IF s[1] = 1 THEN BaseRows(s[2], s[3], b[s[2] + 1]) ELSE {}]
  BY DEF InitCascade
<1>2. ASSUME NEW s \in CascadeSlots PROVE ShapedRows(s, shards[s]) /\ (s[1] # 1 => shards[s] = {})
  <2>1. CASE s[1] = 1
    <3>1. <<s[2], s[3]>> \in CascadeRungs[1].periods
      BY <2>1, SlotIs
    <3>2. \A p \in CascadeRungs[1].periods : b[p[1] + 1] \in Nat
      BY CascadeAssumption
    <3>3. b[s[2] + 1] \in Nat
      BY <3>1, <3>2
    <3>4. s \in RungSlots(1)
      BY <2>1 DEF RungSlots
    <3>5. PICK w \in Nat : w = b[s[2] + 1]
      BY <3>3
    <3> QED BY <1>1, <2>1, <3>4, <3>5, BaseRowsShaped
  <2>2. CASE s[1] # 1
    BY <1>1, <2>2, FS_EmptySet DEF ShapedRows
  <2> QED BY <2>1, <2>2
<1>3. Shaped
  <2>1. shards = [s \in CascadeSlots |-> shards[s]]
    BY <1>1
  <2>2. \A s \in CascadeSlots : shards[s] \in SUBSET AnyRow
    BY <1>2 DEF ShapedRows
  <2>3. shards \in [CascadeSlots -> SUBSET AnyRow]
    BY <2>1, <2>2
  <2> QED BY <1>2, <2>3 DEF Shaped
<1>4. ASSUME NEW s \in CascadeSlots, NEW row \in Leaves(shards[s])
      PROVE  \E y : BaseLeaf(s, y) /\ row[1] = Low(y[1], Bin(s[1])) /\ row[2] = y[2]
  <2>1. s[1] = 1 /\ row \in shards[s] /\ row[2] \in Tokens
    BY <1>2, <1>4 DEF Leaves
  <2>2. s \in RungSlots(1) /\ Bin(s[1]) = 1
    BY <2>1, CascadeAssumption DEF RungSlots, Bin
  <2>3. row \in AnyRow /\ s[2] <= row[1] /\ row[1] < s[3]
    BY <1>2, <2>1 DEF ShapedRows
  <2>4. row[1] \in Nat
    BY <2>3, RowParts
  <2>5. BaseLeaf(s, row) /\ row[1] = Low(row[1], Bin(s[1]))
    BY <2>1, <2>2, <2>3, <2>4 DEF BaseLeaf, BaseOf, Low
  <2> QED BY <2>5
<1>5. AllSupported
  BY <1>4 DEF AllSupported, Supported
<1>6. /\ cascadeJob = "idle" /\ rung = 1 /\ jobTodo = {} /\ overwrite = FALSE
      /\ due = TRUE /\ rolled = FALSE
  BY DEF InitCascade
<1>7. CascadeTypes
  <2>1. cascadeJob \in {"idle", "cascade", "canonicalize"} /\ cascadeJob # "cascade" /\ cascadeJob # "canonicalize"
    BY <1>6
  <2>2. rung \in Nat \ {0} /\ jobTodo \subseteq CascadeSlots
    BY <1>6
  <2>3. overwrite \in BOOLEAN /\ due \in BOOLEAN /\ rolled \in BOOLEAN
    BY <1>6
  <2> QED BY <2>1, <2>2, <2>3 DEF CascadeTypes
<1>8. Built /\ Rolled
  BY <1>6 DEF Built, Rolled
<1> QED BY <1>3, <1>5, <1>7, <1>8 DEF CascadeInv

\* Where every leaf stays, all that is said of leaves does.
LEMMA LeavesStay ==
    ASSUME \A s \in CascadeSlots : Leaves(shards'[s]) = Leaves(shards[s]), AllSupported
    PROVE  AllSupported' /\ \A s \in CascadeSlots : Exact(s) => Exact(s)'
<1>1. \A o \in RungSlots(1) : Leaves(shards'[o]) = Leaves(shards[o])
  BY DEF RungSlots
<1>2. (\A s \in CascadeSlots : Expected(s)' = Expected(s)) /\ \A s, y : BaseLeaf(s, y)' <=> BaseLeaf(s, y)
  BY <1>1, BaseSame
<1>3. AllSupported'
  BY <1>2 DEF AllSupported, Supported
<1> QED BY <1>2, <1>3 DEF Exact

LEMMA BuildKeeps ==
    ASSUME CascadeInv, NEW s \in jobTodo, BuildShard(s)
    PROVE  CascadeInv'
<1>1. /\ cascadeJob = "cascade" /\ cascadeJob' = "cascade" /\ rung' = rung /\ overwrite' = overwrite
      /\ due' = due /\ rolled' = rolled /\ jobTodo' = jobTodo \ {s} /\ idMap' = idMap
  BY DEF BuildShard
<1>2. /\ rung > 1 /\ jobTodo \subseteq RungSlots(rung) /\ s \in CascadeSlots /\ s[1] = rung /\ ~rolled
      /\ Shaped /\ AllSupported /\ Built
  BY <1>1 DEF CascadeInv, CascadeTypes, RungSlots, Rolled
<1>3. rung \in Nat /\ \A o \in RungSlots(rung - 1) : o \in CascadeSlots /\ o[1] = rung - 1 /\ o[1] < rung
  BY DEF CascadeInv, CascadeTypes, RungSlots
<1>4. ~due => \A o \in RungSlots(s[1] - 1) : Exact(o)
  BY <1>1, <1>2, <1>3 DEF Built
<1>5. CascadeTypes'
  BY <1>1 DEF CascadeTypes, CascadeInv
<1>6. Rolled'
  BY <1>1, <1>2 DEF Rolled
<1>7. CASE shards' = shards
  <2>1. AllSupported' /\ \A o \in CascadeSlots : Exact(o) => Exact(o)'
    BY <1>2, <1>7, LeavesStay
  <2>2. Shaped'
    BY <1>2, <1>7 DEF Shaped
  <2>3. ASSUME ~due PROVE Exact(s)
    <3>1. CASE ~overwrite /\ s \in StoredSlots
      BY <1>1, <1>2, <2>3, <3>1 DEF Built, StoredSlots
    <3>2. CASE Combine(s) = {}
      BY <1>2, <1>4, <2>3, <3>2, NothingToCombine DEF AllSupported
    <3>3. CASE ~(~overwrite /\ s \in StoredSlots) /\ Combine(s) # {}
      <4>1. shards' = [shards EXCEPT ![s] = Combine(s)]
        BY <3>3 DEF BuildShard
      <4>2. shards[s] = Combine(s)
        BY <1>2, <1>7, <4>1 DEF Shaped
      <4> QED BY <1>2, <1>4, <2>3, <4>2, CombineExact DEF Exact
    <3> QED BY <3>1, <3>2, <3>3
  <2>4. Built'
    <3>1. ASSUME ~due, NEW o \in CascadeSlots
          PROVE  /\ o[1] < rung \/ (o[1] = rung /\ o \notin jobTodo \ {s}) => Exact(o)'
                 /\ ~overwrite => Exact(o)' \/ shards'[o] = {}
      <4>1. /\ o[1] < rung \/ (o[1] = rung /\ o \notin jobTodo) => Exact(o)
            /\ ~overwrite => Exact(o) \/ shards[o] = {}
        BY <1>1, <1>2, <3>1 DEF Built
      <4>2. o = s => Exact(o)
        BY <2>3, <3>1
      <4> QED BY <1>7, <2>1, <4>1, <4>2
    <3> QED BY <1>1, <3>1 DEF Built
  <2> QED BY <1>5, <1>6, <2>1, <2>2, <2>4 DEF CascadeInv
<1>8. CASE shards' = [shards EXCEPT ![s] = Combine(s)]
  <2>1. DOMAIN shards = CascadeSlots
    BY <1>2 DEF Shaped
  <2>2. shards'[s] = Combine(s) /\ \A o \in CascadeSlots : o # s => shards'[o] = shards[o]
    BY <1>2, <1>8, <2>1
  <2>3. \A o \in RungSlots(1) : shards'[o] = shards[o]
    BY <1>2, <1>3, <2>2 DEF RungSlots
  <2>4. (\A o \in CascadeSlots : Expected(o)' = Expected(o)) /\ \A o, y : BaseLeaf(o, y)' <=> BaseLeaf(o, y)
    BY <2>3, BaseSame
  <2>5. Shaped'
    <3>1. ShapedRows(s, Combine(s))
      BY <1>2, CombineShaped
    <3>2. shards' \in [CascadeSlots -> SUBSET AnyRow]
      BY <1>2, <1>8, <3>1 DEF Shaped, ShapedRows
    <3>3. \A o \in CascadeSlots : ShapedRows(o, shards'[o])
      BY <1>2, <2>2, <3>1 DEF Shaped
    <3> QED BY <3>2, <3>3 DEF Shaped
  <2>6. AllSupported'
    <3>1. \A o \in RungSlots(s[1] - 1) : Supported(o)
      BY <1>2, <1>3 DEF AllSupported
    <3>2. ASSUME NEW o \in CascadeSlots, NEW row \in Leaves(shards'[o])
          PROVE  \E y : BaseLeaf(o, y) /\ row[1] = Low(y[1], Bin(o[1])) /\ row[2] = y[2]
      <4>1. CASE o = s
        BY <1>2, <2>2, <3>1, <3>2, <4>1, CombineSupported
      <4>2. CASE o # s
        BY <1>2, <2>2, <3>2, <4>2 DEF AllSupported, Supported
      <4> QED BY <4>1, <4>2
    <3>3. ASSUME NEW o \in CascadeSlots, NEW row \in Leaves(shards'[o])
          PROVE  \E y : BaseLeaf(o, y)' /\ row[1] = Low(y[1], Bin(o[1])) /\ row[2] = y[2]
      <4>1. PICK y : BaseLeaf(o, y) /\ row[1] = Low(y[1], Bin(o[1])) /\ row[2] = y[2]
        BY <3>2, <3>3
      <4> QED BY <2>4, <4>1
    <3> QED BY <3>3 DEF AllSupported, Supported
  <2>7. Built'
    <3>1. \A o \in CascadeSlots : o # s => (Exact(o)' <=> Exact(o))
      BY <2>2, <2>4 DEF Exact
    <3>2. ~due => Exact(s)'
      BY <1>2, <1>4, <2>2, <2>4, CombineExact DEF Exact
    <3>3. ASSUME ~due, NEW o \in CascadeSlots
          PROVE  /\ o[1] < rung \/ (o[1] = rung /\ o \notin jobTodo \ {s}) => Exact(o)'
                 /\ ~overwrite => Exact(o)' \/ shards'[o] = {}
      <4>1. /\ o[1] < rung \/ (o[1] = rung /\ o \notin jobTodo) => Exact(o)
            /\ ~overwrite => Exact(o) \/ shards[o] = {}
        BY <1>1, <1>2, <3>3 DEF Built
      <4> QED BY <2>2, <3>1, <3>2, <3>3, <4>1
    <3> QED BY <1>1, <3>3 DEF Built
  <2> QED BY <1>5, <1>6, <2>5, <2>6, <2>7 DEF CascadeInv
<1> QED BY <1>7, <1>8 DEF BuildShard

LEMMA RollKeeps ==
    ASSUME CascadeInv, NEW s \in jobTodo, RollShard(s)
    PROVE  CascadeInv'
<1>1. /\ cascadeJob = "canonicalize" /\ cascadeJob' = "canonicalize" /\ rung' = rung /\ overwrite' = overwrite
      /\ due' = due /\ rolled' = rolled /\ jobTodo' = jobTodo \ {s} /\ idMap' = idMap
      /\ shards' = [shards EXCEPT ![s] = Rollup(shards[s], idMap)]
  BY DEF RollShard
<1>2. s \in CascadeSlots /\ idMap \in IdMaps /\ Shaped /\ AllSupported /\ Built
  BY <1>1 DEF CascadeInv, CascadeTypes
<1>3. PICK m : m = idMap
  OBVIOUS
<1>4. PICK R : R = shards[s]
  OBVIOUS
<1>5. m \in IdMaps /\ ShapedRows(s, R)
  BY <1>2, <1>3, <1>4 DEF Shaped
<1>6. Leaves(Rollup(R, m)) = Leaves(R) /\ ShapedRows(s, Rollup(R, m)) /\ RolledBy(Rollup(R, m), m)
  BY <1>2, <1>5, RollLeaves, RollShaped, RollRolled
<1>7. DOMAIN shards = CascadeSlots
  BY <1>2 DEF Shaped
<1>8. shards'[s] = Rollup(R, m) /\ \A o \in CascadeSlots : o # s => shards'[o] = shards[o]
  BY <1>1, <1>2, <1>3, <1>4, <1>7
<1>9. \A o \in CascadeSlots : Leaves(shards'[o]) = Leaves(shards[o])
  BY <1>4, <1>6, <1>8
<1>10. AllSupported' /\ \A o \in CascadeSlots : Exact(o) => Exact(o)'
  BY <1>2, <1>9, LeavesStay
<1>11. Shaped'
  <2>1. shards' \in [CascadeSlots -> SUBSET AnyRow]
    BY <1>1, <1>2, <1>3, <1>4, <1>6 DEF Shaped, ShapedRows
  <2>2. \A o \in CascadeSlots : ShapedRows(o, shards'[o])
    BY <1>2, <1>6, <1>8 DEF Shaped
  <2> QED BY <2>1, <2>2 DEF Shaped
<1>12. Built'
  BY <1>1, <1>2, <1>10 DEF Built
<1>13. Rolled'
  <2> SUFFICES ASSUME rolled, NEW o \in CascadeSlots, o \notin jobTodo \ {s} PROVE RolledBy(shards'[o], idMap)
    BY <1>1 DEF Rolled
  <2>1. CASE o = s
    BY <1>3, <1>6, <1>8, <2>1
  <2>2. CASE o # s
    BY <1>1, <1>8, <2>2 DEF CascadeInv, Rolled
  <2> QED BY <2>1, <2>2
<1>14. CascadeTypes'
  BY <1>1 DEF CascadeTypes, CascadeInv
<1> QED BY <1>10, <1>11, <1>12, <1>13, <1>14 DEF CascadeInv

LEMMA CorrectKeeps ==
    ASSUME CascadeInv, NEW s \in RungSlots(1), CorrectBase(s)
    PROVE  CascadeInv'
<1>1. /\ cascadeJob' = cascadeJob /\ rung' = rung /\ overwrite' = overwrite /\ due' = TRUE /\ rolled' = FALSE
      /\ jobTodo' = jobTodo /\ idMap' = idMap /\ shards' = [shards EXCEPT ![s] = BaseRows(s[2], s[3], 3)]
  BY DEF CorrectBase
<1>2. s \in CascadeSlots /\ s[1] = 1 /\ Bin(s[1]) = 1 /\ Shaped /\ AllSupported
  BY CascadeAssumption DEF RungSlots, Bin, CascadeInv
<1>3. PICK R : R = BaseRows(s[2], s[3], 3)
  OBVIOUS
<1>4. ShapedRows(s, R)
  BY <1>3, BaseRowsShaped
<1>5. DOMAIN shards = CascadeSlots
  BY <1>2 DEF Shaped
<1>6. shards'[s] = R /\ \A o \in CascadeSlots : o # s => shards'[o] = shards[o]
  BY <1>1, <1>2, <1>3, <1>5
<1>7. Shaped'
  <2>1. shards' \in [CascadeSlots -> SUBSET AnyRow]
    BY <1>1, <1>2, <1>3, <1>4 DEF Shaped, ShapedRows
  <2>2. \A o \in CascadeSlots : ShapedRows(o, shards'[o])
    BY <1>2, <1>4, <1>6 DEF Shaped
  <2> QED BY <2>1, <2>2 DEF Shaped
<1>8. ASSUME NEW o \in CascadeSlots, NEW y, BaseLeaf(o, y)
      PROVE  \E z : BaseLeaf(o, z)' /\ z[1] = y[1] /\ z[2] = y[2]
  <2>1. PICK e \in RungSlots(1) : y \in shards[e] /\ e[2] <= y[1] /\ y[1] < e[3]
    BY <1>2, <1>8, BaseFacts DEF BaseLeaf
  <2>2. CASE e = s
    <3>1. PICK z : z = <<y[1], y[2], 3>>
      OBVIOUS
    <3>2. y[1] \in Nat /\ y[2] \in Tokens /\ s[2] \in Nat /\ s[3] \in Nat
      BY <1>2, <1>8, BaseFacts, RowParts, SlotIs DEF BaseLeaf
    <3>3. y[1] \in s[2] .. s[3] - 1
      BY <2>1, <2>2, <3>2
    <3>4. z \in R
      BY <1>3, <3>1, <3>2, <3>3 DEF BaseRows
    <3>5. z \in shards'[s]
      BY <1>6, <3>4
    <3>6. BaseOf(shards)' = UNION {shards'[q] : q \in RungSlots(1)}
      BY DEF BaseOf
    <3>7. z \in BaseOf(shards)'
      BY <3>5, <3>6
    <3> QED BY <1>8, <3>1, <3>7 DEF BaseLeaf
  <2>3. CASE e # s
    <3>1. y \in shards'[e]
      BY <1>6, <2>1, <2>3 DEF RungSlots
    <3>2. y \in BaseOf(shards)'
      BY <3>1 DEF BaseOf
    <3> QED BY <1>8, <3>2 DEF BaseLeaf
  <2> QED BY <2>2, <2>3
<1>9. ASSUME NEW o \in CascadeSlots, NEW row \in Leaves(shards'[o])
      PROVE  \E y : BaseLeaf(o, y)' /\ row[1] = Low(y[1], Bin(o[1])) /\ row[2] = y[2]
  <2>1. CASE o = s
    <3>1. row \in R /\ row[2] \in Tokens /\ row \in shards'[s]
      BY <1>6, <1>9, <2>1 DEF Leaves
    <3>2. row \in AnyRow /\ s[2] <= row[1] /\ row[1] < s[3]
      BY <1>4, <3>1 DEF ShapedRows
    <3>3. row[1] \in Nat
      BY <3>2, RowParts
    <3>4. Low(row[1], 1) = row[1]
      BY <3>3 DEF Low
    <3>5. BaseLeaf(s, row)'
      BY <3>1, <3>2 DEF BaseLeaf, BaseOf
    <3> QED BY <1>2, <2>1, <3>4, <3>5
  <2>2. CASE o # s
    <3>1. row \in Leaves(shards[o])
      BY <1>6, <1>9, <2>2
    <3>2. PICK y : BaseLeaf(o, y) /\ row[1] = Low(y[1], Bin(o[1])) /\ row[2] = y[2]
      BY <1>2, <3>1 DEF AllSupported, Supported
    <3>3. PICK z : BaseLeaf(o, z)' /\ z[1] = y[1] /\ z[2] = y[2]
      BY <1>8, <3>2
    <3> QED BY <3>2, <3>3
  <2> QED BY <2>1, <2>2
<1>10. AllSupported'
  BY <1>9 DEF AllSupported, Supported
<1> QED BY <1>1, <1>7, <1>10 DEF CascadeInv, CascadeTypes, Built, Rolled

LEMMA CascadeStep == CascadeInv /\ [NextCascade]_cascadeVars => CascadeInv'
<1> SUFFICES ASSUME CascadeInv, [NextCascade]_cascadeVars PROVE CascadeInv'
  OBVIOUS
<1>1. CascadeTypes /\ Shaped /\ AllSupported /\ Built /\ Rolled
  BY DEF CascadeInv
<1>2. ASSUME shards' = shards PROVE Shaped' /\ AllSupported' /\ \A s \in CascadeSlots : Exact(s) => Exact(s)'
  BY <1>1, <1>2, LeavesStay DEF Shaped
<1>3. CASE StartCascade
  <2>1. /\ cascadeJob = "idle" /\ cascadeJob' = "cascade" /\ rung' = 2 /\ jobTodo' = RungSlots(2)
        /\ overwrite' \in BOOLEAN /\ rolled' = FALSE /\ shards' = shards /\ idMap' = idMap
    BY <1>3 DEF StartCascade
  <2>2. due' = (due /\ ~overwrite' /\ StoredSlots # StoredSlots \cap RungSlots(1))
    BY <1>3 DEF StartCascade
  <2>3. CascadeTypes'
    <3>1. RungSlots(2) \subseteq CascadeSlots
      BY DEF RungSlots
    <3>2. due' \in BOOLEAN
      BY <2>2
    <3>3. cascadeJob' \in {"idle", "cascade", "canonicalize"} /\ cascadeJob' # "canonicalize"
      BY <2>1
    <3>4. rung' \in Nat \ {0} /\ rung' > 1 /\ jobTodo' \subseteq RungSlots(rung') /\ jobTodo' \subseteq CascadeSlots
      BY <2>1, <3>1
    <3>5. overwrite' \in BOOLEAN /\ rolled' \in BOOLEAN
      BY <2>1
    <3> QED BY <3>2, <3>3, <3>4, <3>5 DEF CascadeTypes
  <2>4. \A s \in CascadeSlots : s[1] \in Nat \ {0} /\ (s[1] = 1 => Exact(s))
    BY <1>1, SlotIs, BaseExact DEF RungSlots
  <2>5. ASSUME ~due', NEW s \in CascadeSlots
        PROVE  /\ s[1] < 2 \/ (s[1] = 2 /\ s \notin RungSlots(2)) => Exact(s)
               /\ ~overwrite' => Exact(s) \/ shards[s] = {}
    <3>1. s[1] < 2 \/ (s[1] = 2 /\ s \notin RungSlots(2)) => s[1] = 1
      BY <2>4 DEF RungSlots
    <3>2. CASE ~due
      BY <1>1, <2>1, <2>4, <3>1, <3>2 DEF Built
    <3>3. CASE due /\ ~overwrite'
      <4>1. StoredSlots = StoredSlots \cap RungSlots(1)
        BY <2>2, <2>5, <3>3
      <4>2. shards[s] = {} \/ s[1] = 1
        BY <4>1 DEF StoredSlots, RungSlots
      <4> QED BY <2>4, <3>1, <4>2
    <3>4. CASE overwrite'
      BY <2>4, <3>1, <3>4
    <3> QED BY <3>2, <3>3, <3>4
  <2>6. \A s \in CascadeSlots : Exact(s) => Exact(s)'
    BY <1>2, <2>1
  <2>7. Built'
    BY <2>1, <2>5, <2>6 DEF Built
  <2> QED BY <1>2, <2>1, <2>3, <2>7 DEF CascadeInv, Rolled
<1>4. CASE NextRung
  <2>1. /\ cascadeJob = "cascade" /\ jobTodo = {} /\ shards' = shards
        /\ overwrite' = overwrite /\ due' = due /\ rolled' = rolled /\ idMap' = idMap
    BY <1>4 DEF NextRung
  <2>2. rung \in Nat \ {0} /\ rung > 1 /\ ~rolled
    BY <1>1, <2>1 DEF CascadeTypes, Rolled
  <2>3. /\ Len(CascadeRungs) \in Nat /\ DOMAIN CascadeRungs = 1 .. Len(CascadeRungs)
        /\ \A s \in CascadeSlots : s[1] \in Nat /\ s[1] <= Len(CascadeRungs)
    <3>1. PICK T : T = [bin : Nat \ {0}, periods : SUBSET (Nat \X Nat)]
      OBVIOUS
    <3>2. CascadeRungs \in Seq(T)
      BY <3>1, CascadeAssumption
    <3>3. Len(CascadeRungs) \in Nat /\ DOMAIN CascadeRungs = 1 .. Len(CascadeRungs)
      BY <3>2
    <3>4. ASSUME NEW s \in CascadeSlots PROVE s[1] \in Nat /\ s[1] <= Len(CascadeRungs)
      <4>1. PICK n, r : n = Len(CascadeRungs) /\ r = s[1]
        OBVIOUS
      <4>2. n \in Nat /\ r \in 1 .. n
        BY <3>3, <4>1, SlotIs
      <4>3. r \in Nat /\ r <= n
        BY <4>2
      <4> QED BY <4>1, <4>3
    <3> QED BY <3>3, <3>4
  <2>4. ASSUME ~due, NEW s \in CascadeSlots, s[1] < rung + 1 PROVE Exact(s)
    <3>1. s[1] < rung \/ s[1] = rung
      BY <2>2, <2>3, <2>4
    <3> QED BY <1>1, <2>1, <2>4, <3>1 DEF Built
  <2>5. CASE rung < Len(CascadeRungs) /\ rung' = rung + 1 /\ jobTodo' = RungSlots(rung + 1) /\ cascadeJob' = cascadeJob
    <3>1. rung + 1 \in Nat \ {0} /\ rung + 1 > 1 /\ RungSlots(rung + 1) \subseteq CascadeSlots
      BY <2>2 DEF RungSlots
    <3>2. CascadeTypes'
      BY <1>1, <2>1, <2>5, <3>1 DEF CascadeTypes
    <3>3. ASSUME ~due, NEW s \in CascadeSlots
          PROVE  /\ s[1] < rung + 1 \/ (s[1] = rung + 1 /\ s \notin RungSlots(rung + 1)) => Exact(s)'
                 /\ ~overwrite => Exact(s)' \/ shards'[s] = {}
      <4>1. s[1] < rung + 1 => Exact(s)
        BY <2>4, <3>3
      <4>2. ~overwrite => Exact(s) \/ shards[s] = {}
        BY <1>1, <2>1, <3>3 DEF Built
      <4> QED BY <1>2, <2>1, <4>1, <4>2 DEF RungSlots
    <3>4. Built'
      BY <2>1, <2>5, <3>3 DEF Built
    <3> QED BY <1>2, <2>1, <2>2, <3>2, <3>4 DEF CascadeInv, Rolled
  <2>6. CASE ~(rung < Len(CascadeRungs)) /\ cascadeJob' = "idle" /\ rung' = rung /\ jobTodo' = jobTodo
    <3>1. CascadeTypes'
      BY <1>1, <2>1, <2>6 DEF CascadeTypes
    <3>2. \A s \in CascadeSlots : s[1] < rung + 1
      BY <2>2, <2>3, <2>6
    <3>3. Built'
      BY <1>2, <2>1, <2>4, <2>6, <3>2 DEF Built
    <3> QED BY <1>2, <2>1, <2>2, <3>1, <3>3 DEF CascadeInv, Rolled
  <2> QED BY <1>4, <2>5, <2>6 DEF NextRung
<1>5. CASE EndCanonicalize
  <2>1. /\ cascadeJob = "canonicalize" /\ cascadeJob' = "idle" /\ jobTodo = {} /\ shards' = shards
        /\ rung' = rung /\ jobTodo' = jobTodo /\ overwrite' = overwrite /\ due' = due /\ rolled' = rolled
        /\ idMap' = idMap
    BY <1>5 DEF EndCanonicalize
  <2>2. CascadeTypes'
    BY <1>1, <2>1 DEF CascadeTypes
  <2>3. Built'
    BY <1>1, <1>2, <2>1 DEF Built
  <2>4. Rolled'
    BY <1>1, <2>1 DEF Rolled
  <2> QED BY <1>2, <2>1, <2>2, <2>3, <2>4 DEF CascadeInv
<1>6. ASSUME NEW m \in IdMaps, StartCanonicalize(m) PROVE CascadeInv'
  <2>1. /\ cascadeJob = "idle" /\ cascadeJob' = "canonicalize" /\ jobTodo' = CascadeSlots /\ idMap' = m
        /\ rolled' = TRUE /\ shards' = shards /\ rung' = rung /\ overwrite' = overwrite /\ due' = due
    BY <1>6 DEF StartCanonicalize
  <2>2. CascadeTypes'
    BY <1>1, <1>6, <2>1 DEF CascadeTypes
  <2>3. Built'
    BY <1>1, <1>2, <2>1 DEF Built
  <2>4. Rolled'
    BY <2>1 DEF Rolled
  <2> QED BY <1>2, <2>1, <2>2, <2>3, <2>4 DEF CascadeInv
<1>7. ASSUME NEW s \in jobTodo, ShardRaises(s) PROVE CascadeInv'
  <2>1. /\ cascadeJob' = cascadeJob /\ jobTodo' = jobTodo \ {s} /\ shards' = shards /\ rung' = rung
        /\ overwrite' = overwrite /\ due' = (due \/ cascadeJob = "cascade") /\ rolled' = FALSE /\ idMap' = idMap
    BY <1>7 DEF ShardRaises
  <2>2. CascadeTypes'
    <3>1. due' \in BOOLEAN
      BY <2>1
    <3> QED BY <1>1, <2>1, <3>1 DEF CascadeTypes
  <2>3. Built'
    <3>1. ~due' => ~due /\ cascadeJob # "cascade"
      BY <1>1, <2>1 DEF CascadeTypes
    <3> QED BY <1>1, <1>2, <2>1, <3>1 DEF Built
  <2>4. Rolled'
    BY <2>1 DEF Rolled
  <2> QED BY <1>2, <2>1, <2>2, <2>3, <2>4 DEF CascadeInv
<1>8. CASE UNCHANGED cascadeVars
  <2>1. /\ shards' = shards /\ cascadeJob' = cascadeJob /\ rung' = rung /\ jobTodo' = jobTodo
        /\ overwrite' = overwrite /\ due' = due /\ rolled' = rolled /\ idMap' = idMap
    BY <1>8 DEF cascadeVars
  <2>2. CascadeTypes'
    BY <1>1, <2>1 DEF CascadeTypes
  <2>3. Built'
    BY <1>1, <1>2, <2>1 DEF Built
  <2>4. Rolled'
    BY <1>1, <2>1 DEF Rolled
  <2> QED BY <1>2, <2>1, <2>2, <2>3, <2>4 DEF CascadeInv
<1> QED BY <1>3, <1>4, <1>5, <1>6, <1>7, <1>8, BuildKeeps, RollKeeps, CorrectKeeps DEF NextCascade

LEMMA CascadeMeans == CascadeInv => CascadeSound
<1> SUFFICES ASSUME CascadeInv PROVE CascadeSound
  OBVIOUS
<1>1. CascadeExact
  <2>1. \A s \in CascadeSlots : Leaves(shards[s]) = {r \in shards[s] : r[2] \in Tokens}
    BY DEF Leaves
  <2> QED BY <2>1 DEF CascadeExact, CascadeInv, Built, Exact
<1>2. RollupExact
  <2>1. cascadeJob = "idle" /\ rolled => \A s \in CascadeSlots : RolledBy(shards[s], idMap)
    BY DEF CascadeInv, Rolled
  <2> QED BY <2>1 DEF RollupExact, RolledBy, Merged
<1> QED BY <1>1, <1>2 DEF CascadeSound

\* cascade_tiers and canonicalize_shards, for any ladder whose bins divide each
\* other, any base and any id-maps: a cascade that ended without an error leaves
\* in every shard the base rows of its period, once each, and a rollup that did
\* leaves beside them the sums of its own leaves by its map, and nothing older.
THEOREM CascadeSoundHolds == SpecCascade => []CascadeSound
<1>1. SpecCascade => []CascadeInv
  BY CascadeInit, CascadeStep, PTL DEF SpecCascade
<1> QED BY <1>1, CascadeMeans, PTL

-----------------------------------------------------------------------------
(* The materializer: rows that count units *)

\* Rows that count the units us in bins of b: F gives each row its units.
Counted(R, F, us, b) ==
    /\ IsFiniteSet(R)
    /\ \A r \in R : /\ r.bin \in Nat /\ F[r] # {} /\ IsFiniteSet(F[r]) /\ Cardinality(F[r]) = r.n
                    /\ \A u \in F[r] : u \in us /\ Floor(u, b) = r.bin
    /\ \A r, q \in R : \A u : u \in F[r] /\ u \in F[q] => r = q
    /\ \A u \in us : \E r \in R : u \in F[r]

Single(R) == \A r, q \in R : r.bin = q.bin => r = q

RowWeights(S) == [r \in S |-> r.n]

SumOfRows(S, f) ==
    f = [s \in SUBSET S |-> IF s = {} THEN 0 ELSE LET x == CHOOSE y \in s : TRUE IN x.n + f[s \ {x}]]

LEMMA CountIs ==
    ASSUME NEW S, IsFiniteSet(S), NEW F, Sized(S, RowWeights(S), F)
    PROVE  CountOf(S) = Cardinality(Image(F, S))
<1>0. \A x \in S : RowWeights(S)[x] \in Nat
  <2> SUFFICES ASSUME NEW x \in S PROVE RowWeights(S)[x] \in Nat
    OBVIOUS
  <2>1. IsFiniteSet(F[x]) /\ RowWeights(S)[x] = Cardinality(F[x])
    BY DEF Sized
  <2> QED BY <2>1, FS_CardinalityType
<1>1. PICK g : Sums(S, RowWeights(S), g)
  BY <1>0, SumsExist
<1>2. \A f : Sums(S, RowWeights(S), f) <=> SumOfRows(S, f)
  BY DEF Sums, RowWeights, Picked, SumOfRows
<1>3. PICK c : c = CHOOSE f : SumOfRows(S, f)
  OBVIOUS
<1>4. Sums(S, RowWeights(S), c)
  BY <1>1, <1>2, <1>3
<1>5. CountOf(S) = c[S]
  BY <1>3 DEF CountOf, MapThenSumSet, MapThenFoldSet, SumOfRows
<1> QED BY <1>4, <1>5, SumsTo

\* Raw rows in bins.
LEMMA GroupedCounted ==
    ASSUME NEW us \in SUBSET Nat, IsFiniteSet(us), NEW b \in Nat \ {0}, NEW part
    PROVE  /\ \E F : Counted(Grouped(us, b, part), F, us, b)
           /\ Single(Grouped(us, b, part))
           /\ \A r \in Grouped(us, b, part) : r.part = part
<1> DEFINE R == Grouped(us, b, part)
           In(x) == {u \in us : Floor(u, b) = x}
           row(u) == [bin |-> Floor(u, b), n |-> Cardinality(In(Floor(u, b))), part |-> part]
           F == [r \in R |-> In(r.bin)]
<1>1. R = {row(u) : u \in us}
  BY DEF Grouped
<1>2. IsFiniteSet(R)
  <2> DEFINE g == [u \in us |-> row(u)]
  <2>1. g \in Surjection(us, R)
    <3>1. g \in [us -> R] /\ \A r \in R : \E u \in us : g[u] = r
      BY <1>1
    <3> QED BY <3>1 DEF Surjection
  <2> QED BY <2>1, FS_Surjection
<1>3. ASSUME NEW r \in R
      PROVE  /\ r.bin \in Nat /\ F[r] # {} /\ IsFiniteSet(F[r]) /\ Cardinality(F[r]) = r.n
             /\ \A u \in F[r] : u \in us /\ Floor(u, b) = r.bin
             /\ r.part = part
  <2>1. PICK u \in us : r = row(u)
    BY <1>1
  <2>2. r.bin = Floor(u, b) /\ r.n = Cardinality(In(r.bin)) /\ r.part = part /\ F[r] = In(r.bin)
    BY <2>1
  <2>3. u \in In(r.bin) /\ Floor(u, b) \in Nat
    BY <2>2, LowFacts DEF Floor, Low
  <2>4. IsFiniteSet(In(r.bin))
    BY FS_Subset
  <2> QED BY <2>2, <2>3, <2>4
<1>4. Single(R)
  <2> SUFFICES ASSUME NEW r \in R, NEW q \in R, r.bin = q.bin PROVE r = q
    BY DEF Single
  <2>1. PICK u \in us, v \in us : r = row(u) /\ q = row(v)
    BY <1>1
  <2>2. Floor(u, b) = Floor(v, b)
    BY <2>1
  <2> QED BY <2>1, <2>2
<1>5. \A u \in us : \E r \in R : u \in F[r]
  <2> SUFFICES ASSUME NEW u \in us PROVE \E r \in R : u \in F[r]
    OBVIOUS
  <2>1. row(u) \in R /\ row(u).bin = Floor(u, b)
    BY <1>1
  <2>2. u \in F[row(u)]
    BY <2>1
  <2> QED BY <2>1, <2>2
<1>6. \A r, q \in R : \A u : u \in F[r] /\ u \in F[q] => r = q
  BY <1>3, <1>4 DEF Single
<1> HIDE DEF R, F
<1>7. Counted(R, F, us, b)
  BY <1>2, <1>3, <1>5, <1>6 DEF Counted
<1>8. (\E H : Counted(R, H, us, b)) /\ Single(R) /\ \A r \in R : r.part = part
  BY <1>3, <1>4, <1>7
<1> QED BY <1>8 DEF R

\* Rows of parts that have no row and no unit in common.
LEMMA UnionCounted ==
    ASSUME NEW P, IsFiniteSet(P), NEW G, NEW U, NEW b,
           \A p \in P : \E F : Counted(G[p], F, U[p], b),
           \A p, q \in P : \A u : u \in U[p] /\ u \in U[q] => p = q,
           \A p, q \in P : \A r : r \in G[p] /\ r \in G[q] => p = q
    PROVE  \E F : Counted(Image(G, P), F, Image(U, P), b)
<1> DEFINE R == Image(G, P)
           Of(p) == CHOOSE F : Counted(G[p], F, U[p], b)
           At(r) == CHOOSE p \in P : r \in G[p]
           F == [r \in R |-> Of(At(r))[r]]
<1>1. \A p \in P : Counted(G[p], Of(p), U[p], b)
  OBVIOUS
<1> HIDE DEF Of
<1>2. \A p \in P : \A r \in G[p] : r \in R /\ F[r] = Of(p)[r]
  <2> SUFFICES ASSUME NEW p \in P, NEW r \in G[p] PROVE r \in R /\ F[r] = Of(p)[r]
    OBVIOUS
  <2>1. r \in R
    BY DEF Image
  <2>2. At(r) \in P /\ r \in G[At(r)]
    OBVIOUS
  <2>3. At(r) = p
    BY <2>2
  <2> QED BY <2>1, <2>3
<1>3. \A r \in R : \E p \in P : r \in G[p]
  BY DEF Image
<1>4. IsFiniteSet(R)
  BY <1>1, ImageFinite DEF Counted
<1> HIDE DEF R, F
<1>5. ASSUME NEW r \in R
      PROVE  /\ r.bin \in Nat /\ F[r] # {} /\ IsFiniteSet(F[r]) /\ Cardinality(F[r]) = r.n
             /\ \A u \in F[r] : u \in Image(U, P) /\ Floor(u, b) = r.bin
  <2>1. PICK p \in P : r \in G[p]
    BY <1>3
  <2>2. F[r] = Of(p)[r] /\ Counted(G[p], Of(p), U[p], b)
    BY <1>1, <1>2, <2>1
  <2> QED BY <2>1, <2>2 DEF Counted, Image
<1>6. ASSUME NEW r \in R, NEW q \in R, NEW u, u \in F[r], u \in F[q] PROVE r = q
  <2>1. PICK p \in P, o \in P : r \in G[p] /\ q \in G[o]
    BY <1>3
  <2>2. /\ F[r] = Of(p)[r] /\ Counted(G[p], Of(p), U[p], b)
        /\ F[q] = Of(o)[q] /\ Counted(G[o], Of(o), U[o], b)
    BY <1>1, <1>2, <2>1
  <2>3. u \in U[p] /\ u \in U[o]
    BY <1>6, <2>1, <2>2 DEF Counted
  <2>4. p = o
    BY <2>3
  <2> QED BY <1>6, <2>1, <2>2, <2>4 DEF Counted
<1>7. ASSUME NEW u \in Image(U, P) PROVE \E r \in R : u \in F[r]
  <2>1. PICK p \in P : u \in U[p]
    BY DEF Image
  <2>2. PICK r \in G[p] : u \in Of(p)[r]
    BY <1>1, <2>1 DEF Counted
  <2> QED BY <1>2, <2>2
<1>8. Counted(R, F, Image(U, P), b)
  BY <1>4, <1>5, <1>6, <1>7 DEF Counted
<1> QED BY <1>8 DEF R

\* Rows combined into longer bins.
LEMMA CombinedCounted ==
    ASSUME NEW R, NEW F, NEW us \in SUBSET Nat, NEW a \in Nat \ {0}, NEW b \in Nat \ {0}, b % a = 0,
           Counted(R, F, us, a)
    PROVE  (\E H : Counted(Combined(R, b), H, us, b)) /\ Single(Combined(R, b))
<1> DEFINE C == Combined(R, b)
           Of(x) == {r \in R : Floor(r.bin, b) = x}
           row(r) == [bin |-> Floor(r.bin, b), n |-> CountOf(Of(Floor(r.bin, b))), part |-> 0]
           H == [c \in C |-> Image(F, Of(c.bin))]
<1>1. C = {row(r) : r \in R}
  BY DEF Combined
<1>2. IsFiniteSet(C)
  <2> DEFINE g == [r \in R |-> row(r)]
  <2>1. g \in Surjection(R, C)
    <3>1. g \in [R -> C] /\ \A c \in C : \E r \in R : g[r] = c
      BY <1>1
    <3> QED BY <3>1 DEF Surjection
  <2>2. IsFiniteSet(R)
    BY DEF Counted
  <2> QED BY <2>1, <2>2, FS_Surjection
<1>3. Single(C)
  <2> SUFFICES ASSUME NEW c \in C, NEW q \in C, c.bin = q.bin PROVE c = q
    BY DEF Single
  <2>1. PICK r \in R, o \in R : c = row(r) /\ q = row(o)
    BY <1>1
  <2>2. Floor(r.bin, b) = Floor(o.bin, b)
    BY <2>1
  <2> QED BY <2>1, <2>2
<1>4. ASSUME NEW r \in R, NEW u \in F[r]
      PROVE  u \in us /\ u \in Nat /\ Floor(u, b) = Floor(r.bin, b)
  <2>1. u \in us /\ Floor(u, a) = r.bin
    BY <1>4 DEF Counted
  <2>2. Floor(Floor(u, a), b) = Floor(u, b)
    BY <2>1, LowLow DEF Floor, Low
  <2> QED BY <2>1, <2>2
<1>5. ASSUME NEW c \in C
      PROVE  /\ c.bin \in Nat /\ H[c] # {} /\ IsFiniteSet(H[c]) /\ Cardinality(H[c]) = c.n
             /\ \A u \in H[c] : u \in us /\ Floor(u, b) = c.bin
  <2>1. PICK r \in R : c = row(r)
    BY <1>1
  <2>2. c.bin = Floor(r.bin, b) /\ c.n = CountOf(Of(c.bin)) /\ H[c] = Image(F, Of(c.bin)) /\ r \in Of(c.bin)
    BY <2>1
  <2>3. c.bin \in Nat
    <3>1. r.bin \in Nat
      BY DEF Counted
    <3> QED BY <2>2, <3>1, LowFacts DEF Floor, Low
  <2> DEFINE S == Of(c.bin)
  <2>4. IsFiniteSet(S) /\ Sized(S, RowWeights(S), F)
    <3>1. IsFiniteSet(R) /\ S \subseteq R
      BY DEF Counted
    <3>2. IsFiniteSet(S)
      BY <3>1, FS_Subset
    <3> HIDE DEF S
    <3>3. \A x \in S : IsFiniteSet(F[x]) /\ RowWeights(S)[x] = Cardinality(F[x])
      BY <3>1 DEF Counted, RowWeights
    <3>4. \A x, y \in S : \A u : u \in F[x] /\ u \in F[y] => x = y
      BY <3>1 DEF Counted
    <3> QED BY <3>2, <3>3, <3>4 DEF Sized
  <2>5. CountOf(S) = Cardinality(Image(F, S)) /\ IsFiniteSet(Image(F, S))
    <3> HIDE DEF S
    <3>1. \A x \in S : IsFiniteSet(F[x])
      BY <2>4 DEF Sized
    <3> QED BY <2>4, <3>1, CountIs, ImageFinite
  <2>6. H[c] # {}
    <3>1. F[r] # {}
      BY DEF Counted
    <3> QED BY <2>2, <3>1 DEF Image
  <2>7. \A u \in H[c] : u \in us /\ Floor(u, b) = c.bin
    <3> SUFFICES ASSUME NEW u \in H[c] PROVE u \in us /\ Floor(u, b) = c.bin
      OBVIOUS
    <3>1. PICK x \in Of(c.bin) : u \in F[x]
      BY <2>2 DEF Image
    <3> QED BY <1>4, <3>1
  <2> QED BY <2>2, <2>3, <2>5, <2>6, <2>7
<1>6. \A u \in us : \E c \in C : u \in H[c]
  <2> SUFFICES ASSUME NEW u \in us PROVE \E c \in C : u \in H[c]
    OBVIOUS
  <2>1. PICK r \in R : u \in F[r]
    BY DEF Counted
  <2>2. row(r) \in C /\ row(r).bin = Floor(r.bin, b) /\ r \in Of(row(r).bin)
    BY <1>1
  <2>3. u \in H[row(r)]
    BY <2>1, <2>2 DEF Image
  <2> QED BY <2>2, <2>3
<1>7. \A c, q \in C : \A u : u \in H[c] /\ u \in H[q] => c = q
  BY <1>3, <1>5 DEF Single
<1> HIDE DEF C, H
<1>8. Counted(C, H, us, b)
  BY <1>2, <1>5, <1>6, <1>7 DEF Counted
<1>9. (\E K : Counted(C, K, us, b)) /\ Single(C)
  BY <1>3, <1>8
<1> QED BY <1>9 DEF C

\* The rows of a period.
RowsWithin(R, lo, hi) == {r \in R : lo <= r.bin /\ r.bin < hi}
UnitsWithin(us, b, lo, hi) == {u \in us : lo <= Floor(u, b) /\ Floor(u, b) < hi}

LEMMA ClippedCounted ==
    ASSUME NEW R, NEW F, NEW us, NEW b, NEW lo, NEW hi, Counted(R, F, us, b)
    PROVE  Counted(RowsWithin(R, lo, hi), F, UnitsWithin(us, b, lo, hi), b)
<1>0. PICK S, V : /\ S = RowsWithin(R, lo, hi) /\ S = {r \in R : lo <= r.bin /\ r.bin < hi}
                  /\ V = UnitsWithin(us, b, lo, hi) /\ V = {u \in us : lo <= Floor(u, b) /\ Floor(u, b) < hi}
  BY DEF RowsWithin, UnitsWithin
<1>1. IsFiniteSet(S)
  BY <1>0, FS_Subset DEF Counted
<1>2. \A r \in S : r \in R /\ \A u \in F[r] : u \in V /\ Floor(u, b) = r.bin
  BY <1>0 DEF Counted
<1>3. \A u \in V : \E r \in S : u \in F[r]
  <2> SUFFICES ASSUME NEW u \in V PROVE \E r \in S : u \in F[r]
    OBVIOUS
  <2>1. PICK r \in R : u \in F[r] /\ Floor(u, b) = r.bin
    BY <1>0 DEF Counted
  <2> QED BY <1>0, <2>1
<1> QED BY <1>0, <1>1, <1>2, <1>3 DEF Counted

-----------------------------------------------------------------------------
(* The ladder of a materializer *)

LadderOk(l) ==
    /\ Len(l) \in Nat \ {0} /\ DOMAIN l = 1 .. Len(l)
    /\ \A t \in DOMAIN l :
          /\ l[t].bin \in Nat \ {0} /\ l[t].shards # {}
          /\ l[t].shards \subseteq Nat \ {0} /\ IsFiniteSet(l[t].shards)
          /\ t > 1 => \E c \in 1 .. t - 1 : l[t].bin % l[c].bin = 0
          /\ \A d \in l[t].shards : d % l[t].bin = 0
          /\ \A d, e \in l[t].shards : d <= e => e % d = 0

LEMMA MatNumbers ==
    /\ MatGenesis \in Nat /\ DayLen \in Nat \ {0} /\ MaxMatFaults \in Nat
    /\ RawChoices \subseteq SUBSET Nat
    /\ \A l \in MatLadders : LadderOk(l)
BY MatAssumption DEF LadderOk

LEMMA MatEndFacts == MatEnd \in Nat \ {0} /\ Min(MatClocks) \in MatClocks /\ \A n \in MatClocks : n \in Nat /\ n <= MatEnd
<1>1. PICK m \in MatClocks : MatClocks \subseteq 1 .. m
  BY MatAssumption
<1>2. m \in Nat /\ MatClocks \subseteq 0 .. m /\ MatClocks # {} /\ MatClocks \subseteq Nat
  BY <1>1
<1>3. Max(MatClocks) \in MatClocks /\ \A n \in MatClocks : n <= Max(MatClocks)
  BY <1>2, GreatestIn
<1>4. \A n \in MatClocks : n \in Nat \ {0}
  BY <1>1
<1> QED BY <1>2, <1>3, <1>4, LeastIn DEF MatEnd

LEMMA MTierShape ==
    ASSUME matLadder \in MatLadders, NEW t \in DOMAIN matLadder, NEW s \in MTier(t)
    PROVE  /\ s[1] = t /\ Dur(s) \in matLadder[t].shards /\ s \in MShards
           /\ s[2] \in Nat /\ s[3] \in Nat /\ s[3] = s[2] + Dur(s) /\ s[2] < s[3]
           /\ s[2] % MBin(s) = 0 /\ s[3] % MBin(s) = 0 /\ MBin(s) \in Nat \ {0}
           /\ s[2] % Dur(s) = 0 /\ s[3] % Dur(s) = 0
           /\ \E k \in Nat : s = <<t, k * Dur(s), (k + 1) * Dur(s)>>
<1>1. PICK d \in matLadder[t].shards : \E k \in 0 .. (MatEnd - 1) \div d : s = <<t, k * d, (k + 1) * d>>
  BY DEF MTier, ShardsOf, Spans
<1>0. PICK k \in 0 .. (MatEnd - 1) \div d : s = <<t, k * d, (k + 1) * d>>
  BY <1>1
<1>2. d \in Nat \ {0} /\ MatEnd - 1 \in Nat /\ matLadder[t].bin \in Nat \ {0} /\ d % matLadder[t].bin = 0
  BY MatNumbers, MatEndFacts DEF LadderOk
<1>3. k \in Nat
  BY <1>2
<1>4. k * d \in Nat /\ (k + 1) * d \in Nat /\ (k + 1) * d = k * d + d
  BY <1>2, <1>3
<1>5. s[1] = t /\ s[2] = k * d /\ s[3] = (k + 1) * d
  BY <1>0
<1>6. Dur(s) = d
  BY <1>2, <1>4, <1>5 DEF Dur
<1>7. s \in MShards
  BY DEF MShards
<1>8. (k * d) % d = 0 /\ ((k + 1) * d) % d = 0
  BY <1>2, <1>3
<1>9. (k * d) % matLadder[t].bin = 0 /\ ((k + 1) * d) % matLadder[t].bin = 0
  BY <1>2, <1>4, <1>8, ModTrans
<1>10. MBin(s) = matLadder[t].bin
  BY <1>5 DEF MBin
<1>11. s[3] = s[2] + Dur(s) /\ s[2] < s[3]
  BY <1>2, <1>4, <1>5, <1>6
<1> QED BY <1>0, <1>2, <1>3, <1>4, <1>5, <1>6, <1>7, <1>8, <1>9, <1>10, <1>11

LEMMA MShardTier ==
    ASSUME matLadder \in MatLadders, NEW s \in MShards
    PROVE  s[1] \in DOMAIN matLadder /\ s \in MTier(s[1])
<1>1. PICK t \in DOMAIN matLadder : s \in MTier(t)
  BY DEF MShards
<1> QED BY <1>1, MTierShape

LEMMA AboveFacts ==
    ASSUME matLadder \in MatLadders, NEW t \in DOMAIN matLadder, t # 1
    PROVE  /\ t \in Nat /\ t > 1 /\ Above(t) \in 1 .. t - 1 /\ Above(t) \in DOMAIN matLadder
           /\ matLadder[t].bin % matLadder[Above(t)].bin = 0
<1> DEFINE S == {c \in 1 .. t - 1 : matLadder[t].bin % matLadder[c].bin = 0}
<1>1. LadderOk(matLadder)
  BY MatNumbers
<1>2. t \in Nat /\ t > 1 /\ 1 .. t - 1 \subseteq DOMAIN matLadder
  BY <1>1 DEF LadderOk
<1>3. S # {} /\ S \subseteq 0 .. t
  <2>1. \E c \in 1 .. t - 1 : matLadder[t].bin % matLadder[c].bin = 0
    BY <1>1, <1>2 DEF LadderOk
  <2> QED BY <1>2, <2>1
<1>4. Max(S) \in S
  BY <1>2, <1>3, GreatestIn
<1>5. Above(t) = Max(S)
  BY DEF Above
<1> HIDE DEF S
<1>6. Above(t) \in S
  BY <1>4, <1>5
<1> QED BY <1>2, <1>6 DEF S

LEMMA MNested ==
    ASSUME matLadder \in MatLadders, NEW t \in DOMAIN matLadder, NEW s \in MTier(t), NEW o \in MTier(t),
           Dur(s) <= Dur(o), NEW u \in Nat, Holds(s, u), Holds(o, u)
    PROVE  Within(s, o)
<1> DEFINE c == Dur(s)
           d == Dur(o)
<1>1. c \in Nat \ {0} /\ d \in Nat \ {0} /\ d % c = 0
  <2>1. c \in matLadder[t].shards /\ d \in matLadder[t].shards
    BY MTierShape
  <2> HIDE DEF c, d
  <2>2. c <= d
    BY DEF c, d
  <2> QED BY <2>1, <2>2, MatNumbers DEF LadderOk
<1>2. s[2] \in Nat /\ s[2] % c = 0 /\ o[2] \in Nat /\ o[2] % d = 0 /\ s[3] = s[2] + c /\ o[3] = o[2] + d
  BY MTierShape
<1>3. s[2] <= u /\ u < s[2] + c /\ o[2] <= u /\ u < o[2] + d
  BY <1>2 DEF Holds
<1> HIDE DEF c, d
<1>4. s[2] = Low(u, c) /\ o[2] = Low(u, d)
  BY <1>1, <1>2, <1>3, LowUnique
<1>5. Low(u, d) <= Low(u, c) /\ Low(u, c) + c <= Low(u, d) + d
  BY <1>1, LowLow
<1> QED BY <1>2, <1>4, <1>5 DEF Within

LEMMA MCoverFacts ==
    ASSUME matLadder \in MatLadders, matNow \in MatClocks, NEW s \in MCover
    PROVE  s \in MShards /\ s[3] <= matNow /\ s[3] <= MatEnd /\ s[3] > MatGenesis
<1>1. s \in MShards /\ s[3] <= matNow /\ s[3] > MatGenesis
  BY DEF MCover, MinCover
<1>2. s[3] \in Nat
  BY <1>1, MShardTier, MTierShape
<1> QED BY <1>1, <1>2, MatEndFacts

\* The shards of a cover that are of one tier have no unit in common.
LEMMA MCoverApart ==
    ASSUME matLadder \in MatLadders, matNow \in MatClocks, NEW s \in MCover, NEW o \in MCover, s[1] = o[1],
           NEW u \in Nat, Holds(s, u), Holds(o, u)
    PROVE  s = o
<1>1. s \in MTier(s[1]) /\ o \in MTier(s[1]) /\ s[1] \in DOMAIN matLadder /\ s \in MShards /\ o \in MShards
  BY MCoverFacts, MShardTier
<1>2. ASSUME NEW x \in MCover, NEW y \in MCover, x[1] = y[1], Within(x, y) PROVE x = y
  <2>1. \A z \in MShards : (z[1] = x[1] /\ z # x /\ Within(x, z)) => z[3] > matNow
    BY DEF MCover, MinCover
  <2>2. y \in MShards /\ y[3] <= matNow /\ y[3] \in Nat /\ matNow \in Nat
    BY MCoverFacts, MShardTier, MTierShape, MatEndFacts
  <2> QED BY <1>2, <2>1, <2>2
<1>3. Dur(s) \in Nat /\ Dur(o) \in Nat
  BY <1>1, MTierShape, MatNumbers DEF LadderOk
<1>4. CASE Dur(s) <= Dur(o)
  BY <1>1, <1>2, <1>4, MNested
<1>5. CASE Dur(o) <= Dur(s)
  <2>1. Within(o, s)
    BY <1>1, <1>5, MNested
  <2> QED BY <1>2, <2>1
<1> QED BY <1>3, <1>4, <1>5

-----------------------------------------------------------------------------
(* What a shard holds *)

EffFacts(s) == EffStart(s) \in Nat /\ EffStart(s) >= s[2] /\ EffStart(s) >= MatGenesis
               /\ (EffStart(s) = s[2] \/ EffStart(s) = MatGenesis)

LEMMA EffIs ==
    ASSUME matLadder \in MatLadders, NEW s \in MShards
    PROVE  EffFacts(s)
<1>1. s[2] \in Nat /\ MatGenesis \in Nat
  BY MShardTier, MTierShape, MatNumbers
<1> QED BY <1>1 DEF EffFacts, EffStart, LargerOf

LEMMA RawInFinite ==
    ASSUME rawUnits \in RawChoices, NEW from \in Nat, NEW to \in Nat
    PROVE  RawIn(from, to) \in SUBSET Nat /\ IsFiniteSet(RawIn(from, to))
<1>1. rawUnits \subseteq Nat
  BY MatNumbers
<1>2. RawIn(from, to) \in SUBSET (from .. to)
  <2> SUFFICES ASSUME NEW u \in RawIn(from, to) PROVE u \in from .. to
    OBVIOUS
  <2>1. u \in Nat /\ from <= u /\ u < to
    BY <1>1 DEF RawIn
  <2> QED BY <2>1
<1>3. IsFiniteSet(from .. to)
  BY FS_Interval
<1> QED BY <1>1, <1>2, <1>3, FS_Subset DEF RawIn

UnitsOf(s) == {u \in rawUnits : EffStart(s) <= Floor(u, MBin(s)) /\ Floor(u, MBin(s)) < s[3]}

\* The raw rows of days.
LEMMA ChunksCounted ==
    ASSUME rawUnits \in RawChoices, NEW from \in Nat, NEW to \in Nat, to <= MatEnd, NEW b \in Nat \ {0}
    PROVE  /\ \E F : Counted(DayChunks(from, to, b), F, RawIn(from, to), b)
           /\ DayLen % b = 0 => Single(DayChunks(from, to, b))
<1> DEFINE P == Spans(DayLen, MatEnd)
           lo(d) == LargerOf(from, d[1])
           hi(d) == SmallerOf(to, d[2])
           U == [d \in P |-> RawIn(lo(d), hi(d))]
           G == [d \in P |-> Grouped(RawIn(lo(d), hi(d)), b, d[1])]
<1>1. DayLen \in Nat \ {0} /\ MatEnd - 1 \in Nat /\ rawUnits \subseteq Nat
  BY MatNumbers, MatEndFacts
<1>2. \A d \in P : \E k \in Nat : d = <<k * DayLen, (k + 1) * DayLen>>
  BY <1>1 DEF Spans
<1>3. \A d \in P : /\ d[1] \in Nat /\ d[2] \in Nat /\ d[1] % DayLen = 0 /\ d[2] = d[1] + DayLen
                   /\ d = <<d[1], d[2]>>
  <2> SUFFICES ASSUME NEW d \in P
               PROVE  d[1] \in Nat /\ d[2] \in Nat /\ d[1] % DayLen = 0 /\ d[2] = d[1] + DayLen /\ d = <<d[1], d[2]>>
    OBVIOUS
  <2>1. PICK k \in Nat : d = <<k * DayLen, (k + 1) * DayLen>>
    BY <1>2
  <2>2. k * DayLen \in Nat /\ (k + 1) * DayLen = k * DayLen + DayLen /\ (k * DayLen) % DayLen = 0
    BY <1>1
  <2> QED BY <2>1, <2>2, <1>1
<1>4. IsFiniteSet(P)
  <2>1. IsFiniteSet(0 .. (MatEnd - 1) \div DayLen)
    <3>1. (MatEnd - 1) \div DayLen \in Int
      BY <1>1
    <3> QED BY <3>1, FS_Interval
  <2> DEFINE f == [k \in 0 .. (MatEnd - 1) \div DayLen |-> <<k * DayLen, (k + 1) * DayLen>>]
  <2>2. \A d \in P : \E k \in 0 .. (MatEnd - 1) \div DayLen : d = f[k]
    BY DEF Spans
  <2> HIDE DEF f, P
  <2> QED BY <2>1, <2>2, ImageOfFinite
<1>5. \A d \in P : lo(d) \in Nat /\ hi(d) \in Nat
  BY <1>3 DEF LargerOf, SmallerOf
<1>6. \A d \in P : U[d] \in SUBSET Nat /\ IsFiniteSet(U[d]) /\ G[d] = Grouped(U[d], b, d[1])
  BY <1>5, RawInFinite
<1>7. \A d \in P : \A u \in U[d] : u \in Nat /\ d[1] <= u /\ u < d[2] /\ from <= u /\ u < to /\ u \in rawUnits
  BY <1>1, <1>3 DEF RawIn, LargerOf, SmallerOf
<1>8. \A d, e \in P : d[1] = e[1] => d = e
  BY <1>3
<1> HIDE DEF P, U, G
<1>9. \A d \in P : (\E F : Counted(G[d], F, U[d], b)) /\ Single(G[d]) /\ \A r \in G[d] : r.part = d[1]
  BY <1>6, GroupedCounted
<1>10. \A d, e \in P : \A u : u \in U[d] /\ u \in U[e] => d = e
  <2> SUFFICES ASSUME NEW d \in P, NEW e \in P, NEW u, u \in U[d], u \in U[e] PROVE d = e
    OBVIOUS
  <2>1. u \in Nat /\ d[1] \in Nat /\ e[1] \in Nat /\ d[1] % DayLen = 0 /\ e[1] % DayLen = 0
        /\ d[1] <= u /\ u < d[1] + DayLen /\ e[1] <= u /\ u < e[1] + DayLen
    BY <1>3, <1>7
  <2>2. d[1] = Low(u, DayLen) /\ e[1] = Low(u, DayLen)
    BY <1>1, <2>1, LowUnique
  <2> QED BY <1>8, <2>2
<1>11. \A d, e \in P : \A r : r \in G[d] /\ r \in G[e] => d = e
  BY <1>8, <1>9
<1>12. \E F : Counted(Image(G, P), F, Image(U, P), b)
  BY <1>4, <1>9, <1>10, <1>11, UnionCounted
<1>13. Image(G, P) = DayChunks(from, to, b)
  BY DEF Image, DayChunks, G, P
<1>14. Image(U, P) = RawIn(from, to)
  <2>1. ASSUME NEW u \in RawIn(from, to) PROVE u \in Image(U, P)
    <3> DEFINE k == u \div DayLen
               d == <<k * DayLen, (k + 1) * DayLen>>
    <3>0. u \in Nat /\ from <= u /\ u < to /\ u \in rawUnits
      BY <1>1 DEF RawIn
    <3>1. u \in Nat /\ from <= u /\ u < to /\ u \in rawUnits /\ u <= MatEnd - 1
      BY <3>0, MatEndFacts
    <3>2. k \in Nat /\ k * DayLen <= u /\ u < (k + 1) * DayLen
      BY <1>1, <3>1, DivMult
    <3>3. k <= (MatEnd - 1) \div DayLen
      BY <1>1, <3>1, DivMono
    <3>4. k \in 0 .. (MatEnd - 1) \div DayLen
      BY <1>1, <3>2, <3>3
    <3> HIDE DEF k
    <3>5. d \in P
      BY <3>4 DEF P, Spans
    <3>6. u \in U[d]
      BY <3>1, <3>2, <3>5 DEF U, RawIn, LargerOf, SmallerOf
    <3> QED BY <3>5, <3>6 DEF Image
  <2>2. ASSUME NEW u \in Image(U, P) PROVE u \in RawIn(from, to)
    BY <1>7 DEF Image, RawIn
  <2> QED BY <2>1, <2>2
<1>15. ASSUME DayLen % b = 0 PROVE Single(Image(G, P))
  <2> SUFFICES ASSUME NEW r \in Image(G, P), NEW q \in Image(G, P), r.bin = q.bin PROVE r = q
    BY DEF Single
  <2>1. PICK d \in P, e \in P : r \in G[d] /\ q \in G[e]
    BY DEF Image
  <2>2. PICK F, H : Counted(G[d], F, U[d], b) /\ Counted(G[e], H, U[e], b)
    BY <1>9
  <2>3. PICK u, v : u \in F[r] /\ v \in H[q]
    BY <2>1, <2>2 DEF Counted
  <2>4. u \in U[d] /\ v \in U[e] /\ Low(u, b) = Low(v, b) /\ u \in Nat /\ v \in Nat
    BY <1>7, <2>1, <2>2, <2>3 DEF Counted, Floor, Low
  <2>5. d[1] = Low(u, DayLen) /\ e[1] = Low(v, DayLen)
    BY <1>1, <1>3, <1>7, <2>4, LowUnique
  <2>6. Low(Low(u, b), DayLen) = Low(u, DayLen) /\ Low(Low(v, b), DayLen) = Low(v, DayLen)
    BY <1>1, <1>15, <2>4, LowLow
  <2>7. d = e
    BY <1>8, <2>4, <2>5, <2>6
  <2> QED BY <1>9, <2>1, <2>7 DEF Single
<1> QED BY <1>12, <1>13, <1>14, <1>15

LEMMA MTierFinite ==
    ASSUME matLadder \in MatLadders, NEW t \in DOMAIN matLadder
    PROVE  IsFiniteSet(MTier(t))
<1> DEFINE D == matLadder[t].shards
           F == [d \in D |-> {<<t, iv[1], iv[2]>> : iv \in Spans(d, MatEnd)}]
<1>1. IsFiniteSet(D) /\ D \subseteq Nat \ {0} /\ MatEnd - 1 \in Nat
  BY MatNumbers, MatEndFacts DEF LadderOk
<1>2. ASSUME NEW d \in D PROVE IsFiniteSet(F[d])
  <2> DEFINE N == 0 .. (MatEnd - 1) \div d
             f == [k \in N |-> <<t, k * d, (k + 1) * d>>]
  <2>1. IsFiniteSet(N)
    <3>1. (MatEnd - 1) \div d \in Int
      BY <1>1
    <3> QED BY <3>1, FS_Interval
  <2>2. \A s \in F[d] : \E k \in N : s = f[k]
    BY DEF Spans
  <2> HIDE DEF N, f, F
  <2> QED BY <2>1, <2>2, ImageOfFinite
<1>3. IsFiniteSet(Image(F, D))
  BY <1>1, <1>2, ImageFinite
<1>4. Image(F, D) = MTier(t)
  BY DEF Image, MTier, ShardsOf
<1> QED BY <1>3, <1>4

ExactRows(R, s) == (\E F : Counted(R, F, UnitsOf(s), MBin(s))) /\ (ChunksHoldBins(s) => Single(R))

\* The bins of the units of a shard are its own.
LEMMA FloorIn ==
    ASSUME matLadder \in MatLadders, NEW s \in MShards, NEW u \in Nat
    PROVE  /\ Floor(u, MBin(s)) \in Nat /\ Floor(u, MBin(s)) <= u /\ u < Floor(u, MBin(s)) + MBin(s)
           /\ Floor(u, MBin(s)) = Low(u, MBin(s))
           /\ s[2] <= u => s[2] <= Floor(u, MBin(s))
           /\ Floor(u, MBin(s)) < s[3] => u < s[3]
<1>1. /\ s[2] \in Nat /\ s[3] \in Nat /\ MBin(s) \in Nat \ {0}
      /\ s[2] % MBin(s) = 0 /\ s[3] % MBin(s) = 0
  BY MShardTier, MTierShape
<1>2. PICK b \in Nat \ {0} : b = MBin(s)
  BY <1>1
<1>3. Floor(u, b) = Low(u, b)
  BY DEF Floor, Low
<1>4. Low(u, b) \in Nat /\ Low(u, b) <= u /\ u < Low(u, b) + b /\ Low(u, b) % b = 0
  BY LowFacts
<1>5. s[2] <= u => s[2] <= Low(u, b)
  BY <1>1, <1>2, LowAbove
<1>6. ASSUME Low(u, b) < s[3] PROVE u < s[3]
  <2>1. Low(Low(u, b), b) = Low(u, b)
    BY <1>4, LowUnique
  <2>2. Low(u, b) + b <= s[3]
    BY <1>1, <1>2, <1>4, <1>6, <2>1, LowAbove
  <2> QED BY <1>1, <1>4, <2>2
<1> QED BY <1>2, <1>3, <1>4, <1>5, <1>6

LEMMA UnitFacts ==
    ASSUME matLadder \in MatLadders, rawUnits \in RawChoices, NEW s \in MShards, NEW u \in UnitsOf(s)
    PROVE  /\ u \in rawUnits /\ u \in Nat /\ Holds(s, u) /\ EffStart(s) <= u
           /\ EffStart(s) <= Floor(u, MBin(s)) /\ Floor(u, MBin(s)) < s[3]
           /\ u \in RawIn(EffStart(s), s[3])
<1>1. u \in rawUnits /\ u \in Nat /\ EffStart(s) <= Floor(u, MBin(s)) /\ Floor(u, MBin(s)) < s[3]
  BY MatNumbers DEF UnitsOf
<1>2. Floor(u, MBin(s)) \in Nat /\ Floor(u, MBin(s)) <= u /\ u < s[3]
  BY <1>1, FloorIn
<1>3. EffStart(s) \in Nat /\ s[2] \in Nat /\ s[2] <= EffStart(s)
  BY EffIs, MShardTier, MTierShape DEF EffFacts
<1>4. EffStart(s) <= u /\ s[2] <= u
  BY <1>1, <1>2, <1>3
<1> QED BY <1>1, <1>2, <1>4 DEF Holds, RawIn

\* Rows that are exact are those the shard should have.
LEMMA ExactMeans ==
    ASSUME matLadder \in MatLadders, rawUnits \in RawChoices, NEW s \in MShards, NEW R, ExactRows(R, s), Single(R)
    PROVE  {<<r.bin, r.n>> : r \in R} = Should(s)
<1> DEFINE b == MBin(s)
           e == EffStart(s)
<1>1. PICK F : Counted(R, F, UnitsOf(s), b)
  BY DEF ExactRows
<1>2. b \in Nat \ {0} /\ e \in Nat
  BY MShardTier, MTierShape, EffIs DEF EffFacts
<1>3. ASSUME NEW r \in R
      PROVE  r.bin \in Whole(s) /\ r.n = Cardinality(RawIn(r.bin, r.bin + b))
  <2>1. PICK u : u \in F[r]
    BY <1>1 DEF Counted
  <2>2. u \in UnitsOf(s) /\ Floor(u, b) = r.bin /\ r.bin \in Nat
    BY <1>1, <2>1 DEF Counted
  <2>3. u \in RawIn(e, s[3]) /\ r.bin >= e /\ r.bin < s[3] /\ u \in Nat
    BY <2>2, UnitFacts
  <2>4. r.bin \in Whole(s)
    BY <2>2, <2>3 DEF Whole
  <2>5. r.bin % b = 0
    BY <1>2, <2>2, <2>3, LowFacts, FloorIn
  <2>6. ASSUME NEW v \in F[r] PROVE v \in RawIn(r.bin, r.bin + b)
    <3>1. v \in UnitsOf(s) /\ Floor(v, b) = r.bin
      BY <1>1 DEF Counted
    <3>2. v \in rawUnits /\ v \in Nat
      BY <3>1, UnitFacts
    <3>3. Floor(v, b) <= v /\ v < Floor(v, b) + b
      BY <3>2, FloorIn
    <3> QED BY <3>1, <3>2, <3>3 DEF RawIn
  <2>7. ASSUME NEW v \in RawIn(r.bin, r.bin + b) PROVE v \in F[r]
    <3>1. v \in rawUnits /\ v \in Nat /\ r.bin <= v /\ v < r.bin + b
      BY MatNumbers DEF RawIn
    <3>2. Floor(v, b) = r.bin
      <4>1. r.bin = Low(v, b)
        BY <1>2, <2>2, <2>5, <3>1, LowUnique
      <4> QED BY <4>1 DEF Floor, Low
    <3>3. v \in UnitsOf(s)
      BY <2>3, <3>1, <3>2 DEF UnitsOf
    <3>4. PICK q \in R : v \in F[q]
      BY <1>1, <3>3 DEF Counted
    <3>5. q.bin = r.bin
      BY <1>1, <3>2, <3>4 DEF Counted
    <3> QED BY <3>4, <3>5 DEF Single
  <2>8. F[r] = RawIn(r.bin, r.bin + b)
    BY <2>6, <2>7
  <2> QED BY <1>1, <2>4, <2>8 DEF Counted
<1>4. ASSUME NEW x \in Whole(s) PROVE \E r \in R : r.bin = x
  <2>1. PICK u \in RawIn(e, s[3]) : x = Floor(u, b) /\ x >= e
    BY DEF Whole
  <2>0. rawUnits \subseteq Nat /\ s[3] \in Nat
    BY MatNumbers, MShardTier, MTierShape
  <2>2. u \in rawUnits /\ u \in Nat /\ u < s[3] /\ s[3] \in Nat
    BY <2>0 DEF RawIn
  <2>3. x < s[3]
    BY <2>1, <2>2, FloorIn
  <2>4. u \in UnitsOf(s)
    BY <2>1, <2>2, <2>3 DEF UnitsOf
  <2>5. PICK r \in R : u \in F[r]
    BY <1>1, <2>4 DEF Counted
  <2>6. r.bin = x
    BY <1>1, <2>1, <2>5 DEF Counted
  <2> QED BY <2>6
<1>5. Should(s) = {<<x, Cardinality(RawIn(x, x + b))>> : x \in Whole(s)}
  BY DEF Should
<1>6. \A r \in R : <<r.bin, r.n>> \in Should(s)
  BY <1>3, <1>5
<1>7. \A p \in Should(s) : \E r \in R : p = <<r.bin, r.n>>
  BY <1>3, <1>4, <1>5
<1> QED BY <1>6, <1>7

MatTyped == matLadder \in MatLadders /\ rawUnits \in RawChoices /\ matNow \in MatClocks
            /\ rawGiven \in BOOLEAN /\ DOMAIN held \subseteq MShards

AllExact == \A s \in DOMAIN held : ExactRows(held[s], s)

\* The units of a period, out of all that were read.
LEMMA ClippedExact ==
    ASSUME MatTyped, NEW s \in MShards, NEW R, NEW F, NEW us \in SUBSET rawUnits,
           Counted(R, F, us, MBin(s)), UnitsOf(s) \subseteq us
    PROVE  \E H : Counted(RowsWithin(R, EffStart(s), s[3]), H, UnitsOf(s), MBin(s))
<1>1. UnitsOf(s) = UnitsWithin(us, MBin(s), EffStart(s), s[3])
  BY DEF UnitsOf, UnitsWithin
<1> QED BY <1>1, ClippedCounted

\* What is read raw for a shard is exact.
LEMMA RawExact ==
    ASSUME MatTyped, NEW s \in MCover, FromRaw(s), Source(s).present # 0
    PROVE  ExactRows(InPeriod(s), s)
<1>1. s \in MShards /\ s[3] <= MatEnd
  BY MCoverFacts DEF MatTyped
<1>2. EffStart(s) \in Nat /\ s[3] \in Nat /\ MBin(s) \in Nat \ {0}
  BY <1>1, MShardTier, MTierShape, EffIs DEF EffFacts, MatTyped
<1> DEFINE us == RawIn(EffStart(s), s[3])
<1>3. us \in SUBSET Nat /\ IsFiniteSet(us) /\ us \in SUBSET rawUnits
  BY <1>2, RawInFinite DEF MatTyped, RawIn
<1>4. UnitsOf(s) \subseteq us
  BY <1>1, UnitFacts DEF MatTyped
<1>5. Source(s).rows = RawRows(s) /\ RawRows(s) # {}
  BY DEF Source
<1>6. (\E F : Counted(RawRows(s), F, us, MBin(s))) /\ (ChunksHoldBins(s) => Single(RawRows(s)))
  <2>1. CASE s[1] = 1
    <3>1. RawRows(s) = Grouped(us, MBin(s), 0)
      BY <1>5, <2>1 DEF RawRows
    <3> HIDE DEF us
    <3> QED BY <1>2, <1>3, <3>1, GroupedCounted
  <2>2. CASE s[1] # 1
    <3>1. RawRows(s) = DayChunks(EffStart(s), s[3], MBin(s))
      BY <2>2 DEF RawRows
    <3>2. ChunksHoldBins(s) => DayLen % MBin(s) = 0
      BY <2>2 DEF ChunksHoldBins
    <3> QED BY <1>1, <1>2, <3>1, <3>2, ChunksCounted DEF MatTyped
  <2> QED BY <2>1, <2>2
<1>7. InPeriod(s) = RowsWithin(RawRows(s), EffStart(s), s[3])
  BY <1>5 DEF InPeriod, RowsWithin
<1> HIDE DEF us
<1>8. \E F : Counted(InPeriod(s), F, UnitsOf(s), MBin(s))
  BY <1>1, <1>3, <1>4, <1>6, <1>7, ClippedExact
<1>9. ChunksHoldBins(s) => Single(InPeriod(s))
  BY <1>6, <1>7 DEF Single, RowsWithin
<1> QED BY <1>8, <1>9 DEF ExactRows

\* What is combined from the shards of the tier above is exact, if they are.
LEMMA PicksExact ==
    ASSUME MatTyped, AllExact, NEW s \in MCover, ~FromRaw(s), Source(s).ok
    PROVE  ExactRows(InPeriod(s), s)
<1> DEFINE P == Picks(s)
           a == Above(s[1])
           U == [p \in P |-> UnitsOf(p)]
           us == Image(U, P)
           R == Image(held, P)
<1>1. s \in MShards /\ s[1] \in DOMAIN matLadder /\ s[1] # 1
  BY MCoverFacts, MShardTier DEF MatTyped, FromRaw
<1>2. a \in DOMAIN matLadder /\ matLadder[s[1]].bin % matLadder[a].bin = 0
  BY <1>1, AboveFacts DEF MatTyped
<1>3. MBin(s) = matLadder[s[1]].bin /\ MBin(s) \in Nat \ {0} /\ matLadder[a].bin \in Nat \ {0}
  BY <1>1, <1>2, MatNumbers DEF MBin, MatTyped, LadderOk
<1>4. ~Uncovered(s) /\ P \subseteq DOMAIN held /\ Source(s).rows = Combined(R, MBin(s))
  BY DEF Source, Image
<1>5. \A p \in P : p \in MCover /\ p[1] = a /\ p \in MShards /\ p \in MTier(a) /\ MBin(p) = matLadder[a].bin
  <2> SUFFICES ASSUME NEW p \in P
               PROVE  p \in MCover /\ p[1] = a /\ p \in MShards /\ p \in MTier(a) /\ MBin(p) = matLadder[a].bin
    OBVIOUS
  <2>1. p \in MCover /\ p[1] = a
    BY DEF Picks, Meeting
  <2>2. p \in MShards
    BY <2>1, MCoverFacts DEF MatTyped
  <2> QED BY <2>1, <2>2, MShardTier DEF MatTyped, MBin
<1>6. IsFiniteSet(P)
  <2>1. IsFiniteSet(MTier(a))
    BY <1>2, MTierFinite DEF MatTyped
  <2>2. P \in SUBSET MTier(a)
    BY <1>5
  <2> QED BY <2>1, <2>2, FS_Subset
<1> HIDE DEF P, a
<1>7. \A p \in P : \E F : Counted(held[p], F, U[p], matLadder[a].bin)
  BY <1>4, <1>5 DEF AllExact, ExactRows
<1>8. \A p, q \in P : \A u \in Nat : Holds(p, u) /\ Holds(q, u) => p = q
  BY <1>5, MCoverApart DEF MatTyped
<1>9. \A p, q \in P : \A u : u \in U[p] /\ u \in U[q] => p = q
  BY <1>5, <1>8, UnitFacts DEF MatTyped
<1>10. \A p, q \in P : \A r : r \in held[p] /\ r \in held[q] => p = q
  <2>1. ASSUME NEW p \in P, NEW r \in held[p] PROVE r.bin \in Nat /\ Holds(p, r.bin)
    <3>1. PICK F : Counted(held[p], F, UnitsOf(p), matLadder[a].bin)
      BY <1>7
    <3>2. PICK u : u \in F[r] /\ u \in UnitsOf(p) /\ Floor(u, matLadder[a].bin) = r.bin /\ r.bin \in Nat
      BY <3>1 DEF Counted
    <3>3. EffStart(p) <= r.bin /\ r.bin < p[3]
      BY <1>5, <3>2, UnitFacts DEF MatTyped
    <3>4. p[2] <= EffStart(p) /\ p[2] \in Nat /\ EffStart(p) \in Nat
      BY <1>5, EffIs, MTierShape, <1>2 DEF EffFacts, MatTyped
    <3> QED BY <3>2, <3>3, <3>4 DEF Holds
  <2> QED BY <1>8, <2>1
<1>11. \E F : Counted(R, F, us, matLadder[a].bin)
  <2> HIDE DEF U
  <2> QED BY <1>6, <1>7, <1>9, <1>10, UnionCounted
<1>12. us \in SUBSET rawUnits /\ us \in SUBSET Nat
  BY <1>5, UnitFacts DEF Image, MatTyped
<1>13. UnitsOf(s) \subseteq us
  <2> SUFFICES ASSUME NEW u \in UnitsOf(s) PROVE u \in us
    OBVIOUS
  <2>1. /\ u \in rawUnits /\ u \in Nat /\ Holds(s, u) /\ EffStart(s) <= u
        /\ EffStart(s) <= Floor(u, MBin(s)) /\ EffStart(s) \in Nat /\ EffStart(s) >= MatGenesis
    BY <1>1, UnitFacts, EffIs DEF MatTyped, EffFacts
  <2>2. u \in EffStart(s) .. s[3] - 1
    <3>1. s[3] \in Nat
      BY <1>1, MShardTier, MTierShape DEF MatTyped
    <3> QED BY <2>1, <3>1 DEF Holds
  <2>3. PICK p \in P : Holds(p, u)
    BY <1>4, <2>2 DEF Uncovered, P
  <2>4. p \in MShards /\ MBin(p) = matLadder[a].bin
    BY <1>5
  <2>5. /\ Floor(u, MBin(p)) \in Nat /\ Floor(u, MBin(p)) <= u /\ p[2] <= Floor(u, MBin(p))
        /\ Floor(u, MBin(p)) = Low(u, matLadder[a].bin)
    BY <2>1, <2>3, <2>4, FloorIn DEF MatTyped, Holds
  <2>6. Floor(u, MBin(p)) < p[3]
    BY <1>2, <1>5, <2>3, <2>5, <2>1, MTierShape DEF Holds, MatTyped
  <2>7. Floor(u, MBin(s)) <= Floor(u, MBin(p)) /\ Floor(u, MBin(s)) \in Nat
    <3>1. Floor(u, MBin(s)) = Low(u, MBin(s)) /\ Floor(u, MBin(s)) \in Nat
      BY <1>1, <2>1, FloorIn DEF MatTyped
    <3>2. Low(u, MBin(s)) <= Low(u, matLadder[a].bin)
      BY <1>2, <1>3, <2>1, LowLow
    <3> QED BY <2>5, <3>1, <3>2
  <2>8. MatGenesis <= Floor(u, MBin(p))
    BY <2>1, <2>5, <2>7, MatNumbers
  <2>9. EffStart(p) <= Floor(u, MBin(p))
    BY <2>4, <2>5, <2>8, EffIs DEF EffFacts, MatTyped
  <2>10. u \in UnitsOf(p)
    BY <2>1, <2>6, <2>9 DEF UnitsOf
  <2> QED BY <2>3, <2>10 DEF Image
<1> HIDE DEF us, R, U
<1>14. (\E H : Counted(Combined(R, MBin(s)), H, us, MBin(s))) /\ Single(Combined(R, MBin(s)))
  BY <1>2, <1>3, <1>11, <1>12, CombinedCounted
<1>15. InPeriod(s) = RowsWithin(Combined(R, MBin(s)), EffStart(s), s[3])
  BY <1>4 DEF InPeriod, RowsWithin
<1>16. \E F : Counted(InPeriod(s), F, UnitsOf(s), MBin(s))
  BY <1>1, <1>12, <1>13, <1>14, <1>15, ClippedExact
<1>17. Single(InPeriod(s))
  BY <1>14, <1>15 DEF Single, RowsWithin
<1> QED BY <1>16, <1>17 DEF ExactRows

-----------------------------------------------------------------------------
(* What is ready can be built *)

Up(e, d) == ((e + d - 1) \div d) * d

LEMMA UpFacts ==
    ASSUME NEW e \in Nat, NEW d \in Nat \ {0}
    PROVE  /\ Up(e, d) \in Nat /\ Up(e, d) % d = 0 /\ Up(e, d) >= e
           /\ e % d = 0 => Up(e, d) = e
           /\ \A u \in Nat : u < e => Low(u, d) + d <= Up(e, d)
<1>1. PICK x \in Nat : x = e + d - 1
  OBVIOUS
<1>2. Up(e, d) = Low(x, d)
  BY <1>1 DEF Up, Low
<1>3. Low(x, d) \in Nat /\ Low(x, d) % d = 0 /\ Low(x, d) <= x /\ x < Low(x, d) + d
  BY LowFacts
<1>4. Low(x, d) >= e
  BY <1>1, <1>3
<1>5. ASSUME e % d = 0 PROVE Low(x, d) = e
  <2>1. e <= x /\ x < e + d
    BY <1>1
  <2> QED BY <1>5, <2>1, LowUnique
<1>6. ASSUME NEW u \in Nat, u < e PROVE Low(u, d) + d <= Low(x, d)
  <2>1. u < Low(x, d)
    BY <1>3, <1>4, <1>6
  <2> QED BY <1>3, <2>1, LowAbove
<1> QED BY <1>2, <1>3, <1>4, <1>5, <1>6

Finest(t) == Min(matLadder[t].shards)

LEMMA FinestIs ==
    ASSUME matLadder \in MatLadders, NEW t \in DOMAIN matLadder
    PROVE  Finest(t) \in matLadder[t].shards /\ Finest(t) \in Nat \ {0}
<1>1. matLadder[t].shards \subseteq Nat \ {0} /\ matLadder[t].shards # {}
  BY MatNumbers DEF LadderOk
<1>2. matLadder[t].shards \subseteq Nat
  BY <1>1
<1>3. Finest(t) \in matLadder[t].shards
  BY <1>1, <1>2, LeastIn DEF Finest
<1> QED BY <1>1, <1>3

\* In a ladder whose sources align, a shard is ready when the finest shards of its
\* source tier are over that it reaches into.
ReadyWhen(t, e) == IF t = 1 THEN e ELSE Up(e, Finest(Above(t)))

ReadyStep(f, x, y) ==
    IF x <= 1 THEN y
    ELSE LET d == Min(matLadder[Above(x)].shards)
             c == ((y + d - 1) \div d) * d
         IN  LargerOf(c, f[<<Above(x), c>>])

IsReady(f) == f = [p \in (DOMAIN matLadder) \X Nat |-> ReadyStep(f, p[1], p[2])]

LEMMA ReadyAbove ==
    ASSUME matLadder \in MatLadders, SourcesAlign, NEW t \in DOMAIN matLadder, t # 1, NEW e \in Nat
    PROVE  LET c == Up(e, Finest(Above(t)))
           IN c \in Nat /\ ReadyWhen(Above(t), c) = c
<1> DEFINE a == Above(t)
           d == Finest(a)
           c == Up(e, d)
<1>1. t > 1 /\ a \in DOMAIN matLadder
  BY AboveFacts
<1>2. d \in matLadder[a].shards /\ d \in Nat \ {0}
  BY <1>1, FinestIs
<1>3. c \in Nat /\ c % d = 0
  BY <1>2, UpFacts
<1>4. CASE a = 1
  BY <1>3, <1>4 DEF ReadyWhen
<1>5. CASE a # 1
  <2>1. a > 1 /\ Above(a) \in DOMAIN matLadder
    BY <1>1, <1>5, AboveFacts
  <2>2. d % Finest(Above(a)) = 0
    BY <1>1, <1>2, <2>1 DEF SourcesAlign, Finest
  <2>3. Finest(Above(a)) \in Nat \ {0}
    BY <2>1, FinestIs
  <2> HIDE DEF c, d
  <2>4. c % Finest(Above(a)) = 0
    BY <1>2, <1>3, <2>2, <2>3, ModTrans
  <2>5. Up(c, Finest(Above(a))) = c
    BY <1>3, <2>3, <2>4, UpFacts
  <2>6. ReadyWhen(a, c) = Up(c, Finest(Above(a)))
    BY <1>5 DEF ReadyWhen
  <2> QED BY <1>3, <2>5, <2>6 DEF c, d
<1> QED BY <1>4, <1>5

LEMMA ReadyStepIs ==
    ASSUME matLadder \in MatLadders, SourcesAlign, NEW f, NEW x \in DOMAIN matLadder, NEW y \in Nat,
           x # 1 => \A c \in Nat : f[<<Above(x), c>>] = ReadyWhen(Above(x), c)
    PROVE  ReadyStep(f, x, y) = ReadyWhen(x, y)
<1>0. x \in Nat \ {0}
  BY MatNumbers DEF LadderOk
<1>1. CASE x = 1
  BY <1>1 DEF ReadyWhen, ReadyStep
<1>2. CASE x # 1
  <2>1. ~(x <= 1)
    BY <1>0, <1>2
  <2>2. PICK c : c = Up(y, Finest(Above(x)))
    OBVIOUS
  <2>3. c \in Nat /\ ReadyWhen(Above(x), c) = c
    BY <1>2, <2>2, ReadyAbove
  <2>4. f[<<Above(x), c>>] = c
    BY <1>2, <2>3
  <2>5. LargerOf(c, f[<<Above(x), c>>]) = c
    BY <2>3, <2>4 DEF LargerOf
  <2>6. ReadyWhen(x, y) = c
    BY <1>2, <2>2 DEF ReadyWhen
  <2>7. ReadyStep(f, x, y) = LargerOf(c, f[<<Above(x), c>>])
    BY <2>1, <2>2 DEF ReadyStep, Up, Finest
  <2> QED BY <2>5, <2>6, <2>7
<1> QED BY <1>1, <1>2

LEMMA PairOf ==
    ASSUME NEW D, NEW E
    PROVE  /\ \A p \in D \X E : p[1] \in D /\ p[2] \in E
           /\ \A x \in D, y \in E : <<x, y>> \in D \X E /\ <<x, y>>[1] = x /\ <<x, y>>[2] = y
OBVIOUS

LEMMA ReadyFor ==
    ASSUME NEW g, g = [p \in (DOMAIN matLadder) \X Nat |-> ReadyWhen(p[1], p[2])],
           \A p \in (DOMAIN matLadder) \X Nat : ReadyWhen(p[1], p[2]) = ReadyStep(g, p[1], p[2])
    PROVE  IsReady(g)
BY Zenon DEF IsReady

LEMMA ReadyHas ==
    ASSUME NEW h, IsReady(h)
    PROVE  \A p \in (DOMAIN matLadder) \X Nat : h[p] = ReadyStep(h, p[1], p[2])
BY DEF IsReady

LEMMA ReadyIs ==
    ASSUME matLadder \in MatLadders, SourcesAlign, NEW t \in DOMAIN matLadder, NEW e \in Nat
    PROVE  ReadyAt[<<t, e>>] = ReadyWhen(t, e)
<1>1. \A x \in DOMAIN matLadder : x \in Nat \ {0}
  BY MatNumbers DEF LadderOk
<1>2. PICK g : g = [p \in (DOMAIN matLadder) \X Nat |-> ReadyWhen(p[1], p[2])]
  OBVIOUS
<1>3. \A x \in DOMAIN matLadder, y \in Nat : g[<<x, y>>] = ReadyWhen(x, y)
  <2>1. \A p \in (DOMAIN matLadder) \X Nat : g[p] = ReadyWhen(p[1], p[2])
    BY <1>2
  <2> QED BY <2>1, PairOf
<1>4. \A p \in (DOMAIN matLadder) \X Nat : ReadyStep(g, p[1], p[2]) = ReadyWhen(p[1], p[2])
  <2> SUFFICES ASSUME NEW p \in (DOMAIN matLadder) \X Nat PROVE ReadyStep(g, p[1], p[2]) = ReadyWhen(p[1], p[2])
    OBVIOUS
  <2>1. p[1] \in DOMAIN matLadder /\ p[2] \in Nat
    BY PairOf
  <2>2. p[1] # 1 => \A c \in Nat : g[<<Above(p[1]), c>>] = ReadyWhen(Above(p[1]), c)
    BY <1>3, <2>1, AboveFacts
  <2> QED BY <2>1, <2>2, ReadyStepIs
<1>5. IsReady(g)
  BY <1>2, <1>4, ReadyFor
<1>6. ReadyAt = CHOOSE f : IsReady(f)
  BY DEF ReadyAt, IsReady, ReadyStep
<1>7. PICK h : h = ReadyAt /\ IsReady(h)
  BY <1>5, <1>6
<1>8. \A p \in (DOMAIN matLadder) \X Nat : h[p] = ReadyStep(h, p[1], p[2])
  BY <1>7, ReadyHas
<1>9. \A x \in DOMAIN matLadder, y \in Nat : h[<<x, y>>] = ReadyStep(h, x, y)
  BY <1>8, PairOf
<1> DEFINE Bad == {x \in DOMAIN matLadder : \E y \in Nat : h[<<x, y>>] # ReadyWhen(x, y)}
<1>10. ASSUME Bad # {} PROVE FALSE
  <2>1. Bad \subseteq Nat
    BY <1>1
  <2>2. PICK x \in Bad : \A z \in Bad : x <= z
    <3> HIDE DEF Bad
    <3> QED BY <1>10, <2>1, LeastIn
  <2>3. PICK y \in Nat : x \in DOMAIN matLadder /\ h[<<x, y>>] # ReadyWhen(x, y)
    OBVIOUS
  <2>4. x # 1 => \A c \in Nat : h[<<Above(x), c>>] = ReadyWhen(Above(x), c)
    <3> SUFFICES ASSUME NEW c \in Nat, x # 1, h[<<Above(x), c>>] # ReadyWhen(Above(x), c) PROVE FALSE
      OBVIOUS
    <3>1. Above(x) \in DOMAIN matLadder /\ Above(x) \in 1 .. x - 1 /\ x \in Nat
      BY <2>3, AboveFacts
    <3>2. Above(x) \in Bad
      BY <3>1
    <3> QED BY <2>2, <3>1, <3>2
  <2>5. ReadyStep(h, x, y) = ReadyWhen(x, y)
    BY <2>3, <2>4, ReadyStepIs
  <2> QED BY <1>9, <2>3, <2>5
<1> QED BY <1>7, <1>10

\* A shard that is over and not before genesis lies in one of the cover.
LEMMA MCoverHolds ==
    ASSUME MatTyped, NEW t \in DOMAIN matLadder, NEW x \in MTier(t), x[3] <= matNow, x[3] > MatGenesis
    PROVE  \E e \in MCover : e[1] = t /\ Within(x, e)
<1> DEFINE O == {o \in MTier(t) : Within(x, o) /\ o[3] <= matNow}
           L == {Dur(o) : o \in O}
<1>1. \A o \in MTier(t) : o[2] \in Nat /\ o[3] \in Nat /\ Dur(o) \in Nat /\ o[3] = o[2] + Dur(o)
                         /\ o[1] = t /\ o \in MShards
  <2> SUFFICES ASSUME NEW o \in MTier(t)
               PROVE  o[2] \in Nat /\ o[3] \in Nat /\ Dur(o) \in Nat /\ o[3] = o[2] + Dur(o)
                      /\ o[1] = t /\ o \in MShards
    OBVIOUS
  <2>1. Dur(o) \in Nat
    BY MTierShape, MatNumbers DEF MatTyped, LadderOk
  <2> QED BY <2>1, MTierShape DEF MatTyped
<1>2. matNow \in Nat
  BY MatEndFacts DEF MatTyped
<1>3. x \in O
  BY <1>1 DEF Within
<1>4. L # {} /\ L \subseteq 0 .. matNow
  BY <1>1, <1>2, <1>3
<1>5. PICK e \in O : \A o \in O : Dur(o) <= Dur(e)
  <2>1. Max(L) \in L /\ \A y \in L : y <= Max(L)
    <3> HIDE DEF L
    <3> QED BY <1>2, <1>4, GreatestIn
  <2> QED BY <2>1
<1>6. e \in MTier(t) /\ e \in MShards /\ Within(x, e) /\ e[3] <= matNow
  BY <1>1, <1>5
<1>7. e[3] > MatGenesis
  BY <1>1, <1>6, MatNumbers DEF Within
<1>8. ASSUME NEW o \in MShards, o[1] = e[1], o # e, Within(e, o), ~(o[3] > matNow) PROVE FALSE
  <2>1. o \in MTier(t)
    BY <1>1, <1>6, <1>8, MShardTier DEF MatTyped
  <2>2. o \in O
    BY <1>1, <1>2, <1>6, <1>8, <2>1 DEF Within
  <2>3. Dur(o) <= Dur(e)
    BY <1>5, <2>2
  <2>4. o[2] = e[2] /\ o[3] = e[3]
    BY <1>1, <1>6, <1>8, <2>1, <2>3 DEF Within
  <2>5. \E k \in Nat : o = <<t, k * Dur(o), (k + 1) * Dur(o)>>
    BY <2>1, MTierShape DEF MatTyped
  <2>6. \E k \in Nat : e = <<t, k * Dur(e), (k + 1) * Dur(e)>>
    BY <1>6, MTierShape DEF MatTyped
  <2>7. o = <<t, o[2], o[3]>> /\ e = <<t, e[2], e[3]>>
    BY <2>5, <2>6
  <2> QED BY <1>8, <2>4, <2>7
<1>9. e \in MCover
  BY <1>6, <1>7, <1>8 DEF MCover, MinCover
<1> QED BY <1>1, <1>6, <1>9

LEMMA HasUnits ==
    ASSUME MatTyped, NEW s \in MShards, Should(s) # {}
    PROVE  UnitsOf(s) # {} /\ RawIn(EffStart(s), s[3]) # {}
<1>1. PICK x \in Whole(s) : TRUE
  BY DEF Should
<1>2. PICK u \in RawIn(EffStart(s), s[3]) : x = Floor(u, MBin(s)) /\ x >= EffStart(s)
  BY <1>1 DEF Whole
<1>0. rawUnits \subseteq Nat /\ s[3] \in Nat
  BY MatNumbers, MShardTier, MTierShape DEF MatTyped
<1>3. u \in rawUnits /\ u \in Nat /\ u < s[3] /\ s[3] \in Nat
  BY <1>0 DEF RawIn
<1>4. Floor(u, MBin(s)) < s[3]
  BY <1>3, FloorIn DEF MatTyped
<1>5. u \in UnitsOf(s)
  BY <1>2, <1>3, <1>4 DEF UnitsOf
<1> QED BY <1>2, <1>5

LEMMA ExactNonempty ==
    ASSUME NEW s, NEW R, ExactRows(R, s), UnitsOf(s) # {}
    PROVE  R # {}
BY DEF ExactRows, Counted

AllRaw == rawUnits = 0 .. MatEnd - 1

\* Over raw rows without a dry period a shard of a source tier has a whole bin.
LEMMA SourceHasRows ==
    ASSUME MatTyped, AllRaw, SourcesAlign, NEW t \in DOMAIN matLadder, t # 1,
           NEW e \in MCover, e[1] = Above(t)
    PROVE  Should(e) # {}
<1>1. e \in MShards /\ e[3] <= MatEnd /\ e[3] > MatGenesis /\ MatGenesis \in Nat
  BY MCoverFacts, MatNumbers DEF MatTyped
<1>2. e[2] \in Nat /\ e[3] \in Nat /\ e[2] < e[3] /\ e[2] % MBin(e) = 0 /\ MBin(e) \in Nat \ {0}
  BY <1>1, MShardTier, MTierShape DEF MatTyped
<1>3. MatGenesis % MBin(e) = 0
  BY AboveFacts DEF SourcesAlign, MBin, MatTyped
<1> DEFINE u == EffStart(e)
<1>4. u \in Nat /\ u < e[3] /\ u % MBin(e) = 0
  BY <1>1, <1>2, <1>3, EffIs DEF EffFacts, MatTyped
<1>5. u \in RawIn(u, e[3])
  <2>1. u \in 0 .. MatEnd - 1
    BY <1>1, <1>2, <1>4, MatEndFacts
  <2> HIDE DEF u
  <2> QED BY <1>4, <2>1 DEF RawIn, AllRaw
<1>6. Floor(u, MBin(e)) = u
  <2> HIDE DEF u
  <2>1. u = Low(u, MBin(e))
    BY <1>2, <1>4, LowUnique
  <2> QED BY <2>1 DEF Floor, Low
<1>7. u \in Whole(e)
  BY <1>4, <1>5, <1>6 DEF Whole
<1> QED BY <1>7 DEF Should

CanBuild(s) == ReadyWhen(s[1], s[3]) <= matNow /\ Should(s) # {}

\* A shard of a source tier is ready when it is over.
LEMMA SourceReady ==
    ASSUME MatTyped, AllRaw, SourcesAlign, NEW t \in DOMAIN matLadder, t # 1,
           NEW e \in MCover, e[1] = Above(t)
    PROVE  CanBuild(e)
<1>1. e \in MShards /\ e[3] <= matNow /\ e[1] \in DOMAIN matLadder /\ e \in MTier(e[1])
  BY MCoverFacts, MShardTier DEF MatTyped
<1>2. e[3] \in Nat /\ e[3] % Dur(e) = 0 /\ Dur(e) \in matLadder[e[1]].shards /\ Dur(e) \in Nat \ {0}
  <2>1. Dur(e) \in matLadder[e[1]].shards
    BY <1>1, MTierShape DEF MatTyped
  <2> QED BY <1>1, <2>1, MTierShape, MatNumbers DEF MatTyped, LadderOk
<1>3. ReadyWhen(e[1], e[3]) = e[3]
  <2>1. CASE e[1] = 1
    BY <2>1 DEF ReadyWhen
  <2>2. CASE e[1] # 1
    <3>1. e[1] > 1 /\ Above(e[1]) \in DOMAIN matLadder
      BY <1>1, <2>2, AboveFacts DEF MatTyped
    <3>2. Dur(e) % Finest(Above(e[1])) = 0
      BY <1>2, <3>1, AboveFacts DEF SourcesAlign, Finest, MatTyped
    <3>3. Finest(Above(e[1])) \in Nat \ {0}
      BY <3>1, FinestIs DEF MatTyped
    <3>4. e[3] % Finest(Above(e[1])) = 0
      BY <1>2, <3>2, <3>3, ModTrans
    <3>5. Up(e[3], Finest(Above(e[1]))) = e[3]
      BY <1>2, <3>3, <3>4, UpFacts
    <3> QED BY <2>2, <3>5 DEF ReadyWhen
  <2> QED BY <2>1, <2>2
<1>4. Should(e) # {}
  BY SourceHasRows
<1> QED BY <1>1, <1>3, <1>4 DEF CanBuild

\* Where the shards of the source tier that are not to come are held, each unit of
\* a shard that is ready is in one of them.
LEMMA ReadyCovered ==
    ASSUME MatTyped, AllRaw, SourcesAlign, NEW s \in MCover, s[1] # 1, ReadyWhen(s[1], s[3]) <= matNow,
           \A e \in MCover : e[1] = Above(s[1]) => e \in keySet,
           NEW u \in EffStart(s) .. s[3] - 1
    PROVE  \E e \in Picks(s) : Holds(e, u)
<1> DEFINE a == Above(s[1])
           d == Finest(a)
           x == <<a, Low(u, d), Low(u, d) + d>>
<1>1. s \in MShards /\ s[3] <= MatEnd /\ s[1] \in DOMAIN matLadder /\ s \in MTier(s[1])
  BY MCoverFacts, MShardTier DEF MatTyped
<1>2. s[3] \in Nat /\ EffStart(s) \in Nat /\ EffStart(s) >= MatGenesis /\ MatGenesis \in Nat
  BY <1>1, MTierShape, EffIs, MatNumbers DEF MatTyped, EffFacts
<1>3. u \in Nat /\ u < s[3] /\ EffStart(s) <= u
  BY <1>2
<1>4. a \in DOMAIN matLadder /\ d \in matLadder[a].shards /\ d \in Nat \ {0}
  BY <1>1, AboveFacts, FinestIs DEF MatTyped
<1>5. ReadyWhen(s[1], s[3]) = Up(s[3], d)
  BY DEF ReadyWhen
<1> HIDE DEF a, d
<1>6. Low(u, d) \in Nat /\ Low(u, d) <= u /\ u < Low(u, d) + d /\ Low(u, d) + d <= Up(s[3], d)
  BY <1>2, <1>3, <1>4, LowFacts, UpFacts
<1>7. x[1] = a /\ x[2] = Low(u, d) /\ x[3] = Low(u, d) + d
  OBVIOUS
<1>8. x \in MTier(a)
  <2>1. PICK k : k = u \div d
    OBVIOUS
  <2>2. k \in Nat /\ k <= (MatEnd - 1) \div d /\ (MatEnd - 1) \div d \in Nat
    <3>1. u <= MatEnd - 1 /\ MatEnd - 1 \in Nat
      BY <1>1, <1>2, <1>3, MatEndFacts
    <3> QED BY <1>3, <1>4, <2>1, <3>1, DivMono, DivMult
  <2>3. Low(u, d) = k * d /\ Low(u, d) + d = (k + 1) * d
    BY <1>4, <2>1, <2>2 DEF Low
  <2>4. x = <<a, k * d, (k + 1) * d>> /\ k \in 0 .. (MatEnd - 1) \div d
    BY <2>2, <2>3
  <2>5. <<k * d, (k + 1) * d>> \in Spans(d, MatEnd)
    BY <2>4 DEF Spans
  <2> HIDE DEF x
  <2>6. x \in {<<a, iv[1], iv[2]>> : iv \in Spans(d, MatEnd)}
    BY <2>4, <2>5
  <2> QED BY <1>4, <2>6 DEF MTier, ShardsOf
<1>9. x[3] <= matNow /\ x[3] > MatGenesis
  <2>1. matNow \in Nat /\ Up(s[3], d) \in Nat
    BY <1>2, <1>4, UpFacts, MatEndFacts DEF MatTyped
  <2> HIDE DEF x
  <2> QED BY <1>2, <1>3, <1>4, <1>5, <1>6, <1>7, <2>1
<1>10. PICK e \in MCover : e[1] = a /\ Within(x, e)
  BY <1>4, <1>8, <1>9, MCoverHolds
<1>11. e[2] \in Nat /\ e[3] \in Nat
  BY <1>10, MCoverFacts, MShardTier, MTierShape DEF MatTyped
<1>12. e[2] <= u /\ u < e[3]
  <2> HIDE DEF x
  <2> QED BY <1>3, <1>4, <1>6, <1>7, <1>10, <1>11 DEF Within
<1>13. e \in Meeting(s) /\ e \in keySet
  BY <1>2, <1>3, <1>10, <1>11, <1>12 DEF Meeting, a
<1> QED BY <1>12, <1>13 DEF Picks, Holds

\* What is read raw has rows, where there are units.
LEMMA RawReadable ==
    ASSUME MatTyped, NEW s \in MCover, FromRaw(s), s[1] = 1 => rawGiven, Should(s) # {}
    PROVE  Source(s).ok /\ Source(s).present > 0 /\ InPeriod(s) # {}
<1>1. s \in MShards /\ s[3] <= MatEnd
  BY MCoverFacts DEF MatTyped
<1>2. EffStart(s) \in Nat /\ s[3] \in Nat /\ MBin(s) \in Nat \ {0}
  BY <1>1, MShardTier, MTierShape, EffIs DEF EffFacts, MatTyped
<1> DEFINE us == RawIn(EffStart(s), s[3])
<1>3. us \in SUBSET Nat /\ IsFiniteSet(us)
  BY <1>2, RawInFinite DEF MatTyped
<1>4. UnitsOf(s) # {} /\ us # {}
  BY <1>1, HasUnits
<1>5. \E F : Counted(RawRows(s), F, us, MBin(s))
  <2>1. CASE s[1] = 1
    <3>1. RawRows(s) = Grouped(us, MBin(s), 0)
      BY <2>1 DEF RawRows
    <3> HIDE DEF us
    <3> QED BY <1>2, <1>3, <3>1, GroupedCounted
  <2>2. CASE s[1] # 1
    <3>1. RawRows(s) = DayChunks(EffStart(s), s[3], MBin(s))
      BY <2>2 DEF RawRows
    <3> QED BY <1>1, <1>2, <3>1, ChunksCounted DEF MatTyped
  <2> QED BY <2>1, <2>2
<1>6. RawRows(s) # {}
  BY <1>4, <1>5 DEF Counted
<1>7. Source(s).ok /\ Source(s).present = 1
  BY <1>6 DEF Source
<1>8. ExactRows(InPeriod(s), s)
  BY <1>7, RawExact
<1> QED BY <1>4, <1>7, <1>8, ExactNonempty

-----------------------------------------------------------------------------
(* The invariant *)

RoundOn == todo # {} \/ matEnded

\* A base that is given is there until an object is lost.
BaseInv == ~rawGiven /\ matFaults = 0 => {b \in MTier(1) : b[3] > MatGenesis} \subseteq DOMAIN held

\* In a round the driver knows of all that is there, and of nothing else that was not lost.
KeysInv == RoundOn => DOMAIN held \subseteq keySet /\ (matFaults = 0 => keySet = DOMAIN held)

\* What is there of the cover is to come, or registered, or about to be.
RegisterInv == RoundOn /\ whole => MCover \cap DOMAIN held \subseteq todo \cup emitted \cup matRows

\* What was ready when its turn came is there.
ReadyInv ==
    RoundOn /\ matFaults = 0 /\ AllRaw /\ SourcesAlign =>
        \A s \in MCover \ todo : CanBuild(s) => s \in DOMAIN held

MatInv ==
    /\ TypeMat /\ AllExact /\ BaseInv /\ KeysInv /\ RegisterInv /\ ReadyInv
    /\ matEnded => todo = {}

LEMMA TypeIsTyped == TypeMat => MatTyped
BY DEF TypeMat, MatTyped

\* The next shard of a round, if it is ready, is there or can be built.
LEMMA BuildReady ==
    ASSUME MatInv, NEW s \in Nearest, matFaults = 0, AllRaw, SourcesAlign, CanBuild(s)
    PROVE  s \in keySet \/ Builds(s)
<1>0. MatTyped /\ s \in todo /\ s \in MCover /\ RoundOn
  BY TypeIsTyped DEF MatInv, TypeMat, Nearest, RoundOn
<1>1. s \in MShards /\ s[3] > MatGenesis /\ s[1] \in DOMAIN matLadder /\ s \in MTier(s[1]) /\ Should(s) # {}
      /\ ReadyWhen(s[1], s[3]) <= matNow
  BY <1>0, MCoverFacts, MShardTier DEF MatTyped, CanBuild
<1>2. keySet = DOMAIN held
  BY <1>0 DEF MatInv, KeysInv
<1>3. CASE s[1] = 1 /\ ~rawGiven
  BY <1>1, <1>2, <1>3 DEF MatInv, BaseInv
<1>4. CASE FromRaw(s) /\ (s[1] = 1 => rawGiven)
  BY <1>0, <1>1, <1>4, RawReadable DEF Builds
<1>5. CASE s[1] # 1 /\ ~FromRaw(s)
  <2>1. Above(s[1]) \in 1 .. s[1] - 1 /\ s[1] \in Nat /\ Above(s[1]) \in Nat /\ Above(s[1]) < s[1]
    BY <1>0, <1>1, <1>5, AboveFacts DEF MatTyped
  <2>2. \A e \in MCover : e[1] = Above(s[1]) => e \in keySet
    <3> SUFFICES ASSUME NEW e \in MCover, e[1] = Above(s[1]) PROVE e \in keySet
      OBVIOUS
    <3>1. e \notin todo
      BY <2>1 DEF Nearest, Dependency
    <3>2. CanBuild(e)
      BY <1>0, <1>1, <1>5, SourceReady
    <3> QED BY <1>0, <1>2, <3>1, <3>2 DEF MatInv, ReadyInv
  <2>3. \A u \in EffStart(s) .. s[3] - 1 : \E e \in Picks(s) : Holds(e, u)
    BY <1>0, <1>1, <1>5, <2>2, ReadyCovered
  <2>4. ~Uncovered(s) /\ Picks(s) \subseteq DOMAIN held
    BY <1>2, <2>3 DEF Uncovered, Picks
  <2>5. Source(s).ok /\ Source(s).present = Cardinality(Picks(s))
    BY <1>5, <2>4 DEF Source
  <2>6. IsFiniteSet(Picks(s)) /\ Picks(s) # {}
    <3>1. Picks(s) \in SUBSET MTier(Above(s[1]))
      <4> SUFFICES ASSUME NEW e \in Picks(s) PROVE e \in MTier(Above(s[1]))
        OBVIOUS
      <4>1. e \in MCover /\ e[1] = Above(s[1])
        BY DEF Picks, Meeting
      <4> QED BY <1>0, <4>1, MCoverFacts, MShardTier DEF MatTyped
    <3>2. IsFiniteSet(MTier(Above(s[1])))
      BY <1>0, <1>1, <1>5, AboveFacts, MTierFinite DEF MatTyped
    <3>3. EffStart(s) \in Nat /\ s[3] \in Nat /\ EffStart(s) < s[3]
      <4>1. EffFacts(s)
        BY <1>0, <1>1, EffIs DEF MatTyped
      <4>2. s[2] \in Nat /\ s[3] \in Nat /\ s[2] < s[3]
        BY <1>0, <1>1, MTierShape DEF MatTyped
      <4> QED BY <1>1, <4>1, <4>2, MatNumbers DEF EffFacts
    <3>4. EffStart(s) \in EffStart(s) .. s[3] - 1
      BY <3>3
    <3>5. Picks(s) # {}
      BY <2>3, <3>4
    <3> QED BY <3>1, <3>2, <3>5, FS_Subset
  <2>7. Source(s).present > 0
    <3>1. Cardinality(Picks(s)) \in Nat /\ Cardinality(Picks(s)) # 0
      BY <2>6, FS_CardinalityType, FS_EmptySet
    <3> QED BY <2>5, <3>1
  <2>8. InPeriod(s) # {}
    <3>1. ExactRows(InPeriod(s), s)
      BY <1>0, <1>5, <2>5, PicksExact DEF MatInv
    <3> QED BY <1>0, <1>1, <3>1, HasUnits, ExactNonempty
  <2> QED BY <2>5, <2>7, <2>8 DEF Builds
<1> QED BY <1>3, <1>4, <1>5 DEF FromRaw
\* What a shard is and should hold is a matter of the ladder and of the raw rows.
LEMMA SameLadder ==
    ASSUME matLadder' = matLadder, rawUnits' = rawUnits, rawGiven' = rawGiven
    PROVE  /\ \A t : MTier(t)' = MTier(t) /\ Above(t)' = Above(t) /\ Finest(t)' = Finest(t)
           /\ MShards' = MShards
           /\ \A s : UnitsOf(s)' = UnitsOf(s) /\ MBin(s)' = MBin(s) /\ Should(s)' = Should(s)
           /\ \A s : ChunksHoldBins(s)' = ChunksHoldBins(s)
           /\ AllRaw' = AllRaw /\ SourcesAlign' = SourcesAlign
           /\ matNow' = matNow => MCover' = MCover
<1>1. \A t : MTier(t)' = MTier(t) /\ Finest(t)' = Finest(t)
  BY DEF MTier, Finest
<1>2. \A t : Above(t)' = Above(t)
  BY DEF Above
<1>3. MShards' = MShards
  BY <1>1 DEF MShards
<1>4. \A s : MBin(s)' = MBin(s)
  BY DEF MBin
<1>5. \A s : UnitsOf(s)' = UnitsOf(s)
  BY <1>4 DEF UnitsOf, EffStart
<1>6. \A from, to : RawIn(from, to)' = RawIn(from, to)
  BY DEF RawIn
<1>7. \A s : Should(s)' = Should(s)
  BY <1>4, <1>6 DEF Should, Whole, EffStart
<1>8. \A s : ChunksHoldBins(s)' = ChunksHoldBins(s)
  BY <1>2, <1>4 DEF ChunksHoldBins, FromRaw
<1>9. AllRaw' = AllRaw /\ SourcesAlign' = SourcesAlign
  BY <1>2 DEF AllRaw, SourcesAlign
<1>10. matNow' = matNow => MCover' = MCover
  BY <1>3 DEF MCover
<1> QED BY <1>1, <1>2, <1>3, <1>4, <1>5, <1>7, <1>8, <1>9, <1>10

SameMat == matLadder' = matLadder /\ rawUnits' = rawUnits /\ rawGiven' = rawGiven

LEMMA SameExact ==
    ASSUME SameMat, NEW R, NEW s, ExactRows(R, s)
    PROVE  ExactRows(R, s)'
<1>1. UnitsOf(s)' = UnitsOf(s) /\ MBin(s)' = MBin(s) /\ ChunksHoldBins(s)' = ChunksHoldBins(s)
  BY SameLadder DEF SameMat
<1> QED BY <1>1 DEF ExactRows

LEMMA SameBuild ==
    ASSUME SameMat, matNow' = matNow, NEW s
    PROVE  CanBuild(s)' = CanBuild(s)
<1>1. Should(s)' = Should(s) /\ \A t : Above(t)' = Above(t) /\ Finest(t)' = Finest(t)
  BY SameLadder DEF SameMat
<1>2. ReadyWhen(s[1], s[3])' = ReadyWhen(s[1], s[3])
  BY <1>1 DEF ReadyWhen
<1> QED BY <1>1, <1>2 DEF CanBuild

LEMMA HeldExact ==
    ASSUME SameMat, NEW s, NEW R, R = held'[s], ExactRows(R, s)
    PROVE  ExactRows(held[s], s)'
<1>1. ExactRows(R, s)'
  BY SameExact
<1> QED BY <1>1 DEF ExactRows

\* Whatever takes nothing away and adds no rows keeps them exact.
LEMMA FewerExact ==
    ASSUME SameMat, AllExact, DOMAIN held' \subseteq DOMAIN held, \A s \in DOMAIN held' : held'[s] = held[s]
    PROVE  AllExact'
<1> SUFFICES ASSUME NEW s \in DOMAIN held' PROVE ExactRows(held[s], s)'
  BY DEF AllExact
<1>1. PICK R : R = held'[s]
  OBVIOUS
<1>2. ExactRows(R, s)
  BY <1>1 DEF AllExact
<1> QED BY <1>1, <1>2, HeldExact

LEMMA MatInitially == InitMat => MatInv
<1> SUFFICES ASSUME InitMat PROVE MatInv
  OBVIOUS
<1>1. /\ matLadder \in MatLadders /\ rawUnits \in RawChoices /\ rawGiven \in BOOLEAN /\ whole \in BOOLEAN
      /\ matNow = Min(MatClocks)
      /\ keySet = {} /\ todo = {} /\ emitted = {} /\ matRows = {} /\ matEnded = FALSE /\ matFaults = 0
  BY DEF InitMat
<1>2. DOMAIN held = IF rawGiven THEN {} ELSE {b \in MTier(1) : b[3] > MatGenesis}
  BY DEF InitMat
<1>3. \A s \in DOMAIN held : held[s] = {r \in Grouped(RawIn(EffStart(s), s[3]), MBin(s), 0) : EffStart(s) <= r.bin}
  BY DEF InitMat
<1>4. 1 \in DOMAIN matLadder
  BY <1>1, MatNumbers DEF LadderOk
<1>5. DOMAIN held \subseteq MShards
  BY <1>2, <1>4 DEF MShards
<1>6. TypeMat
  <2>1. matNow \in MatClocks /\ matFaults \in 0 .. MaxMatFaults /\ matEnded \in BOOLEAN
    <3>1. matFaults \in 0 .. MaxMatFaults
      BY <1>1, MatNumbers
    <3>2. matEnded \in BOOLEAN
      BY <1>1
    <3>3. matNow \in MatClocks
      BY <1>1, MatEndFacts
    <3> QED BY <3>1, <3>2, <3>3
  <2>2. keySet \subseteq MShards /\ todo \subseteq MCover /\ emitted \subseteq MCover /\ matRows \subseteq MShards
    BY <1>1
  <2> QED BY <1>1, <1>5, <2>1, <2>2 DEF TypeMat
<1>7. MatTyped
  BY <1>6, TypeIsTyped
<1>8. ASSUME NEW s \in DOMAIN held PROVE ExactRows(held[s], s)
  <2>1. s \in MShards
    BY <1>5
  <2>2. EffStart(s) \in Nat /\ s[3] \in Nat /\ MBin(s) \in Nat \ {0}
    BY <1>1, <2>1, MShardTier, MTierShape, EffIs DEF EffFacts
  <2>3. PICK us, R, b, e : us = RawIn(EffStart(s), s[3]) /\ b = MBin(s) /\ R = Grouped(us, b, 0) /\ e = EffStart(s)
    OBVIOUS
  <2>4. us \in SUBSET Nat /\ IsFiniteSet(us) /\ us \in SUBSET rawUnits /\ \A u \in us : u < s[3]
    BY <1>1, <2>2, <2>3, RawInFinite DEF RawIn
  <2>5. PICK F : Counted(R, F, us, b) /\ Single(R)
    BY <2>2, <2>3, <2>4, GroupedCounted
  <2>6. \A r \in R : r.bin < s[3]
    <3> SUFFICES ASSUME NEW r \in R PROVE r.bin < s[3]
      OBVIOUS
    <3>1. PICK u \in us : Floor(u, b) = r.bin
      BY <2>5 DEF Counted
    <3>2. Floor(u, b) \in Nat /\ Floor(u, b) <= u
      BY <1>1, <2>1, <2>3, <2>4, FloorIn
    <3> QED BY <2>2, <2>4, <3>1, <3>2
  <2>7. held[s] = RowsWithin(R, e, s[3])
    BY <1>3, <2>3, <2>6 DEF RowsWithin
  <2>8. UnitsOf(s) \subseteq us
    BY <1>1, <2>1, <2>3, UnitFacts
  <2>9. \E H : Counted(held[s], H, UnitsOf(s), MBin(s))
    BY <1>7, <2>1, <2>3, <2>4, <2>5, <2>7, <2>8, ClippedExact
  <2>10. Single(held[s])
    BY <2>5, <2>7 DEF Single, RowsWithin
  <2> QED BY <2>9, <2>10 DEF ExactRows
<1>9. ~RoundOn
  BY <1>1 DEF RoundOn
<1>10. BaseInv
  BY <1>2 DEF BaseInv
<1> QED BY <1>1, <1>6, <1>8, <1>9, <1>10 DEF MatInv, AllExact, KeysInv, RegisterInv, ReadyInv

LEMMA DiscoverStep ==
    ASSUME MatInv, Discover
    PROVE  MatInv'
<1>1. /\ SameMat /\ whole' = whole /\ matNow' = matNow /\ held' = held /\ matRows' = matRows
      /\ emitted' = emitted /\ matFaults' = matFaults /\ matEnded' = FALSE /\ keySet' = DOMAIN held
      /\ todo' = IF whole THEN MCover ELSE MCover \ DOMAIN held
  BY DEF Discover, SameMat
<1>2. MCover' = MCover /\ MShards' = MShards /\ MTier(1)' = MTier(1)
  BY <1>1, SameLadder DEF SameMat
<1>3. TypeMat'
  BY <1>1, <1>2 DEF TypeMat, MatInv, SameMat
<1>4. AllExact'
  BY <1>1, FewerExact DEF MatInv
<1>5. BaseInv'
  BY <1>1, <1>2 DEF BaseInv, MatInv, SameMat
<1>6. KeysInv'
  BY <1>1 DEF KeysInv
<1>7. RegisterInv'
  BY <1>1, <1>2 DEF RegisterInv
<1>8. ReadyInv'
  BY <1>1, <1>2 DEF ReadyInv, RoundOn
<1> QED BY <1>1, <1>3, <1>4, <1>5, <1>6, <1>7, <1>8 DEF MatInv

LEMMA ShardStep ==
    ASSUME MatInv, MaterializeShard
    PROVE  MatInv'
<1>1. /\ SameMat /\ whole' = whole /\ matNow' = matNow /\ matRows' = matRows /\ matFaults' = matFaults
      /\ matEnded' = (todo' = {})
  BY DEF MaterializeShard, SameMat
<1>2. PICK s \in Nearest :
        /\ held'    = IF Builds(s) THEN [o \in DOMAIN held \cup {s} |-> IF o = s THEN InPeriod(s) ELSE held[o]]
                                   ELSE held
        /\ keySet'  = IF Builds(s) THEN keySet \cup {s} ELSE keySet
        /\ emitted' = IF Builds(s) \/ s \in keySet THEN emitted \cup {s} ELSE emitted
        /\ todo'    = todo \ {s}
  BY DEF MaterializeShard
<1>3. MatTyped /\ s \in todo /\ s \in MCover /\ s \in MShards /\ RoundOn
  <2>1. MatTyped /\ s \in todo /\ s \in MCover /\ RoundOn
    BY TypeIsTyped DEF MatInv, TypeMat, Nearest, RoundOn
  <2> QED BY <2>1, MCoverFacts DEF MatTyped
<1>4. /\ MCover' = MCover /\ MShards' = MShards /\ MTier(1)' = MTier(1)
      /\ AllRaw' = AllRaw /\ SourcesAlign' = SourcesAlign
  BY <1>1, SameLadder DEF SameMat
<1>5. /\ DOMAIN held' = IF Builds(s) THEN DOMAIN held \cup {s} ELSE DOMAIN held
      /\ \A o \in DOMAIN held' : held'[o] = IF Builds(s) /\ o = s THEN InPeriod(s) ELSE held[o]
  BY <1>2
<1>6. TypeMat'
  <2>1. emitted' \subseteq MCover' /\ keySet' \subseteq MShards' /\ DOMAIN held' \subseteq MShards' /\ todo' \subseteq MCover'
    BY <1>2, <1>3, <1>4, <1>5 DEF MatInv, TypeMat
  <2>2. matEnded' \in BOOLEAN
    BY <1>1
  <2> QED BY <1>1, <1>4, <2>1, <2>2 DEF TypeMat, MatInv, SameMat
<1>7. AllExact'
  <2> SUFFICES ASSUME NEW o \in DOMAIN held' PROVE ExactRows(held[o], o)'
    BY DEF AllExact
  <2>1. PICK R : R = held'[o]
    OBVIOUS
  <2>2. CASE Builds(s) /\ o = s
    <3>1. R = InPeriod(s)
      BY <1>5, <2>1, <2>2
    <3>2. Source(s).ok /\ Source(s).present # 0
      BY <2>2 DEF Builds
    <3>3. ExactRows(InPeriod(s), s)
      BY <1>3, <3>2, RawExact, PicksExact DEF MatInv
    <3> QED BY <1>1, <2>1, <2>2, <3>1, <3>3, HeldExact
  <2>3. CASE ~(Builds(s) /\ o = s)
    <3>1. R = held[o] /\ o \in DOMAIN held
      BY <1>5, <2>1, <2>3
    <3>2. ExactRows(R, o)
      BY <3>1 DEF MatInv, AllExact
    <3> QED BY <1>1, <2>1, <3>2, HeldExact
  <2> QED BY <2>2, <2>3
<1>8. BaseInv'
  BY <1>1, <1>4, <1>5 DEF BaseInv, MatInv, SameMat
<1>9. KeysInv'
  BY <1>1, <1>2, <1>3, <1>5 DEF KeysInv, MatInv
<1>10. RegisterInv'
  <2> SUFFICES ASSUME whole, NEW o \in MCover, o \in DOMAIN held' PROVE o \in todo' \cup emitted' \cup matRows'
    BY <1>1, <1>4 DEF RegisterInv
  <2>1. o = s \/ o \in DOMAIN held
    BY <1>5
  <2>2. CASE o = s
    <3>1. Builds(s) \/ s \in keySet
      BY <1>3, <1>5, <2>2 DEF MatInv, KeysInv
    <3> QED BY <1>2, <2>2, <3>1
  <2>3. CASE o # s
    <3>1. o \in todo \cup emitted \cup matRows
      BY <1>3, <2>1, <2>3 DEF MatInv, RegisterInv
    <3> QED BY <1>1, <1>2, <2>3, <3>1
  <2> QED BY <2>2, <2>3
<1>11. ReadyInv'
  <2> SUFFICES ASSUME matFaults = 0, AllRaw, SourcesAlign, NEW o \in MCover \ todo', CanBuild(o)'
               PROVE  o \in DOMAIN held'
    BY <1>1, <1>4 DEF ReadyInv
  <2>1. CanBuild(o)
    BY <1>1, SameBuild
  <2>2. CASE o = s
    <3>1. s \in keySet \/ Builds(s)
      BY <2>1, <2>2, BuildReady
    <3>2. keySet = DOMAIN held
      BY <1>3 DEF MatInv, KeysInv
    <3> QED BY <1>5, <2>2, <3>1, <3>2
  <2>3. CASE o # s
    <3>1. o \in DOMAIN held
      BY <1>2, <1>3, <2>1, <2>3 DEF MatInv, ReadyInv
    <3> QED BY <1>5, <3>1
  <2> QED BY <2>2, <2>3
<1> QED BY <1>1, <1>6, <1>7, <1>8, <1>9, <1>10, <1>11 DEF MatInv

LEMMA EmitStep ==
    ASSUME MatInv, EmitSql
    PROVE  MatInv'
<1>1. /\ SameMat /\ whole' = whole /\ matNow' = matNow /\ held' = held /\ keySet' = keySet /\ todo' = todo
      /\ matRows' = matRows \cup emitted /\ emitted' = {} /\ matEnded' = matEnded /\ matFaults' = matFaults
  BY DEF EmitSql, SameMat
<1>2. /\ MCover' = MCover /\ MShards' = MShards /\ MTier(1)' = MTier(1)
      /\ AllRaw' = AllRaw /\ SourcesAlign' = SourcesAlign
  BY <1>1, SameLadder DEF SameMat
<1>3. TypeMat'
  <2>1. emitted \subseteq MShards
    BY MCoverFacts DEF MatInv, TypeMat
  <2> QED BY <1>1, <1>2, <2>1 DEF TypeMat, MatInv, SameMat
<1>4. AllExact'
  BY <1>1, FewerExact DEF MatInv
<1>5. BaseInv'
  BY <1>1, <1>2 DEF BaseInv, MatInv, SameMat
<1>6. KeysInv'
  BY <1>1 DEF KeysInv, MatInv, RoundOn
<1>7. RegisterInv'
  BY <1>1, <1>2 DEF RegisterInv, MatInv, RoundOn
<1>8. ReadyInv'
  BY <1>1, <1>2, SameBuild DEF ReadyInv, MatInv, RoundOn
<1> QED BY <1>1, <1>3, <1>4, <1>5, <1>6, <1>7, <1>8 DEF MatInv

LEMMA ClockStep ==
    ASSUME MatInv, MatClock
    PROVE  MatInv'
<1>1. /\ SameMat /\ whole' = whole /\ matNow' \in MatClocks /\ held' = held /\ keySet' = keySet
      /\ todo' = {} /\ emitted' = {} /\ matRows' = matRows /\ matEnded' = FALSE /\ matFaults' = matFaults
  BY DEF MatClock, SameMat
<1>2. MShards' = MShards /\ MTier(1)' = MTier(1)
  BY <1>1, SameLadder DEF SameMat
<1>3. TypeMat'
  BY <1>1, <1>2 DEF TypeMat, MatInv, SameMat
<1>4. AllExact'
  BY <1>1, FewerExact DEF MatInv
<1>5. BaseInv'
  BY <1>1, <1>2 DEF BaseInv, MatInv, SameMat
<1>6. ~RoundOn'
  BY <1>1 DEF RoundOn
<1> QED BY <1>1, <1>3, <1>4, <1>5, <1>6 DEF MatInv, KeysInv, RegisterInv, ReadyInv

LEMMA DiesStep ==
    ASSUME MatInv, MatDies
    PROVE  MatInv'
<1>1. /\ SameMat /\ whole' = whole /\ matNow' = matNow /\ held' = held /\ keySet' = keySet
      /\ todo' = {} /\ emitted' = {} /\ matRows' = matRows /\ matEnded' = FALSE
      /\ matFaults' = matFaults + 1 /\ matFaults < MaxMatFaults
  BY DEF MatDies, SameMat
<1>2. MShards' = MShards /\ matFaults \in Nat /\ matFaults' \in 0 .. MaxMatFaults /\ matFaults' # 0
  BY <1>1, SameLadder, MatNumbers DEF SameMat, MatInv, TypeMat
<1>3. TypeMat'
  BY <1>1, <1>2 DEF TypeMat, MatInv, SameMat
<1>4. AllExact'
  BY <1>1, FewerExact DEF MatInv
<1>5. ~RoundOn' /\ BaseInv'
  BY <1>1, <1>2 DEF RoundOn, BaseInv
<1> QED BY <1>1, <1>3, <1>4, <1>5 DEF MatInv, KeysInv, RegisterInv, ReadyInv

LEMMA LostStep ==
    ASSUME MatInv, ObjectLost
    PROVE  MatInv'
<1>1. /\ SameMat /\ whole' = whole /\ matNow' = matNow /\ keySet' = keySet /\ todo' = todo
      /\ emitted' = emitted /\ matRows' = matRows /\ matEnded' = FALSE
      /\ matFaults' = matFaults + 1 /\ matFaults < MaxMatFaults
  BY DEF ObjectLost, SameMat
<1>2. PICK s \in DOMAIN held : held' = [o \in (DOMAIN held) \ {s} |-> held[o]]
  BY DEF ObjectLost
<1>3. MShards' = MShards /\ MCover' = MCover /\ matFaults \in Nat /\ matFaults' \in 0 .. MaxMatFaults /\ matFaults' # 0
  BY <1>1, SameLadder, MatNumbers DEF SameMat, MatInv, TypeMat
<1>4. DOMAIN held' \subseteq DOMAIN held /\ \A o \in DOMAIN held' : held'[o] = held[o]
  BY <1>2
<1>5. TypeMat'
  BY <1>1, <1>3, <1>4 DEF TypeMat, MatInv, SameMat
<1>6. AllExact'
  BY <1>1, <1>4, FewerExact DEF MatInv
<1>7. BaseInv' /\ ReadyInv'
  BY <1>3 DEF BaseInv, ReadyInv
<1>8. KeysInv'
  BY <1>1, <1>3, <1>4 DEF KeysInv, MatInv, RoundOn
<1>9. RegisterInv'
  BY <1>1, <1>3, <1>4 DEF RegisterInv, MatInv, RoundOn
<1> QED BY <1>1, <1>5, <1>6, <1>7, <1>8, <1>9 DEF MatInv

LEMMA RestStep ==
    ASSUME MatInv, UNCHANGED materializerVars
    PROVE  MatInv'
<1>1. /\ SameMat /\ whole' = whole /\ matNow' = matNow /\ held' = held /\ keySet' = keySet /\ todo' = todo
      /\ emitted' = emitted /\ matRows' = matRows /\ matEnded' = matEnded /\ matFaults' = matFaults
  BY DEF materializerVars, SameMat
<1>2. /\ MCover' = MCover /\ MShards' = MShards /\ MTier(1)' = MTier(1)
      /\ AllRaw' = AllRaw /\ SourcesAlign' = SourcesAlign
  BY <1>1, SameLadder DEF SameMat
<1>3. TypeMat'
  BY <1>1, <1>2 DEF TypeMat, MatInv, SameMat
<1>4. AllExact'
  BY <1>1, FewerExact DEF MatInv
<1>5. BaseInv'
  BY <1>1, <1>2 DEF BaseInv, MatInv, SameMat
<1>6. KeysInv'
  BY <1>1 DEF KeysInv, MatInv, RoundOn
<1>7. RegisterInv'
  BY <1>1, <1>2 DEF RegisterInv, MatInv, RoundOn
<1>8. ReadyInv'
  BY <1>1, <1>2, SameBuild DEF ReadyInv, MatInv, RoundOn
<1> QED BY <1>1, <1>3, <1>4, <1>5, <1>6, <1>7, <1>8 DEF MatInv

LEMMA MatInductive == SpecMat => []MatInv
<1>1. ASSUME MatInv, [NextMat]_materializerVars PROVE MatInv'
  BY <1>1, DiscoverStep, ShardStep, EmitStep, ClockStep, DiesStep, LostStep, RestStep DEF NextMat
<1> QED BY <1>1, MatInitially, PTL DEF SpecMat

\* The types of the driver of materialize.py: the shards of its storage, its index
\* and its round are of the ladder, and those of the round are of the cover.
THEOREM MatTypes == SpecMat => []TypeMat
<1>1. MatInv => TypeMat
  BY DEF MatInv
<1> QED BY <1>1, MatInductive, PTL

\* materialize_shard and its driver, for any ladder, raw rows, clocks, losses and
\* deaths: every stored shard holds the whole bins of its period once, with all
\* their raw rows; after a round with no loss before it, what buildable_at says can
\* be built is stored; and a round over the whole cover registers what is stored.
THEOREM MaterializedExactHolds == SpecMat => []MaterializedExact
<1>1. ASSUME MatInv PROVE MaterializedExact
  <2>0. MatTyped
    BY <1>1, TypeIsTyped DEF MatInv
  <2>1. RowsExact
    <3> SUFFICES ASSUME NEW s \in DOMAIN held, ChunksHoldBins(s) PROVE {<<r.bin, r.n>> : r \in held[s]} = Should(s)
      BY DEF RowsExact
    <3>1. s \in MShards /\ ExactRows(held[s], s)
      BY <1>1, <2>0 DEF MatInv, AllExact, MatTyped
    <3>2. Single(held[s])
      BY <3>1 DEF ExactRows
    <3> QED BY <2>0, <3>1, <3>2, ExactMeans DEF MatTyped
  <2>2. ReadyMeansBuilt
    <3> SUFFICES ASSUME matEnded, matFaults = 0, rawUnits = 0 .. MatEnd - 1, SourcesAlign, NEW s \in MCover,
                        ReadyAt[<<s[1], s[3]>>] <= matNow, Should(s) # {}
                 PROVE  s \in DOMAIN held
      BY DEF ReadyMeansBuilt
    <3>1. s \in MShards /\ s[1] \in DOMAIN matLadder /\ s[3] \in Nat
      BY <2>0, MCoverFacts, MShardTier, MTierShape DEF MatTyped
    <3>2. CanBuild(s)
      BY <2>0, <3>1, ReadyIs DEF CanBuild, MatTyped
    <3> QED BY <1>1, <3>2 DEF MatInv, ReadyInv, RoundOn, AllRaw
  <2>3. RoundRegisters
    BY <1>1 DEF MatInv, RegisterInv, RoundOn, RoundRegisters
  <2> QED BY <2>1, <2>2, <2>3 DEF MaterializedExact
<1> QED BY <1>1, MatInductive, PTL
==============================================================================
