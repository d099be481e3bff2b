---------------------------- MODULE LambdaDeploy ----------------------------
(***************************************************************************)
(* Deploying scheduled functions (pyrmts_ops/aws.py): a deployment makes the *)
(* role, the function and the rule with its target and its permission, one   *)
(* call of AWS after another; any call may fail and the deployment is run    *)
(* again, two deployers work on one account, an operator turns rules off.    *)
(* A rule belongs to one function; functions may have several rules.         *)
(***************************************************************************)
EXTENDS Naturals, FiniteSets

CONSTANTS
    Deployers,
    Jobs,            \* [rule, fn, package, enabled]: a call of deploy_pyramid_lambda
    QuietOperator,   \* no rule is turned off between a deployment's read and write of it
    MaxDeploys       \* bound on the deployments started

VARIABLES
    role,          \* "absent", "bare" (without its policy) or "ready"
    package,       \* function -> "absent" or its package type
    statements,    \* function -> its policy: the statements <<id, rule>>
    state,         \* rule -> "absent", "ENABLED" or "DISABLED"
    target,        \* rule -> the function of its one target, or "none"
    job, pc, read, \* of a deployer: its call, the next call of AWS, the state it read
    deploys,
    bound,         \* the rules deployed to the end since their function was made
    retired        \* the rules an operator turned off, with no order to turn them on since

awsVars  == <<role, package, statements, state, target>>
deployVars == <<awsVars, job, pc, read, deploys, bound, retired>>

Rules     == {j.rule : j \in Jobs}
Functions == {j.fn : j \in Jobs}

\* A call names its rule and its function, and a rule belongs to one function.
ASSUME DeployAssumption ==
    /\ Jobs # {} /\ MaxDeploys \in Nat /\ QuietOperator \in BOOLEAN
    /\ \A j \in Jobs : /\ j.package \in {"Zip", "Image"}
                       /\ j.enabled \in {"preserve", "ENABLED", "DISABLED"}
    /\ \A i, j \in Jobs : i.rule = j.rule => i.fn = j.fn

Calls     == {"idle", "role", "policy", "function", "create", "update", "describe", "put", "targets", "permit"}

InitDeploy ==
    /\ role = "absent"
    /\ package = [f \in Functions |-> "absent"] /\ statements = [f \in Functions |-> {}]
    /\ state = [r \in Rules |-> "absent"] /\ target = [r \in Rules |-> "none"]
    /\ job \in [Deployers -> {CHOOSE j \in Jobs : TRUE}] /\ pc = [d \in Deployers |-> "idle"]
    /\ read = [d \in Deployers |-> "ENABLED"] /\ deploys = 0
    /\ bound = {} /\ retired = {}

Goto(d, call) == pc' = [pc EXCEPT ![d] = call]

-----------------------------------------------------------------------------
\* deploy_pyramid_lambda
Deploy(d) ==
    /\ pc[d] = "idle" /\ deploys < MaxDeploys
    /\ \E j \in Jobs : job' = [job EXCEPT ![d] = j]
    /\ Goto(d, "role")
    /\ deploys' = deploys + 1
    /\ UNCHANGED <<awsVars, read, bound, retired>>

\* upsert_lambda_role: the policy is attached to a role made here only.
UpsertRole(d) ==
    /\ pc[d] = "role"
    /\ role' = IF role = "absent" THEN "bare" ELSE role
    /\ Goto(d, IF role = "absent" THEN "policy" ELSE "function")
    /\ UNCHANGED <<package, statements, state, target, job, read, deploys, bound, retired>>

AttachPolicy(d) ==
    /\ pc[d] = "policy"
    /\ role' = "ready"
    /\ Goto(d, "function")
    /\ UNCHANGED <<package, statements, state, target, job, read, deploys, bound, retired>>

\* upsert_lambda_function: a flip of the package type deletes the function, and
\* its policy with it.
Flips(d) == package[job[d].fn] \notin {"absent", job[d].package}
UpsertFunction(d) ==
    /\ pc[d] = "function"
    /\ IF Flips(d)
       THEN /\ package' = [package EXCEPT ![job[d].fn] = "absent"]
            /\ statements' = [statements EXCEPT ![job[d].fn] = {}]
            /\ bound' = bound \ {r \in bound : \E j \in Jobs : j.rule = r /\ j.fn = job[d].fn}
       ELSE UNCHANGED <<package, statements, bound>>
    /\ Goto(d, IF package[job[d].fn] = job[d].package THEN "update" ELSE "create")
    /\ UNCHANGED <<role, state, target, job, read, deploys, retired>>

\* The preserved state is read; with `enabled` given there is nothing to read.
AfterFunction(d) == Goto(d, IF job[d].enabled = "preserve" THEN "describe" ELSE "put")

\* create_function raises where another deployer was first, the update where
\* another has deleted: no step, then, but Dies.
CreateFunction(d) ==
    /\ pc[d] = "create" /\ package[job[d].fn] = "absent"
    /\ package' = [package EXCEPT ![job[d].fn] = job[d].package]
    /\ AfterFunction(d)
    /\ UNCHANGED <<role, statements, state, target, job, read, deploys, bound, retired>>

UpdateFunction(d) ==
    /\ pc[d] = "update" /\ package[job[d].fn] = job[d].package
    /\ AfterFunction(d)
    /\ UNCHANGED <<awsVars, job, read, deploys, bound, retired>>

-----------------------------------------------------------------------------
\* upsert_schedule
DescribeRule(d) ==
    /\ pc[d] = "describe"
    /\ read' = [read EXCEPT ![d] = IF state[job[d].rule] = "absent" THEN "ENABLED" ELSE state[job[d].rule]]
    /\ Goto(d, "put")
    /\ UNCHANGED <<awsVars, job, deploys, bound, retired>>

\* (Mutant: put_rule without a State, which means ENABLED.)
Unstated(d) == IF job[d].enabled = "preserve" THEN "ENABLED" ELSE job[d].enabled
StateToPut(d) == IF job[d].enabled = "preserve" THEN read[d] ELSE job[d].enabled

PutRule(d) ==
    /\ pc[d] = "put"
    /\ state' = [state EXCEPT ![job[d].rule] = StateToPut(d)]
    /\ retired' = IF job[d].enabled = "ENABLED" THEN retired \ {job[d].rule} ELSE retired
    /\ Goto(d, "targets")
    /\ UNCHANGED <<role, package, statements, target, job, read, deploys, bound>>

\* One target id: a second put replaces the first.
PutTargets(d) ==
    /\ pc[d] = "targets"
    /\ target' = [target EXCEPT ![job[d].rule] = job[d].fn]
    /\ Goto(d, "permit")
    /\ UNCHANGED <<role, package, statements, state, job, read, deploys, bound, retired>>

\* The statement's id.  (Mutant: the same one for every rule.)
OneId(rule) == "invoke"
StatementId(rule) == rule

\* add_permission raises on an id that is taken, which is swallowed, and where
\* there is no function, which is not.
AddPermission(d) ==
    LET j == job[d] IN
    /\ pc[d] = "permit" /\ package[j.fn] # "absent"
    /\ statements' = IF \E s \in statements[j.fn] : s[1] = StatementId(j.rule) THEN statements
                     ELSE [statements EXCEPT ![j.fn] = @ \cup {<<StatementId(j.rule), j.rule>>}]
    /\ bound' = bound \cup {j.rule}
    /\ Goto(d, "idle")
    /\ UNCHANGED <<role, package, state, target, job, read, deploys, retired>>

\* A call raises, or the deployer is stopped.
Dies(d) ==
    /\ pc[d] # "idle"
    /\ Goto(d, "idle")
    /\ UNCHANGED <<awsVars, job, read, deploys, bound, retired>>

-----------------------------------------------------------------------------
\* The operator turns a rule on or off.
Operator(r, on) ==
    /\ state[r] # "absent"
    /\ QuietOperator => ~\E d \in Deployers : pc[d] = "put" /\ job[d].rule = r
    /\ state' = [state EXCEPT ![r] = IF on THEN "ENABLED" ELSE "DISABLED"]
    /\ retired' = IF on THEN retired \ {r} ELSE retired \cup {r}
    /\ UNCHANGED <<role, package, statements, target, job, pc, read, deploys, bound>>

NextDeploy ==
    \/ \E d \in Deployers :
        \/ Deploy(d) \/ UpsertRole(d) \/ AttachPolicy(d) \/ UpsertFunction(d) \/ CreateFunction(d)
        \/ UpdateFunction(d) \/ DescribeRule(d) \/ PutRule(d) \/ PutTargets(d) \/ AddPermission(d) \/ Dies(d)
    \/ \E r \in Rules, on \in BOOLEAN : Operator(r, on)

SpecDeploy == InitDeploy /\ [][NextDeploy]_deployVars

TypeDeploy ==
    /\ role \in {"absent", "bare", "ready"} /\ deploys \in 0 .. MaxDeploys
    /\ package \in [Functions -> {"absent", "Zip", "Image"}]
    /\ statements \in [Functions -> SUBSET ((Rules \cup {"invoke"}) \X Rules)]
    /\ state \in [Rules -> {"absent", "ENABLED", "DISABLED"}] /\ target \in [Rules -> Functions \cup {"none"}]
    /\ job \in [Deployers -> Jobs] /\ pc \in [Deployers -> Calls]
    /\ read \in [Deployers -> {"ENABLED", "DISABLED"}]
    /\ bound \subseteq Rules /\ retired \subseteq Rules

-----------------------------------------------------------------------------
\* verify_schedules: the rule exists, targets its function, and the function
\* exists and lets the rule invoke it.
Verified(r, f) ==
    /\ state[r] # "absent" /\ target[r] = f
    /\ package[f] # "absent" /\ \E s \in statements[f] : s[2] = r

\* A rule whose deployment came to its end, and whose function was not made
\* anew since, passes verify_schedules, whatever was deployed, failed and run
\* again meanwhile (upsert_schedule's statement per rule).
DeployVerifies == \A j \in Jobs : j.rule \in bound => Verified(j.rule, j.fn)

\* A rule an operator turned off stays off until it is asked for
\* (upsert_schedule's `None`).
DisableSticks == \A r \in retired : state[r] = "DISABLED"

DeploySound == DeployVerifies /\ DisableSticks
=============================================================================
