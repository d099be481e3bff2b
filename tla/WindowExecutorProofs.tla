------------------------ MODULE WindowExecutorProofs ------------------------
(***************************************************************************)
(* Proofs about the parallel windowed build.                               *)
(***************************************************************************)
EXTENDS WindowExecutor, FiniteSetTheorems, TLAPS

USE SizesAssumption

\* The stages a window goes through.
LEMMA StageRange ==
    /\ 0 \in Stages /\ 1 \in Stages /\ NTiers + 1 \in Stages
    /\ \A k \in 0..NTiers : k + 1 \in Stages
    /\ Stages \subseteq Nat
BY DEF Stages

\* Adding a run to a shard's runs counts one more.
LEMMA IncrementType ==
    ASSUME NEW W, NEW f \in [W -> Nat], NEW x
    PROVE  [f EXCEPT ![x] = f[x] + 1] \in [W -> Nat]
<1>1. CASE x \in W
  <2>1. f[x] + 1 \in Nat
    BY <1>1
  <2> QED BY <2>1
<1>2. CASE x \notin W
  <2>1. [f EXCEPT ![x] = f[x] + 1] = f
    BY <1>2, Zenon
  <2> QED BY <2>1
<1> QED BY <1>1, <1>2

\* There are finitely many windows, so a walk has a length.
LEMMA WindowsFinite ==
    \A W \in SUBSET Windows : IsFiniteSet(W) /\ Cardinality(W) \in 0..NWindows
<1>1. IsFiniteSet(Windows) /\ Cardinality(Windows) = NWindows
  BY FS_Interval DEF Windows
<1> QED BY <1>1, FS_Subset, FS_CardinalityType

\* The plan of an attempt is an increasing enumeration of the windows it walks.
LEMMA WalkEnumeration ==
    \A M \in SUBSET Shards : \A p \in InOrder(Walk(M)) :
        /\ p \in Seq(Windows)
        /\ Len(p) \in 0..NWindows
        /\ \A i, j \in 1..Len(p) : i < j => p[i] < p[j]
        /\ \A w \in Walk(M) : \E i \in 1..Len(p) : p[i] = w
<1> TAKE M \in SUBSET Shards
<1> TAKE p \in InOrder(Walk(M))
<1>1. Walk(M) \subseteq Windows
  BY DEF Walk
<1>2. Cardinality(Walk(M)) \in 0..NWindows
  BY <1>1, WindowsFinite
<1>3. p \in [1..Cardinality(Walk(M)) -> Walk(M)] /\ Len(p) = Cardinality(Walk(M))
  <2>1. p \in [1..Cardinality(Walk(M)) -> Walk(M)]
    BY DEF InOrder
  <2> QED BY <2>1, <1>2
<1>4. p \in Seq(Windows)
  BY <1>1, <1>2, <1>3
<1> QED BY <1>2, <1>3, <1>4 DEF InOrder

\* Every variable has its type initially.
LEMMA InitType == Init => TypeOK
BY StageRange DEF Init, TypeOK, NoRuns, CloseStates, n, Windows

\* A step of the program keeps every variable in its type.
LEMMA NextType == TypeOK /\ [Next]_vars => TypeOK'
<1> SUFFICES ASSUME TypeOK, [Next]_vars PROVE TypeOK'
  OBVIOUS
<1> USE DEF TypeOK, n
<1>1. CASE Begin
  <2>1. periods' \in InOrder(Walk(Shards \ Done))
    BY <1>1 DEF Begin
  <2>2. periods' \in Seq(Windows) /\ Len(periods') \in Nat
    <3>1. Shards \ Done \in SUBSET Shards
      OBVIOUS
    <3> QED BY ONLY <2>1, <3>1, WalkEnumeration, SizesAssumption
  <2>3. /\ stage' \in [Windows -> Stages]
        /\ runs' \in [Shards -> [Windows -> Nat]]
        /\ taken' \in [Shards -> [Windows -> Nat]]
        /\ close' \in [Shards -> CloseStates]
    BY <1>1, StageRange DEF Begin, NoRuns, CloseStates
  <2> QED BY <1>1, <2>2, <2>3 DEF Begin, durableVars, faultVars
<1>2. CASE Claim
  <2>1. nextI' \in 1..n /\ burst' \in 0..Burst
    <3>1. n \in Nat /\ nextI \in 0..n /\ burst \in 0..Burst
      OBVIOUS
    <3>2. nextI < n /\ burst < Burst /\ nextI' = nextI + 1 /\ burst' = burst + 1
      BY <1>2 DEF Claim, Claimable
    <3> QED BY ONLY <3>1, <3>2, SizesAssumption
  <2>2. stage' \in [Windows -> Stages] /\ inflight' \subseteq 1..n
    <3>1. stage' = [stage EXCEPT ![nextI'] = 1] /\ inflight' = inflight \cup {nextI'}
      BY <1>2 DEF Claim
    <3>2. stage \in [Windows -> Stages] /\ inflight \subseteq 1..n
      OBVIOUS
    <3>3. stage' \in [Windows -> Stages]
      BY ONLY <3>1, <3>2, StageRange
    <3>4. inflight' \subseteq 1..n
      BY ONLY <2>1, <3>1, <3>2
    <3> QED BY ONLY <3>3, <3>4
  <2>3. pc' \in {"first", "claim"}
    BY <1>2 DEF Claim
  <2>4. /\ UNCHANGED <<periods, targets, attempt, completed, watermark, pending, drained>>
        /\ UNCHANGED <<raised, runs, closeFuts, close, taken, nextReg>>
        /\ UNCHANGED <<objects, content, registry, faults, crashes>>
    BY <1>2 DEF Claim, planVars, closeVars, durableVars, faultVars
  <2> QED
    BY <2>1, <2>2, <2>3, <2>4
<1>3. CASE AwaitFirst
  BY <1>3 DEF AwaitFirst, planVars, windowVars, closeVars, durableVars, faultVars
<1>4. CASE StopClaiming
  BY <1>4 DEF StopClaiming, planVars, windowVars, closeVars, durableVars, faultVars
<1>5. CASE Collect
  <2>1. watermark' \in 0..n /\ completed' \subseteq 1..n /\ inflight' \subseteq 1..n
    <3>1. n \in Nat /\ watermark \in 0..n /\ inflight \subseteq 1..n /\ completed \subseteq 1..n
      OBVIOUS
    <3>2. PICK k \in watermark..n : watermark' = k
      BY <1>5 DEF Collect
    <3>3. watermark' \in 0..n
      BY ONLY <3>1, <3>2
    <3>4. inflight' = inflight \ Finished /\ completed' = completed \cup Finished
      BY <1>5 DEF Collect
    <3> QED BY ONLY <3>1, <3>3, <3>4 DEF Finished
  <2> QED
    BY <1>5, <2>1 DEF Collect, planVars, windowVars, closeVars, durableVars, faultVars
<1>6. CASE CollectRaised
  BY <1>6 DEF CollectRaised, planVars, windowVars, closeVars, durableVars, faultVars
<1>7. CASE SubmitClose
  <2>1. PICK s \in Shards : /\ pending' = pending \ {s}
                            /\ closeFuts' = Append(closeFuts, s)
                            /\ close' = [close EXCEPT ![s] = "queued"]
    BY <1>7 DEF SubmitClose, Ready
  <2>2. closeFuts' \in Seq(Shards) /\ Len(closeFuts') = Len(closeFuts) + 1
    BY <2>1
  <2>3. close' \in [Shards -> CloseStates]
    BY <2>1 DEF CloseStates
  <2>4. /\ drained \in 0..Len(closeFuts') /\ nextReg \in 0..Len(closeFuts')
        /\ pending' \subseteq Shards
    BY <2>1, <2>2
  <2> QED BY <2>4, <1>7, <2>1, <2>2, <2>3 DEF SubmitClose, planVars, windowVars, durableVars, faultVars
<1>8. CASE SubmitDone
  BY <1>8 DEF SubmitDone, planVars, windowVars, closeVars, durableVars, faultVars
<1>9. CASE DrainClose
  <2>1. drained' \in 0..Len(closeFuts) /\ pc' \in {"drain", "stopWindows"}
    BY <1>9 DEF DrainClose
  <2> QED BY <1>9, <2>1 DEF DrainClose, planVars, windowVars, closeVars, durableVars, faultVars
<1>10. CASE FinishWalk
  <2>1. pc' \in {"done", "stopWindows"} /\ faults' \in Nat
    BY <1>10 DEF FinishWalk
  <2> QED BY <1>10, <2>1 DEF FinishWalk, planVars, windowVars, closeVars, durableVars
<1>11. CASE StopWindows
  BY <1>11 DEF StopWindows, CloseStates, planVars, windowVars, durableVars, faultVars
<1>12. CASE StopCloses
  BY <1>12 DEF StopCloses, planVars, windowVars, closeVars, durableVars, faultVars
<1>13. ASSUME NEW i \in Windows, RouteTier(i) PROVE TypeOK'
  <2>1. runs' \in [Shards -> [Windows -> Nat]]
    <3>1. runs' = [s \in Shards |->
                    IF s \in targets /\ TierOf[s] = stage[i] /\ Overlaps(s, periods[i])
                    THEN [runs[s] EXCEPT ![periods[i]] = @ + 1]
                    ELSE runs[s]]
      BY <1>13 DEF RouteTier
    <3>2. runs \in [Shards -> [Windows -> Nat]]
      OBVIOUS
    <3>3. ASSUME NEW s \in Shards PROVE runs'[s] \in [Windows -> Nat]
      <4>1. \/ runs'[s] = runs[s]
            \/ runs'[s] = [runs[s] EXCEPT ![periods[i]] = runs[s][periods[i]] + 1]
        BY ONLY <3>1, <3>3
      <4>2. runs[s] \in [Windows -> Nat]
        BY ONLY <3>2, <3>3
      <4> QED BY ONLY <4>1, <4>2, IncrementType
    <3> QED BY ONLY <3>1, <3>3
  <2>2. stage' \in [Windows -> Stages]
    <3>1. stage[i] \in 0..NTiers
      BY <1>13 DEF RouteTier, Routing, Tiers
    <3>2. stage' = [stage EXCEPT ![i] = stage[i] + 1] /\ stage \in [Windows -> Stages]
      BY <1>13 DEF RouteTier
    <3> QED BY ONLY <3>1, <3>2, StageRange
  <2> QED BY <1>13, <2>1, <2>2 DEF RouteTier, coordVars, planVars, closeVars, durableVars, faultVars
<1>14. ASSUME NEW i \in Windows, WindowRaises(i) PROVE TypeOK'
  BY <1>14 DEF WindowRaises, Routing, coordVars, planVars, closeVars, durableVars
<1>15. ASSUME NEW s \in Shards, TakeShard(s) PROVE TypeOK'
  <2>1. runs' \in [Shards -> [Windows -> Nat]] /\ taken' \in [Shards -> [Windows -> Nat]]
    BY <1>15 DEF TakeShard, NoRuns
  <2>2. close' \in [Shards -> CloseStates]
    BY <1>15 DEF TakeShard, CloseStates
  <2> QED BY <1>15, <2>1, <2>2 DEF TakeShard, coordVars, planVars, durableVars, faultVars
<1>16. ASSUME NEW s \in Shards, PutShard(s) PROVE TypeOK'
  BY <1>16 DEF PutShard, CloseStates, coordVars, planVars, windowVars, faultVars
<1>17. ASSUME NEW s \in Shards, RegisterShard(s) PROVE TypeOK'
  <2>1. nextReg' \in 0..Len(closeFuts) /\ close' \in [Shards -> CloseStates]
    BY <1>17 DEF RegisterShard, Turn, CloseStates
  <2> QED BY <1>17, <2>1 DEF RegisterShard, coordVars, planVars, windowVars, faultVars
<1>18. ASSUME NEW s \in Shards, CloseRaises(s) PROVE TypeOK'
  <2>1. nextReg' \in 0..Len(closeFuts)
    BY <1>18 DEF CloseRaises, TurnPassed, Turn
  <2>2. close' \in [Shards -> CloseStates]
    BY <1>18 DEF CloseRaises, CloseStates
  <2>3. /\ faults' = faults + 1
        /\ UNCHANGED <<coordVars, planVars, windowVars, closeFuts, taken, durableVars, crashes>>
    BY <1>18 DEF CloseRaises
  <2>4. UNCHANGED <<pc, nextI, burst, inflight, completed, watermark, pending, drained, periods, targets, attempt,
                    stage, raised, runs, closeFuts, taken, objects, content, registry, crashes>>
    BY <2>3 DEF coordVars, planVars, windowVars, durableVars
  <2>5. faults' \in Nat /\ n' = n
    BY <2>3, <2>4 DEF n
  <2> QED BY <2>1, <2>2, <2>4, <2>5
<1>19. CASE Crash
  BY <1>19 DEF Crash, CloseStates, planVars, windowVars, durableVars
<1>20. CASE UNCHANGED vars
  BY <1>20 DEF vars, coordVars, planVars, windowVars, closeVars, durableVars, faultVars
<1> QED
  BY <1>1, <1>2, <1>3, <1>4, <1>5, <1>6, <1>7, <1>8, <1>9, <1>10, <1>11, <1>12, <1>13,
     <1>14, <1>15, <1>16, <1>17, <1>18, <1>19, <1>20
  DEF Next, Coordinator, WindowThread, CloseThread, Stopped

\* Every reachable state of the executor has its type.
THEOREM TypeCorrect == Spec => []TypeOK
BY InitType, NextType, PTL DEF Spec

-----------------------------------------------------------------------------
(* The inductive invariant, in named parts *)

\* The walk enumerates in order windows that cover the targets.
WalkInv ==
    /\ n \in 0..NWindows
    /\ \A i, j \in 1..n : i < j => periods[i] < periods[j]
    /\ \A s \in targets : \A w \in Windows :
          Overlaps(s, w) => \E i \in 1..n : periods[i] = w

\* Collected windows are behind the claim cursor, routed through every tier,
\* and not in flight; unclaimed ones are untouched.
ClaimInv ==
    /\ inflight \subseteq 1..nextI /\ completed \subseteq 1..nextI
    /\ inflight \cap completed = {}
    /\ 1..watermark \subseteq completed
    /\ \A i \in completed : stage[i] = NTiers + 1
    /\ \A i \in Windows : i > nextI => stage[i] = 0

\* Only shards the watermark has passed leave pending.
PendingInv ==
    /\ pending \subseteq targets
    /\ \A s \in targets \ pending :
          watermark > 0 /\ End[s] <= WEnd[periods[watermark]]

\* Closes are those of submitted targets; a dead process runs nothing.
CloseInv ==
    /\ \A s \in Shards : close[s] # "none" => s \in targets \ pending
    /\ pc # "idle" => \A s \in targets \ pending : close[s] # "none"
    /\ pc = "idle" => inflight = {} /\ \A s \in Shards : close[s] = "none"

\* Until its close takes them, a target's runs are one per overlapping window
\* that has been routed to the target's tier.
Routed(s, w) == \E i \in 1..n : periods[i] = w /\ stage[i] > TierOf[s]
RunsInv ==
    pc # "idle" =>
        \A s \in targets : close[s] \in {"none", "queued"} =>
            \A w \in Windows :
                runs[s][w] = IF Overlaps(s, w) /\ Routed(s, w) THEN 1 ELSE 0

\* A close has taken the full runs of its shard.
TakenInv == \A s \in Shards : close[s] = "taken" => taken[s] = FullRuns(s)

\* Objects are complete, and there before their registry row.
StoreInv ==
    /\ ObjectsComplete
    /\ registry \subseteq objects
    /\ \A s \in Shards : close[s] \in {"put", "registered"} => s \in objects
    /\ \A s \in Shards : close[s] = "registered" => s \in registry

\* The shards an attempt does not build are there already.
SkippedInv ==
    pc # "idle" =>
        Shards \ targets \subseteq IF Mode = "fill" /\ ~Hashed THEN objects ELSE registry

\* Submitted closes are queued once; those before the turn are over.
TurnInv ==
    pc # "idle" =>
        /\ \A i, j \in 1..Len(closeFuts) : closeFuts[i] = closeFuts[j] => i = j
        /\ \A s \in targets \ pending : \E i \in 1..Len(closeFuts) : closeFuts[i] = s
        /\ \A i \in 1..Len(closeFuts) : closeFuts[i] \in targets \ pending
        /\ \A i \in 1..nextReg : close[closeFuts[i]] \in {"registered", "failed"}

\* The coordinator has seen the closes it drained registered, and reports
\* success only after all of them.
DrainInv ==
    pc # "idle" =>
        /\ \A i \in 1..drained : close[closeFuts[i]] = "registered"
        /\ pc = "done" => pending = {} /\ drained = Len(closeFuts)

IInv ==
    /\ TypeOK /\ WalkInv /\ ClaimInv /\ PendingInv /\ CloseInv /\ RunsInv
    /\ TakenInv /\ StoreInv /\ SkippedInv /\ TurnInv /\ DrainInv

LEMMA InitIInv == Init => IInv
<1> SUFFICES ASSUME Init PROVE IInv
  OBVIOUS
<1>1. TypeOK
  BY InitType
<1>2. WalkInv /\ ClaimInv /\ PendingInv
  BY DEF Init, WalkInv, ClaimInv, PendingInv, n
<1>3. CloseInv /\ RunsInv /\ TakenInv /\ SkippedInv /\ TurnInv /\ DrainInv
  BY DEF Init, CloseInv, RunsInv, TakenInv, SkippedInv, TurnInv, DrainInv
<1>4. StoreInv
  BY DEF Init, StoreInv, ObjectsComplete
<1> QED BY <1>1, <1>2, <1>3, <1>4 DEF IInv

-----------------------------------------------------------------------------
(* The steps *)

\* Steps that only move the coordinator, or make a task raise.
Quiet ==
    /\ UNCHANGED <<planVars, nextI, inflight, completed, watermark, pending>>
    /\ UNCHANGED <<stage, runs, closeVars, durableVars>>
    /\ pc' = "idle" <=> pc = "idle"

\* Every step is one of those that change what the invariant speaks of.
LEMMA StepCases ==
    [Next]_vars =>
        \/ Begin \/ Claim \/ Collect \/ SubmitClose \/ StopWindows \/ Crash
        \/ \E i \in Windows : RouteTier(i)
        \/ \E s \in Shards : TakeShard(s) \/ PutShard(s) \/ RegisterShard(s) \/ CloseRaises(s)
        \/ Quiet
<1>1. AwaitFirst \/ StopClaiming \/ CollectRaised \/ SubmitDone => Quiet
  BY DEF AwaitFirst, StopClaiming, CollectRaised, SubmitDone, Quiet, windowVars
<1>2. DrainClose \/ FinishWalk \/ StopCloses => Quiet
  BY DEF DrainClose, FinishWalk, StopCloses, Quiet, windowVars
<1>3. \A i \in Windows : WindowRaises(i) => Quiet
  BY DEF WindowRaises, Quiet, coordVars
<1>4. UNCHANGED vars => Quiet
  BY DEF vars, Quiet, coordVars, windowVars
<1> QED
  BY <1>1, <1>2, <1>3, <1>4 DEF Next, Coordinator, WindowThread, CloseThread, Stopped

-----------------------------------------------------------------------------
(* The walk and its claims *)

\* Only planning changes the walk, and a plan walks all its targets need.
LEMMA NextWalkInv == TypeOK /\ WalkInv /\ [Next]_vars => WalkInv'
<1> SUFFICES ASSUME TypeOK, WalkInv, [Next]_vars PROVE WalkInv'
  OBVIOUS
<1>1. CASE Begin
  <2> DEFINE M == Shards \ Done
  <2>1. M \in SUBSET Shards /\ targets' = M /\ periods' \in InOrder(Walk(M))
    BY <1>1 DEF Begin
  <2> HIDE DEF M
  <2>2. /\ Len(periods') \in 0..NWindows
        /\ \A i, j \in 1..Len(periods') : i < j => periods'[i] < periods'[j]
        /\ \A w \in Walk(M) : \E i \in 1..Len(periods') : periods'[i] = w
    BY <2>1, WalkEnumeration
  <2>3. ASSUME NEW s \in M, NEW w \in Windows, Overlaps(s, w) PROVE w \in Walk(M)
    BY <2>3 DEF Walk, Overlaps
  <2> QED BY <2>1, <2>2, <2>3 DEF WalkInv, n, Overlaps
<1>2. CASE UNCHANGED <<periods, targets>>
  BY <1>2 DEF WalkInv, n, Overlaps
<1>3. ~Begin => UNCHANGED <<periods, targets>>
  BY StepCases DEF Claim, Collect, SubmitClose, StopWindows, Crash, RouteTier, TakeShard,
                   PutShard, RegisterShard, CloseRaises, Quiet, planVars
<1> QED BY <1>1, <1>2, <1>3

\* Claims go forward and only returned windows are collected.
LEMMA NextClaimInv == TypeOK /\ WalkInv /\ ClaimInv /\ [Next]_vars => ClaimInv'
<1> SUFFICES ASSUME TypeOK, WalkInv, ClaimInv, [Next]_vars PROVE ClaimInv'
  OBVIOUS
<1>0. /\ n \in Nat /\ n <= NWindows /\ nextI \in 0..n /\ watermark \in 0..n
      /\ stage \in [Windows -> Stages] /\ inflight \subseteq 1..n
  BY DEF TypeOK, WalkInv
<1>1. CASE Begin
  BY <1>1 DEF Begin, ClaimInv
<1>2. CASE Claim
  <2>1. /\ nextI < n /\ nextI' = nextI + 1 /\ inflight' = inflight \cup {nextI'}
        /\ stage' = [stage EXCEPT ![nextI'] = 1]
        /\ UNCHANGED <<completed, watermark>>
    BY <1>2 DEF Claim, Claimable
  <2>2. inflight' \subseteq 1..nextI' /\ completed' \subseteq 1..nextI'
    BY <1>0, <2>1 DEF ClaimInv
  <2>3. inflight' \cap completed' = {}
    BY <1>0, <2>1 DEF ClaimInv
  <2>4. \A i \in Windows : i # nextI' => stage'[i] = stage[i]
    BY <1>0, <2>1
  <2>5. \A i \in completed' : stage'[i] = NTiers + 1
    BY <1>0, <2>1, <2>4 DEF ClaimInv, Windows
  <2>6. \A i \in Windows : i > nextI' => stage'[i] = 0
    BY <1>0, <2>1, <2>4 DEF ClaimInv, Windows
  <2> QED BY <2>1, <2>2, <2>3, <2>5, <2>6 DEF ClaimInv
<1>3. CASE Collect
  <2>1. /\ AllReturned /\ inflight' = inflight \ Finished
        /\ completed' = completed \cup Finished
        /\ 1..watermark' \subseteq completed'
        /\ UNCHANGED <<nextI, stage>>
    BY <1>3 DEF Collect, windowVars
  <2>2. \A i \in Finished : i \in inflight /\ stage[i] = NTiers + 1
    BY <2>1 DEF Finished, AllReturned
  <2> QED BY <2>1, <2>2 DEF ClaimInv
<1>4. ASSUME NEW i \in Windows, RouteTier(i) PROVE ClaimInv'
  <2>1. /\ i \in inflight /\ stage' = [stage EXCEPT ![i] = stage[i] + 1]
        /\ UNCHANGED <<nextI, inflight, completed, watermark>>
    BY <1>4 DEF RouteTier, Routing, coordVars
  <2>2. i \notin completed /\ i <= nextI
    BY <2>1, <1>0 DEF ClaimInv
  <2>3. \A j \in Windows : j # i => stage'[j] = stage[j]
    BY <1>0, <2>1
  <2>4. \A j \in completed : j \in Windows
    BY <1>0 DEF ClaimInv, Windows
  <2> QED BY <2>1, <2>2, <2>3, <2>4, <1>0 DEF ClaimInv, Windows
<1>5. CASE Crash
  BY <1>5 DEF Crash, ClaimInv, windowVars
<1>6. CASE UNCHANGED <<nextI, inflight, completed, watermark, stage>>
  BY <1>6 DEF ClaimInv
<1>7. \/ Begin \/ Claim \/ Collect \/ Crash \/ \E i \in Windows : RouteTier(i)
      \/ UNCHANGED <<nextI, inflight, completed, watermark, stage>>
  BY StepCases DEF SubmitClose, StopWindows, TakeShard, PutShard, RegisterShard,
                   CloseRaises, Quiet, coordVars, windowVars
<1> QED BY <1>1, <1>2, <1>3, <1>4, <1>5, <1>6, <1>7

\* The end of the window at the watermark never moves back.
LEMMA WatermarkMonotone ==
    ASSUME TypeOK, WalkInv, NEW i \in 1..n, NEW j \in 1..n, i <= j
    PROVE  /\ periods[i] \in Windows /\ periods[j] \in Windows
           /\ WEnd[periods[i]] <= WEnd[periods[j]]
           /\ i < j => WEnd[periods[i]] <= WStart[periods[j]]
<1>1. periods[i] \in Windows /\ periods[j] \in Windows /\ n \in Nat
  BY DEF TypeOK, n
<1>2. CASE i = j
  BY <1>1, <1>2, WindowAssumption
<1>3. CASE i < j
  <2>1. periods[i] < periods[j]
    BY <1>3 DEF WalkInv
  <2> QED BY <1>1, <1>3, <2>1, WindowAssumption
<1> QED BY <1>1, <1>2, <1>3

\* A shard leaves pending only when the watermark has passed it.
LEMMA NextPendingInv == TypeOK /\ WalkInv /\ PendingInv /\ [Next]_vars => PendingInv'
<1> SUFFICES ASSUME TypeOK, WalkInv, PendingInv, [Next]_vars PROVE PendingInv'
  OBVIOUS
<1>0. n \in Nat /\ watermark \in 0..n /\ targets \subseteq Shards
  BY DEF TypeOK, WalkInv
<1>1. CASE Begin
  BY <1>1 DEF Begin, PendingInv
<1>2. CASE Collect
  <2>1. PICK k \in watermark..n : watermark' = k
    BY <1>2 DEF Collect
  <2>2. UNCHANGED <<pending, targets, periods>>
    BY <1>2 DEF Collect, planVars
  <2>3. ASSUME NEW s \in targets \ pending
        PROVE  k > 0 /\ End[s] <= WEnd[periods[k]]
    <3>1. watermark > 0 /\ End[s] <= WEnd[periods[watermark]]
      BY <2>3 DEF PendingInv
    <3>2. watermark \in 1..n /\ k \in 1..n /\ watermark <= k
      BY <1>0, <2>1, <3>1
    <3>3. WEnd[periods[watermark]] <= WEnd[periods[k]]
      BY <3>2, WatermarkMonotone
    <3>4. periods[watermark] \in Windows /\ periods[k] \in Windows
      BY <3>2, WatermarkMonotone
    <3> QED BY <1>0, <3>1, <3>2, <3>3, <3>4, ShardAssumption, WindowAssumption
  <2> QED BY <2>1, <2>2, <2>3 DEF PendingInv
<1>3. CASE SubmitClose
  <2>1. PICK s \in Ready : pending' = pending \ {s}
    BY <1>3 DEF SubmitClose
  <2>2. UNCHANGED <<watermark, targets, periods>>
    BY <1>3 DEF SubmitClose, planVars
  <2>3. watermark > 0 /\ End[s] <= WEnd[periods[watermark]]
    BY <2>1 DEF Ready
  <2> QED BY <2>1, <2>2, <2>3 DEF PendingInv
<1>4. CASE UNCHANGED <<targets, pending, watermark, periods>>
  BY <1>4 DEF PendingInv
<1>5. Begin \/ Collect \/ SubmitClose \/ UNCHANGED <<targets, pending, watermark, periods>>
  BY StepCases DEF Claim, StopWindows, Crash, RouteTier, TakeShard, PutShard,
                   RegisterShard, CloseRaises, Quiet, coordVars, planVars
<1> QED BY <1>1, <1>2, <1>3, <1>4, <1>5

\* A window in flight lies after the watermark, so it overlaps no shard that
\* has left pending.
LEMMA InflightPending ==
    ASSUME TypeOK, WalkInv, ClaimInv, PendingInv,
           NEW i \in inflight, NEW s \in targets, Overlaps(s, periods[i])
    PROVE  s \in pending
<1> SUFFICES ASSUME s \notin pending PROVE FALSE
  OBVIOUS
<1>1. watermark > 0 /\ End[s] <= WEnd[periods[watermark]] /\ s \in Shards
  BY DEF PendingInv, TypeOK
<1>2. i \in 1..n /\ watermark \in 1..n /\ n \in Nat
  BY <1>1 DEF TypeOK, WalkInv
<1>3. watermark < i
  BY <1>2 DEF ClaimInv
<1>4. WEnd[periods[watermark]] <= WStart[periods[i]] /\ periods[i] \in Windows /\ periods[watermark] \in Windows
  BY <1>2, <1>3, WatermarkMonotone
<1>5. End[s] \in Nat /\ WEnd[periods[watermark]] \in Nat /\ WStart[periods[i]] \in Nat
  BY <1>1, <1>4, ShardAssumption, WindowAssumption
<1> QED BY <1>1, <1>4, <1>5 DEF Overlaps

-----------------------------------------------------------------------------
(* The closes *)

\* The steps of a close thread and the submission change one close.
LEMMA CloseSteps ==
    ASSUME TypeOK
    PROVE  /\ \A s \in Shards : TakeShard(s) => close' = [close EXCEPT ![s] = "taken"]
           /\ \A s \in Shards : PutShard(s) => close' = [close EXCEPT ![s] = "put"]
           /\ \A s \in Shards : RegisterShard(s) => close' = [close EXCEPT ![s] = "registered"]
           /\ \A s \in Shards : CloseRaises(s) => close' = [close EXCEPT ![s] = "failed"]
           /\ close \in [Shards -> CloseStates]
BY DEF TypeOK, TakeShard, PutShard, RegisterShard, CloseRaises

\* A close belongs to a submitted target, and a dead process has none.
LEMMA NextCloseInv == TypeOK /\ PendingInv /\ CloseInv /\ [Next]_vars => CloseInv'
<1> SUFFICES ASSUME TypeOK, PendingInv, CloseInv, [Next]_vars PROVE CloseInv'
  OBVIOUS
<1>0. close \in [Shards -> CloseStates] /\ targets \subseteq Shards
  BY DEF TypeOK
<1>1. CASE Begin
  BY <1>1 DEF Begin, CloseInv
<1>2. CASE SubmitClose
  <2>1. PICK s \in pending : /\ pending' = pending \ {s}
                             /\ close' = [close EXCEPT ![s] = "queued"]
    BY <1>2 DEF SubmitClose, Ready
  <2>2. UNCHANGED <<pc, inflight, targets>> /\ s \in targets /\ pc # "idle"
    BY <1>2, <2>1 DEF SubmitClose, planVars, PendingInv
  <2> QED BY <1>0, <2>1, <2>2 DEF CloseInv
<1>3. CASE StopWindows
  <2>1. /\ pc = "stopWindows" /\ pc' = "stopCloses"
        /\ close' = [s \in Shards |-> IF close[s] = "queued" THEN "cancelled" ELSE close[s]]
        /\ UNCHANGED <<targets, pending>>
    BY <1>3 DEF StopWindows, planVars
  <2> QED BY <1>0, <2>1 DEF CloseInv
<1>4. CASE Crash
  BY <1>4 DEF Crash, CloseInv, planVars
<1>5. ASSUME NEW s \in Shards, TakeShard(s) \/ PutShard(s) \/ RegisterShard(s) \/ CloseRaises(s)
      PROVE  CloseInv'
  <2>1. \E c \in {"taken", "put", "registered", "failed"} : close' = [close EXCEPT ![s] = c]
    BY <1>5, CloseSteps
  <2>2. UNCHANGED <<pc, inflight, targets, pending>>
    BY <1>5 DEF TakeShard, PutShard, RegisterShard, CloseRaises, coordVars, planVars
  <2>3. close[s] # "none"
    BY <1>5 DEF TakeShard, PutShard, RegisterShard, CloseRaises
  <2> QED BY <1>0, <2>1, <2>2, <2>3 DEF CloseInv
<1>6. CASE /\ UNCHANGED <<close, targets, pending>> /\ pc # "idle" /\ pc' # "idle"
  BY <1>6 DEF CloseInv
<1>7. CASE Quiet
  BY <1>7 DEF Quiet, CloseInv, closeVars, planVars
<1>8. Claim \/ Collect \/ (\E i \in Windows : RouteTier(i)) =>
         UNCHANGED <<close, targets, pending>> /\ pc # "idle" /\ pc' # "idle"
  <2>1. \A i \in Windows : RouteTier(i) => UNCHANGED <<close, targets, pending, pc>> /\ pc # "idle"
    BY DEF RouteTier, Routing, CloseInv, closeVars, planVars, coordVars
  <2> QED BY <2>1 DEF Claim, Collect, closeVars, planVars
<1> QED BY StepCases, <1>1, <1>2, <1>3, <1>4, <1>5, <1>6, <1>7, <1>8

\* When a target has left pending, every window it overlaps has been routed
\* through every tier.
LEMMA SubmittedRouted ==
    ASSUME TypeOK, WalkInv, ClaimInv, PendingInv,
           NEW s \in targets \ pending, NEW w \in Windows, Overlaps(s, w)
    PROVE  Routed(s, w)
<1>1. PICK i \in 1..n : periods[i] = w
  BY DEF WalkInv
<1>2. watermark > 0 /\ End[s] <= WEnd[periods[watermark]] /\ s \in Shards
  BY DEF PendingInv, TypeOK
<1>3. i \in 1..n /\ watermark \in 1..n /\ n \in 0..NWindows
  BY <1>2 DEF TypeOK, WalkInv
<1>4. i <= watermark
  <2> SUFFICES ASSUME watermark < i PROVE FALSE
    BY <1>3
  <2>1. /\ WEnd[periods[watermark]] <= WStart[periods[i]]
        /\ periods[watermark] \in Windows
    BY <1>3, WatermarkMonotone
  <2>2. End[s] \in Nat /\ WEnd[periods[watermark]] \in Nat /\ WStart[w] \in Nat
    BY <1>2, <2>1, ShardAssumption, WindowAssumption
  <2> QED BY <1>1, <1>2, <2>1, <2>2 DEF Overlaps
<1>5. stage[i] = NTiers + 1
  BY <1>3, <1>4 DEF ClaimInv
<1>6. TierOf[s] \in 1..NTiers
  BY <1>2, ShardAssumption DEF Tiers
<1> QED BY <1>1, <1>5, <1>6 DEF Routed

\* So the runs of a queued close are the full runs of its shard.
LEMMA QueuedRuns ==
    ASSUME IInv, NEW s \in Shards, close[s] = "queued"
    PROVE  runs[s] = FullRuns(s)
<1>1. s \in targets \ pending /\ pc # "idle"
  BY DEF IInv, CloseInv
<1>2. \A w \in Windows : Overlaps(s, w) => Routed(s, w)
  BY <1>1, SubmittedRouted DEF IInv
<1>3. \A w \in Windows : runs[s][w] = IF Overlaps(s, w) THEN 1 ELSE 0
  BY <1>1, <1>2 DEF IInv, RunsInv
<1>4. runs[s] \in [Windows -> Nat]
  BY DEF IInv, TypeOK
<1>5. runs[s] = [w \in Windows |-> runs[s][w]]
  BY <1>4
<1> QED BY <1>3, <1>5 DEF FullRuns

\* Routing a tier adds the runs of the targets of that tier, all of them
\* still pending, and of no other.
LEMMA RouteRuns ==
    ASSUME IInv, NEW i \in Windows, RouteTier(i)
    PROVE  RunsInv'
<1> USE DEF IInv
<1>0. /\ stage \in [Windows -> Stages] /\ n \in 0..NWindows /\ targets \subseteq Shards
      /\ inflight \subseteq 1..n
  BY DEF TypeOK, WalkInv
<1>1. /\ i \in 1..n /\ i \in inflight /\ stage[i] \in Tiers /\ pc # "idle"
      /\ stage' = [stage EXCEPT ![i] = stage[i] + 1]
      /\ UNCHANGED <<pc, periods, targets, pending, close>>
  BY <1>0 DEF RouteTier, Routing, CloseInv, coordVars, planVars, closeVars
<1>2. SUFFICES ASSUME NEW s \in targets, close[s] \in {"none", "queued"}, NEW w \in Windows
               PROVE  runs'[s][w] = IF Overlaps(s, w) /\ Routed(s, w)' THEN 1 ELSE 0
  <2>1. \A s \in targets, w \in Windows : Overlaps(s, w)' <=> Overlaps(s, w)
    BY DEF Overlaps
  <2>2. targets' = targets /\ close' = close
    BY <1>1
  <2> QED BY <2>1, <2>2 DEF RunsInv
<1>3. runs[s][w] = IF Overlaps(s, w) /\ Routed(s, w) THEN 1 ELSE 0
  BY <1>1, <1>2 DEF RunsInv
<1>4. runs'[s] = IF TierOf[s] = stage[i] /\ Overlaps(s, periods[i])
                 THEN [runs[s] EXCEPT ![periods[i]] = runs[s][periods[i]] + 1]
                 ELSE runs[s]
  BY <1>0, <1>2 DEF RouteTier
<1>5. /\ stage'[i] = stage[i] + 1 /\ \A j \in 1..n : j # i => stage'[j] = stage[j]
      /\ stage[i] \in Nat /\ TierOf[s] \in Nat /\ \A j \in 1..n : stage[j] \in Nat
      /\ Len(periods) = n /\ n' = n
  <2>1. n' = n /\ Len(periods) = n
    BY <1>1 DEF n
  <2>2. i \in Windows /\ 1..n \subseteq Windows
    BY <1>0, <1>1 DEF Windows
  <2>3. TierOf[s] \in Nat /\ stage[i] \in Nat
    BY <1>0, <1>1, <1>2, ShardAssumption DEF Tiers
  <2>4. \A j \in Windows : stage[j] \in Nat
    BY <1>0, StageRange
  <2>5. stage'[i] = stage[i] + 1 /\ \A j \in Windows : j # i => stage'[j] = stage[j]
    BY ONLY <1>0, <1>1, <2>2
  <2> QED BY <2>1, <2>2, <2>3, <2>4, <2>5
<1>6. CASE periods[i] # w
  <2>1. runs'[s][w] = runs[s][w]
    BY <1>4, <1>6
  <2>2. Routed(s, w)' <=> Routed(s, w)
    BY <1>1, <1>5, <1>6 DEF Routed
  <2> QED BY <1>3, <2>1, <2>2
<1>7. CASE periods[i] = w /\ ~(TierOf[s] = stage[i] /\ Overlaps(s, w))
  <2>1. runs'[s][w] = runs[s][w]
    BY <1>4, <1>7
  <2>2. Overlaps(s, w) => (Routed(s, w)' <=> Routed(s, w))
    BY <1>1, <1>5, <1>7 DEF Routed
  <2> QED BY <1>3, <2>1, <2>2
<1>8. CASE periods[i] = w /\ TierOf[s] = stage[i] /\ Overlaps(s, w)
  <2>1. \A j \in 1..n : periods[j] = w => j = i
    <3>1. \A j \in 1..n : periods[j] \in Windows
      BY DEF TypeOK, n
    <3> QED BY <1>1, <1>8, <3>1, <1>0 DEF WalkInv, Windows
  <2>2. ~Routed(s, w)
    BY <1>5, <1>8, <2>1 DEF Routed
  <2>3. runs[s][w] = 0
    BY <1>3, <2>2
  <2>4. runs'[s][w] = 1
    <3>1. runs[s] \in [Windows -> Nat]
      BY <1>0, <1>2 DEF TypeOK
    <3> QED BY <1>4, <1>8, <2>3, <3>1
  <2>5. Routed(s, w)'
    BY <1>1, <1>5, <1>8 DEF Routed
  <2> QED BY <1>8, <2>4, <2>5
<1> QED BY <1>6, <1>7, <1>8

\* Every step keeps the runs of a target in step with the routing.
LEMMA NextRunsInv == IInv /\ [Next]_vars => RunsInv'
<1> SUFFICES ASSUME IInv, [Next]_vars PROVE RunsInv'
  OBVIOUS
<1> USE DEF IInv
<1>0. /\ n \in 0..NWindows /\ nextI \in 0..n /\ targets \subseteq Shards /\ stage \in [Windows -> Stages]
      /\ close \in [Shards -> CloseStates]
  BY DEF TypeOK, WalkInv
<1>1. CASE Begin
  <2>1. /\ pc' = "claim" /\ stage' = [i \in Windows |-> 0] /\ runs' = [s \in Shards |-> NoRuns]
        /\ targets' \subseteq Shards /\ Len(periods') \in 0..NWindows
    <3>1. Shards \ Done \in SUBSET Shards /\ periods' \in InOrder(Walk(Shards \ Done))
      BY <1>1 DEF Begin
    <3>2. Len(periods') \in 0..NWindows
      BY ONLY <3>1, WalkEnumeration
    <3> QED BY <1>1, <3>2 DEF Begin
  <2>2. \A s \in targets', w \in Windows : ~Routed(s, w)'
    BY <2>1, <1>0, ShardAssumption DEF Routed, Windows, Tiers, n
  <2>3. \A s \in targets', w \in Windows : runs'[s][w] = 0
    BY <2>1 DEF NoRuns
  <2> QED BY <2>2, <2>3 DEF RunsInv
<1>2. CASE Claim
  <2>1. /\ nextI < n /\ nextI' = nextI + 1 /\ stage' = [stage EXCEPT ![nextI'] = 1]
        /\ UNCHANGED <<periods, targets, close, runs>> /\ pc # "idle"
    BY <1>2 DEF Claim, Claimable, planVars, closeVars
  <2>2. /\ nextI' \in 1..n /\ stage[nextI'] = 0 /\ stage'[nextI'] = 1
        /\ \A j \in 1..n : j # nextI' => stage'[j] = stage[j]
    BY <1>0, <2>1 DEF ClaimInv, Windows
  <2>3. \A s \in targets : TierOf[s] \in Nat /\ TierOf[s] >= 1
    BY <1>0, ShardAssumption DEF Tiers
  <2>4. n' = n
    BY <2>1 DEF n
  <2>5. \A s \in targets, w \in Windows : Routed(s, w)' <=> Routed(s, w)
    <3> TAKE s \in targets, w \in Windows
    <3>1. \A j \in 1..n : (stage'[j] > TierOf[s]) <=> (stage[j] > TierOf[s])
      BY <2>2, <2>3
    <3> QED BY <2>1, <2>4, <3>1 DEF Routed
  <2> QED BY <2>1, <2>5 DEF RunsInv, Overlaps
<1>3. ASSUME NEW i \in Windows, RouteTier(i) PROVE RunsInv'
  BY <1>3, RouteRuns
<1>4. CASE SubmitClose
  <2>1. PICK s \in Shards : close' = [close EXCEPT ![s] = "queued"] /\ close[s] = "none"
    BY <1>4 DEF SubmitClose, Ready, CloseInv, PendingInv, TypeOK
  <2>2. UNCHANGED <<periods, targets, stage, runs>> /\ pc # "idle"
    BY <1>4 DEF SubmitClose, planVars, windowVars
  <2> QED BY <1>0, <2>1, <2>2 DEF RunsInv, Routed, Overlaps, n
<1>5. ASSUME NEW s \in Shards, TakeShard(s) PROVE RunsInv'
  <2>1. /\ close' = [close EXCEPT ![s] = "taken"] /\ runs' = [runs EXCEPT ![s] = NoRuns]
        /\ UNCHANGED <<pc, periods, targets, stage>> /\ runs \in [Shards -> [Windows -> Nat]]
    BY <1>5 DEF TakeShard, coordVars, planVars, TypeOK
  <2>2. \A r \in targets : close'[r] \in {"none", "queued"} =>
            close[r] \in {"none", "queued"} /\ runs'[r] = runs[r]
    BY <1>0, <2>1
  <2>3. \A r \in targets, w \in Windows : Routed(r, w)' <=> Routed(r, w)
    BY <2>1 DEF Routed, n
  <2> QED BY <2>1, <2>2, <2>3 DEF RunsInv, Overlaps
<1>6. ASSUME NEW s \in Shards, PutShard(s) \/ RegisterShard(s) \/ CloseRaises(s) PROVE RunsInv'
  <2>1. \E c \in {"put", "registered", "failed"} : close' = [close EXCEPT ![s] = c]
    BY <1>6, CloseSteps
  <2>2. UNCHANGED <<pc, periods, targets, stage, runs>>
    BY <1>6 DEF PutShard, RegisterShard, CloseRaises, coordVars, planVars, windowVars
  <2> QED BY <1>0, <2>1, <2>2 DEF RunsInv, Routed, Overlaps, n
<1>7. CASE StopWindows
  <2>1. /\ close' = [s \in Shards |-> IF close[s] = "queued" THEN "cancelled" ELSE close[s]]
        /\ UNCHANGED <<periods, targets, stage, runs>> /\ pc # "idle"
    BY <1>7 DEF StopWindows, planVars, windowVars
  <2> QED BY <1>0, <2>1 DEF RunsInv, Routed, Overlaps, n
<1>8. CASE Crash
  BY <1>8 DEF Crash, RunsInv
<1>9. CASE Collect \/ Quiet
  <2>1. UNCHANGED <<periods, targets, stage, runs, close>> /\ (pc' = "idle" <=> pc = "idle")
    BY <1>9 DEF Collect, Quiet, planVars, windowVars, closeVars
  <2> QED BY <2>1 DEF RunsInv, Routed, Overlaps, n
<1> QED BY StepCases, <1>1, <1>2, <1>3, <1>4, <1>5, <1>6, <1>7, <1>8, <1>9

\* What a close has taken is the full runs of its shard.
LEMMA NextTakenInv == IInv /\ [Next]_vars => TakenInv'
<1> SUFFICES ASSUME IInv, [Next]_vars PROVE TakenInv'
  OBVIOUS
<1>0. close \in [Shards -> CloseStates] /\ taken \in [Shards -> [Windows -> Nat]] /\ TakenInv
  BY DEF IInv, TypeOK
<1>1. CASE Begin
  BY <1>1 DEF Begin, TakenInv
<1>2. CASE SubmitClose \/ StopWindows \/ Crash
  BY <1>0, <1>2 DEF SubmitClose, StopWindows, Crash, TakenInv, FullRuns, Overlaps
<1>3. ASSUME NEW s \in Shards, TakeShard(s) PROVE TakenInv'
  <2>1. /\ close' = [close EXCEPT ![s] = "taken"] /\ taken' = [taken EXCEPT ![s] = runs[s]]
        /\ close[s] = "queued"
    BY <1>3 DEF TakeShard
  <2>2. runs[s] = FullRuns(s)
    BY <2>1, QueuedRuns
  <2> QED BY <1>0, <2>1, <2>2 DEF TakenInv, FullRuns, Overlaps
<1>4. ASSUME NEW s \in Shards, PutShard(s) \/ RegisterShard(s) \/ CloseRaises(s) PROVE TakenInv'
  <2>1. \E c \in {"put", "registered", "failed"} : close' = [close EXCEPT ![s] = c]
    BY <1>4, CloseSteps DEF IInv
  <2>2. taken' = taken
    BY <1>4 DEF PutShard, RegisterShard, CloseRaises
  <2>3. \A r \in Shards : close'[r] = "taken" => close[r] = "taken"
    BY <1>0, <2>1
  <2>4. \A r \in Shards : FullRuns(r)' = FullRuns(r)
    BY DEF FullRuns, Overlaps
  <2> QED BY <1>0, <2>2, <2>3, <2>4 DEF TakenInv
<1>5. CASE UNCHANGED <<close, taken>>
  BY <1>0, <1>5 DEF TakenInv, FullRuns, Overlaps
<1>6. Claim \/ Collect \/ (\E i \in Windows : RouteTier(i)) \/ Quiet => UNCHANGED <<close, taken>>
  BY DEF Claim, Collect, RouteTier, Quiet, closeVars
<1> QED BY StepCases, <1>1, <1>2, <1>3, <1>4, <1>5, <1>6

\* A close that is over stays over, except when the process dies or a build
\* is planned.
LEMMA FinalCloses ==
    ASSUME TypeOK, CloseInv, [Next]_vars, ~Begin, ~Crash, NEW s \in Shards
    PROVE  /\ close[s] = "registered" => close'[s] = "registered"
           /\ close[s] = "failed" => close'[s] = "failed"
           /\ close'[s] = "put" => close[s] = "put" \/ PutShard(s)
           /\ close'[s] = "registered" => close[s] = "registered" \/ RegisterShard(s)
<1>0. close \in [Shards -> CloseStates]
  BY DEF TypeOK
<1>1. ASSUME NEW r \in Shards, TakeShard(r) \/ PutShard(r) \/ RegisterShard(r) \/ CloseRaises(r)
      PROVE  /\ r # s => close'[s] = close[s]
             /\ close[r] \notin {"registered", "failed"}
             /\ close'[r] = "put" => PutShard(r)
             /\ close'[r] = "registered" => RegisterShard(r)
  <2>1. CASE TakeShard(r)
    BY <1>0, <2>1, CloseSteps DEF TakeShard
  <2>2. CASE PutShard(r)
    BY <1>0, <2>2, CloseSteps DEF PutShard
  <2>3. CASE RegisterShard(r)
    BY <1>0, <2>3, CloseSteps DEF RegisterShard
  <2>4. CASE CloseRaises(r)
    BY <1>0, <2>4, CloseSteps DEF CloseRaises
  <2> QED BY <1>1, <2>1, <2>2, <2>3, <2>4
<1>2. CASE SubmitClose
  <2>1. PICK r \in Shards : close' = [close EXCEPT ![r] = "queued"] /\ r \in pending
    BY <1>2 DEF SubmitClose, Ready, TypeOK
  <2>2. close[r] = "none"
    BY <2>1 DEF CloseInv
  <2> QED BY <1>0, <2>1, <2>2
<1>3. CASE StopWindows
  BY <1>0, <1>3 DEF StopWindows
<1>4. Claim \/ Collect \/ (\E i \in Windows : RouteTier(i)) \/ Quiet => close' = close
  BY DEF Claim, Collect, RouteTier, Quiet, closeVars
<1> QED BY StepCases, <1>1, <1>2, <1>3, <1>4

\* Objects are put complete, and before their registry row.
LEMMA NextStoreInv == IInv /\ [Next]_vars => StoreInv'
<1> SUFFICES ASSUME IInv, [Next]_vars PROVE StoreInv'
  OBVIOUS
<1>0. /\ TypeOK /\ CloseInv /\ StoreInv /\ close \in [Shards -> CloseStates]
      /\ content \in [Shards -> [Windows -> Nat]] /\ objects \subseteq Shards
  BY DEF IInv, TypeOK
<1>1. \A s \in Shards : FullRuns(s)' = FullRuns(s)
  BY DEF FullRuns, Overlaps
<1>2. CASE Begin \/ Crash
  <2>1. UNCHANGED durableVars /\ \A s \in Shards : close'[s] = "none"
    BY <1>2 DEF Begin, Crash
  <2> QED BY <1>0, <1>1, <2>1 DEF StoreInv, ObjectsComplete, durableVars
<1>3. ASSUME NEW s \in Shards, PutShard(s) PROVE StoreInv'
  <2>1. /\ close' = [close EXCEPT ![s] = "put"] /\ close[s] = "taken"
        /\ objects' = objects \cup {s} /\ content' = [content EXCEPT ![s] = taken[s]]
        /\ UNCHANGED registry
    BY <1>3 DEF PutShard
  <2>2. taken[s] = FullRuns(s)
    BY <2>1 DEF IInv, TakenInv
  <2>3. ObjectsComplete'
    BY <1>0, <1>1, <2>1, <2>2 DEF StoreInv, ObjectsComplete
  <2> QED BY <1>0, <2>1, <2>3 DEF StoreInv
<1>4. ASSUME NEW s \in Shards, RegisterShard(s) PROVE StoreInv'
  <2>1. /\ close' = [close EXCEPT ![s] = "registered"] /\ close[s] = "put"
        /\ registry' = registry \cup {s} /\ UNCHANGED <<objects, content>>
    BY <1>4 DEF RegisterShard
  <2>2. ObjectsComplete'
    BY <1>0, <1>1, <2>1 DEF StoreInv, ObjectsComplete
  <2> QED BY <1>0, <2>1, <2>2 DEF StoreInv
<1>5. CASE /\ ~Begin /\ ~Crash /\ UNCHANGED durableVars
           /\ \A s \in Shards : ~PutShard(s) /\ ~RegisterShard(s)
  <2>1. \A s \in Shards : /\ close'[s] = "put" => close[s] = "put"
                          /\ close'[s] = "registered" => close[s] = "registered"
    BY <1>0, <1>5, FinalCloses
  <2> QED BY <1>0, <1>1, <1>5, <2>1 DEF StoreInv, ObjectsComplete, durableVars
<1>6. \/ Begin \/ Crash \/ UNCHANGED durableVars
      \/ \E s \in Shards : PutShard(s) \/ RegisterShard(s)
  BY StepCases DEF Claim, Collect, SubmitClose, StopWindows, RouteTier, TakeShard,
                   CloseRaises, Quiet
<1> QED BY <1>2, <1>3, <1>4, <1>5, <1>6

\* What an attempt skips stays there: nothing is taken out of the store.
LEMMA NextSkippedInv == IInv /\ [Next]_vars => SkippedInv'
<1> SUFFICES ASSUME IInv, [Next]_vars PROVE SkippedInv'
  OBVIOUS
<1>1. objects \subseteq objects' /\ registry \subseteq registry'
  BY StepCases DEF Begin, Claim, Collect, SubmitClose, StopWindows, Crash, RouteTier, TakeShard,
                   PutShard, RegisterShard, CloseRaises, Quiet, durableVars
<1>2. CASE Begin
  <2>1. targets' = Shards \ Done /\ UNCHANGED <<objects, registry>>
    BY <1>2 DEF Begin, durableVars
  <2>2. Done \subseteq IF Mode = "fill" /\ ~Hashed THEN objects ELSE registry
    BY DEF Done, IInv, StoreInv
  <2> QED BY <2>1, <2>2 DEF SkippedInv
<1>3. CASE Crash
  BY <1>3 DEF Crash, SkippedInv
<1>4. CASE targets' = targets /\ (pc' # "idle" => pc # "idle")
  BY <1>1, <1>4 DEF SkippedInv, IInv
<1>5. Begin \/ Crash \/ (targets' = targets /\ (pc' # "idle" => pc # "idle"))
  <2>1. \A i \in Windows : RouteTier(i) => targets' = targets /\ pc' = pc
    BY DEF RouteTier, planVars, coordVars
  <2> QED BY <2>1, StepCases
    DEF Claim, Collect, SubmitClose, StopWindows, TakeShard, PutShard, RegisterShard,
        CloseRaises, Quiet, planVars, coordVars
<1> QED BY <1>2, <1>3, <1>4, <1>5

\* Each target is submitted once, and the turn only passes closes that are over.
LEMMA NextTurnInv == IInv /\ [Next]_vars => TurnInv'
<1> SUFFICES ASSUME IInv, [Next]_vars, pc' # "idle" PROVE TurnInv'
  BY DEF TurnInv
<1>0. /\ TypeOK /\ CloseInv /\ PendingInv /\ closeFuts \in Seq(Shards)
      /\ close \in [Shards -> CloseStates]
      /\ nextReg \in 0..Len(closeFuts) /\ pending \subseteq targets /\ targets \subseteq Shards
  BY DEF IInv, TypeOK, PendingInv
<1>1. CASE Begin
  BY <1>1 DEF Begin, TurnInv
<1>2. CASE Crash
  BY <1>2 DEF Crash
<1> SUFFICES ASSUME ~Begin, ~Crash PROVE TurnInv'
  BY <1>1, <1>2
<1>3. pc # "idle" /\ TurnInv /\ targets' = targets
  <2>1. \A i \in Windows : RouteTier(i) => targets' = targets /\ pc' = pc
    BY DEF RouteTier, planVars, coordVars
  <2> QED BY <2>1, StepCases
    DEF Claim, Collect, SubmitClose, StopWindows, TakeShard, PutShard, RegisterShard,
        CloseRaises, Quiet, planVars, coordVars, IInv
<1>4. \A i \in 1..nextReg : close'[closeFuts[i]] \in {"registered", "failed"}
  <2> TAKE i \in 1..nextReg
  <2>1. closeFuts[i] \in Shards /\ close[closeFuts[i]] \in {"registered", "failed"}
    BY <1>0, <1>3 DEF TurnInv
  <2> QED BY <1>0, <2>1, FinalCloses
<1>5. CASE SubmitClose
  <2>1. PICK s \in pending : pending' = pending \ {s} /\ closeFuts' = Append(closeFuts, s)
    BY <1>5 DEF SubmitClose, Ready
  <2>2. /\ Len(closeFuts') = Len(closeFuts) + 1 /\ closeFuts'[Len(closeFuts) + 1] = s
        /\ \A i \in 1..Len(closeFuts) : closeFuts'[i] = closeFuts[i]
        /\ nextReg' = nextReg /\ Len(closeFuts) \in Nat
    BY <1>0, <1>5, <2>1 DEF SubmitClose
  <2>3. \A i \in 1..Len(closeFuts) : closeFuts[i] # s
    BY <1>3, <2>1 DEF TurnInv
  <2>4. \A i, j \in 1..Len(closeFuts') : closeFuts'[i] = closeFuts'[j] => i = j
    BY <1>3, <2>2, <2>3 DEF TurnInv
  <2>5. \A r \in targets' \ pending' : \E i \in 1..Len(closeFuts') : closeFuts'[i] = r
    <3> TAKE r \in targets' \ pending'
    <3>1. CASE r = s
      BY <2>2, <3>1
    <3>2. CASE r # s
      <4>1. r \in targets \ pending
        BY <1>3, <2>1, <3>2
      <4>2. PICK i \in 1..Len(closeFuts) : closeFuts[i] = r
        BY <1>3, <4>1 DEF TurnInv
      <4> QED BY <2>2, <4>2
    <3> QED BY <3>1, <3>2
  <2>6. \A i \in 1..Len(closeFuts') : closeFuts'[i] \in targets' \ pending'
    BY <1>0, <1>3, <2>1, <2>2, <2>3 DEF TurnInv
  <2>7. \A i \in 1..nextReg' : close'[closeFuts'[i]] \in {"registered", "failed"}
    BY <1>0, <1>4, <2>2
  <2> QED BY <2>4, <2>5, <2>6, <2>7 DEF TurnInv
<1>6. ASSUME NEW s \in Shards, RegisterShard(s) \/ CloseRaises(s) PROVE TurnInv'
  <2>1. /\ UNCHANGED <<closeFuts, pending>>
        /\ close'[s] \in {"registered", "failed"}
        /\ nextReg' = nextReg \/ (nextReg' = nextReg + 1 /\ closeFuts[nextReg + 1] = s)
    BY <1>0, <1>6 DEF RegisterShard, CloseRaises, TurnPassed, Turn, coordVars
  <2>2. \A i \in 1..nextReg' : close'[closeFuts[i]] \in {"registered", "failed"}
    BY <1>0, <1>4, <2>1
  <2> QED BY <1>3, <2>1, <2>2 DEF TurnInv
<1>7. CASE UNCHANGED <<closeFuts, pending, nextReg>>
  BY <1>3, <1>4, <1>7 DEF TurnInv
<1>8. \/ SubmitClose \/ (\E s \in Shards : RegisterShard(s) \/ CloseRaises(s))
      \/ UNCHANGED <<closeFuts, pending, nextReg>>
  BY StepCases DEF Claim, Collect, StopWindows, RouteTier, TakeShard, PutShard, Quiet,
                   coordVars, closeVars
<1> QED BY <1>5, <1>6, <1>7, <1>8

\* Drained closes stay registered, and success comes after all of them.
LEMMA NextDrainInv == IInv /\ [Next]_vars => DrainInv'
<1> SUFFICES ASSUME IInv, [Next]_vars, pc' # "idle" PROVE DrainInv'
  BY DEF DrainInv
<1>0. /\ TypeOK /\ CloseInv /\ closeFuts \in Seq(Shards) /\ drained \in 0..Len(closeFuts)
  BY DEF IInv, TypeOK
<1>1. CASE Begin
  BY <1>1 DEF Begin, DrainInv
<1>2. CASE Crash
  BY <1>2 DEF Crash
<1> SUFFICES ASSUME ~Begin, ~Crash PROVE DrainInv'
  BY <1>1, <1>2
<1>3. CASE pc = "idle"
  <2>1. \A i \in Windows : ~RouteTier(i) /\ ~WindowRaises(i)
    BY <1>0, <1>3 DEF RouteTier, WindowRaises, Routing, CloseInv
  <2>2. \A s \in Shards : ~CloseThread(s)
    BY <1>0, <1>3 DEF CloseThread, TakeShard, PutShard, RegisterShard, CloseRaises, CloseInv
  <2>3. pc' = pc
    BY <1>3, <2>1, <2>2
    DEF Next, Coordinator, WindowThread, Claim, AwaitFirst, StopClaiming, Collect, CollectRaised,
        SubmitClose, SubmitDone, DrainClose, FinishWalk, StopWindows, StopCloses, Stopped, vars,
        coordVars
  <2> QED BY <1>3, <2>3
<1> SUFFICES ASSUME pc # "idle" PROVE DrainInv'
  BY <1>3
<1>4. DrainInv
  BY DEF IInv
<1>5. \A i \in 1..drained : close'[closeFuts[i]] = "registered"
  <2> TAKE i \in 1..drained
  <2>1. closeFuts[i] \in Shards /\ close[closeFuts[i]] = "registered"
    BY <1>0, <1>4 DEF DrainInv
  <2> QED BY <1>0, <2>1, FinalCloses
<1>6. CASE DrainClose
  <2>1. /\ UNCHANGED <<closeFuts, close>> /\ pc' # "done"
        /\ \/ drained' = drained
           \/ drained' = drained + 1 /\ close[closeFuts[drained + 1]] = "registered"
    BY <1>6 DEF DrainClose, closeVars
  <2> QED BY <1>0, <1>5, <2>1 DEF DrainInv
<1>7. CASE FinishWalk
  <2>1. /\ UNCHANGED <<closeFuts, drained, pending>>
        /\ pc' = "done" => pending = {} /\ drained = Len(closeFuts)
    BY <1>7 DEF FinishWalk, closeVars
  <2> QED BY <1>5, <2>1 DEF DrainInv
<1>8. CASE SubmitClose
  <2>1. PICK s : closeFuts' = Append(closeFuts, s) /\ s \in Shards
    BY <1>0, <1>8 DEF SubmitClose, Ready, TypeOK
  <2>2. drained' = drained /\ pc' # "done" /\ \A i \in 1..drained : closeFuts'[i] = closeFuts[i]
    BY <1>0, <1>8, <2>1 DEF SubmitClose
  <2> QED BY <1>5, <2>2 DEF DrainInv
<1>9. CASE /\ UNCHANGED <<closeFuts, drained, pending>> /\ (pc' = "done" => pc = "done")
  BY <1>4, <1>5, <1>9 DEF DrainInv
<1>10. \/ DrainClose \/ FinishWalk \/ SubmitClose
       \/ UNCHANGED <<closeFuts, drained, pending>> /\ (pc' = "done" => pc = "done")
  <2>1. \A i \in Windows : WindowThread(i) => UNCHANGED <<closeFuts, drained, pending, pc>>
    BY DEF WindowThread, RouteTier, WindowRaises, coordVars, closeVars
  <2>2. \A s \in Shards : CloseThread(s) => UNCHANGED <<closeFuts, drained, pending, pc>>
    BY DEF CloseThread, TakeShard, PutShard, RegisterShard, CloseRaises, coordVars
  <2>3. Coordinator => \/ DrainClose \/ FinishWalk \/ SubmitClose
                       \/ UNCHANGED <<closeFuts, drained, pending>> /\ pc' # "done"
    BY DEF Coordinator, Claim, AwaitFirst, StopClaiming, Collect, CollectRaised, SubmitDone,
           StopWindows, StopCloses, closeVars
  <2> QED BY <2>1, <2>2, <2>3 DEF Next, Stopped, vars, coordVars, closeVars
<1> QED BY <1>6, <1>7, <1>8, <1>9, <1>10

LEMMA NextIInv == IInv /\ [Next]_vars => IInv'
<1> SUFFICES ASSUME IInv, [Next]_vars PROVE IInv'
  OBVIOUS
<1>1. TypeOK' /\ WalkInv' /\ ClaimInv' /\ PendingInv' /\ CloseInv'
  BY NextType, NextWalkInv, NextClaimInv, NextPendingInv, NextCloseInv DEF IInv
<1>2. RunsInv' /\ TakenInv' /\ StoreInv' /\ SkippedInv' /\ TurnInv' /\ DrainInv'
  BY NextRunsInv, NextTakenInv, NextStoreInv, NextSkippedInv, NextTurnInv, NextDrainInv
<1> QED BY <1>1, <1>2 DEF IInv

\* The inductive invariant holds in every reachable state.
THEOREM Invariant == Spec => []IInv
BY InitIInv, NextIInv, PTL DEF Spec

-----------------------------------------------------------------------------
(* What follows *)

\* A window thread never routes to a shard whose close is submitted.
THEOREM NoLateAppendHolds == Spec => []NoLateAppend
<1>1. IInv => NoLateAppend
  BY InflightPending DEF IInv, NoLateAppend, Routing
<1> QED BY <1>1, Invariant, PTL

\* Every object holds each window of its shard exactly once.
THEOREM ObjectsCompleteHolds == Spec => []ObjectsComplete
<1>1. IInv => ObjectsComplete
  BY DEF IInv, StoreInv
<1> QED BY <1>1, Invariant, PTL

\* When every close is submitted and awaited, all of them are registered, and
\* with what the attempt skipped the whole plan is there.
LEMMA DrainedState ==
    ASSUME IInv, pc # "idle", pending = {}, drained = Len(closeFuts)
    PROVE  /\ \A s \in Shards : close[s] \in {"none", "registered"}
           /\ objects = Shards
           /\ ~(Mode = "fill" /\ ~Hashed) => registry = Shards
<1> USE DEF IInv
<1>1. \A s \in targets : close[s] = "registered"
  <2> TAKE s \in targets
  <2>1. s \in targets \ pending /\ drained = Len(closeFuts)
    OBVIOUS
  <2>2. PICK i \in 1..Len(closeFuts) : closeFuts[i] = s
    BY <2>1 DEF TurnInv
  <2> QED BY <2>1, <2>2 DEF DrainInv
<1>2. targets \subseteq registry /\ targets \subseteq Shards /\ registry \subseteq objects
  BY <1>1 DEF StoreInv, TypeOK
<1>3. Shards \ targets \subseteq IF Mode = "fill" /\ ~Hashed THEN objects ELSE registry
  BY DEF SkippedInv
<1>4. objects \subseteq Shards /\ registry \subseteq Shards
  BY DEF TypeOK
<1>5. \A s \in Shards : close[s] \in {"none", "registered"}
  BY <1>1 DEF CloseInv
<1> QED BY <1>2, <1>3, <1>4, <1>5

\* A build that is done has drained its closes.
LEMMA DoneState ==
    ASSUME IInv, pc = "done"
    PROVE  /\ \A s \in Shards : close[s] \in {"none", "registered"}
           /\ objects = Shards
           /\ ~(Mode = "fill" /\ ~Hashed) => registry = Shards
<1>1. pc # "idle" /\ pending = {} /\ drained = Len(closeFuts)
  BY DEF IInv, DrainInv
<1> QED BY <1>1, DrainedState

\* Success means that every shard of the plan is in storage.
THEOREM SuccessMeansWrittenHolds == Spec => []SuccessMeansWritten
<1>1. IInv => SuccessMeansWritten
  BY DoneState DEF SuccessMeansWritten
<1> QED BY <1>1, Invariant, PTL

\* Success means that every shard of the plan is registered, unless a listed
\* object counts as built.
THEOREM SuccessMeansRegisteredHolds ==
    ~(Mode = "fill" /\ ~Hashed) => (Spec => []SuccessMeansRegistered)
<1> SUFFICES ASSUME ~(Mode = "fill" /\ ~Hashed) PROVE Spec => []SuccessMeansRegistered
  OBVIOUS
<1>1. IInv => SuccessMeansRegistered
  BY DoneState DEF SuccessMeansRegistered
<1> QED BY <1>1, Invariant, PTL

\* Registration follows submission.
THEOREM RegistrationOrderHolds == Spec => RegistrationOrder
<1> DEFINE Ordered ==
      \A s \in Shards : close[s] = "put" /\ close'[s] = "registered" =>
          \A i, j \in 1..Len(closeFuts) :
              (i < j /\ closeFuts[j] = s) => close[closeFuts[i]] \in {"registered", "failed"}
<1>1. IInv /\ [Next]_vars => [Ordered]_vars
  <2> SUFFICES ASSUME IInv, [Next]_vars,
                      NEW s \in Shards, close[s] = "put", close'[s] = "registered",
                      NEW i \in 1..Len(closeFuts), NEW j \in 1..Len(closeFuts),
                      i < j, closeFuts[j] = s
               PROVE  close[closeFuts[i]] \in {"registered", "failed"}
    OBVIOUS
  <2>1. ~Begin /\ ~Crash
    BY DEF Begin, Crash
  <2>2. RegisterShard(s) /\ pc # "idle"
    BY <2>1, FinalCloses DEF IInv, CloseInv
  <2>3. nextReg < Len(closeFuts) /\ closeFuts[nextReg + 1] = s
    BY <2>2 DEF RegisterShard, Turn
  <2>4. nextReg \in Nat /\ Len(closeFuts) \in Nat
    BY DEF IInv, TypeOK
  <2>5. nextReg + 1 \in 1..Len(closeFuts) /\ closeFuts[nextReg + 1] = closeFuts[j]
    BY <2>3, <2>4
  <2>6. \A k, l \in 1..Len(closeFuts) : closeFuts[k] = closeFuts[l] => k = l
    BY <2>2 DEF IInv, TurnInv
  <2>7. j = nextReg + 1
    BY ONLY <2>5, <2>6, j \in 1..Len(closeFuts)
  <2>8. i \in 1..nextReg
    BY ONLY <2>4, <2>7, i \in 1..Len(closeFuts), i < j
  <2> QED BY <2>2, <2>8 DEF IInv, TurnInv
<1> QED BY <1>1, Invariant, PTL DEF Spec, RegistrationOrder

-----------------------------------------------------------------------------
(* The end of the walk *)

\* Between its claims the coordinator has submitted what is ready; what was
\* claimed is in flight or collected, the watermark is the largest prefix of what
\* was collected, and the walk is left at its end only.
CoordInv ==
    /\ pc # "idle" => 1..nextI \subseteq inflight \cup completed
    /\ watermark + 1 \notin completed
    /\ pc \in {"claim", "first", "wait", "drain"} => Ready = {}
    /\ pc = "first" => inflight # {}
    /\ pc = "claim" /\ inflight = {} => burst = 0
    /\ pc = "drain" => watermark = n

\* A pass that ends with nothing in flight has claimed and collected every window.
LEMMA WalkOver ==
    ASSUME TypeOK, ClaimInv, CoordInv, pc = "claim", inflight = {}, ~Claimable
    PROVE  watermark = n
<1>1. n \in Nat /\ nextI \in 0..n /\ watermark \in 0..n
  BY DEF TypeOK, n
<1>2. completed = 1..nextI /\ 1..watermark \subseteq completed /\ watermark + 1 \notin completed
  BY DEF ClaimInv, CoordInv
<1>3. watermark = nextI
  BY <1>1, <1>2
<1>4. burst < Burst /\ Cardinality(inflight) < Workers /\ nextI - watermark < MaxInflight
  <2>1. burst = 0 /\ Cardinality(inflight) = 0
    BY FS_EmptySet DEF CoordInv
  <2>2. nextI - watermark = 0
    BY <1>1, <1>3
  <2> QED BY <2>1, <2>2
<1>5. ~(nextI < n)
  BY <1>4 DEF Claimable
<1> QED BY <1>1, <1>3, <1>5

LEMMA NextCoordInv == IInv /\ CoordInv /\ [Next]_vars => CoordInv'
<1> SUFFICES ASSUME IInv, CoordInv, [Next]_vars PROVE CoordInv'
  OBVIOUS
<1>0. /\ TypeOK /\ ClaimInv /\ n \in Nat /\ nextI \in 0..n /\ watermark \in 0..n
      /\ completed \subseteq 1..nextI
  <2>1. TypeOK /\ ClaimInv
    BY DEF IInv
  <2>2. n \in Nat /\ nextI \in 0..n /\ watermark \in 0..n
    BY <2>1 DEF TypeOK, n
  <2> QED BY <2>1, <2>2 DEF ClaimInv
<1>1. CASE Begin
  BY <1>1 DEF Begin, CoordInv, Ready
<1>2. CASE Claim
  <2>1. /\ nextI' = nextI + 1 /\ inflight' = inflight \cup {nextI + 1}
        /\ pc = "claim" /\ pc' \in {"first", "claim"}
        /\ UNCHANGED <<completed, watermark, pending, periods>>
    BY <1>2 DEF Claim, planVars
  <2>2. 1..nextI' \subseteq inflight' \cup completed' /\ inflight' # {}
    BY <1>0, <2>1 DEF CoordInv
  <2>3. Ready' = Ready
    BY <2>1 DEF Ready
  <2> QED BY <2>1, <2>2, <2>3 DEF CoordInv
<1>3. CASE AwaitFirst
  BY <1>3 DEF AwaitFirst, CoordInv, Ready, planVars, n
<1>4. CASE StopClaiming
  <2>1. /\ UNCHANGED <<nextI, inflight, completed, watermark, pending, periods>>
        /\ pc = "claim" /\ pc' = IF inflight = {} THEN "drain" ELSE "wait"
    BY <1>4 DEF StopClaiming, planVars
  <2>2. inflight = {} => watermark = n
    BY <1>0, <1>4, WalkOver DEF StopClaiming, MayRefuse
  <2> QED BY <2>1, <2>2 DEF CoordInv, Ready, n
<1>5. CASE Collect
  <2>1. /\ inflight' = inflight \ Finished /\ completed' = completed \cup Finished
        /\ pc = "wait" /\ pc' = "submit" /\ UNCHANGED <<nextI, periods>>
        /\ watermark' + 1 \notin completed'
    BY <1>5 DEF Collect, planVars
  <2> QED BY <2>1 DEF CoordInv
<1>6. CASE SubmitDone
  BY <1>6 DEF SubmitDone, CoordInv, Ready, planVars
<1>7. CASE Crash
  BY <1>7 DEF Crash, CoordInv
<1>8. CASE /\ UNCHANGED <<nextI, burst, inflight, completed, watermark, periods>>
           /\ \/ pc' = pc /\ UNCHANGED pending
              \/ pc = "submit" /\ pc' = "submit"
              \/ pc' \notin {"idle", "claim", "first", "wait", "drain"} /\ pc # "idle"
  BY <1>8 DEF CoordInv, Ready, n
<1>9. \/ Begin \/ Claim \/ AwaitFirst \/ StopClaiming \/ Collect \/ SubmitDone \/ Crash
      \/ /\ UNCHANGED <<nextI, burst, inflight, completed, watermark, periods>>
         /\ \/ pc' = pc /\ UNCHANGED pending
            \/ pc = "submit" /\ pc' = "submit"
            \/ pc' \notin {"idle", "claim", "first", "wait", "drain"} /\ pc # "idle"
  <2>1. \A i \in Windows : WindowThread(i) =>
            UNCHANGED <<nextI, burst, inflight, completed, watermark, periods, pc, pending>>
    BY DEF WindowThread, RouteTier, WindowRaises, coordVars, planVars
  <2>2. \A s \in Shards : CloseThread(s) =>
            UNCHANGED <<nextI, burst, inflight, completed, watermark, periods, pc, pending>>
    BY DEF CloseThread, TakeShard, PutShard, RegisterShard, CloseRaises, coordVars, planVars
  <2>3. CASE Coordinator
    BY <2>3 DEF Coordinator, CollectRaised, SubmitClose, DrainClose, FinishWalk, StopWindows,
                StopCloses, planVars
  <2>4. CASE UNCHANGED vars
    BY <2>4 DEF vars, coordVars, planVars
  <2> QED BY <2>1, <2>2, <2>3, <2>4 DEF Next, Stopped
<1> QED BY <1>1, <1>2, <1>3, <1>4, <1>5, <1>6, <1>7, <1>8, <1>9

\* At the end of the walk the watermark has passed every shard.
LEMMA WalkEndsBehind ==
    ASSUME IInv, CoordInv, pc = "drain" PROVE pending = {}
<1> SUFFICES ASSUME NEW s \in pending PROVE FALSE
  OBVIOUS
<1>1. s \in targets /\ s \in Shards
  BY DEF IInv, PendingInv, TypeOK
<1>2. PICK w \in Windows : Overlaps(s, w) /\ End[s] <= WEnd[w]
  BY <1>1, WindowAssumption
<1>3. PICK i \in 1..n : periods[i] = w
  BY <1>1, <1>2 DEF IInv, WalkInv
<1>4. n \in Nat /\ n \in 1..n /\ i <= n /\ watermark = n
  <2>1. periods \in Seq(Windows) /\ watermark = n
    BY DEF IInv, TypeOK, CoordInv
  <2>2. n \in Nat
    BY <2>1 DEF n
  <2> QED BY <2>1, <2>2, <1>3
<1>5. periods[n] \in Windows /\ WEnd[w] <= WEnd[periods[n]]
  BY <1>3, <1>4, WatermarkMonotone DEF IInv
<1>6. End[s] \in Nat /\ WEnd[w] \in Nat /\ WEnd[periods[n]] \in Nat
  BY <1>1, <1>5, ShardAssumption, WindowAssumption
<1>7. End[s] <= WEnd[periods[n]]
  BY <1>2, <1>5, <1>6
<1>8. s \in Ready
  BY <1>4, <1>7 DEF Ready
<1> QED BY <1>8 DEF CoordInv

\* The walk never ends with a shard unflushed: build_local's AssertionError
\* cannot be raised.
THEOREM NoLeftoverHolds == Spec => []NoLeftover
<1>1. Init => CoordInv
  BY DEF Init, CoordInv, n
<1>2. IInv /\ CoordInv => NoLeftover
  BY WalkEndsBehind DEF NoLeftover
<1> QED BY <1>1, <1>2, NextCoordInv, Invariant, PTL DEF Spec

-----------------------------------------------------------------------------
(* One close thread: no close waits for the turn of a dead one *)

\* The closes from the turn on are not over; the one that runs has the turn;
\* nothing is queued once closes are cancelled.
SeqInv ==
    pc # "idle" =>
        /\ \A i \in nextReg + 1..Len(closeFuts) :
              close[closeFuts[i]] \notin {"registered", "failed"}
        /\ \A s \in Running : Turn(s)
        /\ \A s \in Shards : close[s] = "cancelled" => pc \in {"stopCloses", "failed"}
        /\ pc \in {"stopCloses", "failed"} => \A s \in Shards : close[s] # "queued"

\* The single thread takes the close whose turn it is.
LEMMA TakesTheTurn ==
    ASSUME IInv, SeqInv, CloseWorkers = 1, NEW s \in Shards, TakeShard(s)
    PROVE  Running = {} /\ Turn(s) /\ pc # "idle"
<1>0. /\ close[s] = "queued" /\ Cardinality(Running) < CloseWorkers
      /\ \A i, j \in 1..Len(closeFuts) :
            (closeFuts[j] = s /\ close[closeFuts[i]] = "queued") => j <= i
  BY DEF TakeShard
<1>1. Running = {}
  <2>1. IsFiniteSet(Running)
    BY ShardAssumption, FS_Subset DEF Running
  <2>2. Cardinality(Running) = 0
    BY <1>0, <2>1, FS_CardinalityType
  <2> QED BY <2>1, <2>2, FS_EmptySet
<1>2. pc # "idle" /\ s \in targets \ pending
  BY <1>0 DEF IInv, CloseInv
<1>3. /\ Len(closeFuts) \in Nat /\ nextReg \in 0..Len(closeFuts)
      /\ \A i \in 1..Len(closeFuts) : closeFuts[i] \in Shards
      /\ \A r \in Shards : close[r] \in CloseStates
  BY DEF IInv, TypeOK
<1>4. PICK j \in 1..Len(closeFuts) : closeFuts[j] = s
  BY <1>2 DEF IInv, TurnInv
<1>5. ~(j <= nextReg)
  BY <1>0, <1>2, <1>3, <1>4 DEF IInv, TurnInv
<1>6. ASSUME NEW i \in nextReg + 1..j - 1 PROVE FALSE
  <2>1. i \in 1..Len(closeFuts) /\ i \in nextReg + 1..Len(closeFuts) /\ ~(j <= i)
    BY <1>3, <1>4
  <2>2. close[closeFuts[i]] \notin {"registered", "failed"}
    BY <1>2, <2>1 DEF SeqInv
  <2>3. close[closeFuts[i]] # "queued"
    BY <1>0, <1>4, <2>1
  <2>4. close[closeFuts[i]] \notin {"taken", "put"}
    BY <1>1, <1>3, <2>1 DEF Running
  <2>5. close[closeFuts[i]] # "cancelled"
    BY <1>0, <1>2, <1>3, <2>1 DEF SeqInv
  <2>6. close[closeFuts[i]] # "none"
    BY <1>2, <2>1 DEF IInv, TurnInv, CloseInv
  <2> QED BY <1>3, <2>1, <2>2, <2>3, <2>4, <2>5, <2>6 DEF CloseStates
<1>7. j = nextReg + 1
  BY <1>3, <1>5, <1>6
<1> QED BY <1>1, <1>2, <1>3, <1>4, <1>7 DEF Turn

LEMMA NextSeqInv == CloseWorkers = 1 /\ IInv /\ SeqInv /\ [Next]_vars => SeqInv'
<1> SUFFICES ASSUME CloseWorkers = 1, IInv, SeqInv, [Next]_vars, pc' # "idle" PROVE SeqInv'
  BY DEF SeqInv
<1>0. /\ close \in [Shards -> CloseStates] /\ closeFuts \in Seq(Shards)
      /\ Len(closeFuts) \in Nat /\ nextReg \in 0..Len(closeFuts)
      /\ \A i \in 1..Len(closeFuts) : closeFuts[i] \in Shards
  BY DEF IInv, TypeOK
<1>1. CASE Begin
  BY <1>1 DEF Begin, SeqInv, Running
<1>2. CASE Crash
  BY <1>2 DEF Crash
<1>3. CASE SubmitClose
  <2>1. PICK s \in pending : /\ closeFuts' = Append(closeFuts, s)
                             /\ close' = [close EXCEPT ![s] = "queued"]
    BY <1>3 DEF SubmitClose, Ready
  <2>2. /\ s \in Shards /\ close[s] = "none" /\ pc = "submit" /\ pc' = "submit"
        /\ nextReg' = nextReg
    BY <1>3, <2>1 DEF IInv, TypeOK, CloseInv, SubmitClose
  <2>3. /\ Len(closeFuts') = Len(closeFuts) + 1 /\ closeFuts'[Len(closeFuts) + 1] = s
        /\ \A i \in 1..Len(closeFuts) : closeFuts'[i] = closeFuts[i]
    BY <1>0, <2>1, <2>2
  <2>4. /\ close'[s] = "queued" /\ \A r \in Shards \ {s} : close'[r] = close[r]
    BY <1>0, <2>1, <2>2
  <2>5. \A i \in nextReg' + 1..Len(closeFuts') : close'[closeFuts'[i]] \notin {"registered", "failed"}
    <3> TAKE i \in nextReg' + 1..Len(closeFuts')
    <3>1. CASE i = Len(closeFuts) + 1
      BY <2>3, <2>4, <3>1
    <3>2. CASE i # Len(closeFuts) + 1
      <4>1. i \in nextReg + 1..Len(closeFuts) /\ i \in 1..Len(closeFuts)
        BY <1>0, <2>2, <2>3, <3>2
      <4>2. close[closeFuts[i]] \notin {"registered", "failed"} /\ closeFuts'[i] = closeFuts[i]
        BY <2>2, <2>3, <4>1 DEF SeqInv
      <4> QED BY <1>0, <2>4, <4>1, <4>2
    <3> QED BY <3>1, <3>2
  <2>6. Running' = Running /\ \A r \in Running : Turn(r) /\ Turn(r)'
    <3>1. Running' = Running
      BY <2>2, <2>4 DEF Running
    <3>2. ASSUME NEW r \in Running PROVE Turn(r) /\ Turn(r)'
      <4>1. nextReg < Len(closeFuts) /\ closeFuts[nextReg + 1] = r
        BY <2>2 DEF SeqInv, Turn
      <4>2. nextReg' < Len(closeFuts') /\ closeFuts'[nextReg' + 1] = r
        BY <1>0, <2>2, <2>3, <4>1
      <4> QED BY <4>1, <4>2 DEF Turn
    <3> QED BY <3>1, <3>2
  <2>7. \A r \in Shards : close'[r] # "cancelled"
    BY <2>2, <2>4 DEF SeqInv
  <2> QED BY <2>2, <2>5, <2>6, <2>7 DEF SeqInv
<1>4. CASE StopWindows
  <2>1. /\ UNCHANGED <<closeFuts, nextReg>> /\ pc = "stopWindows" /\ pc' = "stopCloses"
        /\ \A s \in Shards : close'[s] = IF close[s] = "queued" THEN "cancelled" ELSE close[s]
    BY <1>4 DEF StopWindows
  <2>2. Running' = Running
    BY <2>1 DEF Running
  <2> QED BY <1>0, <2>1, <2>2 DEF SeqInv, Turn
<1>5. ASSUME NEW s \in Shards, TakeShard(s) PROVE SeqInv'
  <2>1. Running = {} /\ Turn(s) /\ pc # "idle"
    BY <1>5, TakesTheTurn
  <2>2. /\ UNCHANGED <<closeFuts, nextReg, pc>> /\ close[s] = "queued"
        /\ close'[s] = "taken" /\ \A r \in Shards \ {s} : close'[r] = close[r]
    BY <1>0, <1>5 DEF TakeShard, coordVars
  <2>3. Running' = {s} /\ Turn(s)'
    BY <2>1, <2>2 DEF Running, Turn
  <2>4. \A i \in nextReg + 1..Len(closeFuts) : close'[closeFuts[i]] \notin {"registered", "failed"}
    <3> TAKE i \in nextReg + 1..Len(closeFuts)
    <3>1. closeFuts[i] \in Shards /\ close[closeFuts[i]] \notin {"registered", "failed"}
      BY <1>0, <2>1 DEF SeqInv
    <3> QED BY <2>2, <3>1
  <2> QED BY <2>1, <2>2, <2>3, <2>4 DEF SeqInv
<1>6. ASSUME NEW s \in Shards, PutShard(s) PROVE SeqInv'
  <2>1. /\ UNCHANGED <<closeFuts, nextReg, pc>> /\ close[s] = "taken"
        /\ close'[s] = "put" /\ \A r \in Shards \ {s} : close'[r] = close[r]
    BY <1>0, <1>6 DEF PutShard, coordVars
  <2>2. Running' = Running
    BY <2>1 DEF Running
  <2>3. \A i \in nextReg + 1..Len(closeFuts) : close'[closeFuts[i]] \notin {"registered", "failed"}
    <3> TAKE i \in nextReg + 1..Len(closeFuts)
    <3>1. closeFuts[i] \in Shards /\ close[closeFuts[i]] \notin {"registered", "failed"}
      BY <1>0, <2>1 DEF SeqInv
    <3> QED BY <2>1, <3>1
  <2> QED BY <2>1, <2>2, <2>3 DEF SeqInv, Turn
<1>7. ASSUME NEW s \in Shards, RegisterShard(s) \/ CloseRaises(s) PROVE SeqInv'
  <2>1. close[s] \in {"taken", "put"} /\ pc # "idle" /\ pc' = pc /\ closeFuts' = closeFuts
    BY <1>7 DEF RegisterShard, CloseRaises, coordVars, IInv, CloseInv
  <2>2. Turn(s)
    BY <2>1 DEF SeqInv, Running
  <2>3. /\ nextReg' = nextReg + 1 /\ close'[s] \in {"registered", "failed"}
        /\ \A r \in Shards \ {s} : close'[r] = close[r]
    BY <1>0, <1>7, <2>2 DEF RegisterShard, CloseRaises, TurnPassed
  <2>4. nextReg < Len(closeFuts) /\ closeFuts[nextReg + 1] = s /\ nextReg + 1 \in 1..Len(closeFuts)
    BY <1>0, <2>2 DEF Turn
  <2>5. ASSUME NEW i \in nextReg' + 1..Len(closeFuts)
        PROVE  close'[closeFuts[i]] \notin {"registered", "failed"}
    <3>1. i \in nextReg + 1..Len(closeFuts) /\ i \in 1..Len(closeFuts) /\ i # nextReg + 1
      BY <1>0, <2>3
    <3>2. closeFuts[i] # s
      BY <2>1, <2>4, <3>1 DEF IInv, TurnInv
    <3>3. closeFuts[i] \in Shards /\ close[closeFuts[i]] \notin {"registered", "failed"}
      BY <1>0, <2>1, <3>1 DEF SeqInv
    <3> QED BY <2>3, <3>2, <3>3
  <2>6. Running' = {}
    <3>1. \A r \in Running : r = s
      BY <2>1, <2>4 DEF SeqInv, Turn
    <3> QED BY <2>3, <3>1 DEF Running
  <2> QED BY <2>1, <2>3, <2>5, <2>6 DEF SeqInv
<1>8. CASE UNCHANGED <<closeFuts, nextReg, close>> /\ pc # "idle"
                 /\ (pc' \in {"stopCloses", "failed"} <=> pc \in {"stopCloses", "failed"})
  BY <1>8 DEF SeqInv, Running, Turn
<1>9. CASE pc = "idle" /\ ~Begin
  <2>1. \A i \in Windows : ~RouteTier(i) /\ ~WindowRaises(i)
    BY <1>9 DEF RouteTier, WindowRaises, Routing, IInv, CloseInv
  <2>2. \A s \in Shards : ~CloseThread(s)
    BY <1>9 DEF CloseThread, TakeShard, PutShard, RegisterShard, CloseRaises, IInv, CloseInv
  <2>3. pc' = pc
    BY <1>9, <2>1, <2>2
    DEF Next, Coordinator, WindowThread, Claim, AwaitFirst, StopClaiming, Collect, CollectRaised,
        SubmitClose, SubmitDone, DrainClose, FinishWalk, StopWindows, StopCloses, Stopped, vars,
        coordVars, Crash
  <2> QED BY <1>9, <2>3
<1>10. \/ Begin \/ Crash \/ SubmitClose \/ StopWindows
       \/ (\E s \in Shards : TakeShard(s) \/ PutShard(s) \/ RegisterShard(s) \/ CloseRaises(s))
       \/ (pc = "idle" /\ ~Begin)
       \/ /\ UNCHANGED <<closeFuts, nextReg, close>> /\ pc # "idle"
          /\ (pc' \in {"stopCloses", "failed"} <=> pc \in {"stopCloses", "failed"})
  <2>1. \A i \in Windows : WindowThread(i) => UNCHANGED <<closeFuts, nextReg, close, pc>>
    BY DEF WindowThread, RouteTier, WindowRaises, coordVars, closeVars
  <2>2. Coordinator => \/ SubmitClose \/ StopWindows
                       \/ /\ UNCHANGED <<closeFuts, nextReg, close>>
                          /\ (pc' \in {"stopCloses", "failed"} <=> pc \in {"stopCloses", "failed"})
    BY DEF Coordinator, Claim, AwaitFirst, StopClaiming, Collect, CollectRaised, SubmitDone,
           DrainClose, FinishWalk, StopCloses, closeVars
  <2>3. UNCHANGED vars => UNCHANGED <<closeFuts, nextReg, close, pc>>
    BY DEF vars, coordVars, closeVars
  <2> QED BY <2>1, <2>2, <2>3 DEF Next, Stopped, CloseThread
<1> QED BY <1>1, <1>2, <1>3, <1>4, <1>5, <1>6, <1>7, <1>8, <1>9, <1>10

\* With one close thread no close waits for the turn of a dead one; with more,
\* closes can (WindowExecutorHang.cfg).
THEOREM NoDeadSeqHolds == CloseWorkers = 1 => (Spec => []NoDeadSeq)
<1> SUFFICES ASSUME CloseWorkers = 1 PROVE Spec => []NoDeadSeq
  OBVIOUS
<1>1. Init => SeqInv
  BY DEF Init, SeqInv
<1>2. IInv /\ SeqInv /\ [Next]_vars => SeqInv'
  BY NextSeqInv
<1>3. ASSUME IInv, SeqInv PROVE NoDeadSeq
  <2>1. CASE pc = "idle"
    BY <1>3, <2>1 DEF IInv, TypeOK, CloseInv, NoDeadSeq
  <2>2. CASE pc # "idle"
    <3>1. nextReg < Len(closeFuts) => nextReg + 1 \in nextReg + 1..Len(closeFuts)
      BY <1>3 DEF IInv, TypeOK
    <3> QED BY <1>3, <2>2, <3>1 DEF SeqInv, NoDeadSeq
  <2> QED BY <2>1, <2>2
<1> QED BY <1>1, <1>2, <1>3, Invariant, PTL DEF Spec

-----------------------------------------------------------------------------
(* The executor implements ShardBuild *)

\* A step of the executor is a step of ShardBuild or a stutter.
LEMMA StepRefinement == IInv /\ IInv' /\ [Next]_vars => [Abstract!Next]_(Abstract!vars)
<1> SUFFICES ASSUME IInv, IInv', [Next]_vars PROVE [Abstract!Next]_(Abstract!vars)
  OBVIOUS
<1>1. /\ {s \in objects : content[s] = FullRuns(s)} = objects
      /\ {s \in objects : content[s] = FullRuns(s)}' = objects'
  <2>1. ObjectsComplete /\ ObjectsComplete'
    BY DEF IInv, StoreInv
  <2> QED BY <2>1 DEF ObjectsComplete
<1>2. ASSUME NEW s \in Shards, PutShard(s) PROVE Abstract!Write(s)
  <2>1. /\ close[s] = "taken" /\ objects' = objects \cup {s}
        /\ UNCHANGED <<registry, pc>>
    BY <1>2 DEF PutShard, coordVars
  <2>2. pc # "done"
    BY <2>1, DoneState
  <2> QED BY <1>1, <2>1, <2>2 DEF Abstract!Write
<1>3. ASSUME NEW s \in Shards, RegisterShard(s) PROVE Abstract!Register(s)
  <2>1. /\ close[s] = "put" /\ registry' = registry \cup {s}
        /\ UNCHANGED <<objects, pc>>
    BY <1>3 DEF RegisterShard, coordVars
  <2>2. pc # "done"
    BY <2>1, DoneState
  <2>3. s \in objects
    BY <2>1 DEF IInv, StoreInv
  <2> QED BY <1>1, <2>1, <2>2, <2>3 DEF Abstract!Register
<1>4. CASE FinishWalk /\ pc' = "done"
  <2>1. UNCHANGED <<objects, registry>>
    BY <1>4 DEF FinishWalk, durableVars
  <2>2. /\ objects = Shards
        /\ (Mode = "fill" /\ ~Hashed) \/ registry = Shards
    <3>1. pc # "idle" /\ pending = {} /\ drained = Len(closeFuts)
      BY <1>4 DEF FinishWalk
    <3> QED BY <3>1, DrainedState
  <2>3. (pc = "done")' = TRUE
    BY <1>4
  <2>4. Abstract!Succeed
    BY <1>1, <1>4, <2>1, <2>2, <2>3 DEF Abstract!Succeed
  <2> QED BY <2>4 DEF Abstract!Next
<1>5. CASE UNCHANGED <<objects, registry>> /\ (pc' = "done" <=> pc = "done")
  BY <1>1, <1>5 DEF Abstract!vars
<1>6. \/ \E s \in Shards : PutShard(s) \/ RegisterShard(s)
      \/ FinishWalk /\ pc' = "done"
      \/ UNCHANGED <<objects, registry>> /\ (pc' = "done" <=> pc = "done")
  <2>1. \A i \in Windows : WindowThread(i) => UNCHANGED <<objects, registry, pc>>
    BY DEF WindowThread, RouteTier, WindowRaises, coordVars, durableVars
  <2>2. \A s \in Shards : TakeShard(s) \/ CloseRaises(s) => UNCHANGED <<objects, registry, pc>>
    BY DEF TakeShard, CloseRaises, coordVars, durableVars
  <2>3. Coordinator => /\ UNCHANGED <<objects, registry>> /\ pc # "done"
                       /\ pc' # "done" \/ FinishWalk
    BY DEF Coordinator, Claim, AwaitFirst, StopClaiming, Collect, CollectRaised, SubmitClose,
           SubmitDone, DrainClose, FinishWalk, StopWindows, StopCloses, durableVars
  <2>4. Begin \/ Crash => UNCHANGED <<objects, registry>> /\ pc # "done" /\ pc' # "done"
    BY DEF Begin, Crash, durableVars
  <2> QED BY <2>1, <2>2, <2>3, <2>4
    DEF Next, CloseThread, Stopped, vars, coordVars, durableVars
<1> QED BY <1>2, <1>3, <1>4, <1>5, <1>6 DEF Abstract!Next

\* The executor, with its failures, crashes and restarts, implements what a
\* build promises to its readers.
THEOREM Refinement == Spec => ImplementsShardBuild
<1>1. Init => Abstract!Init
  BY DEF Init, Abstract!Init
<1> QED BY <1>1, StepRefinement, Invariant, PTL DEF Spec, ImplementsShardBuild, Abstract!Spec
=============================================================================
