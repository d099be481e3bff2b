--------------------------- MODULE WindowExecutor ---------------------------
(***************************************************************************)
(* The parallel windowed build, `build_local` of pyrmts_engine/engine.py.  *)
(*                                                                         *)
(* A coordinator claims the windows of a time range for a pool of window   *)
(* threads.  Each window thread reads its window and walks the tiers from  *)
(* the finest to the coarsest, appending the tier's rows to the spill runs *)
(* of every output shard they fall in.  The completion watermark, the      *)
(* largest prefix of completed windows, gates the closing of shards: a     *)
(* pool of close threads detaches a shard's runs, combines them, puts the  *)
(* object and registers it, registrations in the order of submission.      *)
(*                                                                         *)
(* A build is run again after a failure or a crash of the process, with    *)
(* the spill lost and the storage and the registry kept.                   *)
(*                                                                         *)
(* Rows are abstracted to the window they come from: the content of a      *)
(* shard is how many times each window was combined into it.               *)
(***************************************************************************)
EXTENDS Integers, Sequences, FiniteSets

CONSTANTS
    Shards,        \* the plan's output shards
    NTiers,        \* tiers are 1 (finest) to NTiers (coarsest)
    TierOf,        \* the tier of a shard
    Start, End,    \* a shard's effective period, half-open
    NWindows,      \* the window grid over the time range is 1..NWindows
    WStart, WEnd,  \* the period of a window, clipped to the time range
    Workers,       \* window threads
    MaxInflight,   \* the claim bound K
    Burst,         \* claims per scheduler pass, _ADMIT_BURST
    CloseWorkers,  \* close threads
    Mode,          \* "fresh", "resume" or "fill"
    Hashed,        \* fill only: the keyTemplate has {hash}
    MaxFaults,     \* bound: exceptions in window and close tasks and checks
    MaxCrashes,    \* bound: losses of the process
    MaxAttempts    \* bound: builds, the first one included

Windows == 1..NWindows
Tiers   == 1..NTiers

\* A window's rows reach a shard when their periods overlap.
Overlaps(s, w) == Start[s] < WEnd[w] /\ WStart[w] < End[s]

ASSUME SizesAssumption ==
    /\ NTiers \in Nat \ {0}
    /\ NWindows \in Nat \ {0}
    /\ Workers \in Nat \ {0} /\ MaxInflight \in Nat \ {0} /\ Burst \in Nat \ {0}
    /\ CloseWorkers \in Nat \ {0}
    /\ MaxFaults \in Nat /\ MaxCrashes \in Nat /\ MaxAttempts \in Nat \ {0}
    /\ Mode \in {"fresh", "resume", "fill"}
    /\ Hashed \in BOOLEAN

\* compile_plan: shards have non-empty periods inside the range, and those of
\* one tier are disjoint.
ASSUME ShardAssumption ==
    /\ IsFiniteSet(Shards)
    /\ TierOf \in [Shards -> Tiers]
    /\ Start \in [Shards -> Nat]
    /\ End \in [Shards -> Nat]
    /\ \A s \in Shards : Start[s] < End[s]
    /\ \A s \in Shards : \E w \in Windows : Overlaps(s, w)
    /\ \A r, s \in Shards :
          (r # s /\ TierOf[r] = TierOf[s]) => End[r] <= Start[s] \/ End[s] <= Start[r]

\* shard_periods_covering: the windows are disjoint, in time order, and cover
\* every shard to its end.
ASSUME WindowAssumption ==
    /\ WStart \in [Windows -> Nat]
    /\ WEnd \in [Windows -> Nat]
    /\ \A w \in Windows : WStart[w] < WEnd[w]
    /\ \A v, w \in Windows : v < w => WEnd[v] <= WStart[w]
    /\ \A s \in Shards : \E w \in Windows : Overlaps(s, w) /\ End[s] <= WEnd[w]

VARIABLES
    pc,          \* the coordinator
    periods,     \* this attempt's windows, a sequence; a position is a claim index
    targets,     \* route_shards: the shards this attempt builds
    nextI,       \* positions claimed so far
    burst,       \* claims made in the current pass
    inflight,    \* positions claimed and not yet collected
    stage,       \* per position: 0 unclaimed, t about to route tier t, NTiers+1 returned
    raised,      \* positions whose task raised
    completed,   \* positions collected
    watermark,   \* largest collected prefix
    pending,     \* shards whose close is not submitted
    runs,        \* per shard and window: spill runs waiting to be combined
    closeFuts,   \* submitted closes, in order
    close,       \* per shard: state of its close task
    taken,       \* per shard: the runs its close task detached
    nextReg,     \* the close whose turn to register it is
    drained,     \* closes whose result the coordinator has awaited
    objects,     \* shards whose object is in storage
    content,     \* per shard: the content last put
    registry,    \* shards with a registry row
    faults, crashes, attempt

coordVars   == <<pc, nextI, burst, inflight, completed, watermark, pending, drained>>
planVars    == <<periods, targets, attempt>>
windowVars  == <<stage, raised, runs>>
closeVars   == <<closeFuts, close, taken, nextReg>>
durableVars == <<objects, content, registry>>
faultVars   == <<faults, crashes>>
vars == <<coordVars, planVars, windowVars, closeVars, durableVars, faultVars>>

-----------------------------------------------------------------------------
(* Content of spill runs and objects *)

NoRuns      == [w \in Windows |-> 0]
FullRuns(s) == [w \in Windows |-> IF Overlaps(s, w) THEN 1 ELSE 0]

\* Stages of a window and of a close.
Stages      == 0..(NTiers + 1)
CloseStates == {"none", "queued", "taken", "put", "registered", "failed", "cancelled"}
Running     == {s \in Shards : close[s] \in {"taken", "put"}}

\* The plan's order of closes in one pass: tiers finest first, then time.
Before(r, s) == \/ TierOf[r] < TierOf[s]
                \/ TierOf[r] = TierOf[s] /\ Start[r] < Start[s]

n == Len(periods)

-----------------------------------------------------------------------------
(* Planning an attempt *)

\* The shards an attempt skips (and two mutants of it): none in a fresh build, the registered ones in
\* a resumed one; in a fill the listed and the registered ones, or the
\* registered ones alone when keys are hashed.
DoneByListing == registry \cup objects
DoneBefore    == {s \in Shards : \E r \in registry : Start[s] <= Start[r]}
Done ==
    CASE Mode = "fresh"  -> {}
      [] Mode = "resume" -> registry
      [] Mode = "fill"   -> IF Hashed THEN registry ELSE registry \cup objects

\* The windows an attempt walks (and a mutant of it): those overlapping a missing shard in a fill,
\* otherwise those ending after the first missing shard starts.
WalkInside(missing) == {w \in Windows : \E s \in missing : Start[s] <= WStart[w]}
Walk(missing) ==
    CASE Mode = "fresh"  -> Windows
      [] Mode = "resume" -> {w \in Windows : \E s \in missing : Start[s] < WEnd[w]}
      [] Mode = "fill"   -> {w \in Windows : \E s \in missing : Overlaps(s, w)}

\* A set of windows as an increasing sequence.
InOrder(W) ==
    {p \in [1..Cardinality(W) -> W] :
        /\ \A i, j \in 1..Cardinality(W) : i < j => p[i] < p[j]
        /\ \A w \in W : \E i \in 1..Cardinality(W) : p[i] = w}

Init ==
    /\ pc = "idle" /\ nextI = 0 /\ burst = 0 /\ watermark = 0 /\ drained = 0
    /\ inflight = {} /\ completed = {} /\ pending = {}
    /\ periods = <<>> /\ targets = {} /\ attempt = 0
    /\ stage = [i \in Windows |-> 0] /\ raised = {}
    /\ runs = [s \in Shards |-> NoRuns]
    /\ closeFuts = <<>> /\ close = [s \in Shards |-> "none"]
    /\ taken = [s \in Shards |-> NoRuns] /\ nextReg = 0
    /\ objects = {} /\ content = [s \in Shards |-> NoRuns] /\ registry = {}
    /\ faults = 0 /\ crashes = 0

\* build_local is called (again): plan what is missing, with a new spill.
Begin ==
    /\ pc \in {"idle", "failed"} /\ attempt < MaxAttempts
    /\ attempt' = attempt + 1
    /\ targets' = Shards \ Done
    /\ pending' = targets'
    /\ periods' \in InOrder(Walk(Shards \ Done))
    /\ pc' = "claim" /\ nextI' = 0 /\ burst' = 0 /\ watermark' = 0 /\ drained' = 0
    /\ inflight' = {} /\ completed' = {}
    /\ stage' = [i \in Windows |-> 0] /\ raised' = {}
    /\ runs' = [s \in Shards |-> NoRuns]
    /\ closeFuts' = <<>> /\ close' = [s \in Shards |-> "none"]
    /\ taken' = [s \in Shards |-> NoRuns] /\ nextReg' = 0
    /\ UNCHANGED <<durableVars, faultVars>>

-----------------------------------------------------------------------------
(* The coordinator *)

\* The bounds of claim(), and a mutant without the end of the walk.
ClaimableForEver ==
    /\ burst < Burst
    /\ Cardinality(inflight) < Workers
    /\ nextI - watermark < MaxInflight
Claimable ==
    /\ nextI < n
    /\ burst < Burst
    /\ Cardinality(inflight) < Workers
    /\ nextI - watermark < MaxInflight

\* admit_ok() may refuse for memory, but not the only window (the mutant may).
RefusesAny == TRUE
MayRefuse  == inflight # {}

\* claim(): submit the next window.  Memory admission is a choice, except that
\* a window is always admitted when none is in flight.  The first window of
\* the walk is awaited before anything else is claimed.
Claim ==
    /\ pc = "claim"
    /\ Claimable
    /\ nextI' = nextI + 1
    /\ burst' = burst + 1
    /\ inflight' = inflight \cup {nextI'}
    /\ stage' = [stage EXCEPT ![nextI'] = 1]
    /\ pc' = IF nextI = 0 THEN "first" ELSE "claim"
    /\ UNCHANGED <<completed, watermark, pending, drained, planVars, raised, runs,
                   closeVars, durableVars, faultVars>>

AwaitFirst ==
    /\ pc = "first"
    /\ \/ 1 \in raised /\ pc' = "stopWindows"
       \/ stage[1] = NTiers + 1 /\ pc' = "claim"
    /\ UNCHANGED <<nextI, burst, inflight, completed, watermark, pending, drained,
                   planVars, windowVars, closeVars, durableVars, faultVars>>

\* claim() returns: a bound is reached, or memory is refused while a window is
\* in flight.  The loop runs while something is in flight.
StopClaiming ==
    /\ pc = "claim"
    /\ ~Claimable \/ MayRefuse
    /\ pc' = IF inflight = {} THEN "drain" ELSE "wait"
    /\ UNCHANGED <<nextI, burst, inflight, completed, watermark, pending, drained,
                   planVars, windowVars, closeVars, durableVars, faultVars>>

\* The tasks of the pool that returned or raised, and whether all returned
\* (the mutant does not look at the results).
Finished == {i \in inflight : i \in raised \/ stage[i] = NTiers + 1}
ResultsIgnored == TRUE
AllReturned    == Finished \cap raised = {}

\* wait(FIRST_COMPLETED) returns every finished task; the first one that
\* raised ends the walk, otherwise the watermark moves over the prefix.
Collect ==
    /\ pc = "wait" /\ Finished # {} /\ AllReturned
    /\ inflight' = inflight \ Finished
    /\ completed' = completed \cup Finished
    /\ \E k \in watermark..n :
          /\ 1..k \subseteq completed'
          /\ k + 1 \notin completed'
          /\ watermark' = k
    /\ pc' = "submit"
    /\ UNCHANGED <<nextI, burst, pending, drained, planVars, windowVars,
                   closeVars, durableVars, faultVars>>

CollectRaised ==
    /\ pc = "wait" /\ ~AllReturned
    /\ pc' = "stopWindows"
    /\ UNCHANGED <<nextI, burst, inflight, completed, watermark, pending, drained,
                   planVars, windowVars, closeVars, durableVars, faultVars>>

\* The shards the watermark has passed (in the mutant, the claim cursor).
ReadyByClaims ==
    {s \in pending : nextI > 0 /\ End[s] <= WEnd[periods[nextI]]}
Ready ==
    {s \in pending : watermark > 0 /\ End[s] <= WEnd[periods[watermark]]}

\* advance_watermark(): submit the next ready close, finest tier first.
SubmitClose ==
    /\ pc = "submit"
    /\ \E s \in Ready :
          /\ \A r \in Ready \ {s} : Before(s, r)
          /\ pending' = pending \ {s}
          /\ closeFuts' = Append(closeFuts, s)
          /\ close' = [close EXCEPT ![s] = "queued"]
    /\ UNCHANGED <<pc, nextI, burst, inflight, completed, watermark, drained,
                   planVars, windowVars, taken, nextReg, durableVars, faultVars>>

SubmitDone ==
    /\ pc = "submit" /\ Ready = {}
    /\ pc' = "claim" /\ burst' = 0
    /\ UNCHANGED <<nextI, inflight, completed, watermark, pending, drained,
                   planVars, windowVars, closeVars, durableVars, faultVars>>

\* After the walk: await every close in order, the first failure ends it.
DrainClose ==
    /\ pc = "drain" /\ drained < Len(closeFuts)
    /\ LET s == closeFuts[drained + 1] IN
          \/ close[s] = "registered" /\ drained' = drained + 1 /\ pc' = pc
          \/ close[s] = "failed" /\ drained' = drained /\ pc' = "stopWindows"
    /\ UNCHANGED <<nextI, burst, inflight, completed, watermark, pending,
                   planVars, windowVars, closeVars, durableVars, faultVars>>

\* The checks of the finished walk (leftover shards, source coverage, empty
\* source) pass, or raise with the outputs written.  After success both pools
\* are empty and the finally block waits for nothing.
FinishWalk ==
    /\ pc = "drain" /\ drained = Len(closeFuts)
    /\ \/ pending = {} /\ pc' = "done" /\ faults' = faults
       \/ pending # {} /\ pc' = "stopWindows" /\ faults' = faults
       \/ faults < MaxFaults /\ pc' = "stopWindows" /\ faults' = faults + 1
    /\ UNCHANGED <<nextI, burst, inflight, completed, watermark, pending, drained,
                   planVars, windowVars, closeVars, durableVars, crashes>>

\* finally, after an exception: the window pool runs out, the queued closes
\* are cancelled, and the running ones are waited for.
StopWindows ==
    /\ pc = "stopWindows" /\ inflight = Finished
    /\ pc' = "stopCloses"
    /\ close' = [s \in Shards |-> IF close[s] = "queued" THEN "cancelled" ELSE close[s]]
    /\ UNCHANGED <<nextI, burst, inflight, completed, watermark, pending, drained,
                   planVars, windowVars, closeFuts, taken, nextReg, durableVars, faultVars>>

StopCloses ==
    /\ pc = "stopCloses" /\ Running = {}
    /\ pc' = "failed"
    /\ UNCHANGED <<nextI, burst, inflight, completed, watermark, pending, drained,
                   planVars, windowVars, closeVars, durableVars, faultVars>>

Coordinator ==
    \/ Claim \/ AwaitFirst \/ StopClaiming \/ Collect \/ CollectRaised
    \/ SubmitClose \/ SubmitDone \/ DrainClose \/ FinishWalk
    \/ StopWindows \/ StopCloses

-----------------------------------------------------------------------------
(* The window threads *)

Routing(i) == i \in inflight /\ i \notin raised /\ stage[i] \in Tiers

\* window_task routes one tier: a run per target shard of the tier that the
\* window overlaps, whether or not the shard is still pending.
RouteTier(i) ==
    /\ Routing(i)
    /\ runs' = [s \in Shards |->
                  IF s \in targets /\ TierOf[s] = stage[i] /\ Overlaps(s, periods[i])
                  THEN [runs[s] EXCEPT ![periods[i]] = @ + 1]
                  ELSE runs[s]]
    /\ stage' = [stage EXCEPT ![i] = @ + 1]
    /\ UNCHANGED <<raised, coordVars, planVars, closeVars, durableVars, faultVars>>

\* Reading the window or writing a run raises.
WindowRaises(i) ==
    /\ Routing(i) /\ faults < MaxFaults
    /\ raised' = raised \cup {i}
    /\ faults' = faults + 1
    /\ UNCHANGED <<stage, runs, coordVars, planVars, closeVars, durableVars, crashes>>

-----------------------------------------------------------------------------
(* The close threads *)

\* A free thread takes the oldest queued close and detaches the shard's runs.
TakeShard(s) ==
    /\ close[s] = "queued" /\ Cardinality(Running) < CloseWorkers
    /\ \A i, j \in 1..Len(closeFuts) :
          (closeFuts[j] = s /\ close[closeFuts[i]] = "queued") => j <= i
    /\ close' = [close EXCEPT ![s] = "taken"]
    /\ taken' = [taken EXCEPT ![s] = runs[s]]
    /\ runs' = [runs EXCEPT ![s] = NoRuns]
    /\ UNCHANGED <<stage, raised, closeFuts, nextReg, coordVars, planVars,
                   durableVars, faultVars>>

\* _write_shard: the combined runs are put as one object.
PutShard(s) ==
    /\ close[s] = "taken"
    /\ close' = [close EXCEPT ![s] = "put"]
    /\ objects' = objects \cup {s}
    /\ content' = [content EXCEPT ![s] = taken[s]]
    /\ UNCHANGED <<closeFuts, taken, nextReg, registry, coordVars, planVars,
                   windowVars, faultVars>>

\* next_reg == seq (the mutant registers in any order).
AnyTurn(s) == close[s] \in {"taken", "put"}
Turn(s) == nextReg < Len(closeFuts) /\ closeFuts[nextReg + 1] = s

\* _write_shard: record_shard when it is this close's turn.
RegisterShard(s) ==
    /\ close[s] = "put" /\ Turn(s)
    /\ registry' = registry \cup {s}
    /\ close' = [close EXCEPT ![s] = "registered"]
    /\ nextReg' = nextReg + 1
    /\ UNCHANGED <<closeFuts, taken, objects, content, coordVars, planVars,
                   windowVars, faultVars>>

\* The finally block of close_task releases the turn (the mutant keeps it).
TurnKept(s)   == nextReg
TurnPassed(s) == IF Turn(s) THEN nextReg + 1 ELSE nextReg

\* Combining, putting or recording raises; the turn is passed on if it is this
\* close's turn.  A close waiting for its turn raises nothing.
CloseRaises(s) ==
    /\ faults < MaxFaults
    /\ \/ close[s] = "taken"
       \/ close[s] = "put" /\ Turn(s)
    /\ close' = [close EXCEPT ![s] = "failed"]
    /\ nextReg' = TurnPassed(s)
    /\ faults' = faults + 1
    /\ UNCHANGED <<closeFuts, taken, durableVars, coordVars, planVars, windowVars, crashes>>

-----------------------------------------------------------------------------

\* The process dies: no thread is left.
Crash ==
    /\ pc \notin {"idle", "done", "failed"} /\ crashes < MaxCrashes
    /\ crashes' = crashes + 1
    /\ pc' = "idle"
    /\ inflight' = {}
    /\ close' = [s \in Shards |-> "none"]
    /\ UNCHANGED <<nextI, burst, completed, watermark, pending, drained, planVars,
                   windowVars, closeFuts, taken, nextReg, durableVars, faults>>

\* Nothing is left to run.
Stopped ==
    /\ \/ pc = "done"
       \/ pc \in {"idle", "failed"} /\ attempt = MaxAttempts
    /\ UNCHANGED vars

WindowThread(i) == RouteTier(i) \/ WindowRaises(i)
CloseThread(s)  == TakeShard(s) \/ PutShard(s) \/ RegisterShard(s) \/ CloseRaises(s)

Next ==
    \/ Begin
    \/ Coordinator
    \/ \E i \in Windows : WindowThread(i)
    \/ \E s \in Shards : CloseThread(s)
    \/ Crash
    \/ Stopped

Spec == Init /\ [][Next]_vars

\* Threads are scheduled and a driver runs a build that did not succeed again;
\* exceptions and crashes are never owed.
Fairness ==
    /\ WF_vars(Begin)
    /\ WF_vars(Coordinator)
    /\ \A i \in Windows : WF_vars(RouteTier(i))
    /\ \A s \in Shards : WF_vars(TakeShard(s) \/ PutShard(s) \/ RegisterShard(s))

FairSpec == Spec /\ Fairness

-----------------------------------------------------------------------------
(* Properties *)

\* Every variable has its type.
TypeOK ==
    /\ pc \in {"idle", "claim", "first", "wait", "submit", "drain",
               "stopWindows", "stopCloses", "done", "failed"}
    /\ periods \in Seq(Windows)
    /\ targets \subseteq Shards /\ pending \subseteq Shards
    /\ nextI \in 0..n /\ watermark \in 0..n /\ burst \in 0..Burst
    /\ inflight \subseteq 1..n /\ raised \subseteq 1..n /\ completed \subseteq 1..n
    /\ drained \in 0..Len(closeFuts) /\ nextReg \in 0..Len(closeFuts)
    /\ faults \in Nat /\ crashes \in Nat /\ attempt \in Nat
    /\ stage \in [Windows -> Stages]
    /\ runs \in [Shards -> [Windows -> Nat]]
    /\ taken \in [Shards -> [Windows -> Nat]]
    /\ content \in [Shards -> [Windows -> Nat]]
    /\ closeFuts \in Seq(Shards)
    /\ close \in [Shards -> CloseStates]
    /\ objects \subseteq Shards /\ registry \subseteq Shards

\* "A window can never overlap an already-closed shard" (the comment on
\* route_shards): a thread that still routes a window has all the shards it
\* routes to ahead of the close submission.
NoLateAppend ==
    \A i \in inflight : Routing(i) =>
        \A s \in targets : Overlaps(s, periods[i]) => s \in pending

\* Every object in storage holds each window of its shard exactly once, after
\* any interleaving of window threads, closes, failures and restarts.
ObjectsComplete == \A s \in objects : content[s] = FullRuns(s)

\* The walk never ends with a shard unflushed: the AssertionError of
\* build_local cannot be raised.
NoLeftover == (pc = "drain" /\ drained = Len(closeFuts)) => pending = {}

\* A build that succeeds has written every shard of the plan, whatever earlier
\* attempts left behind.
SuccessMeansWritten == pc = "done" => objects = Shards

\* A build that succeeds has registered every shard of the plan.
SuccessMeansRegistered == pc = "done" => registry = Shards

\* Registration follows submission: when a close registers its shard, every
\* earlier close of the build has registered or failed.
RegistrationOrder ==
    [][\A s \in Shards : close[s] = "put" /\ close'[s] = "registered" =>
          \A i, j \in 1..Len(closeFuts) :
              (i < j /\ closeFuts[j] = s) => close[closeFuts[i]] \in {"registered", "failed"}]_vars

\* "release the ordered wait so later closes don't block behind a dead seq"
\* (close_task): the close whose turn it is has not failed.
NoDeadSeq ==
    nextReg < Len(closeFuts) => close[closeFuts[nextReg + 1]] # "failed"

\* Every build ends: the coordinator never waits for ever.
BuildEnds == pc \notin {"idle", "done", "failed"} ~> pc \in {"idle", "done", "failed"}

\* Restarted after every failure, the build succeeds in the end.
EventuallyDone == <>(pc = "done")

\* What the build promises: complete shards appear one by one.
Abstract == INSTANCE ShardBuild WITH
    built      <- {s \in objects : content[s] = FullRuns(s)},
    registered <- registry,
    succeeded  <- pc = "done",
    ListingCounts <- Mode = "fill" /\ ~Hashed
ImplementsShardBuild == Abstract!Spec
=============================================================================
