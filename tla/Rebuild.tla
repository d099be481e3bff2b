-------------------------------- MODULE Rebuild --------------------------------
(***************************************************************************)
(* The fan-out rebuild (pyrmts_ops/rebuild.py): a driver discovers what is *)
(* missing or older than stale_before, orders it in layers, smaller rungs  *)
(* first, puts scaffold layers before the rungs that are too long for one  *)
(* call, and has a function build each shard of a layer from what the ones *)
(* before it left (run_single_gap in pyrmts_engine/consolidate.py).        *)
(***************************************************************************)
EXTENDS ShardLadder, Sequences, FiniteSetsExt

CONSTANTS
    RebuildLadder,    \* per tier its bin and the durations of its shards
    RebuildGenesis, Clocks,
    Pasts,            \* the ticks whose covers are still stored
    Droughts,         \* units the raw source has no rows of
    Budget, Limits,   \* source_bin_budget, limit (0: none)
    QuietTicks,       \* environment: no scheduled fill runs after a stale_before
    MaxRebuildFaults  \* bound on calls that fail and on drivers that die

VARIABLES
    rebuildClock, cutoff, drought,            \* whether stale_before is given
    stored, registered,
    written,                           \* stored since stale_before
    outdated,                          \* stored with what the sources said before it
    driver, at, limit,                 \* the driver's step, its `now`
    layers, calls, scaffolding, count,  \* layers to come, calls left in this one
    scaffolds, bad, used, outcome,
    strays,                            \* calls that run on after their driver died
    rebuildFaults

rebuildVars == <<rebuildClock, cutoff, drought, stored, registered, written, outdated, driver, at, limit,
                 layers, calls, scaffolding, count, scaffolds, bad, used, outcome, strays, rebuildFaults>>

RebuildEnd == Max(Clocks)
RTier(t)   == ShardsOf(t, RebuildLadder[t].shards, RebuildEnd)
RShards    == UNION {RTier(t) : t \in DOMAIN RebuildLadder}
CoverAt(n) == MinCover(RShards, RebuildGenesis, n)

HasData(s) == \E u \in LargerOf(s[2], RebuildGenesis) .. s[3] - 1 : u \notin drought

InitRebuild ==
    /\ rebuildClock = Min(Clocks) /\ cutoff \in BOOLEAN /\ drought \in Droughts
    /\ \E past \in Pasts : stored = {s \in UNION {CoverAt(n) : n \in past} : HasData(s)}
    /\ registered = stored /\ written = {} /\ outdated = IF cutoff THEN stored ELSE {}
    /\ driver = "idle" /\ at = 0 /\ limit = 0 /\ layers = {} /\ calls = {} /\ scaffolding = FALSE
    /\ count = 0 /\ scaffolds = {} /\ bad = FALSE /\ used = 0 /\ outcome = "none"
    /\ strays = {} /\ rebuildFaults = 0

PassTime ==
    /\ rebuildClock' \in {n \in Clocks : n > rebuildClock}
    /\ UNCHANGED <<cutoff, drought, stored, registered, written, outdated, driver, at, limit,
                   layers, calls, scaffolding, count, scaffolds, bad, used, outcome, strays, rebuildFaults>>

-----------------------------------------------------------------------------
(* Building one shard from the keys it may read *)

SourceTier(t) ==
    Max({c \in 1 .. t - 1 : RebuildLadder[t].bin % RebuildLadder[c].bin = 0})
\* The bin a fill reads: of the source tier, raw territory its own.
SourceBin(t) == RebuildLadder[IF t = 1 THEN 1 ELSE SourceTier(t)].bin

Largest(ss) == {s \in ss : \A o \in ss : Dur(o) <= Dur(s)}
SubTile(g, u, keys) ==
    Largest({s \in keys : s[1] = g[1] /\ Dur(s) < Dur(g) /\ Within(s, g) /\ Holds(s, u)})
SourceTile(g, u, keys) == Largest({s \in keys : s[1] = SourceTier(g[1]) /\ Holds(s, u)})

\* A hole is a slot of the smallest rung, or the whole period of one; a slot
\* that ends before genesis is none.
Slot(g, u) == CHOOSE s \in RTier(g[1]) : Holds(s, u) /\ Dur(s) = Min(RebuildLadder[g[1]].shards)
HoleUnits(g, keys) ==
    {u \in g[2] .. g[3] - 1 : Slot(g, u)[3] > RebuildGenesis /\ SubTile(g, u, keys) = {}}
\* The finest tier fills its holes from raw.
Rebinned(g, keys) == IF g[1] = 1 THEN {} ELSE HoleUnits(g, keys)
Fillable(g, keys) == \A u \in Rebinned(g, keys) : SourceTile(g, u, keys) # {}
TilesOf(g, keys) ==
    UNION ({SubTile(g, u, keys) : u \in g[2] .. g[3] - 1}
             \cup {SourceTile(g, u, keys) : u \in Rebinned(g, keys)})

PutNew(g, keys) ==
    /\ stored' = stored \cup {g} /\ written' = written \cup {g}
    /\ outdated' = IF TilesOf(g, keys) \cap outdated # {} THEN outdated \cup {g} ELSE outdated \ {g}

-----------------------------------------------------------------------------
(* The plan of a run *)

\* With stale_before, what was written before it counts as absent, for the driver
\* and for a call (in the mutant, for the driver alone).
Fresh      == IF cutoff THEN written ELSE stored
StoredKeys == stored
FreshKeys  == Fresh

\* (In the mutant the budget counts the tier's own bins.)
OwnBin(t)   == RebuildLadder[t].bin
CostBin(t)  == SourceBin(t)
SafeRung(t) == Max({d \in RebuildLadder[t].shards : d \div CostBin(t) <= Budget})

\* Every tier above the first has a source tier, the rungs of a tier divide one
\* another, and one of them is within the budget: without these the program raises.
ASSUME RebuildAssumption ==
    /\ Len(RebuildLadder) \in Nat /\ DOMAIN RebuildLadder = 1 .. Len(RebuildLadder)
    /\ \E t \in DOMAIN RebuildLadder : \E e \in RebuildLadder[t].shards :
          \A r \in DOMAIN RebuildLadder : RebuildLadder[r].shards \subseteq 1 .. e
    /\ \A t \in DOMAIN RebuildLadder :
          /\ RebuildLadder[t].bin \in Nat \ {0}
          /\ t > 1 => \E c \in 1 .. t - 1 : RebuildLadder[t].bin % RebuildLadder[c].bin = 0
          /\ \A d, e \in RebuildLadder[t].shards : d <= e => e % d = 0
          /\ \E d \in RebuildLadder[t].shards : d \div SourceBin(t) <= Budget
    /\ \E n \in Clocks : Clocks \subseteq 1 .. n
    /\ RebuildGenesis \in Nat /\ Budget \in Nat /\ Limits \subseteq Nat
    /\ QuietTicks \in BOOLEAN /\ MaxRebuildFaults \in Nat

\* Slots of the safe rung in the gaps of a longer one, each once per tier.
SlotsIn(t, gs) ==
    {s \in ShardsOf(t, {SafeRung(t)}, RebuildEnd) : s[3] > RebuildGenesis /\ \E g \in gs : Within(s, g)}
GapsOf(gaps, t, d) == {g \in gaps : g[1] = t /\ Dur(g) = d}
SlotsBefore(gaps, t, d) ==
    UNION {SlotsIn(t, GapsOf(gaps, t, e)) : e \in {e \in RebuildLadder[t].shards : SafeRung(t) < e /\ e < d}}
LayersOf(gaps) ==
    LET rungs == {<<g[1], Dur(g)>> : g \in gaps}
    IN {[tier |-> td[1], dur |-> td[2], scaffold |-> FALSE, batch |-> GapsOf(gaps, td[1], td[2])] : td \in rungs}
       \cup {l \in {[tier |-> td[1], dur |-> td[2], scaffold |-> TRUE,
                     batch |-> SlotsIn(td[1], GapsOf(gaps, td[1], td[2])) \ SlotsBefore(gaps, td[1], td[2])]
                    : td \in {x \in rungs : x[2] > SafeRung(x[1])}} : l.batch # {}}

Comes(l, k) ==
    \/ l.tier < k.tier
    \/ l.tier = k.tier /\ (l.dur < k.dur \/ (l.dur = k.dur /\ (l.scaffold \/ ~k.scaffold)))

StartRebuild ==
    /\ driver = "idle" /\ driver' = "layers" /\ at' = rebuildClock /\ limit' \in Limits
    /\ layers' = LayersOf(CoverAt(rebuildClock) \ Fresh)
    /\ calls' = {} /\ scaffolding' = FALSE /\ count' = 0 /\ scaffolds' = {} /\ bad' = FALSE
    /\ used' = 0 /\ outcome' = "none"
    /\ UNCHANGED <<rebuildClock, cutoff, drought, stored, registered, written, outdated, strays, rebuildFaults>>

AtLimit == limit > 0 /\ count >= limit

\* The pool of a layer is joined before the next; a limit cuts the batch.
NextLayer ==
    /\ driver = "layers" /\ calls = {} /\ layers # {} /\ ~AtLimit
    /\ \E l \in layers :
          /\ \A k \in layers : Comes(l, k)
          /\ layers' = layers \ {l} /\ scaffolding' = l.scaffold
          /\ calls' = {s \in l.batch : limit = 0 \/ Cardinality({o \in l.batch : o[2] < s[2]}) < limit - count}
          /\ scaffolds' = IF l.scaffold THEN scaffolds \cup calls' ELSE scaffolds
    /\ UNCHANGED <<rebuildClock, cutoff, drought, stored, registered, written, outdated, driver, at, limit,
                   count, bad, used, outcome, strays, rebuildFaults>>

-----------------------------------------------------------------------------
(* The calls *)

Returned(g) ==
    /\ driver = "layers" /\ g \in calls /\ calls' = calls \ {g} /\ count' = count + 1
    /\ UNCHANGED <<rebuildClock, cutoff, drought, driver, at, limit, layers, scaffolding, scaffolds, outcome, strays>>

\* A shard without inputs counts as an error does (in the mutant it does not).
Uncounted(g) == FALSE
NoInputs(g)  == g \notin Fresh /\ ~Fillable(g, FreshKeys)
ToDo(g)      == g \notin Fresh /\ Fillable(g, FreshKeys)
Wrote(g) ==
    /\ PutNew(g, FreshKeys)
    /\ used' = LargerOf(used, Cardinality(HoleUnits(g, FreshKeys) \ drought) \div SourceBin(g[1]))

\* "exists", "no_inputs", "empty" (of which nothing is written) or "wrote".
Call(g) ==
    /\ Returned(g) /\ UNCHANGED rebuildFaults
    /\ bad' = (bad \/ NoInputs(g))
    /\ IF ToDo(g) /\ HasData(g)
       THEN Wrote(g) /\ registered' = IF scaffolding THEN registered ELSE registered \cup {g}
       ELSE UNCHANGED <<stored, registered, written, outdated, used>>

\* A call that fails: nothing was stored, or the shard but no row, or only the
\* answer is lost.
CallFails(g) ==
    /\ Returned(g) /\ bad' = TRUE
    /\ rebuildFaults < MaxRebuildFaults /\ rebuildFaults' = rebuildFaults + 1
    /\ \/ UNCHANGED <<stored, registered, written, outdated, used>>
       \/ ToDo(g) /\ HasData(g) /\ Wrote(g) /\ registered' \in {registered, registered \cup {g}}

EndLayers ==
    /\ driver = "layers" /\ calls = {} /\ (layers = {} \/ AtLimit)
    /\ IF bad \/ AtLimit
       THEN driver' = "idle" /\ outcome' = "bounced" ELSE driver' = "clean" /\ UNCHANGED outcome
    /\ UNCHANGED <<rebuildClock, cutoff, drought, stored, registered, written, outdated, at, limit, layers,
                   calls, scaffolding, count, scaffolds, bad, used, strays, rebuildFaults>>

\* Scaffolds are deleted one by one, their rows if they have any are not.
ToClean == scaffolds \ CoverAt(at)
CleanScaffold ==
    /\ driver = "clean"
    /\ IF ToClean \cap stored = {}
       THEN driver' = "idle" /\ outcome' = "done" /\ UNCHANGED <<stored, written, outdated>>
       ELSE \E s \in ToClean \cap stored :
              /\ stored' = stored \ {s} /\ written' = written \ {s} /\ outdated' = outdated \ {s}
              /\ UNCHANGED <<driver, outcome>>
    /\ UNCHANGED <<rebuildClock, cutoff, drought, registered, at, limit, layers, calls, scaffolding, count,
                   scaffolds, bad, used, strays, rebuildFaults>>

\* The function goes on with the calls of a driver that dies.
DriverDies ==
    /\ driver # "idle" /\ driver' = "idle" /\ outcome' = "died"
    /\ rebuildFaults < MaxRebuildFaults /\ rebuildFaults' = rebuildFaults + 1
    /\ layers' = {} /\ calls' = {} /\ strays' = strays \cup (calls \X {scaffolding})
    /\ UNCHANGED <<rebuildClock, cutoff, drought, stored, registered, written, outdated, at, limit,
                   scaffolding, count, scaffolds, bad, used>>

\* A call without a driver; the shard may have been built again meanwhile.
Stray(g, scaffold) ==
    /\ strays' = strays \ {<<g, scaffold>>}
    /\ IF ToDo(g) /\ HasData(g)
       THEN PutNew(g, FreshKeys) /\ registered' = IF scaffold THEN registered ELSE registered \cup {g}
       ELSE UNCHANGED <<stored, registered, written, outdated>>
    /\ UNCHANGED <<rebuildClock, cutoff, drought, driver, at, limit, layers, calls, scaffolding, count,
                   scaffolds, bad, used, outcome, rebuildFaults>>

\* The scheduled function registers the shards it expects and finds stored, and
\* fills the first one that is due and not stored, from any tile there is.
TickFills ==
    /\ QuietTicks => ~cutoff
    /\ LET due == {s \in CoverAt(rebuildClock) \ stored : Fillable(s, stored) /\ HasData(s)}
       IN \E s \in due :
             /\ \A o \in due : o[1] > s[1] \/ (o[1] = s[1] /\ (Dur(o) > Dur(s) \/ (Dur(o) = Dur(s) /\ o[2] >= s[2])))
             /\ PutNew(s, stored)
             /\ registered' = registered \cup {s} \cup (stored \cap CoverAt(rebuildClock))
    /\ UNCHANGED <<rebuildClock, cutoff, drought, driver, at, limit, layers, calls, scaffolding, count,
                   scaffolds, bad, used, outcome, strays, rebuildFaults>>

NextRebuild ==
    \/ PassTime \/ StartRebuild \/ NextLayer
    \/ \E g \in calls : Call(g) \/ CallFails(g)
    \/ \E x \in strays : Stray(x[1], x[2])
    \/ EndLayers \/ CleanScaffold \/ DriverDies \/ TickFills

SpecRebuild == InitRebuild /\ [][NextRebuild]_rebuildVars

-----------------------------------------------------------------------------
(* Properties *)

TypeRebuild ==
    /\ rebuildClock \in Clocks /\ cutoff \in BOOLEAN /\ drought \in Droughts
    /\ stored \subseteq RShards /\ registered \subseteq RShards /\ written \subseteq stored
    /\ outdated \subseteq stored /\ driver \in {"idle", "layers", "clean"}
    /\ at \in {0} \cup Clocks /\ limit \in {0} \cup Limits /\ calls \subseteq RShards
    /\ layers \subseteq [tier : DOMAIN RebuildLadder, dur : 1 .. RebuildEnd, scaffold : BOOLEAN,
                         batch : SUBSET RShards]
    /\ <<scaffolding, bad>> \in BOOLEAN \X BOOLEAN /\ count \in 0 .. Cardinality(RShards)
    /\ scaffolds \subseteq RShards /\ used \in 0 .. RebuildEnd
    /\ strays \subseteq RShards \X BOOLEAN
    /\ outcome \in {"none", "done", "bounced", "died"} /\ rebuildFaults \in 0 .. MaxRebuildFaults

\* stale_before (run_single_gap: "stale sub-tiles are never concat'd into a
\* rebuilt shard"; touch_tick_function: "the correct effective stale_before"): a
\* shard that was written after it, which no re-run looks at again, holds nothing
\* of what the sources said before.
FreshMeansNew == written \cap outdated = {}

\* A rebuild that ends without a bounce has left every shard that has data,
\* written since stale_before.
CleanMeansComplete ==
    outcome = "done" => \A s \in CoverAt(at) : HasData(s) => s \in Fresh \ outdated

\* "expand_scaffolds: ... so no invocation's fill exceeds the budget": as long as
\* no shard has bounced, no call reads more source bins with data than that.
BudgetKept == used > Budget => bad

\* What a rebuild with stale_before has written, which no re-run looks at again,
\* holds nothing of what the sources said before; one that ends without a bounce
\* has left every shard that has data; and while no shard has bounced, no call
\* reads more source bins with data than the budget (run_rebuild, run_single_gap,
\* split_stale, expand_scaffolds, fill_safe_rung).
RebuildSound == FreshMeansNew /\ CleanMeansComplete /\ BudgetKept
=============================================================================
