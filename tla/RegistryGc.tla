------------------------------ MODULE RegistryGc ------------------------------
(***************************************************************************)
(* The scheduled function of pyrmts_ops (lambda_entry): every invocation   *)
(* discovers and fills gaps, and some then sweep the registry of shards    *)
(* that larger ones have superseded (gc_sweep).  An invocation may run for *)
(* longer than the schedule's interval and a rebuild invokes the function  *)
(* for single gaps, so invocations overlap; each call of one to the        *)
(* storage or the registry is a step.                                      *)
(*                                                                         *)
(* One hashless tier that is built from raw data; its shards are a         *)
(* duration and a start on a row of time units.  The content of a shard is *)
(* the set of units it has data of.                                        *)
(***************************************************************************)
EXTENDS Integers, FiniteSets, FiniteSetsExt

CONSTANTS
    Rungs,        \* the durations of the tier
    Workers,      \* invocations that may overlap
    Grace,        \* GRACE_MS
    MaxDeletes,   \* max_deletes
    Chunk,        \* rows that one statement deletes
    MidPeriod,    \* single gaps may be of a period that is not over
    MaxNow,       \* bound on time
    MaxExtras     \* bound on single-gap invocations, and on faults, together

Units == 0 .. MaxNow - 1

Shards == {s \in [dur : Rungs, start : Units] : s.start % s.dur = 0}

ASSUME GcAssumption ==
    /\ Rungs \subseteq Nat \ {0}
    /\ MaxNow \in Nat /\ Grace \in Nat /\ Chunk \in Nat \ {0}
    /\ MaxDeletes \in Nat /\ MaxExtras \in Nat
    /\ MidPeriod \in BOOLEAN

End(s)     == s.start + s.dur
UnitsOf(s) == {u \in Units : s.start <= u /\ u < End(s)}

\* list_expected_shards over [0, to): the largest shards that end by then.
Expected(to) ==
    {s \in Shards :
        /\ End(s) <= to
        /\ \A o \in Shards : (o.dur > s.dur /\ UnitsOf(s) \subseteq UnitsOf(o)) => End(o) > to}

\* Strictly larger shards of the tier that contain the period of s.
Above(s)   == {p \in Shards : p.dur > s.dur /\ p.start <= s.start /\ End(p) >= End(s)}

VARIABLES
    now,
    objects, content,   \* the shards in storage
    rows,               \* the registry: shards with their written_at
    wpc, wkind, wnow,   \* invocations: step, kind of event, their `now`
    wkeys, wgaps, wtodo, wcur, wbuf,   \* discovery and fill
    wrows, wleft, wdoomed,             \* sweep: rows read, rows to look at, to_delete_rows
    extras

storeVars  == <<objects, content>>
eventVars  == <<wkind, wnow>>
fillVars   == <<wkeys, wgaps, wtodo, wcur, wbuf>>
sweepVars  == <<wrows, wleft, wdoomed>>
vars == <<now, storeVars, rows, wpc, eventVars, fillVars, sweepVars, extras>>

NoShard == [dur |-> 0, start |-> 0]
Rows    == [shard : Shards, at : Nat]

Registered == {r.shard : r \in rows}

Init ==
    /\ now = 0
    /\ objects = {} /\ content = [s \in Shards |-> {}] /\ rows = {}
    /\ wpc = [w \in Workers |-> "idle"] /\ wkind = [w \in Workers |-> "tick"]
    /\ wnow = [w \in Workers |-> 0]
    /\ wkeys = [w \in Workers |-> {}] /\ wgaps = [w \in Workers |-> {}]
    /\ wtodo = [w \in Workers |-> {}] /\ wcur = [w \in Workers |-> NoShard]
    /\ wbuf = [w \in Workers |-> {}]
    /\ wrows = [w \in Workers |-> {}] /\ wleft = [w \in Workers |-> {}]
    /\ wdoomed = [w \in Workers |-> {}]
    /\ extras = 0

Tick ==
    /\ now < MaxNow /\ now' = now + 1
    /\ UNCHANGED <<storeVars, rows, wpc, eventVars, fillVars, sweepVars, extras>>

Goto(w, pc) == wpc' = [wpc EXCEPT ![w] = pc]

\* The invocation is over, what it knew is gone.
Return(w) ==
    /\ Goto(w, "idle")
    /\ wkind' = [wkind EXCEPT ![w] = "tick"] /\ wnow' = [wnow EXCEPT ![w] = 0]
    /\ wkeys' = [wkeys EXCEPT ![w] = {}] /\ wgaps' = [wgaps EXCEPT ![w] = {}]
    /\ wtodo' = [wtodo EXCEPT ![w] = {}] /\ wcur' = [wcur EXCEPT ![w] = NoShard]
    /\ wbuf' = [wbuf EXCEPT ![w] = {}]
    /\ wrows' = [wrows EXCEPT ![w] = {}] /\ wleft' = [wleft EXCEPT ![w] = {}]
    /\ wdoomed' = [wdoomed EXCEPT ![w] = {}]

\* Something out of the ordinary happens.
Extra == extras < MaxExtras /\ extras' = extras + 1

-----------------------------------------------------------------------------
(* lambda_entry *)

StartTick(w) ==
    /\ wpc[w] = "idle"
    /\ Goto(w, "discover") /\ wnow' = [wnow EXCEPT ![w] = now]
    /\ UNCHANGED <<now, storeVars, rows, wkind, fillVars, sweepVars, extras>>

\* An event with a gap, `register` is false for a scaffold.  The code refuses
\* no period; if the shard exists nothing is done.
StartSingle(w, g, kind) ==
    /\ wpc[w] = "idle" /\ Extra
    /\ MidPeriod \/ End(g) <= now
    /\ g \notin objects
    /\ Goto(w, "gaps")
    /\ wkind' = [wkind EXCEPT ![w] = kind]
    /\ wkeys' = [wkeys EXCEPT ![w] = objects] /\ wgaps' = [wgaps EXCEPT ![w] = {g}]
    /\ UNCHANGED <<now, storeVars, rows, wnow, wtodo, wcur, wbuf, sweepVars>>

\* discover_gaps: what is built is what a LIST finds.
Discover(w) ==
    /\ wpc[w] = "discover"
    /\ wkeys' = [wkeys EXCEPT ![w] = objects]
    /\ wgaps' = [wgaps EXCEPT ![w] = Expected(wnow[w]) \ objects]
    /\ Goto(w, "reconcile")
    /\ UNCHANGED <<now, storeVars, rows, eventVars, wtodo, wcur, wbuf, sweepVars, extras>>

\* reconcile_registrations: expected, on storage, without a row (the mutant
\* registers nothing).
NoneStranded(w) == {}
Stranded(w)     == (Expected(wnow[w]) \cap wkeys[w]) \ Registered
ReconcileRead(w) ==
    /\ wpc[w] = "reconcile" /\ wtodo[w] = {}
    /\ IF Stranded(w) = {} THEN Goto(w, "gaps") /\ UNCHANGED wtodo
       ELSE wtodo' = [wtodo EXCEPT ![w] = Stranded(w)] /\ UNCHANGED wpc
    /\ UNCHANGED <<now, storeVars, rows, eventVars, wkeys, wgaps, wcur, wbuf, sweepVars,
                   extras>>

\* The registry cannot be read: not in this tick.
ReconcileFails(w) ==
    /\ wpc[w] = "reconcile" /\ wtodo[w] = {}
    /\ Extra /\ Goto(w, "gaps")
    /\ UNCHANGED <<now, storeVars, rows, eventVars, fillVars, sweepVars>>

\* record_shard: an upsert.  A sweep asks for written_at only to compare it
\* with times before the shard's end, so later times count as the end.
Upsert(s) ==
    rows' = {r \in rows : r.shard # s} \cup {[shard |-> s, at |-> IF now < End(s) THEN now ELSE End(s)]}

ReconcileRegister(w, s) ==
    /\ wpc[w] = "reconcile" /\ s \in wtodo[w]
    /\ Upsert(s)
    /\ wtodo' = [wtodo EXCEPT ![w] = @ \ {s}]
    /\ IF wtodo[w] = {s} THEN Goto(w, "gaps") ELSE UNCHANGED wpc
    /\ UNCHANGED <<now, storeVars, eventVars, wkeys, wgaps, wcur, wbuf, sweepVars, extras>>

-----------------------------------------------------------------------------
(* materialize_extension_shard *)

IsNext(w, g) ==
    \A o \in wgaps[w] \ {g} : g.dur < o.dur \/ (g.dur = o.dur /\ g.start < o.start)

\* tile_from_existing: for a unit, the largest smaller shard that is known.
Tiles(w, g, u) ==
    LET tiles == {s \in wkeys[w] : s.dur < g.dur /\ u \in UnitsOf(s)}
    IN {s \in tiles : \A o \in tiles : o.dur <= s.dur}
TilesOf(w, g) == UNION {Tiles(w, g, u) : u \in UnitsOf(g)}
HasHole(w, g) == \E u \in UnitsOf(g) : Tiles(w, g, u) = {}
\* Raw data of the past only.
Input(w, g) ==
    {u \in UnitsOf(g) : IF Tiles(w, g, u) = {} THEN u < now
                        ELSE \E s \in Tiles(w, g, u) : u \in content[s]}

Skip(w, g) == wgaps' = [wgaps EXCEPT ![w] = @ \ {g}]

Exists(w, g) ==
    /\ wpc[w] = "gaps" /\ g \in wgaps[w] /\ IsNext(w, g)
    /\ g \in wkeys[w] \cup objects
    /\ wkeys' = [wkeys EXCEPT ![w] = @ \cup {g}] /\ Skip(w, g)
    /\ UNCHANGED <<now, storeVars, rows, wpc, eventVars, wtodo, wcur, wbuf, sweepVars, extras>>

\* HEAD finds nothing.
Missing(w, g) ==
    /\ wpc[w] = "gaps" /\ g \in wgaps[w] /\ IsNext(w, g)
    /\ g \notin wkeys[w] \cup objects
    /\ Goto(w, "read") /\ wcur' = [wcur EXCEPT ![w] = g]
    /\ UNCHANGED <<now, storeVars, rows, eventVars, wkeys, wgaps, wtodo, wbuf, sweepVars,
                   extras>>

NoOutput(w) ==
    /\ Skip(w, wcur[w]) /\ Goto(w, "gaps")
    /\ wcur' = [wcur EXCEPT ![w] = NoShard] /\ UNCHANGED wbuf

Build(w) ==
    /\ wpc[w] = "read" /\ TilesOf(w, wcur[w]) \subseteq objects
    /\ IF Input(w, wcur[w]) = {} THEN NoOutput(w)
       ELSE /\ Goto(w, "put")
            /\ wbuf' = [wbuf EXCEPT ![w] = Input(w, wcur[w])]
            /\ UNCHANGED <<wgaps, wcur>>
    /\ UNCHANGED <<now, storeVars, rows, eventVars, wkeys, wtodo, sweepVars, extras>>

\* A tile is gone: the call raises, and with it the invocation.
TileGone(w) ==
    /\ wpc[w] = "read" /\ ~(TilesOf(w, wcur[w]) \subseteq objects)
    /\ Return(w)
    /\ UNCHANGED <<now, storeVars, rows, extras>>

\* raw_fill returns None.
RawNotReady(w) ==
    /\ wpc[w] = "read" /\ HasHole(w, wcur[w])
    /\ Extra /\ NoOutput(w)
    /\ UNCHANGED <<now, storeVars, rows, eventVars, wkeys, wtodo, sweepVars>>

Put(w) ==
    /\ wpc[w] = "put"
    /\ objects' = objects \cup {wcur[w]}
    /\ content' = [content EXCEPT ![wcur[w]] = wbuf[w]]
    /\ wkeys' = [wkeys EXCEPT ![w] = @ \cup {wcur[w]}] /\ Skip(w, wcur[w])
    /\ wbuf' = [wbuf EXCEPT ![w] = {}]
    /\ IF wkind[w] = "scaffold" THEN Goto(w, "gaps") /\ wcur' = [wcur EXCEPT ![w] = NoShard]
       ELSE Goto(w, "register") /\ UNCHANGED wcur
    /\ UNCHANGED <<now, rows, eventVars, wtodo, sweepVars, extras>>

Register(w) ==
    /\ wpc[w] = "register"
    /\ Upsert(wcur[w])
    /\ Goto(w, "gaps") /\ wcur' = [wcur EXCEPT ![w] = NoShard]
    /\ UNCHANGED <<now, storeVars, eventVars, wkeys, wgaps, wtodo, wbuf, sweepVars, extras>>

\* time_budget_s.
StopEarly(w) ==
    /\ wpc[w] = "gaps" /\ wgaps[w] # {}
    /\ Extra /\ wgaps' = [wgaps EXCEPT ![w] = {}]
    /\ UNCHANGED <<now, storeVars, rows, wpc, eventVars, wkeys, wtodo, wcur, wbuf, sweepVars>>

\* A single gap, or a firing that is not the hour's first.
FillDone(w) ==
    /\ wpc[w] = "gaps" /\ wgaps[w] = {}
    /\ Return(w)
    /\ UNCHANGED <<now, storeVars, rows, extras>>

-----------------------------------------------------------------------------
(* gc_sweep *)

SweepRows(w) ==
    /\ wpc[w] = "gaps" /\ wgaps[w] = {} /\ wkind[w] = "tick"
    /\ wrows' = [wrows EXCEPT ![w] = rows]
    /\ wleft' = [wleft EXCEPT ![w] = {r \in rows : r.shard \notin Expected(wnow[w])}]
    /\ wkeys' = [wkeys EXCEPT ![w] = {}]
    /\ Goto(w, "sweep")
    /\ UNCHANGED <<now, storeVars, rows, eventVars, wgaps, wtodo, wcur, wbuf, wdoomed, extras>>

\* max_deletes (in the mutant, one more).
OneMore(w)      == Cardinality(wdoomed[w]) <= MaxDeletes
WithinBudget(w) == Cardinality(wdoomed[w]) < MaxDeletes
Future(w, r)    == End(r.shard) > wnow[w]
PastGrace(w, r) ==
    IF Future(w, r) THEN r.at + Grace <= wnow[w] ELSE End(r.shard) + Grace <= wnow[w]

\* A same-tier row that covers r's period (in the mutant, r's own does too).
NotSmaller(w, r)     == {r.shard} \cup (Above(r.shard) \cap {p.shard : p \in wrows[w]})
CoveringParent(w, r) == Above(r.shard) \cap {p.shard : p \in wrows[w]}
\* HEAD on the parent.
OnStorage(p) == p \in objects

SweepSkip(w, r) ==
    /\ wpc[w] = "sweep" /\ r \in wleft[w]
    /\ \/ ~WithinBudget(w) \/ ~PastGrace(w, r)
       \/ ~Future(w, r) /\ CoveringParent(w, r) = {}
       \/ ~Future(w, r) /\ \E p \in CoveringParent(w, r) : ~OnStorage(p)
    /\ wleft' = [wleft EXCEPT ![w] = @ \ {r}]
    /\ UNCHANGED <<now, storeVars, rows, wpc, eventVars, fillVars, wrows, wdoomed, extras>>

SweepCondemn(w, r) ==
    /\ wpc[w] = "sweep" /\ r \in wleft[w]
    /\ WithinBudget(w) /\ PastGrace(w, r)
    /\ Future(w, r) \/ \E p \in CoveringParent(w, r) : OnStorage(p)
    /\ wleft' = [wleft EXCEPT ![w] = @ \ {r}]
    /\ wdoomed' = [wdoomed EXCEPT ![w] = @ \cup {r.shard}]
    /\ wcur' = [wcur EXCEPT ![w] = r.shard]
    /\ Goto(w, "delete")
    /\ UNCHANGED <<now, storeVars, rows, eventVars, wkeys, wgaps, wtodo, wbuf, wrows, extras>>

SweepDelete(w) ==
    /\ wpc[w] = "delete"
    /\ objects' = objects \ {wcur[w]} /\ content' = [content EXCEPT ![wcur[w]] = {}]
    /\ wcur' = [wcur EXCEPT ![w] = NoShard]
    /\ Goto(w, "sweep")
    /\ UNCHANGED <<now, rows, eventVars, wkeys, wgaps, wtodo, wbuf, sweepVars, extras>>

\* delete_keys, one statement per chunk.
DropRows(w, c) ==
    /\ wpc[w] = "sweep" /\ wleft[w] = {} /\ wdoomed[w] # {}
    /\ Cardinality(c) = Min({Chunk, Cardinality(wdoomed[w])})
    /\ rows' = {r \in rows : r.shard \notin c}
    /\ wdoomed' = [wdoomed EXCEPT ![w] = @ \ c]
    /\ UNCHANGED <<now, storeVars, wpc, eventVars, fillVars, wrows, wleft, extras>>

SweepDone(w) ==
    /\ wpc[w] = "sweep" /\ wleft[w] = {} /\ wdoomed[w] = {}
    /\ Return(w)
    /\ UNCHANGED <<now, storeVars, rows, extras>>

\* The process dies, or a call to the storage or the registry raises.
Dies(w) ==
    /\ wpc[w] # "idle" /\ Extra
    /\ Return(w)
    /\ UNCHANGED <<now, storeVars, rows>>

-----------------------------------------------------------------------------

Fill(w) ==
    \/ Discover(w) \/ ReconcileRead(w)
    \/ \E g \in Shards : ReconcileRegister(w, g) \/ Exists(w, g) \/ Missing(w, g)
    \/ Build(w) \/ TileGone(w) \/ Put(w) \/ Register(w) \/ FillDone(w)
Sweep(w) ==
    \/ SweepRows(w) \/ SweepDelete(w) \/ SweepDone(w)
    \/ \E r \in wleft[w] : SweepSkip(w, r) \/ SweepCondemn(w, r)
    \/ \E c \in SUBSET wdoomed[w] : DropRows(w, c)
Run(w) == Fill(w) \/ Sweep(w)
Fails(w) ==
    \/ ReconcileFails(w) \/ RawNotReady(w) \/ StopEarly(w) \/ Dies(w)

Next ==
    \/ Tick
    \/ \E w \in Workers :
          \/ StartTick(w)
          \/ \E g \in Shards, kind \in {"gap", "scaffold"} : StartSingle(w, g, kind)
          \/ Run(w) \/ Fails(w)

\* The schedule goes on, an invocation that has started goes on, and one in
\* twelve firings sweeps.
Fairness ==
    /\ WF_vars(Tick)
    /\ \A w \in Workers : WF_vars(StartTick(w)) /\ WF_vars(Run(w)) /\ SF_vars(SweepRows(w))

Spec     == Init /\ [][Next]_vars
FairSpec == Spec /\ Fairness

-----------------------------------------------------------------------------
(* Properties *)

TypeOK ==
    /\ now \in 0 .. MaxNow
    /\ objects \subseteq Shards /\ content \in [Shards -> SUBSET Units]
    /\ rows \subseteq Rows
    /\ wpc \in [Workers -> {"idle", "discover", "reconcile", "gaps", "read", "put",
                            "register", "sweep", "delete"}]
    /\ wkind \in [Workers -> {"tick", "gap", "scaffold"}] /\ wnow \in [Workers -> 0 .. MaxNow]
    /\ wkeys \in [Workers -> SUBSET Shards] /\ wgaps \in [Workers -> SUBSET Shards]
    /\ wtodo \in [Workers -> SUBSET Shards] /\ wcur \in [Workers -> Shards \cup {NoShard}]
    /\ \A w \in Workers : wpc[w] \in {"read", "put", "register", "delete"} => wcur[w] \in Shards
    /\ wbuf \in [Workers -> SUBSET Units]
    /\ wrows \in [Workers -> SUBSET Rows] /\ wleft \in [Workers -> SUBSET Rows]
    /\ wdoomed \in [Workers -> SUBSET Shards]
    /\ \A w \in Workers : IsFiniteSet(wdoomed[w]) /\ Cardinality(wdoomed[w]) <= MaxDeletes
    /\ extras \in Nat

\* A registry-gated read of the unit finds data.
Served(u) == \E s \in Registered \cap objects : u \in content[s]

\* A sweep deletes "conservative by construction" (pyrmts_ops/gc.py): whatever
\* other invocations do meanwhile and wherever one dies, a unit that is served
\* stays served.
NoCoverageLost == [][\A u \in Units : Served(u) => Served(u)']_vars

\* A sweep deletes a shard when "anything uncertain is skipped" and "the live
\* ladder independently min-covers its real content" (pyrmts_ops/gc.py): its
\* deletions take nothing out of service.
SweepKeepsServed ==
    [][\A s \in objects \ objects' : \A u \in content[s] : Served(u) => Served(u)']_vars

\* "delete = storage object first, then the registry row": a row that is left
\* without its object is a superseded one, a larger shard serves its period.
DanglingCovered ==
    \A s \in Registered \ objects : \E p \in Above(s) : p \in Registered \cap objects

\* In the end the registry and the storage hold the expected cover, and of the
\* superseded shards no row is left but of those within their grace period.
Settled ==
    <>[](/\ Expected(MaxNow) \subseteq Registered \cap objects
         /\ \A s \in Registered \ Expected(MaxNow) : s \in objects /\ End(s) + Grace > MaxNow)
=============================================================================
