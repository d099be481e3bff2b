------------------------------ MODULE QueryPlan ------------------------------
(***************************************************************************)
(* The query planner: planQuery, which trusts watermarks, and              *)
(* planQueryFromInventory, which plans from the registered shards, with    *)
(* an output tier chosen by a budget of bins or a target width that no     *)
(* tier needs to have (planner.ts); and what fetch.ts and stitch.ts make   *)
(* of a plan.                                                              *)
(*                                                                         *)
(* A behaviour is one query, with its inputs in the initial state.  A row  *)
(* of a tier is one of its bins and holds the units of the bin.            *)
(***************************************************************************)
EXTENDS RaggedPacking

CONSTANTS
    Targets,     \* target widths: their boundaries, nominal width, calendar or not
    Ranges,      \* pairs <<from, to>>
    Asked,       \* targetBin, 0 for none, and binBudget
    Smoothings,  \* bins that smoothing adds on the two sides, <<0, 0>> without
    Declared,    \* watermarks that planQuery is given
    Trusted,     \* watermarks that planQueryFromInventory is given
    Inventories, \* sets of registered shards
    Gates,       \* earliestWatermarks and earliestPerShard
    MaxAtoms, MaxKeys           \* limits

VARIABLES
    query,      \* flavor, range, target, budget, smoothing
    declared, early, gate, inventory,   \* what the planner is given
    sealed, largest, earliest,          \* the watermarks it works with
    phase, cursor,
    atoms,      \* what the walk or the packing emitted
    plan        \* the segments

ASSUME QueryAssumption ==
    /\ \A t \in DOMAIN Targets :
          /\ {0, Horizon} \subseteq Targets[t].grid /\ Targets[t].grid \subseteq Times
          /\ Targets[t].width \in Nat \ {0} /\ Targets[t].calendar \in BOOLEAN
          /\ Targets[t].calendar => Targets[t].grid \subseteq Day
    /\ \A r \in Ranges : r[1] \in Times /\ r[2] \in Times /\ r[1] < r[2]
    /\ \A q \in Asked : q[1] \in {0} \cup DOMAIN Targets /\ q[2] \in Nat
    /\ \A s \in Smoothings : s[1] \in Nat /\ s[2] \in Nat
    /\ \A d \in Declared \cup Trusted : d \in [Cells -> 0 .. Far]
    /\ \A i \in Inventories : i \subseteq Shards
    /\ \A g \in Gates : g[1] \in [Tiers -> Times] /\ g[2] \in [Cells -> Times]

inputs == <<query, declared, early, gate, inventory, sealed, largest, earliest>>
vars == <<inputs, phase, cursor, atoms, plan>>

Segments == [cell : Cells, from : Times, to : Times, keys : SUBSET Shards]

Ragged     == query.target # 0
FromWm     == query.flavor = "watermarks"
Target     == Targets[query.target]

\* The finest tier whose bins fit the budget, else the coarsest.
PickTier(from, to, budget) ==
    LET fits == {t \in Tiers : BinsInRange(from, to, Grid[t]) <= budget}
    IN IF fits = {} THEN Max(Tiers) ELSE Min(fits)
OutTier == PickTier(query.from, query.to, query.budget)
OutGrid == IF Ragged THEN Target.grid ELSE Grid[OutTier]
OutWidth == IF Ragged THEN Target.width ELSE Width[OutTier]

\* Smoothing widens the range that is planned.
PlannedFrom == query.from - query.smooth[1] * OutWidth
PlannedTo   == query.to + query.smooth[2] * OutWidth

\* A window is at most a quarter of the visible bins.  Windows of months and
\* years are left out.
Smooths ==
    query.smooth = <<0, 0>>
    \/ /\ query.smooth[1] + query.smooth[2] + 1 <= BinsInRange(query.from, query.to, OutGrid) \div 4
       /\ IF Ragged THEN ~Target.calendar ELSE OutTier \notin Calendar

Queries ==
    [flavor : {"watermarks", "inventory"}, from : Times, to : Times, target : {0} \cup DOMAIN Targets,
     budget : {q[2] : q \in Asked}, smooth : Smoothings]

Init ==
    /\ query \in {q \in Queries : <<q.from, q.to>> \in Ranges /\ <<q.target, q.budget>> \in Asked}
    /\ PlannedFrom >= 0 /\ PlannedTo <= Horizon
    /\ Smooths
    /\ IF FromWm THEN declared \in Declared /\ inventory = {}
       ELSE /\ declared \in Trusted
            \* serveQuery lists the shards that meet the visible range.
            /\ inventory \in {{s \in i : EndOf(s) > query.from /\ StartOf(s) < query.to} : i \in Inventories}
    /\ \E g \in Gates : early = g[1] /\ gate = g[2]
    /\ sealed = [c \in Cells |-> Effective(declared, c)]
    /\ largest = [t \in Tiers |-> Largest(declared, t, PlannedTo)]
    /\ earliest = [t \in Tiers |-> Earliest(early, t)]
    /\ phase = "walk"
    /\ cursor = IF Ragged THEN Floor(OutGrid, PlannedFrom) ELSE PlannedFrom
    /\ atoms = {} /\ plan = {}

-----------------------------------------------------------------------------
(* The walk *)

SourcesClosed(x) ==
    {[cell |-> CellOf(s), upto |-> EndOf(s)] :
        s \in {s \in inventory : TierOf(CellOf(s)) <= OutTier /\ StartOf(s) <= x /\ x <= EndOf(s)}}
\* What the planner may read at instant x: a cell whose watermark is beyond x,
\* or a registered shard that covers x, unless its period starts before the
\* gate of its cell; each with how far it goes (in the mutant, a shard also
\* covers its end).
Sources(x) ==
    {[cell |-> c, upto |-> Min({sealed[c], After(Edges(c), x)})] :
        c \in {c \in Cells : FromWm /\ TierOf(c) <= OutTier
                             /\ sealed[c] > x /\ gate[c] <= Floor(Edges(c), x)}}
    \cup
    {[cell |-> CellOf(s), upto |-> EndOf(s)] :
        s \in {s \in inventory : TierOf(CellOf(s)) <= OutTier
                             /\ StartOf(s) <= x /\ x < EndOf(s) /\ gate[CellOf(s)] <= StartOf(s)}}

\* The coarsest tier first, then the largest shard.
Prefers(c, d) == TierOf(c) > TierOf(d) \/ (TierOf(c) = TierOf(d) /\ c[2] >= d[2])
Best(sources) == CHOOSE s \in sources : \A o \in sources : Prefers(s.cell, o.cell)

SegFrom(s) == Max({cursor, earliest[TierOf(s.cell)]})
SegTo(s)   == Min({PlannedTo, s.upto})

Walking == phase = "walk" /\ ~Ragged /\ cursor < PlannedTo

\* (The mutants: on to the end of the period, whatever is sealed; an empty
\* segment too.)
EmitPeriod ==
    /\ Walking /\ Sources(cursor) # {}
    /\ LET s == Best(Sources(cursor))
       IN /\ SegFrom(s) < SegTo(s)
          /\ atoms' = atoms \cup {[cell |-> s.cell, from |-> SegFrom(s), to |-> SegTo(s)]}
          /\ cursor' = After(Edges(s.cell), cursor)
    /\ UNCHANGED <<inputs, phase, plan>>
EmitGated ==
    /\ Walking /\ Sources(cursor) # {}
    /\ LET s == Best(Sources(cursor))
       IN /\ atoms' = atoms \cup {[cell |-> s.cell, from |-> SegFrom(s), to |-> SegTo(s)]}
          /\ cursor' = SegTo(s)
    /\ UNCHANGED <<inputs, phase, plan>>
Emit ==
    /\ Walking /\ Sources(cursor) # {}
    /\ LET s == Best(Sources(cursor))
       IN /\ SegFrom(s) < SegTo(s)
          /\ atoms' = atoms \cup {[cell |-> s.cell, from |-> SegFrom(s), to |-> SegTo(s)]}
          /\ cursor' = SegTo(s)
    /\ UNCHANGED <<inputs, phase, plan>>

\* All of it is before the earliest bin of the tier.
SkipGated ==
    /\ Walking /\ Sources(cursor) # {}
    /\ LET s == Best(Sources(cursor))
       IN SegTo(s) <= SegFrom(s) /\ cursor' = SegTo(s)
    /\ UNCHANGED <<inputs, phase, atoms, plan>>

\* "Uncovered tail; stop walking."
Stop ==
    /\ Walking /\ Sources(cursor) = {}
    /\ phase' = "assemble"
    /\ UNCHANGED <<inputs, cursor, atoms, plan>>

-----------------------------------------------------------------------------
(* A target width *)

LargestCell(t) == <<t, Len(RungGrid[t])>>

\* Fixed widths: bins of the tiers that are complete over the whole of [a, b),
\* or that a registered shard holds.
FixedAtoms(a, b) ==
    LET tiers == {t \in Tiers \ Calendar : Width[t] <= Target.width}
        usable == {t \in tiers : FromWm => largest[t] >= b /\ earliest[t] <= a}
    IN {x \in UNION {BinsInside(t, a, b) : t \in usable} : FromWm \/ Held(x, inventory)}

\* A month or year that the first tier of that width has complete.
ExactTiers == {t \in Calendar : Grid[t] = Target.grid /\ \A x \in Calendar : Grid[x] = Target.grid => t <= x}
Exact(a, b) ==
    {t \in ExactTiers :
        /\ largest[t] >= b
        /\ IF FromWm THEN earliest[t] <= a ELSE Held(Atom(t, a, b), inventory)}

CalendarAtoms(a, b) ==
    IF Exact(a, b) # {} THEN {Atom(t, a, b) : t \in Exact(a, b)}
    ELSE IF FromWm
         THEN PackSealed(PackTiers(Target.width), largest, earliest, a, Min({b, PlannedTo}))
         ELSE PackRegistered(PackTiers(Target.width), inventory, a, b)

\* More output bins than the budget.
RefuseBins ==
    /\ phase = "walk" /\ Ragged /\ cursor = Floor(OutGrid, PlannedFrom) /\ atoms = {}
    /\ BinsInRange(query.from, query.to, OutGrid) > query.budget
    /\ phase' = "refused"
    /\ UNCHANGED <<inputs, cursor, atoms, plan>>

Packing ==
    /\ phase = "walk" /\ Ragged /\ cursor < PlannedTo
    /\ BinsInRange(query.from, query.to, OutGrid) <= query.budget
BinEnd == After(OutGrid, cursor)
InCell(x) == [cell |-> LargestCell(x.tier), from |-> x.from, to |-> x.to]

\* A bin that no tier is complete over, or that the registered shards do not
\* fill, is left out; when the tiers are there and their bins do not add up
\* planQuery throws.
PackFixed ==
    /\ Packing /\ ~Target.calendar
    /\ LET usable == FixedAtoms(cursor, BinEnd)
           path   == Decompose(usable, cursor, BinEnd)
       IN IF path = NoPath
          THEN /\ atoms' = atoms
               /\ IF FromWm /\ usable # {}
                  THEN phase' = "refused" /\ cursor' = cursor
                  ELSE phase' = phase /\ cursor' = BinEnd
          ELSE /\ atoms' = atoms \cup {InCell(path[i]) : i \in DOMAIN path}
               /\ phase' = phase /\ cursor' = BinEnd
    /\ UNCHANGED <<inputs, plan>>

PackCalendar ==
    /\ Packing /\ Target.calendar
    /\ atoms' = atoms \cup {InCell(x) : x \in CalendarAtoms(cursor, BinEnd)}
    /\ cursor' = BinEnd
    /\ UNCHANGED <<inputs, phase, plan>>

-----------------------------------------------------------------------------
(* The plan *)

\* Neighbours of one source become one segment; the walk over an inventory
\* keeps its shards apart.
Joins(x, y) == x.cell = y.cell /\ x.to = y.from /\ (FromWm \/ Ragged)
Linked(x, y) ==
    \A b \in atoms : (x.from < b.from /\ b.from <= y.from) => \E p \in atoms : Joins(p, b)
RunEnd(x) == Max({y.to : y \in {y \in atoms : x.from <= y.from /\ Linked(x, y)}})

\* The registered shards of a packed run, each from where the last one ends.
Covering(t, x) ==
    {s \in inventory : TierOf(CellOf(s)) = t /\ StartOf(s) <= x /\ x < EndOf(s)}
LargestCovering(t, x) ==
    CHOOSE s \in Covering(t, x) : \A o \in Covering(t, x) : Prefers(CellOf(s), CellOf(o))
RegisteredKeys(t, from, to) ==
    LET keys[x \in from .. Horizon] ==
            IF x >= to \/ Covering(t, x) = {} THEN {}
            ELSE {LargestCovering(t, x)} \cup keys[EndOf(LargestCovering(t, x))]
    IN keys[from]

Keys(c, from, to) ==
    IF FromWm THEN PeriodsCovering(c, from, to)
    ELSE IF Ragged THEN RegisteredKeys(TierOf(c), from, to)
    ELSE {s \in Shards : CellOf(s) = c /\ StartOf(s) <= from /\ from < EndOf(s)}

Coalesced ==
    {[cell |-> x.cell, from |-> x.from, to |-> RunEnd(x), keys |-> Keys(x.cell, x.from, RunEnd(x))] :
        x \in {x \in atoms : ~\E p \in atoms : Joins(p, x)}}

Assemble ==
    /\ \/ phase = "assemble"
       \/ phase = "walk" /\ cursor >= PlannedTo
    /\ plan' = Coalesced
    /\ phase' = IF Cardinality(atoms) > MaxAtoms \/ Cardinality(UNION {g.keys : g \in Coalesced}) > MaxKeys
                THEN "refused" ELSE "done"
    /\ UNCHANGED <<inputs, cursor, atoms>>

\* The planner has returned or thrown.
Over == phase \in {"done", "refused"} /\ UNCHANGED vars

Next == Emit \/ SkipGated \/ Stop \/ RefuseBins \/ PackFixed \/ PackCalendar \/ Assemble \/ Over

Spec == Init /\ [][Next]_vars

-----------------------------------------------------------------------------
(* The answer: what fetch.ts reads of the plan and stitch.ts adds up *)

\* A row that is read: its segment, the shard it comes from, its bin.  A
\* segment keeps the rows whose bin starts inside it.
RowsOf(g, s) ==
    {[seg |-> g, shard |-> s, bin |-> x] :
        x \in {x \in Grid[TierOf(g.cell)] : StartOf(s) <= x /\ x < EndOf(s) /\ g.from <= x /\ x < g.to}}
Reads == UNION {UNION {RowsOf(g, s) : s \in g.keys} : g \in plan}

\* A row has no more of its bin than its shard is complete to.
Units(r) ==
    {u \in r.bin .. After(Grid[TierOf(r.seg.cell)], r.bin) - 1 : u < sealed[CellOf(r.shard)]}

\* The bin of the answer that the row is added to.
OutBin(r) == Floor(OutGrid, r.bin)

\* The output bins that are returned.
Visible == {b \in OutGrid : query.from <= b /\ b < query.to}
\* The finest tier's watermark: its best shard for the walk, its largest for a
\* target width (in the mutant, the largest for both).
AuthoritativeLargest == largest[1]
Authoritative ==
    IF Ragged THEN largest[1] ELSE Max({sealed[c] : c \in {c \in Cells : TierOf(c) = 1}})

\* The units that are in the output bin they lie in.
Answered ==
    LET reads == Reads IN UNION {{u \in Units(r) : OutBin(r) = Floor(OutGrid, u)} : r \in reads}

-----------------------------------------------------------------------------
(* Properties *)

(* The planner's types. *)
TypeOK ==
    /\ query \in Queries
    /\ declared \in [Cells -> 0 .. Far] /\ early \in [Tiers -> Times] /\ gate \in [Cells -> Times]
    /\ inventory \subseteq Shards
    /\ sealed \in [Cells -> 0 .. Far] /\ largest \in [Tiers -> Times] /\ earliest \in [Tiers -> Times]
    /\ phase \in {"walk", "assemble", "done", "refused"} /\ cursor \in Times
    /\ \A x \in atoms : x.cell \in Cells /\ {x.from, x.to} \subseteq Times /\ x.from < x.to
    /\ \A g \in plan : g.cell \in Cells /\ g.keys \subseteq Shards /\ g.keys # {} /\ g.from < g.to

\* A month is packed up to the least watermark of all shard sizes, and its last
\* row read from the largest shards: they hold nothing of that row's bin beyond
\* the watermark.
CutsExact ==
    \A t \in Tiers : Base(t) =>
        \/ largest[t] = PlannedTo \/ largest[t] \in Grid[t]
        \/ sealed[LargestCell(t)] <= largest[t]
CutsCalendar == FromWm /\ Ragged /\ Target.calendar

(* No unit of time is added to the answer twice, and none to an output bin   *)
(* it does not lie in: tiers, shards of one tier, bins that are cut by a     *)
(* watermark or by the query, and overlapping registered shards do not meet  *)
(* in one unit (planQuery, planQueryFromInventory, stitch).                  *)
CountedOnce ==
    (phase = "done" /\ (CutsCalendar => CutsExact)) =>
        LET reads == Reads
        IN \A r \in reads :
               /\ \A u \in Units(r) : Floor(OutGrid, u) = OutBin(r)
               /\ \A o \in reads \ {r} : Units(r) \cap Units(o) = {}

\* The tiers a query may read registered shards of, which hold all of their
\* periods.
Packers ==
    IF ~Ragged THEN 1 .. OutTier
    ELSE IF Target.calendar THEN Usable(Target.width) ELSE Tiers \ Calendar
Complete == \A s \in inventory : TierOf(CellOf(s)) \in Packers => EndOf(s) <= sealed[CellOf(s)]

\* What the planner was given suffices for unit u of output bin b: an unbroken
\* walk up to u; a fixed bin that the finest tier has whole; for a month
\* that the finest tier has u.
Suffices(b, u) ==
    LET e == After(OutGrid, b)
        Registered(x) == \E s \in inventory : TierOf(CellOf(s)) = 1 /\ StartOf(s) <= x /\ x < EndOf(s)
    IN /\ Complete
       /\ IF ~Ragged
          THEN u < PlannedTo /\ earliest[OutTier] <= b /\ \A x \in PlannedFrom .. u : Sources(x) # {}
          ELSE IF ~Target.calendar
          THEN IF FromWm THEN largest[1] >= e /\ earliest[1] <= b
                         ELSE \A x \in b .. e - 1 : Registered(x)
          ELSE IF FromWm THEN earliest[1] <= u /\ u < largest[1]
                         ELSE Registered(u)

(* Whatever the tiers have of a visible output bin is in the answer: falling *)
(* through to finer tiers and smaller shards, packing a target width, and    *)
(* coalescing lose nothing (planQuery, planRagged, planRaggedCalendar and    *)
(* their inventory forms).                                                   *)
NothingMissing ==
    phase = "done" =>
        LET answered == Answered
        IN \A b \in Visible : \A u \in b .. After(OutGrid, b) - 1 :
               u \in answered \/ ~Suffices(b, u)

(* Up to authoritativeEnd, where the consumer's hot path takes over, the     *)
(* answer has every unit, from there on none (authoritativeEnd of planQuery  *)
(* and planRaggedCalendar).  The fixed target leaves out a bin that is not   *)
(* complete.                                                                 *)
HandOver ==
    (phase = "done" /\ FromWm /\ (Ragged => Target.calendar /\ CutsExact)) =>
        LET answered == Answered
        IN \A b \in Visible : \A u \in b .. After(OutGrid, b) - 1 :
               /\ (/\ u < Authoritative /\ u < query.to /\ earliest[Max(Tiers)] <= b
                   /\ \A c \in Cells : TierOf(c) = 1 => gate[c] = 0) => u \in answered
               /\ u \in answered => u < Authoritative \/ u >= query.to

\* The positions that n of the atoms lead to from a, for every n up to a limit.
Onward(usable, before) == {x.to : x \in {x \in usable : x.from \in before}}
Reached(usable, a, limit) ==
    LET after[n \in 0 .. limit] == IF n = 0 THEN {a} ELSE Onward(usable, after[n - 1])
    IN after

(* A bin of a fixed target width is packed with as few bins of the tiers as  *)
(* the usable tiers allow, and left out only when they do not add up         *)
(* (decomposeBin).                                                           *)
RaggedMinimal ==
    (phase = "done" /\ Ragged /\ ~Target.calendar) =>
        \A b \in OutGrid \ {Horizon} :
            LET e == After(OutGrid, b)
                reached == Reached(FixedAtoms(b, e), b, e - b)
                ways == {n \in 1 .. e - b : e \in reached[n]}
                used == {x \in atoms : b <= x.from /\ x.to <= e}
            IN (PlannedFrom < e /\ b < PlannedTo) =>
                   Cardinality(used) = IF ways = {} THEN 0 ELSE Min(ways)

(* The walk never spins: whatever it chooses takes it beyond the cursor,     *)
(* also when all of it lies before the earliest bin of its tier              *)
(* (`continue walk`).                                                        *)
WalkAdvances ==
    (Walking /\ Sources(cursor) # {}) => SegTo(Best(Sources(cursor))) > cursor

(* "No tier had inventory covering cursor -- uncovered tail; stop walking."  *)
StopsAtTail ==
    phase = "assemble" =>
        \A x \in cursor .. PlannedTo - 1 : Sources(x) = {}

-----------------------------------------------------------------------------
(* What the theorem about NothingMissing supposes of the inputs, besides a    *)
(* nested ladder.                                                            *)

\* Watermarks and earliest bins are boundaries of their tier's bins.
Aligned ==
    /\ \A d \in Declared : \A c \in Cells : d[c] \in Grid[TierOf(c)] \cup {Far}
    /\ \A g \in Gates : \A t \in Tiers : g[1][t] \in Grid[t]
\* A gate opens with a period of its cell and of every cell that is open before.
GatesNest == \A g \in Gates : \A c, d \in Cells : g[2][c] <= g[2][d] => g[2][d] \in Edges(c)
\* A registered shard that reaches into one of a coarser tier ends with one of
\* its bins.
ShardsMeet ==
    \A i \in Inventories : \A s, o \in i :
        (/\ TierOf(CellOf(s)) < TierOf(CellOf(o))
         /\ StartOf(s) < StartOf(o) /\ StartOf(o) < EndOf(s)) => EndOf(s) \in Grid[TierOf(CellOf(o))]
\* Targets are made of bins of the finest tier, and days are.
TargetsServed ==
    \A q \in Asked : q[1] # 0 =>
        Base(1) /\ Targets[q[1]].grid \subseteq Grid[1] /\ Width[1] <= Targets[q[1]].width
InputsMeet == Aligned /\ GatesNest /\ ShardsMeet /\ TargetsServed
===============================================================================
