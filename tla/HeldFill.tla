------------------------------- MODULE HeldFill -------------------------------
(***************************************************************************)
(* The fill mode of build_local (pyrmts_engine/engine.py) over a source    *)
(* whose tiles may not be there yet: which missing shards a fill builds,   *)
(* which it defers (their tile is still open), and when it holds them back *)
(* and writes nothing (the hole is closed); which windows it walks.        *)
(*                                                                         *)
(* The source is raw tiles, or the finest tier, as it is stored.           *)
(***************************************************************************)
EXTENDS ShardLadder, Sequences, FiniteSetsExt

CONSTANTS
    Ladder,       \* per tier its bin and the durations of its shards
    Genesis, Nows, \* fills are over [Genesis, now)
    RawTile,      \* duration of a raw tile
    FillWindow,   \* duration of a window
    Modes,        \* the source, strict_open_periods, max_missing_source (a fraction)
    MaxFillFaults \* bound on invalidations and on fills that die

VARIABLES
    heldSource,      \* "raw" or "shards"
    strictOpen, tolerance,
    now,         \* `to`
    present,     \* tiles stored
    built,       \* shards built, each with its units and the `to` of its fill
    fill,        \* the fill's step
    unwritten, walk, heldRows,        \* shards to write, units to read, units read
    fresh, heldVerdict,          \* shards this fill wrote, its outcome
    fillFaults

fillVars == <<heldSource, strictOpen, tolerance, now, present, built, fill, unwritten, walk, heldRows,
              fresh, heldVerdict, fillFaults>>

\* Fixed durations, and the finest of a tier divides the others.
ASSUME HeldAssumption ==
    /\ Len(Ladder) \in Nat \ {0} /\ DOMAIN Ladder = 1 .. Len(Ladder)
    /\ \A t \in DOMAIN Ladder :
          /\ Ladder[t].bin \in Nat \ {0} /\ Ladder[t].shards \subseteq Nat \ {0}
          /\ \E d \in Ladder[t].shards : \A e \in Ladder[t].shards : e % d = 0
    /\ Genesis \in Nat /\ \E n \in Nows : Nows \subseteq 1 .. n
    /\ RawTile \in Nat \ {0} /\ FillWindow \in Nat \ {0} /\ MaxFillFaults \in Nat
    /\ Modes \subseteq {"raw", "shards"} \X BOOLEAN \X (Nat \X (Nat \ {0}))

End == Max(Nows)
TierShards(t) == ShardsOf(t, Ladder[t].shards, End)
FillShards == UNION {TierShards(t) : t \in DOMAIN Ladder}
\* The tier of a raw tile is 0.
FillTiles == IF heldSource = "raw" THEN ShardsOf(0, {RawTile}, End) ELSE TierShards(1)

\* The range of a shard in the fill, and its units.
From(s, to) == LargerOf(s[2], Genesis)
To(s, to)   == SmallerOf(s[3], to)
Cells(s)    == LargerOf(s[2], Genesis) .. s[3] - 1

Cover(to)   == MinCover(FillShards, Genesis, to)
Outputs(to) == {s \in Cover(to) : heldSource = "raw" \/ s[1] # 1}

InitFill ==
    /\ \E m \in Modes : heldSource = m[1] /\ strictOpen = m[2] /\ tolerance = m[3]
    /\ now = Min(Nows) /\ present = {} /\ built = {}
    /\ fill = "idle" /\ unwritten = {} /\ walk = {} /\ heldRows = {} /\ fresh = {} /\ heldVerdict = "none"
    /\ fillFaults = 0

-----------------------------------------------------------------------------

\* Time goes on, and tiles arrive, late or before their period is over; what
\* arrives after the walk is as if it came after the fill.
Advance ==
    /\ fill = "idle" /\ now' \in {n \in Nows : n > now}
    /\ UNCHANGED <<heldSource, strictOpen, tolerance, present, built, fill, unwritten, walk, heldRows, fresh,
                   heldVerdict, fillFaults>>

Arrive(t) ==
    /\ fill # "write" /\ t \in FillTiles \ present
    /\ t[2] < now /\ (heldSource = "shards" => t \in Cover(now))
    /\ present' = present \cup {t}
    /\ UNCHANGED <<heldSource, strictOpen, tolerance, now, built, fill, unwritten, walk, heldRows, fresh,
                   heldVerdict, fillFaults>>

\* A journal entry over u, newer than the shards there: they count as missing.
Invalidated(u) ==
    LET stale == {b \in built : b.shard \in Outputs(now) /\ u \in Cells(b.shard)}
    IN /\ fill = "idle" /\ stale # {} /\ built' = built \ stale
       /\ fillFaults < MaxFillFaults /\ fillFaults' = fillFaults + 1
       /\ fresh' = fresh \ {b.shard : b \in stale}
       /\ UNCHANGED <<heldSource, strictOpen, tolerance, now, present, fill, unwritten, walk, heldRows, heldVerdict>>

-----------------------------------------------------------------------------
(* What is filled *)

Built   == {b.shard : b \in built}
Lacking == Outputs(now) \ Built

\* Every bin of the source lies in one bin of the tier.
Divides(p, q) == q % p = 0
\* Where the tiles of the source end, whatever is absent before.
CoverageEnd == Max({Genesis} \cup {SmallerOf(t[3], now) : t \in {t \in present : t[3] > Genesis}})
Unfillable ==
    IF heldSource = "raw" THEN {}
    ELSE {s \in Lacking : ~Divides(Ladder[1].bin, Ladder[s[1]].bin) \/ To(s, now) > CoverageEnd}

Overlap(s, t) == From(s, now) < t[3] /\ To(s, now) > t[2]
Needed  == {t \in FillTiles : t[2] < now /\ t[3] > Genesis}
Absent  == Needed \ present
\* A tile is open as long as its period is not over (in the mutant, until a
\* later fill).
OpenTile(t) == t[3] > now
ShutTile(t) == FALSE
AbsentOpen   == {t \in Absent : OpenTile(t) /\ ~strictOpen}
AbsentClosed == Absent \ AbsentOpen

Deferred ==
    IF heldSource # "raw" THEN {} ELSE {s \in Lacking : \E t \in AbsentOpen : Overlap(s, t)}
Candidates == Lacking \ (Unfillable \cup Deferred)
TilesRead  == {t \in Needed : \E s \in Candidates : Overlap(s, t)}
HeldTiles  == AbsentClosed \cap TilesRead
TooMany(holes, all) == holes * tolerance[2] > tolerance[1] * all
Held ==
    IF heldSource = "raw" /\ TooMany(Cardinality(HeldTiles), Cardinality(TilesRead))
    THEN {s \in Candidates : \E t \in HeldTiles : Overlap(s, t)} ELSE {}

\* _merge_spans: sorted, those that meet become one (in the mutant, one that
\* lies inside the last one cuts it short).
SpanBefore(a, b) == a[1] < b[1] \/ (a[1] = b[1] /\ a[2] < b[2])
Sorted(spans) ==
    [i \in 1 .. Cardinality(spans) |->
        CHOOSE s \in spans : Cardinality({o \in spans : SpanBefore(o, s)}) = i - 1]
CutShort(last, s) == <<last[1], s[2]>>
Joined(last, s)   == <<last[1], LargerOf(last[2], s[2])>>
Merged(ms, s) ==
    IF ms # <<>> /\ s[1] <= ms[Len(ms)][2]
    THEN [ms EXCEPT ![Len(ms)] = Joined(@, s)] ELSE Append(ms, s)
MergeSpans(spans) ==
    LET sorted == Sorted(spans)
        merged[n \in 0 .. Len(sorted)] == IF n = 0 THEN <<>> ELSE Merged(merged[n - 1], sorted[n])
    IN merged[Len(sorted)]

\* The windows that meet a span: the first one that is not over when the window
\* starts has to begin before it ends.
FillWindows(shards) ==
    LET spans == MergeSpans({<<From(s, now), To(s, now)>> : s \in shards})
        later(w) == {j \in DOMAIN spans : spans[j][2] > w[1]}
    IN {w \in Spans(FillWindow, End) :
           w[1] < now /\ later(w) # {} /\ spans[Min(later(w))][1] < w[2]}

PlanFill ==
    /\ fill = "idle" /\ Lacking # {}
    /\ fresh' = {}
    /\ IF Held # {}
       THEN heldVerdict' = "held" /\ UNCHANGED <<fill, unwritten, walk>>
       ELSE /\ unwritten' = Candidates /\ fill' = "walk" /\ heldVerdict' = "none"
            /\ walk' = UNION {LargerOf(w[1], Genesis) .. SmallerOf(w[2], now) - 1 : w \in FillWindows(Candidates)}
    /\ UNCHANGED <<heldSource, strictOpen, tolerance, now, present, built, heldRows, fillFaults>>

-----------------------------------------------------------------------------
(* The walk and the writes *)

Readable == {u \in walk : \E t \in present : Holds(t, u)}

WalkWindows ==
    /\ fill = "walk" /\ fill' = "write" /\ heldRows' = Readable
    /\ UNCHANGED <<heldSource, strictOpen, tolerance, now, present, built, unwritten, walk, fresh,
                   heldVerdict, fillFaults>>

\* Shards are registered in the order the windows complete them.
Sooner(s, o) == s[3] < o[3] \/ (s[3] = o[3] /\ s[1] <= o[1])
WriteFilled(s) ==
    /\ fill = "write" /\ s \in unwritten /\ \A o \in unwritten : Sooner(s, o)
    /\ built' = built \cup {[shard |-> s, units |-> Cells(s) \cap heldRows, at |-> now]}
    /\ unwritten' = unwritten \ {s} /\ fresh' = fresh \cup {s}
    /\ UNCHANGED <<heldSource, strictOpen, tolerance, now, present, fill, walk, heldRows, heldVerdict,
                   fillFaults>>

FillOver ==
    /\ fill' = "idle" /\ unwritten' = {} /\ walk' = {} /\ heldRows' = {}
    /\ UNCHANGED <<heldSource, strictOpen, tolerance, now, present, built>>

\* The tile a unit is read from: the largest there is, and where there is none
\* the finest, which is a miss.
TileOf(u) ==
    LET there == {t \in present : Holds(t, u)}
        all   == {t \in FillTiles : Holds(t, u)}
    IN IF there # {}
       THEN CHOOSE t \in there : \A o \in there : Dur(o) <= Dur(t)
       ELSE CHOOSE t \in all : \A o \in all : Dur(t) <= Dur(o)
JudgeFill ==
    LET closed == {u \in walk : strictOpen \/ ~OpenTile(TileOf(u))}
        holes  == {TileOf(u) : u \in closed \ heldRows}
    IN /\ fill = "write" /\ unwritten = {}
       /\ heldVerdict' = IF TooMany(Cardinality(holes), Cardinality({TileOf(u) : u \in closed}))
                     THEN "coverage" ELSE "ok"
       /\ FillOver /\ UNCHANGED <<fresh, fillFaults>>

FillDies ==
    /\ fill # "idle" /\ fillFaults < MaxFillFaults /\ fillFaults' = fillFaults + 1
    /\ heldVerdict' = "died" /\ FillOver /\ UNCHANGED fresh

NextFill ==
    \/ Advance \/ (\E t \in FillTiles : Arrive(t)) \/ \E u \in 0 .. End - 1 : Invalidated(u)
    \/ PlanFill \/ WalkWindows \/ (\E s \in unwritten : WriteFilled(s)) \/ JudgeFill \/ FillDies

SpecFill == InitFill /\ [][NextFill]_fillVars

-----------------------------------------------------------------------------
(* Properties *)

TypeFill ==
    /\ <<heldSource, strictOpen, tolerance>> \in Modes /\ now \in Nows /\ present \subseteq FillTiles
    /\ built \subseteq [shard : FillShards, units : SUBSET (0 .. End - 1), at : 1 .. End]
    /\ fill \in {"idle", "walk", "write"} /\ unwritten \subseteq FillShards
    /\ walk \subseteq Genesis .. now - 1 /\ heldRows \subseteq walk /\ fresh \subseteq Built
    /\ heldVerdict \in {"none", "held", "died", "coverage", "ok"} /\ fillFaults \in 0 .. MaxFillFaults

\* "Building a missing shard over an absent tile writes 0 rows (or a partial
\* shard ...) that every later fill then reads as built ... so no such shard is
\* built" (build_local): over raw tiles a shard lacks only units of tiles that
\* were closed and within the tolerance, none at tolerance 0; over stored shards
\* what a fill that ends well at tolerance 0 wrote is whole.
NoQuietHole ==
    \A b \in built : b.units # Cells(b.shard) =>
        IF heldSource = "raw"
        THEN tolerance[1] > 0 /\ \A u \in Cells(b.shard) \ b.units : strictOpen \/ TileOf(u)[3] <= b.at
        ELSE tolerance[1] = 0 => ~(b.shard \in fresh /\ fill = "idle" /\ heldVerdict = "ok")
=============================================================================
