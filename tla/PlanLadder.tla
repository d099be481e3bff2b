------------------------------ MODULE PlanLadder ------------------------------
(***************************************************************************)
(* The pyramid as the query planner of planner.ts sees it: the time axis   *)
(* of axis.ts, the tiers with their shards, and the gates that watermarks  *)
(* put on them.                                                            *)
(*                                                                         *)
(* Time is a row of units.  The boundaries of a tier's bins and of its     *)
(* shards are sets of units: for a fixed width the multiples of it, for a  *)
(* calendar width whatever the calendar says.                              *)
(***************************************************************************)
EXTENDS Integers, Sequences, FiniteSets, FiniteSetsExt

CONSTANTS
    Horizon,     \* units of time
    Grid,        \* per tier, finest first: the boundaries of its bins
    RungGrid,    \* per tier: per shard duration, smallest first, its boundaries
    Width,       \* per tier: the nominal width of its bins
    Calendar,    \* the tiers whose bins are months or years
    Day          \* the boundaries of days

Tiers == DOMAIN Grid
Cells == UNION {{t} \X DOMAIN RungGrid[t] : t \in Tiers}
TierOf(c) == c[1]
Edges(c)  == RungGrid[c[1]][c[2]]
Times == 0 .. Horizon

\* Undeclared: complete through any query.
Far == Horizon + 1

ASSUME LadderAssumption ==
    /\ Horizon \in Nat \ {0}
    /\ Tiers = 1 .. Len(Grid) /\ Len(Grid) \in Nat \ {0} /\ Calendar \subseteq Tiers
    /\ \A t \in Tiers : {0, Horizon} \subseteq Grid[t] /\ Grid[t] \subseteq Times
    /\ \A c \in Cells : {0, Horizon} \subseteq Edges(c) /\ Edges(c) \subseteq Grid[TierOf(c)]
    /\ \A t \in Tiers :
          /\ Width[t] \in Nat \ {0}
          /\ Len(RungGrid[t]) \in Nat \ {0} /\ DOMAIN RungGrid[t] = 1 .. Len(RungGrid[t])

-----------------------------------------------------------------------------
(* The axis *)

Floor(g, x) == Max({b \in g : b <= x})
After(g, x) == Min({b \in g : b > x})
Ceil(g, x)  == Min({b \in g : b >= x})
BinsInRange(from, to, g) == Cardinality({b \in g : Floor(g, from) <= b /\ b < to})

\* A shard is a cell of the ladder and the start of a period.
Shards == {s \in Cells \X Times : s[2] \in Edges(s[1]) \ {Horizon}}
CellOf(s) == s[1]
StartOf(s) == s[2]
EndOf(s)   == After(Edges(s[1]), s[2])
PeriodsCovering(c, from, to) == {s \in Shards : CellOf(s) = c /\ StartOf(s) < to /\ EndOf(s) > from}

-----------------------------------------------------------------------------
(* Watermarks: `declared` gives every cell the end of its latest shard, or  *)
(* Far; `early` every tier its earliest bin, 0 for no bound.                *)

\* A larger shard is built of smaller ones of its tier ...
Within(declared, c) ==
    Min({declared[x] : x \in {x \in Cells : TierOf(x) = TierOf(c) /\ x[2] <= c[2]}})

\* ... and a tier from the next finer one.
TierBound(declared) ==
    LET bound[t \in {0} \cup Tiers] ==
            IF t = 0 THEN Far
            ELSE Max({Min({Within(declared, c), bound[t - 1]}) :
                          c \in {c \in Cells : TierOf(c) = t}})
    IN bound

Effective(declared, c) == Min({Within(declared, c), TierBound(declared)[TierOf(c) - 1]})

\* The ragged planners use a tier up to where all of its shards are complete,
\* and no further than the query.
Largest(declared, t, upto) ==
    Min({upto} \cup {declared[c] : c \in {c \in Cells : TierOf(c) <= t}})

\* A tier has no data earlier than its source.
Earliest(early, t) == Max({early[x] : x \in 1 .. t})

-----------------------------------------------------------------------------
(* What the properties need of a ladder beyond its types: a coarser tier has  *)
(* wider bins, made of bins of every finer tier, and the shards of a tier     *)
(* lie in its larger ones.                                                    *)
NestedTiers ==
    \A s, t \in Tiers : s < t => Width[s] < Width[t] /\ Grid[t] \subseteq Grid[s]
NestedRungs ==
    \A c, d \in Cells : TierOf(c) = TierOf(d) /\ c[2] <= d[2] => Edges(d) \subseteq Edges(c)
NestedLadder == NestedTiers /\ NestedRungs
===============================================================================
