----------------------------- MODULE MCQueryPlan -----------------------------
(***************************************************************************)
(* Six days of two units.  The tiers: half-day, day and two-day bins, and   *)
(* "months" of two and of four days.  The targets: one and a half day,     *)
(* three days, a month that straddles the bins of the two coarser tiers,   *)
(* and the months of the fourth tier.                                      *)
(***************************************************************************)
EXTENDS QueryPlan

Halves == 0 .. 12
Days == {0, 2, 4, 6, 8, 10, 12}
Pairs == {0, 4, 8, 12}
Months == {0, 4, 12}

MCGrid == <<Halves, Days, Pairs, Months>>
MCRungGrid == << <<Days, Pairs>>, <<Pairs, {0, 12}>>, <<Pairs>>, <<Months>> >>
MCWidth == <<1, 2, 4, 5>>
MCTargets == << [grid |-> {0, 3, 6, 9, 12}, width |-> 3, calendar |-> FALSE],
                [grid |-> {0, 6, 12}, width |-> 6, calendar |-> FALSE],
                [grid |-> {0, 6, 12}, width |-> 6, calendar |-> TRUE],
                [grid |-> Months, width |-> 5, calendar |-> TRUE] >>
MCRanges == {<<0, 12>>, <<2, 11>>}
MCAsked == {<<0, 2>>, <<0, 6>>, <<0, 12>>, <<1, 2>>, <<1, 6>>, <<2, 6>>, <<3, 6>>, <<4, 6>>}
MCSmoothings == {<<0, 0>>, <<1, 0>>}

Undeclared == [c \in Cells |-> Far]
AllFrom0 == [c \in Cells |-> 0]

\* The finest tier up to the third or the fifth day, or to the middle of the
\* third; the others undeclared or some way behind.
MCDeclared ==
    {d \in [Cells -> {4, 5, 6, 8, 10, Far}] :
        /\ d[<<1, 1>>] \in {5, 6, 10, Far} /\ d[<<1, 2>>] \in {4, 5, 8, Far}
        /\ d[<<2, 1>>] \in {4, Far} /\ d[<<2, 2>>] = Far
        /\ d[<<3, 1>>] \in {4, Far} /\ d[<<4, 1>>] \in {4, Far}}
MCTrusted == {Undeclared, [Undeclared EXCEPT ![<<4, 1>>] = 4]}

MCInventories ==
    SUBSET { << <<1, 2>>, 0>>, << <<1, 1>>, 4>>, << <<1, 2>>, 4>>, << <<1, 2>>, 8>>,
             << <<2, 2>>, 0>>, << <<3, 1>>, 8>>, << <<4, 1>>, 4>> }
MCGates ==
    {<<[t \in Tiers |-> 0], AllFrom0>>, << <<0, 0, 4, 4>>, AllFrom0>>,
     <<[t \in Tiers |-> 0], [AllFrom0 EXCEPT ![<<2, 2>>] = 12, ![<<3, 1>>] = 4, ![<<4, 1>>] = 4]>>}

\* The ladder and the inputs are ones that the theorems are about.
ASSUME LadderNests == NestedLadder
ASSUME InputsNest == InputsMeet

\* Every shard of the finest tier.
MCComplete == {{s \in Shards : CellOf(s) = <<1, 2>>}}
MCFinest == {<<0, 12>>}
MCAligned == {<<4, 12>>}
MCSmoothed == {<<1, 0>>}
MCUngated == {<<[t \in Tiers |-> 0], AllFrom0>>}
===============================================================================
