----------------------------- MODULE MCFillTick -----------------------------
(***************************************************************************)
(* FillTick with its ladders, ranges and requests.                         *)
(***************************************************************************)
EXTENDS FillTick

\* Ladders: a tier of single units below one of pairs; the same where the
\* second tier has single units too, so that its pair is assembled from its own
\* units and from the tier below; one tier of units and pairs.
PairLadder == <<{1}, {2}>>
TwoRungs   == <<{1}, {1, 2}>>
OneTier    == <<{1, 2}>>

WholeOf2  == {2}
From1To2  == {1, 2}
First     == {<<0, 1>>}
EachUnit  == {<<0, 1>>, <<1, 2>>}
=============================================================================
