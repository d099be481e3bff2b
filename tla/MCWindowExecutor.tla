-------------------------- MODULE MCWindowExecutor --------------------------
(***************************************************************************)
(* A range of seven ticks in four windows, the last one clipped by the end *)
(* of the range.  Two tiers of two shards: the shards a and b of the fine  *)
(* tier meet inside the second window, those of the coarse tier at a       *)
(* window boundary.                                                        *)
(***************************************************************************)
EXTENDS WindowExecutor, TLC

CONSTANTS a, b, c, d

MCShards == {a, b, c, d}
MCTierOf == a :> 1 @@ b :> 1 @@ c :> 2 @@ d :> 2
MCStart  == a :> 0 @@ b :> 3 @@ c :> 0 @@ d :> 4
MCEnd    == a :> 3 @@ b :> 7 @@ c :> 4 @@ d :> 7
MCWStart == <<0, 2, 4, 6>>
MCWEnd   == <<2, 4, 6, 7>>
=============================================================================
