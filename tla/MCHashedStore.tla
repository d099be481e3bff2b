---------------------------- MODULE MCHashedStore ----------------------------
(***************************************************************************)
(* HashedStore with its slots, versions and writers as model values.       *)
(***************************************************************************)
EXTENDS HashedStore, TLC

CONSTANTS s1, v1, v2, v3, w1, w2

OneSlot     == {s1}
TwoVersions   == {v1, v2}
ThreeVersions == {v1, v2, v3}
OneWriter   == {w1}
TwoWriters  == {w1, w2}
VersionSymmetry == Permutations(Versions) \cup Permutations(Writers)
=============================================================================
