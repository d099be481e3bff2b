----------------------------- MODULE MCScanSeal -----------------------------
(***************************************************************************)
(* The exponential scheme over one period, with a seal that may die.        *)
(***************************************************************************)
EXTENDS ScanSeal

Exponential == {[scheme |-> "exponential", periods |-> 1]}
=============================================================================
