----------------------------- MODULE ShardLadder -----------------------------
(***************************************************************************)
(* Shards of a ladder over the units 0 .. end-1, as triples of tier, start *)
(* and end, and the cover of a range that a pyramid is expected to have    *)
(* (pyrmts/gap_discovery.py).                                              *)
(***************************************************************************)
EXTENDS Integers, FiniteSets

SmallerOf(a, b) == IF a <= b THEN a ELSE b
LargerOf(a, b)  == IF a >= b THEN a ELSE b

\* The periods of a duration.
Spans(d, end) == {<<k * d, (k + 1) * d>> : k \in 0 .. (end - 1) \div d}
ShardsOf(tier, durs, end) == UNION {{<<tier, iv[1], iv[2]>> : iv \in Spans(d, end)} : d \in durs}

Dur(s)       == s[3] - s[2]
Holds(s, u)  == s[2] <= u /\ u < s[3]
Within(s, o) == o[2] <= s[2] /\ s[3] <= o[3]

\* Per tier the largest shards that end by `to`, smaller ones for what they
\* leave, none that ends before genesis.
MinCover(shards, genesis, to) ==
    {s \in shards :
        /\ s[3] <= to /\ s[3] > genesis
        /\ \A o \in shards : (o[1] = s[1] /\ o # s /\ Within(s, o)) => o[3] > to}
=============================================================================
