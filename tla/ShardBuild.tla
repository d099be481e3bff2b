----------------------------- MODULE ShardBuild -----------------------------
(***************************************************************************)
(* What a build of a pyramid promises to its readers, whatever executor    *)
(* runs it: objects appear complete, a shard is registered only once its   *)
(* complete object is in storage, nothing is ever taken back, and success  *)
(* is reported only when the whole plan is there.                          *)
(***************************************************************************)
CONSTANTS
    Shards,         \* the plan's output shards
    ListingCounts   \* a listed object counts as built without a registry row

VARIABLES
    built,          \* shards with a complete object in storage
    registered,     \* shards with a registry row
    succeeded       \* the build reported success

vars == <<built, registered, succeeded>>

Init == built = {} /\ registered = {} /\ succeeded = FALSE

Write(s) ==
    /\ ~succeeded
    /\ built' = built \cup {s}
    /\ UNCHANGED <<registered, succeeded>>

Register(s) ==
    /\ ~succeeded /\ s \in built
    /\ registered' = registered \cup {s}
    /\ UNCHANGED <<built, succeeded>>

Succeed ==
    /\ built = Shards
    /\ ListingCounts \/ registered = Shards
    /\ succeeded' = TRUE
    /\ UNCHANGED <<built, registered>>

Next == Succeed \/ \E s \in Shards : Write(s) \/ Register(s)

Spec == Init /\ [][Next]_vars

\* Readers that go through the registry only see complete objects.
RegisteredIsBuilt == registered \subseteq built
=============================================================================
