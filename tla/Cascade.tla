------------------------------- MODULE Cascade -------------------------------
(***************************************************************************)
(* cascade_tiers (pyrmts/cascade.py), which builds every rung from the one *)
(* below it, and canonicalize_shards (pyrmts/canonicalize.py), which       *)
(* rewrites shards in place with the rows of merged identities summed      *)
(* anew, over a base rung that the caller materializes.  Keys are without  *)
(* a hash, the metric is a sum; a shard is a set of rows, each a bin, a    *)
(* token and a sum.                                                        *)
(***************************************************************************)
EXTENDS Integers, Sequences, FiniteSets, FiniteSetsExt

CONSTANTS
    CascadeRungs,    \* from the base up, each its bin and its periods
    Tokens, IdMaps,  \* raw tokens; the id-maps, from raw to canonical tokens
    BaseChoices,     \* per base period its sum at the start (0: absent)
    MaxRewrites,     \* bound on base shards written again
    MaxCascadeFaults \* bound on shards whose build raises

CanonicalTokens == UNION {{m[k] : k \in DOMAIN m} : m \in IdMaps}

\* The unit is a bin of the base.  A bin is whole in a shard and in the bins of
\* coarser rungs; the periods of a rung do not overlap and leave out no base
\* unit that a period of the next one spans.  Canonical tokens have a prefix of
\* their own.
ASSUME CascadeAssumption ==
    /\ CascadeRungs \in Seq([bin : Nat \ {0}, periods : SUBSET (Nat \X Nat)])
    /\ CascadeRungs # <<>> /\ CascadeRungs[1].bin = 1
    /\ \A r \in DOMAIN CascadeRungs :
          /\ IsFiniteSet(CascadeRungs[r].periods)
          /\ \A p \in CascadeRungs[r].periods :
                /\ p[1] < p[2] /\ p[1] % CascadeRungs[r].bin = 0 /\ p[2] % CascadeRungs[r].bin = 0
                /\ \A q \in CascadeRungs[r].periods : p = q \/ p[2] <= q[1] \/ q[2] <= p[1]
                /\ r > 1 => /\ CascadeRungs[r].bin % CascadeRungs[r - 1].bin = 0
                            /\ \A u \in p[1] .. p[2] - 1 :
                                  (\E b \in CascadeRungs[1].periods : b[1] <= u /\ u < b[2]) =>
                                      \E q \in CascadeRungs[r - 1].periods : q[1] <= u /\ u < q[2]
    /\ IsFiniteSet(Tokens) /\ Tokens \cap CanonicalTokens = {}
    /\ \A m \in IdMaps : DOMAIN m \subseteq Tokens
    /\ \A b \in BaseChoices : \A p \in CascadeRungs[1].periods : b[p[1] + 1] \in Nat

VARIABLES
    shards,              \* per slot its rows, {} where none is stored
    cascadeJob,          \* "idle", "cascade" or "canonicalize"
    rung, jobTodo,       \* the rung being built, the slots left
    overwrite, idMap,
    due,                 \* the rungs above the base may be behind it
    rolled,              \* the last run was a rollup, of every shard
    rewrites, cascadeFaults

cascadeVars == <<shards, cascadeJob, rung, jobTodo, overwrite, idMap, due, rolled, rewrites, cascadeFaults>>

CascadeSlots == UNION {{<<r, iv[1], iv[2]>> : iv \in CascadeRungs[r].periods} : r \in DOMAIN CascadeRungs}
RungSlots(r) == {s \in CascadeSlots : s[1] = r}
BaseRows(from, to, w) == IF w = 0 THEN {} ELSE {<<u, k, w>> : u \in from .. to - 1, k \in Tokens}
StoredSlots == {s \in CascadeSlots : shards[s] # {}}

InitCascade ==
    /\ \E b \in BaseChoices :
          shards = [s \in CascadeSlots |-> IF s[1] = 1 THEN BaseRows(s[2], s[3], b[s[2] + 1]) ELSE {}]
    /\ cascadeJob = "idle" /\ rung = 1 /\ jobTodo = {} /\ overwrite = FALSE /\ idMap = <<>>
    /\ due = TRUE /\ rolled = FALSE /\ rewrites = 0 /\ cascadeFaults = 0

\* The producer corrects a base shard, or a late one arrives.
CorrectBase(s) ==
    /\ s[1] = 1 /\ rewrites < MaxRewrites /\ rewrites' = rewrites + 1
    /\ shards' = [shards EXCEPT ![s] = BaseRows(s[2], s[3], 3)]
    /\ due' = TRUE /\ rolled' = FALSE
    /\ UNCHANGED <<cascadeJob, rung, jobTodo, overwrite, idMap, cascadeFaults>>

-----------------------------------------------------------------------------
(* cascade_tiers *)

Total(rows)  == MapThenSumSet(LAMBDA row : row[3], rows)
SumOf(pairs) == MapThenSumSet(LAMBDA p : p[2][3], pairs)
\* Rows, each with where it is from, summed by bin and token.
Summed(pairs, bin) ==
    LET binOf(p) == (p[2][1] \div bin) * bin
    IN {<<g[1], g[2], SumOf({p \in pairs : binOf(p) = g[1] /\ p[2][2] = g[2]})>>
           : g \in {<<binOf(p), p[2][2]>> : p \in pairs}}

\* A source can reach past the shard, and its rows there are not taken (in the
\* mutant they are).
AllRows(s, rows) == rows
Clipped(s, rows) == {row \in rows : s[2] <= row[1] /\ row[1] < s[3]}
Combine(s) ==
    LET sources == {o \in RungSlots(s[1] - 1) : o[2] < s[3] /\ s[2] < o[3]}
    IN Summed(UNION {{<<o, row>> : row \in Clipped(s, shards[o])} : o \in sources}, CascadeRungs[s[1]].bin)

\* A run without overwrite skips what is stored.
StartCascade ==
    /\ cascadeJob = "idle" /\ cascadeJob' = "cascade" /\ rung' = 2 /\ jobTodo' = RungSlots(2)
    /\ overwrite' \in BOOLEAN /\ rolled' = FALSE
    /\ due' = (due /\ ~overwrite' /\ StoredSlots # StoredSlots \cap RungSlots(1))
    /\ UNCHANGED <<shards, idMap, rewrites, cascadeFaults>>

\* The periods of one rung are built by a pool.
BuildShard(s) ==
    /\ cascadeJob = "cascade" /\ jobTodo' = jobTodo \ {s}
    /\ shards' = IF (~overwrite /\ s \in StoredSlots) \/ Combine(s) = {}
                 THEN shards ELSE [shards EXCEPT ![s] = Combine(s)]
    /\ UNCHANGED <<cascadeJob, rung, overwrite, idMap, due, rolled, rewrites, cascadeFaults>>

NextRung ==
    /\ cascadeJob = "cascade" /\ jobTodo = {}
    /\ IF rung < Len(CascadeRungs)
       THEN rung' = rung + 1 /\ jobTodo' = RungSlots(rung + 1) /\ UNCHANGED cascadeJob
       ELSE cascadeJob' = "idle" /\ UNCHANGED <<rung, jobTodo>>
    /\ UNCHANGED <<shards, overwrite, idMap, due, rolled, rewrites, cascadeFaults>>

-----------------------------------------------------------------------------
(* canonicalize_shards *)

\* Rows of an earlier rollup are dropped (in the mutant they stay).
AllKept(rows) == rows
Leaves(rows)  == {row \in rows : row[2] \in Tokens}
Rollup(rows, m) ==
    Leaves(rows)
    \cup Summed({<<row, <<row[1], m[row[2]], row[3]>>>> : row \in {x \in Leaves(rows) : x[2] \in DOMAIN m}}, 1)

StartCanonicalize(m) ==
    /\ cascadeJob = "idle" /\ cascadeJob' = "canonicalize" /\ jobTodo' = CascadeSlots /\ idMap' = m /\ rolled' = TRUE
    /\ UNCHANGED <<shards, rung, overwrite, due, rewrites, cascadeFaults>>

SlotOrder(s, o) == s[1] < o[1] \/ (s[1] = o[1] /\ s[2] <= o[2])
RollShard(s) ==
    /\ cascadeJob = "canonicalize" /\ (\A o \in jobTodo : SlotOrder(s, o)) /\ jobTodo' = jobTodo \ {s}
    /\ shards' = [shards EXCEPT ![s] = Rollup(@, idMap)]
    /\ UNCHANGED <<cascadeJob, rung, overwrite, idMap, due, rolled, rewrites, cascadeFaults>>

EndCanonicalize ==
    /\ cascadeJob = "canonicalize" /\ jobTodo = {} /\ cascadeJob' = "idle"
    /\ UNCHANGED <<shards, rung, jobTodo, overwrite, idMap, due, rolled, rewrites, cascadeFaults>>

\* In either run, a shard whose build raises is noted in `errors`, and the run
\* goes on.
ShardRaises(s) ==
    /\ cascadeJob # "idle" /\ jobTodo' = jobTodo \ {s}
    /\ cascadeFaults < MaxCascadeFaults /\ cascadeFaults' = cascadeFaults + 1
    /\ due' = (due \/ cascadeJob = "cascade") /\ rolled' = FALSE
    /\ UNCHANGED <<shards, cascadeJob, rung, overwrite, idMap, rewrites>>

NextCascade ==
    \/ StartCascade \/ NextRung \/ EndCanonicalize \/ \E m \in IdMaps : StartCanonicalize(m)
    \/ \E s \in jobTodo : BuildShard(s) \/ RollShard(s) \/ ShardRaises(s)
    \/ \E s \in RungSlots(1) : CorrectBase(s)

SpecCascade == InitCascade /\ [][NextCascade]_cascadeVars

-----------------------------------------------------------------------------
(* Properties *)

TypeCascade ==
    /\ \A s \in CascadeSlots : \A row \in shards[s] :
          row[1] \in Nat /\ row[2] \in Tokens \cup CanonicalTokens /\ row[3] \in Nat
    /\ cascadeJob \in {"idle", "cascade", "canonicalize"} /\ rung \in DOMAIN CascadeRungs
    /\ jobTodo \subseteq CascadeSlots /\ <<overwrite, due, rolled>> \in BOOLEAN \X BOOLEAN \X BOOLEAN
    /\ idMap \in {<<>>} \cup IdMaps
    /\ rewrites \in 0 .. MaxRewrites /\ cascadeFaults \in 0 .. MaxCascadeFaults

\* The leaves a slot should hold: the base rows of its period, once each.
BaseIn(s, b, k) ==
    {row \in UNION {shards[o] : o \in RungSlots(1)} :
        /\ row[2] = k /\ s[2] <= row[1] /\ row[1] < s[3]
        /\ b <= row[1] /\ row[1] < b + CascadeRungs[s[1]].bin}
Expected(s) ==
    {x \in {<<b, k, Total(BaseIn(s, b, k))>> :
                b \in {b \in 0 .. s[3] - 1 : b % CascadeRungs[s[1]].bin = 0}, k \in Tokens} : x[3] > 0}

\* cascade_tiers: after a run without errors, with overwrite or over empty rungs,
\* every rung holds what the base held at its start, whatever rollup the shards
\* carry and however the periods of the rungs lie.
CascadeExact ==
    cascadeJob # "cascade" /\ ~due => \A s \in CascadeSlots : {r \in shards[s] : r[2] \in Tokens} = Expected(s)

\* canonicalize_shards: after a run without errors the canonical rows of a shard
\* are the sums of its own leaves by this map, and nothing of an earlier map that
\* a shard, or the cascade, has carried.
RollupExact ==
    cascadeJob = "idle" /\ rolled =>
        \A s \in CascadeSlots : \A k \in CanonicalTokens : \A b \in {row[1] : row \in shards[s]} :
            LET of == {row \in shards[s] : row[1] = b /\ row[2] \in {t \in DOMAIN idMap : idMap[t] = k}}
            IN {row \in shards[s] : row[1] = b /\ row[2] = k}
                 = IF of = {} THEN {} ELSE {<<b, k, Total(of)>>}

\* What cascade_tiers and canonicalize_shards leave when they end without an
\* error: both of the above, of every shard.
CascadeSound == CascadeExact /\ RollupExact
=============================================================================
