----------------------------- MODULE MultiScan -----------------------------
(***************************************************************************)
(* Scans folded into one shard, and the index of their differences          *)
(* (pyrmts/multiscan.py, pyrmts/diffindex.py and the store of               *)
(* pyrmts_engine/diffindex_store.py).  A scan is a function from the keys it *)
(* holds to their states; Identity is the state of the monoid's identity,   *)
(* the value that stands for an absent key.                                 *)
(***************************************************************************)
EXTENDS Integers, Sequences, FiniteSets, FiniteSetsExt

CONSTANTS Shots,        \* the scans that may come
          Identity,     \* the state of an absent key
          MaxShots,     \* bound on the number of scans
          IndexLevels,  \* the caps on the levels of the diff index
          MaxScanFaults \* bound on the crashes of an ingest

ASSUME MultiAssumption == IndexLevels \subseteq Nat /\ MaxShots \in Nat

VARIABLES shots,    \* the scans so far
          runs,     \* interval rows closed: [key, state, lo, hi]
          open,     \* the open runs: key -> [from, state]
          nodes,    \* the stored changesets: <<level, start>> -> changeset
          listed,   \* the number of scans the index's manifest lists
          levels,   \* the index's cap
          doing,    \* the level an append writes next, or Idle
          scanFaults

multiScanVars == <<shots, runs, open, nodes, listed, levels, doing, scanFaults>>

Idle == -1
Pow(n) == 2 ^ n
StateOf(scan, k) == IF k \in DOMAIN scan THEN scan[k] ELSE Identity
KeysOf(ss) == UNION {DOMAIN ss[i] : i \in DOMAIN ss}

-----------------------------------------------------------------------------
(* The interval encoder.                                                    *)

(* _fold_interval, for the scan of index j: a changed or absent key closes   *)
(* its run at j - 1.                                                         *)
Ended(cur) == {k \in DOMAIN open : k \notin DOMAIN cur \/ cur[k] # open[k].state}

ClosedAt(ks, j) == {[key |-> k, state |-> open[k].state, lo |-> open[k].from, hi |-> j - 1] : k \in ks}

Opened(cur, j) == [k \in DOMAIN cur |->
    IF k \in (DOMAIN open) \ Ended(cur) THEN open[k] ELSE [from |-> j, state |-> cur[k]]]

(* consolidate_scans: the runs still open end with the last scan.            *)
Table == runs \union ClosedAt(DOMAIN open, Len(shots) + 1)

(* consolidate_tables: the whole grid of keys and scans (densify), or its    *)
(* runs of equal states (interval).                                         *)
Densify(ss) == {[key |-> k, scan |-> j, state |-> StateOf(ss[j], k)] : k \in KeysOf(ss), j \in DOMAIN ss}

SameState(ss, k, i, j) == \A n \in i..j : k \in DOMAIN ss[n] /\ ss[n][k] = ss[i][k]

WholeRun(ss, k, i, j) ==
    /\ i <= j /\ SameState(ss, k, i, j)
    /\ i = 1 \/ ~SameState(ss, k, i - 1, j)
    /\ j = Len(ss) \/ ~SameState(ss, k, i, j + 1)

EncodeInterval(ss) ==
    {[key |-> t[1], state |-> ss[t[2]][t[1]], lo |-> t[2], hi |-> t[3]] :
        t \in {u \in KeysOf(ss) \X (DOMAIN ss) \X (DOMAIN ss) : WholeRun(ss, u[1], u[2], u[3])}}

(* _drop_absent, extract_table: a row of the identity counts as absent.      *)
Real(rows) == {r \in rows : r[2] # Identity}
ExtractInterval(t, i) == Real({<<r.key, r.state>> : r \in {q \in t : q.lo <= i /\ i <= q.hi}})
ExtractDense(t, i)    == Real({<<r.key, r.state>> : r \in {q \in t : q.scan = i}})
RowsOf(scan)          == {<<k, scan[k]>> : k \in DOMAIN scan}

(* _as_of, series_for.                                                       *)
AsOf(t, k, i) ==
    LET at == {r \in t : r.key = k /\ r.lo <= i /\ i <= r.hi}
    IN  IF at = {} THEN Identity ELSE (CHOOSE r \in at : TRUE).state

Series(t, k) == [i \in DOMAIN shots |-> AsOf(t, k, i)]

-----------------------------------------------------------------------------
(* Changesets: functions from the changed keys to <<before, after>>.         *)

(* diff_tables, changeset_between.                                           *)
Between(a, b) ==
    [k \in {q \in (DOMAIN a) \union (DOMAIN b) : StateOf(a, q) # StateOf(b, q)} |->
        <<StateOf(a, k), StateOf(b, k)>>]

(* diff_scans on an interval table: only keys with a run boundary in the     *)
(* span are looked at.                                                       *)
Boundary(r, lo, hi) == (lo < r.lo /\ r.lo <= hi) \/ (lo <= r.hi /\ r.hi < hi)

DiffScans(t, a, b) ==
    LET lo   == Min({a, b})
        hi   == Max({a, b})
        cand == {r.key : r \in {q \in t : Boundary(q, lo, hi)}}
    IN  [k \in {q \in cand : AsOf(t, q, a) # AsOf(t, q, b)} |-> <<AsOf(t, k, a), AsOf(t, k, b)>>]

(* (Mutant: what cancels over the whole span is kept.)                        *)
Chained(left, right) ==
    [k \in (DOMAIN left) \union (DOMAIN right) |->
        <<IF k \in DOMAIN left THEN left[k][1] ELSE right[k][1],
          IF k \in DOMAIN right THEN right[k][2] ELSE left[k][2]>>]

(* compose_changesets.                                                       *)
Compose(left, right) ==
    LET cancels == {k \in (DOMAIN left) \intersect (DOMAIN right) : left[k][1] = right[k][2]}
    IN  [k \in ((DOMAIN left) \union (DOMAIN right)) \ cancels |->
            <<IF k \in DOMAIN left THEN left[k][1] ELSE right[k][1],
              IF k \in DOMAIN right THEN right[k][2] ELSE left[k][2]>>]

Nothing == [k \in {} |-> <<>>]

(* aligned_blocks: at each position the largest aligned block that fits.      *)
BlockAt(pos, j, cap) ==
    Max({l \in 0..cap : pos % Pow(l) = 0 /\ (l = 0 \/ pos + Pow(l) <= j)})

Blocks(i, j, cap) ==
    LET from[n \in 0..(j - i)] == IF n = 0 THEN <<>> ELSE
            LET l == BlockAt(j - n, j, cap) IN <<<<l, j - n>>>> \o from[n - Pow(l)]
    IN  from[j - i]

(* SparseDiffIndex.diff, DiffIndexStore.diff, with the swap for a backward    *)
(* pair.                                                                     *)
Forward(i, j) ==
    LET bs == Blocks(i, j, levels)
        upto[n \in 0..Len(bs)] == IF n = 0 THEN Nothing ELSE Compose(upto[n - 1], nodes[bs[n]])
    IN  upto[Len(bs)]

Diff(i, j) == IF i <= j THEN Forward(i, j)
              ELSE LET c == Forward(j, i) IN [k \in DOMAIN c |-> <<c[k][2], c[k][1]>>]

-----------------------------------------------------------------------------
InitMulti ==
    /\ shots = <<>> /\ runs = {} /\ open = [k \in {} |-> 0]
    /\ nodes = [b \in {} |-> Nothing] /\ listed = 0 /\ doing = Idle
    /\ levels \in IndexLevels /\ scanFaults = 0

(* A scan comes and is folded in.                                            *)
ScanComes(cur) ==
    /\ Len(shots) < MaxShots
    /\ LET j == Len(shots) + 1 IN
       /\ shots' = Append(shots, cur)
       /\ runs' = runs \union ClosedAt(Ended(cur), j)
       /\ open' = Opened(cur, j)
    /\ UNCHANGED <<nodes, listed, levels, doing, scanFaults>>

(* update: the first scan is only listed (init_scan).                         *)
InitScan ==
    /\ doing = Idle /\ listed = 0 /\ shots # <<>>
    /\ listed' = 1
    /\ UNCHANGED <<shots, runs, open, nodes, levels, doing, scanFaults>>

(* The stored changesets with c at b.                                         *)
With(b, c) == [x \in (DOMAIN nodes) \union {b} |-> IF x = b THEN c ELSE nodes[x]]

(* append_scan for the next scan: the adjacency changeset first ...            *)
Adjacency ==
    /\ doing = Idle /\ listed >= 1 /\ listed < Len(shots)
    /\ nodes' = With(<<0, listed - 1>>, Between(shots[listed], shots[listed + 1]))
    /\ doing' = 1
    /\ UNCHANGED <<shots, runs, open, listed, levels, scanFaults>>

(* ... then a block of each level whose width divides the number of deltas ... *)
MoreBlocks == doing <= levels /\ listed % Pow(doing) = 0

AlignedBlock ==
    /\ doing # Idle /\ MoreBlocks
    /\ LET start == listed - Pow(doing)
           half  == Pow(doing - 1)
       IN  nodes' = With(<<doing, start>>, Compose(nodes[<<doing - 1, start>>],
                                                   nodes[<<doing - 1, start + half>>]))
    /\ doing' = doing + 1
    /\ UNCHANGED <<shots, runs, open, listed, levels, scanFaults>>

(* ... and the manifest last.                                                 *)
ListScan ==
    /\ doing # Idle /\ ~MoreBlocks
    /\ listed' = listed + 1
    /\ doing' = Idle
    /\ UNCHANGED <<shots, runs, open, nodes, levels, scanFaults>>

(* The ingest dies between two writes; the next one starts over.              *)
IngestDies ==
    /\ doing # Idle /\ scanFaults < MaxScanFaults
    /\ doing' = Idle
    /\ scanFaults' = scanFaults + 1
    /\ UNCHANGED <<shots, runs, open, nodes, listed, levels>>

NextMulti ==
    \/ \E cur \in Shots : ScanComes(cur)
    \/ InitScan \/ Adjacency \/ AlignedBlock \/ ListScan \/ IngestDies

SpecMulti == InitMulti /\ [][NextMulti]_multiScanVars

TypeMulti ==
    /\ listed <= Len(shots) /\ Len(shots) <= MaxShots
    /\ doing \in {Idle} \union 1..(levels + 1)
    /\ DOMAIN nodes \subseteq (0..levels) \X (0..MaxShots)

-----------------------------------------------------------------------------
(* The streamed fold, the eager encoder and the grid say the same of every    *)
(* scan: the scan itself, but for rows whose state is the identity; and a     *)
(* key's runs give its states over time (consolidate_scans,                   *)
(* consolidate_tables, extract_table, series_for).                            *)
EncodersAgree ==
    /\ Table = EncodeInterval(shots)
    /\ \A i \in DOMAIN shots :
           /\ ExtractInterval(Table, i) = Real(RowsOf(shots[i]))
           /\ ExtractDense(Densify(shots), i) = Real(RowsOf(shots[i]))
    /\ \A k \in KeysOf(shots) : \A i \in DOMAIN shots : Series(Table, k)[i] = StateOf(shots[i], k)

(* The differences of any two scans, read off the run boundaries or composed   *)
(* from the blocks of the index at any point of an ingest, are those of the    *)
(* two scans: nothing that cancels, nothing missed (diff_scans,                *)
(* DiffIndexStore.diff).                                                       *)
DiffsExact ==
    /\ \A i \in DOMAIN shots : \A j \in DOMAIN shots :
           DiffScans(Table, i, j) = Between(shots[i], shots[j])
    /\ \A i \in 1..listed : \A j \in 1..listed : Diff(i - 1, j - 1) = Between(shots[i], shots[j])

(* The encoders give every scan back, and the differences of two scans, read  *)
(* off run boundaries or composed from blocks at any point of an ingest, are  *)
(* those of the scans (consolidate_scans, diff_scans, DiffIndexStore).        *)
ScansExact == EncodersAgree /\ DiffsExact
=============================================================================
