----------------------------- MODULE Intervals -----------------------------
(***************************************************************************)
(* Stamped intervals of a series of scans (pyrmts/intervals.py).  A scan    *)
(* gives some keys a state [c, x]: c is the change column, x a carried      *)
(* column, held here under both policies (f: first, l: last).  The table    *)
(* has one row per run of a key, built for each key range on its own and    *)
(* extended by one scan at a time; a rebuild from all the scans must give   *)
(* the same rows.  Keys are pairs, compared lexicographically.              *)
(***************************************************************************)
EXTENDS Integers, Sequences, FiniteSets, FiniteSetsExt

CONSTANTS ScanKeys,   \* the keys scans may hold
          KeyGrid,    \* all keys the ranges must partition (superset of ScanKeys)
          States,     \* the states of a key: records [c, x]
          Footers,    \* the row groups a plan may be made from
          MaxRanges,  \* bound on the k asked of a plan
          MaxScans,   \* bound on the number of scans
          Strides     \* the distances between one stamp and the next

OpenStamp == 1000
NoBound == <<>>

\* Keys are pairs of integers; no stamp reaches the open one.
ASSUME IntervalsAssumption ==
    /\ KeyGrid \subseteq Int \X Int
    /\ ScanKeys \subseteq KeyGrid /\ IsFiniteSet(ScanKeys)
    /\ \A g \in Footers :
          /\ Len(g) \in Nat /\ DOMAIN g = 1 .. Len(g)
          /\ \A i \in DOMAIN g : g[i].key \in Int \X Int /\ g[i].rows \in Nat
    /\ MaxRanges \in Nat /\ MaxScans \in Nat
    /\ \E d \in 1 .. OpenStamp : Strides \subseteq 1 .. d /\ d * MaxScans < OpenStamp

VARIABLES scans,    \* per scan, a function from the keys it holds to their states
          stamps,   \* per scan, its observation stamp
          plan,     \* the key ranges, as [lo, hi] with NoBound for unbounded
          table     \* the stamped intervals

intervalsVars == <<scans, stamps, plan, table>>

KeyLess(a, b) == a[1] < b[1] \/ (a[1] = b[1] /\ a[2] < b[2])

-----------------------------------------------------------------------------
(* Key ranges.                                                              *)

(* key_range_terms: [lo, hi) as conjunctions of comparisons <<column, op,   *)
(* value>> on the two columns.                                              *)
Last2(lo, hi) == (IF lo = NoBound THEN {} ELSE {<<2, ">=", lo[2]>>})
                     \union (IF hi = NoBound THEN {} ELSE {<<2, "<", hi[2]>>})

KeyRangeTerms(lo, hi) ==
    IF lo # NoBound /\ hi # NoBound /\ lo[1] = hi[1]
    THEN <<{<<1, "=", lo[1]>>} \union Last2(lo, hi)>>
    ELSE (IF lo = NoBound THEN <<>> ELSE <<{<<1, "=", lo[1]>>} \union Last2(lo, NoBound)>>)
         \o <<(IF lo = NoBound THEN {} ELSE {<<1, ">", lo[1]>>})
                  \union (IF hi = NoBound THEN {} ELSE {<<1, "<", hi[1]>>})>>
         \o (IF hi = NoBound THEN <<>> ELSE <<{<<1, "=", hi[1]>>} \union Last2(NoBound, hi)>>)

Satisfies(k, t) == CASE t[2] = "="  -> k[t[1]] = t[3]
                     [] t[2] = ">"  -> k[t[1]] > t[3]
                     [] t[2] = ">=" -> k[t[1]] >= t[3]
                     [] t[2] = "<"  -> k[t[1]] < t[3]

(* The pieces of a range that hold a key (key_range_pieces).                *)
PiecesOf(k, r) == LET terms == KeyRangeTerms(r.lo, r.hi)
                  IN  {p \in DOMAIN terms : \A t \in terms[p] : Satisfies(k, t)}

(* plan_ranges: row groups [key, exact, rows]; only one whose leading column *)
(* is constant names its first key.                                         *)
KeyedGroups(groups) == {g \in DOMAIN groups : groups[g].exact}

Earlier(groups, g, h) ==
    \/ KeyLess(groups[g].key, groups[h].key)
    \/ /\ groups[g].key = groups[h].key
       /\ groups[g].rows < groups[h].rows \/ (groups[g].rows = groups[h].rows /\ g < h)

\* The n-th group in order has n - 1 before it.
Points(groups) ==
    [n \in 1 .. Cardinality(KeyedGroups(groups)) |->
        groups[CHOOSE h \in KeyedGroups(groups) :
                   Cardinality({g \in KeyedGroups(groups) : Earlier(groups, g, h)}) = n - 1]]

Cut(k, total, a, p) ==
    [acc  |-> a.acc + p.rows,
     cuts |-> IF /\ a.acc * k >= total * (Len(a.cuts) + 1)
                 /\ a.cuts # <<>> => KeyLess(a.cuts[Len(a.cuts)], p.key)
              THEN Append(a.cuts, p.key) ELSE a.cuts]

Cuts(groups, k) ==
    LET points == Points(groups)
        total  == MapThenSumSet(LAMBDA g : groups[g].rows, KeyedGroups(groups))
        found[n \in 0 .. Len(points)] ==
            IF n = 0 THEN [acc |-> 0, cuts |-> <<>>] ELSE Cut(k, total, found[n - 1], points[n])
    IN  found[Len(points)].cuts

\* The cuts ascend, so that those at or below the floor come first.
PastFloor(floor, cuts) ==
    IF floor = NoBound THEN cuts
    ELSE SubSeq(cuts, Cardinality({i \in DOMAIN cuts : ~KeyLess(floor, cuts[i])}) + 1, Len(cuts))

PlanRanges(groups, k, floor) ==
    LET bounds == <<floor>> \o PastFloor(floor, Cuts(groups, k))
    IN  {[lo |-> bounds[i], hi |-> IF i = Len(bounds) THEN NoBound ELSE bounds[i + 1]] :
             i \in DOMAIN bounds}

-----------------------------------------------------------------------------
(* The kernel: runs of scans, then stamps.                                   *)

(* islands_sql: a run of a key is a longest interval of scan indices that    *)
(* all hold it with one value of the change column.                          *)
SameRun(ss, k, i, j) == \A n \in i..j : k \in DOMAIN ss[n] /\ ss[n][k].c = ss[i][k].c

IsRun(ss, k, i, j) ==
    /\ i <= j /\ SameRun(ss, k, i, j)
    /\ i = 1 \/ ~SameRun(ss, k, i - 1, j)
    /\ j = Len(ss) \/ ~SameRun(ss, k, i, j + 1)

Islands(ss) ==
    {[key |-> t[1], c |-> ss[t[2]][t[1]].c, f |-> ss[t[2]][t[1]].x, l |-> ss[t[3]][t[1]].x,
      lo |-> t[2], hi |-> t[3]] :
         t \in {u \in ScanKeys \X (DOMAIN ss) \X (DOMAIN ss) : IsRun(ss, u[1], u[2], u[3])}}

(* stamped_sql: from the stamp of the first scan to that of the first after. *)
Stamped(runs, st) ==
    {[key |-> r.key, c |-> r.c, f |-> r.f, l |-> r.l, vf |-> st[r.lo],
      vt |-> Append(st, OpenStamp)[r.hi + 1]] : r \in runs}

-----------------------------------------------------------------------------
(* append_intervals.                                                         *)

OpenRows(prev) == {r \in prev : r.vt = OpenStamp}

(* (Mutant: a carried column opens a run as well.)                           *)
Identical(r, new) == r.key \in DOMAIN new /\ new[r.key].c = r.c /\ new[r.key].x = r.l

Continues(r, new) == r.key \in DOMAIN new /\ new[r.key].c = r.c

Closes(prev, new) == {r \in OpenRows(prev) : ~Continues(r, new)}

Opens(prev, new) == {k \in DOMAIN new : \A r \in OpenRows(prev) : r.key = k => ~Continues(r, new)}

(* A carried `last` column of an open run that goes on is rewritten.         *)
OldRow(r, prev, new, stamp) ==
    IF r \in Closes(prev, new) THEN [r EXCEPT !.vt = stamp]
    ELSE IF r \in OpenRows(prev) THEN [r EXCEPT !.l = new[r.key].x]
    ELSE r

NewRow(k, new, stamp) == [key |-> k, c |-> new[k].c, f |-> new[k].x, l |-> new[k].x,
                          vf |-> stamp, vt |-> OpenStamp]

(* The code's own check of the stamp is that it exceeds every vf.            *)
AppendIntervals(prev, new, stamp) ==
    {OldRow(r, prev, new, stamp) : r \in prev} \union {NewRow(k, new, stamp) : k \in Opens(prev, new)}

(* delta_sql.                                                                *)
RowsOpened(t, stamp) == {r \in t : r.vf = stamp}
RowsClosed(t, stamp) == {r \in t : r.vt = stamp}

-----------------------------------------------------------------------------
InRange(k, r) == PiecesOf(k, r) # {}

Plans == {PlanRanges(a[1], a[2], NoBound) : a \in Footers \X (1 .. MaxRanges)}

InitIntervals ==
    /\ plan \in Plans
    /\ scans = <<>> /\ stamps = <<>> /\ table = {}

(* One scan is appended, range by range; a range whose rows start at or after *)
(* the stamp refuses it, and then the append fails.                           *)
AppendScan(new, stamp) ==
    /\ Len(scans) < MaxScans
    /\ \A g \in plan : \A r \in table : InRange(r.key, g) => r.vf < stamp
    /\ scans' = Append(scans, new)
    /\ stamps' = Append(stamps, stamp)
    /\ table' = UNION {AppendIntervals({r \in table : InRange(r.key, g)},
                                       [k \in {q \in DOMAIN new : InRange(q, g)} |-> new[k]],
                                       stamp) : g \in plan}
    /\ UNCHANGED plan

NextIntervals ==
    \E held \in SUBSET ScanKeys : \E new \in [held -> States], d \in Strides :
        AppendScan(new, (IF stamps = <<>> THEN 0 ELSE stamps[Len(stamps)]) + d)

SpecIntervals == InitIntervals /\ [][NextIntervals]_intervalsVars

TypeIntervals ==
    /\ Len(scans) = Len(stamps) /\ Len(scans) <= MaxScans
    /\ \A r \in table : r.key \in ScanKeys /\ r.vf < r.vt

-----------------------------------------------------------------------------
RowsAt(stamp) == {r \in table : r.vf <= stamp /\ stamp < r.vt}

(* Every key lies in exactly one piece of exactly one range of a plan.        *)
RangesPartition ==
    \A k \in KeyGrid : Cardinality(UNION {{<<r, p>> : p \in PiecesOf(k, r)} : r \in plan}) = 1

(* The rows that hold at a scan's stamp are the keys and change columns of    *)
(* that scan, each once.                                                      *)
ReadsTheScan ==
    \A i \in DOMAIN scans :
        /\ {<<r.key, r.c>> : r \in RowsAt(stamps[i])} = {<<k, scans[i][k].c>> : k \in DOMAIN scans[i]}
        /\ Cardinality(RowsAt(stamps[i])) = Cardinality(DOMAIN scans[i])

(* The last scan's delta turns the scan before it into it.                    *)
DeltaReplays ==
    Len(scans) > 1 =>
        LET n == Len(scans)
            before == {<<k, scans[n - 1][k].c>> : k \in DOMAIN scans[n - 1]}
            project(rs) == {<<r.key, r.c>> : r \in rs}
        IN  (before \ project(RowsClosed(table, stamps[n]))) \union project(RowsOpened(table, stamps[n]))
              = {<<k, scans[n][k].c>> : k \in DOMAIN scans[n]}

(* Appending scan by scan, range by range, gives the rows a rebuild from all  *)
(* the scans gives, carried columns included; they read back every scan, and  *)
(* the delta is exact (append_intervals, islands_sql, plan_ranges).           *)
IntervalsExact ==
    /\ RangesPartition
    /\ table = Stamped(Islands(scans), stamps)
    /\ ReadsTheScan
    /\ DeltaReplays
=============================================================================
