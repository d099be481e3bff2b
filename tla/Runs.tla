-------------------------------- MODULE Runs --------------------------------
(***************************************************************************)
(* The streaming k-way merge of sorted runs (pyrmts/runs.py) and the writer *)
(* its stream feeds (write_exact_row_groups of pyrmts/intervals.py).  A row *)
(* is [id, rest, v]: id the identity, <<id, rest>> the key.  Inputs come as *)
(* batches, oldest input first.                                             *)
(***************************************************************************)
EXTENDS Integers, Sequences, FiniteSets, FiniteSetsExt, SequencesExt

CONSTANTS RunInputs,   \* the sequences of inputs, each a sequence of batches of rows
          Reduces,     \* the reduce policies: "none", "min", "newest"
          GroupSizes   \* the row group sizes of the writer

VARIABLES feed,     \* per input, the batches not read yet
          bufs,     \* per input, the rows read and not emitted
          last,     \* per input, the key of the last row read (None before)
          ended,    \* the inputs found exhausted
          merged,   \* the batches emitted so far, joined
          pending,  \* the rows the writer holds back
          groups,   \* the row groups written
          closed,   \* whether the stream has ended
          mode,     \* [reduce, size]: the policy and the row group size
          given    \* the inputs of this merge, as given

runsVars == <<feed, bufs, last, ended, merged, pending, groups, closed, mode, given>>

NoKey == <<>>
KeyOf(r) == <<r.id, r.rest>>
Before(a, b) == a[1] < b[1] \/ (a[1] = b[1] /\ a[2] < b[2])

-----------------------------------------------------------------------------
(* load: the next batch that is not empty; past the last one, the input ends. *)
NextBatch(f) == {n \in DOMAIN f : f[n] # <<>> /\ \A m \in 1..(n - 1) : f[m] = <<>>}

Load(js) ==
    LET at(j) == NextBatch(feed[j])
        n(j)  == CHOOSE x \in at(j) : TRUE
        more  == {j \in js : at(j) # {}}
    IN  /\ feed' = [j \in DOMAIN feed |-> IF j \in more THEN SubSeq(feed[j], n(j) + 1, Len(feed[j])) ELSE feed[j]]
        /\ last' = [j \in DOMAIN last |-> IF j \in more THEN KeyOf(feed[j][n(j)][Len(feed[j][n(j)])]) ELSE last[j]]
        /\ ended' = ended \union (js \ more)

Loaded(js, bs) ==
    [j \in DOMAIN bs |-> IF j \in js /\ NextBatch(feed[j]) # {}
                         THEN bs[j] \o feed[j][CHOOSE x \in NextBatch(feed[j]) : TRUE] ELSE bs[j]]

-----------------------------------------------------------------------------
(* emit: rows sorted by key and input, or by identity and input for the       *)
(* newest, then one row per identity.                                         *)
Tag(bs) == FlattenSeq([j \in DOMAIN bs |-> [n \in DOMAIN bs[j] |-> [row |-> bs[j][n], src |-> j, at |-> n]]])

Sorted(rows, reduce) ==
    LET rank(t) == IF reduce = "newest" THEN <<t.row.id, t.src, t.row.rest, t.at>>
                                        ELSE <<t.row.id, t.row.rest, t.src, t.at>>
        less(a, b) == LET p == rank(a) q == rank(b) IN
                      \E i \in 1..4 : p[i] < q[i] /\ \A k \in 1..(i - 1) : p[k] = q[k]
    IN  SortSeq(rows, less)

Starts(rows) == {n \in DOMAIN rows : n = 1 \/ rows[n - 1].row.id # rows[n].row.id}

GroupOf(rows, n) == {m \in DOMAIN rows : rows[m].row.id = rows[n].row.id}

(* The policy is the minimum of both columns; rows come sorted by `rest`.     *)
Reduced(rows, reduce) ==
    LET keep(n) == IF reduce = "newest" THEN rows[Max(GroupOf(rows, n))].row
                   ELSE [rows[n].row EXCEPT !.v    = Min({rows[m].row.v : m \in GroupOf(rows, n)}),
                                            !.rest = Min({rows[m].row.rest : m \in GroupOf(rows, n)})]
        starts  == SetToSortSeq(Starts(rows), <)
    IN  IF reduce = "none" THEN [n \in DOMAIN rows |-> rows[n].row]
        ELSE [i \in DOMAIN starts |-> keep(starts[i])]

Emit(bs) == Reduced(Sorted(Tag(bs), mode.reduce), mode.reduce)

-----------------------------------------------------------------------------
(* write_exact_row_groups: whole groups as soon as the rows held back fill    *)
(* one; the rest at the end.                                                  *)
Chunk(rows, n) == [i \in 1..(Len(rows) \div n) |-> SubSeq(rows, (i - 1) * n + 1, i * n)]

Rest(rows, n) == SubSeq(rows, (Len(rows) \div n) * n + 1, Len(rows))

Write(rows) ==
    /\ groups' = groups \o Chunk(pending \o rows, mode.size)
    /\ pending' = Rest(pending \o rows, mode.size)

WriteLast(rows) ==
    LET all == pending \o rows IN
    /\ groups' = groups \o Chunk(all, mode.size)
                        \o (IF Rest(all, mode.size) = <<>> THEN <<>> ELSE <<Rest(all, mode.size)>>)
    /\ pending' = <<>>

-----------------------------------------------------------------------------
Live == {j \in DOMAIN feed : j \notin ended}

(* (Mutant: the largest one.)                                                 *)
FarFrontier == Max({last[j][1] : j \in Live})

(* The smallest identity some live input has read up to: every row before it  *)
(* is in a buffer.                                                            *)
Frontier == Min({last[j][1] : j \in Live})

(* _bisect: the rows of a buffer before the frontier.                         *)
Final(b, frontier) == SelectSeq(b, LAMBDA r : r.id < frontier)
Kept(b, frontier)  == SelectSeq(b, LAMBDA r : r.id >= frontier)

InitRuns ==
    /\ given \in RunInputs
    /\ feed = given
    /\ \E r \in Reduces, s \in GroupSizes : mode = [reduce |-> r, size |-> s]
    /\ bufs = [j \in DOMAIN given |-> <<>>]
    /\ last = [j \in DOMAIN given |-> NoKey]
    /\ ended = {} /\ merged = <<>> /\ pending = <<>> /\ groups = <<>> /\ closed = FALSE

(* The first batch of every input.                                            *)
FirstLoad ==
    /\ \A j \in DOMAIN feed : last[j] = NoKey /\ j \notin ended
    /\ Load(DOMAIN feed)
    /\ bufs' = Loaded(DOMAIN feed, bufs)
    /\ UNCHANGED <<merged, pending, groups, closed, mode, given>>

(* One turn of the loop: emit what is final, read on at the frontier.         *)
Advance ==
    /\ \E j \in DOMAIN feed : last[j] # NoKey
    /\ Live # {}
    /\ LET f    == Frontier
           rows == Emit([j \in DOMAIN bufs |-> Final(bufs[j], f)])
           at   == {j \in Live : last[j][1] = f}
       IN  /\ merged' = merged \o rows
           /\ Write(rows)
           /\ bufs' = Loaded(at, [j \in DOMAIN bufs |-> Kept(bufs[j], f)])
           /\ Load(at)
    /\ UNCHANGED <<closed, mode, given>>

(* Every input has ended: the rest is emitted and the writer closes.          *)
Finish ==
    /\ Live = {} /\ ~closed
    /\ merged' = merged \o Emit(bufs)
    /\ WriteLast(Emit(bufs))
    /\ bufs' = [j \in DOMAIN bufs |-> <<>>]
    /\ closed' = TRUE
    /\ UNCHANGED <<feed, last, ended, mode, given>>

NextRuns == FirstLoad \/ Advance \/ Finish

SpecRuns == InitRuns /\ [][NextRuns]_runsVars

TypeRuns ==
    /\ ended \subseteq DOMAIN feed
    /\ DOMAIN bufs = DOMAIN feed /\ DOMAIN last = DOMAIN feed
    /\ Len(pending) < mode.size \/ closed

-----------------------------------------------------------------------------
(* What is to come out: all rows of all inputs at once.                       *)
All == {<<j, b, n>> \in {<<j, b, n>> : j \in DOMAIN given, b \in 1..3, n \in 1..3} :
            b \in DOMAIN given[j] /\ n \in DOMAIN given[j][b]}
RowAt(t) == given[t[1]][t[2]][t[3]]
Ids == {RowAt(t).id : t \in All}
Of(id) == {t \in All : RowAt(t).id = id}

(* The row an identity reduces to.                                            *)
Newest(id) == LET j == Max({t[1] : t \in Of(id)})
                  b == Max({t[2] : t \in {u \in Of(id) : u[1] = j}})
              IN  RowAt(<<j, b, Max({t[3] : t \in {u \in Of(id) : u[1] = j /\ u[2] = b}})>>)

Expected(id) ==
    IF mode.reduce = "newest" THEN Newest(id).v ELSE Min({RowAt(t).v : t \in Of(id)})

(* However the inputs are cut into batches, what is emitted is in order and   *)
(* every row of an identity that has been emitted is there: all rows under    *)
(* no reduce, one row reduced over all inputs under the others; and the row   *)
(* groups are cut from the whole stream (merge_sorted,                        *)
(* write_exact_row_groups).                                                   *)
MergeExact ==
    LET out == {merged[n].id : n \in DOMAIN merged} IN
    /\ \A n \in 1..(Len(merged) - 1) :
           IF mode.reduce = "none" THEN ~Before(KeyOf(merged[n + 1]), KeyOf(merged[n]))
                                   ELSE merged[n].id < merged[n + 1].id
    /\ \A id \in Ids : \A other \in out : id < other => id \in out
    /\ closed => out = Ids
    /\ mode.reduce # "none" => \A n \in DOMAIN merged : merged[n].v = Expected(merged[n].id)
    /\ mode.reduce = "none" => \A id \in out :
           /\ Cardinality({n \in DOMAIN merged : merged[n].id = id}) = Cardinality(Of(id))
           /\ {merged[n] : n \in {m \in DOMAIN merged : merged[m].id = id}} = {RowAt(t) : t \in Of(id)}
    /\ FlattenSeq(groups) \o pending = merged
    /\ \A g \in 1..(Len(groups) - 1) : Len(groups[g]) = mode.size
=============================================================================
