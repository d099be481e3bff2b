------------------------------- MODULE TipWriter -------------------------------
(***************************************************************************)
(* The streaming producer (pyrmts/tip_writer.py): one tip shard under a    *)
(* hashed key grows by read, merge, write, register and invalidate, its    *)
(* current key known from a registry (pyrmts_engine/shard_index.py), while *)
(* a fill derives coarser shards from it.  One producer at a time, as the  *)
(* module demands; a flush that dies is run again by a new process.        *)
(***************************************************************************)
EXTENDS Integers, Sequences, FiniteSets

CONSTANTS
    TipBins,         \* the bins of the tip's period
    CoarseRanges,    \* the coarser shards: from, to
    TipBatches,      \* the rows appended flush by flush: per bin a value
    FlushEvery,      \* flush_every of a registry that is one stored object
    OnConflicts,     \* merge semantics to look at
    MaxTipFaults     \* bound on processes that die

\* Rows are appended to some bins of the period; 0 stands for no row.
ASSUME TipAssumption ==
    /\ TipBins \subseteq Nat /\ \E n \in TipBins : \A b \in TipBins : b <= n
    /\ \A c \in CoarseRanges : c[1] \in Nat /\ c[2] \in Nat /\ c[1] .. c[2] - 1 \subseteq TipBins
    /\ Len(TipBatches) \in Nat /\ DOMAIN TipBatches = 1 .. Len(TipBatches)
    /\ \A i \in DOMAIN TipBatches :
          /\ DOMAIN TipBatches[i] \subseteq TipBins /\ DOMAIN TipBatches[i] # {}
          /\ \A b \in DOMAIN TipBatches[i] : TipBatches[i][b] \in Nat \ {0}
    /\ FlushEvery \in Nat \ {0} /\ OnConflicts \subseteq {"keep-last", "keep-first"}
    /\ MaxTipFaults \in Nat

VARIABLES
    onConflict, index,        \* the kind of registry: "rows" (D1), "file" or "object"
    contents,                 \* contents stored, the keys being their hashes
    tipRows,                 \* the rows others read, oldest first
    lines, unflushed,         \* the process's own rows, those not stored yet
    tipStep, batch, tipMerged,   \* of the flush under way
    tipJournal, tipClock,
    derived, derivedAt,       \* per coarser shard what it was derived from, and when
    tipFaults

tipVars == <<onConflict, index, contents, tipRows, lines, unflushed, tipStep, batch, tipMerged,
             tipJournal, tipClock, derived, derivedAt, tipFaults>>

NoTip  == [b \in TipBins |-> 0]
LastOf(rows) == IF rows = <<>> THEN NoTip ELSE rows[Len(rows)]
Current == LastOf(tipRows)

InitTip ==
    /\ onConflict \in OnConflicts /\ index \in {"rows", "file", "object"}
    /\ contents = {} /\ tipRows = <<>> /\ lines = <<>> /\ unflushed = 0
    /\ tipStep = "start" /\ batch = 1 /\ tipMerged = NoTip /\ tipJournal = {} /\ tipClock = 0
    /\ derived = [c \in CoarseRanges |-> NoTip] /\ derivedAt = [c \in CoarseRanges |-> 0]
    /\ tipFaults = 0

-----------------------------------------------------------------------------

\* A new process parses the registry once, at its first lookup (in the mutant it
\* starts one of its own).
NoLines == <<>>
Loaded  == tipRows
StartProcess ==
    /\ tipStep = "start" /\ batch <= Len(TipBatches)
    /\ tipStep' = "read" /\ lines' = Loaded /\ unflushed' = 0
    /\ UNCHANGED <<onConflict, index, contents, tipRows, batch, tipMerged, tipJournal, tipClock,
                   derived, derivedAt, tipFaults>>

\* Rows of the same bin: the later one, or the one there is.
KeepLast(b)  == TipBatches[batch][b]
KeepFirst(b) == LET old == LastOf(lines)[b] IN IF old # 0 THEN old ELSE TipBatches[batch][b]
Merge ==
    [b \in TipBins |-> IF b \notin DOMAIN TipBatches[batch] THEN LastOf(lines)[b]
                       ELSE IF onConflict = "keep-last" THEN KeepLast(b) ELSE KeepFirst(b)]

ReadTip ==
    /\ tipStep = "read" /\ tipStep' = "put"
    /\ tipMerged' = Merge
    /\ UNCHANGED <<onConflict, index, contents, tipRows, lines, unflushed, batch, tipJournal,
                   tipClock, derived, derivedAt, tipFaults>>

PutTip ==
    /\ tipStep = "put" /\ tipStep' = "record" /\ contents' = contents \cup {tipMerged}
    /\ UNCHANGED <<onConflict, index, tipRows, lines, unflushed, batch, tipMerged, tipJournal,
                   tipClock, derived, derivedAt, tipFaults>>

\* A registry that is one object is put again after so many rows.
RecordTip ==
    LET mine == Append(lines, tipMerged)
        put  == index # "object" \/ unflushed + 1 >= FlushEvery
    IN /\ tipStep = "record" /\ tipStep' = "invalidate"
       /\ lines' = mine
       /\ tipRows' = IF ~put THEN tipRows ELSE IF index = "object" THEN mine ELSE Append(tipRows, tipMerged)
       /\ unflushed' = IF put THEN 0 ELSE unflushed + 1
       /\ UNCHANGED <<onConflict, index, contents, batch, tipMerged, tipJournal, tipClock, derived,
                      derivedAt, tipFaults>>

\* The entry covers the bins touched, the last one too (in the mutant it ends at
\* its start).
LastBin(bins)  == CHOOSE b \in bins : \A o \in bins : o <= b
FirstBin(bins) == CHOOSE b \in bins : \A o \in bins : b <= o
UpToLast(bins) == <<FirstBin(bins), LastBin(bins)>>
Touched(bins)  == <<FirstBin(bins), LastBin(bins) + 1>>
InvalidateTip ==
    LET t == Touched(DOMAIN TipBatches[batch])
    IN /\ tipStep = "invalidate" /\ tipStep' = "done"
       /\ tipClock' = tipClock + 1
       /\ tipJournal' = tipJournal \cup {[from |-> t[1], to |-> t[2], at |-> tipClock + 1]}
       /\ UNCHANGED <<onConflict, index, contents, tipRows, lines, unflushed, batch, tipMerged,
                      derived, derivedAt, tipFaults>>

\* The next flush is the same process's, or a later one's.
NextBatch ==
    /\ tipStep = "done" /\ batch' = batch + 1
    /\ tipStep' \in IF batch < Len(TipBatches) THEN {"read", "start"} ELSE {"start"}
    /\ UNCHANGED <<onConflict, index, contents, tipRows, lines, unflushed, tipMerged, tipJournal,
                   tipClock, derived, derivedAt, tipFaults>>

ProcessDies ==
    /\ tipStep \notin {"start", "done"} /\ tipStep' = "start"
    /\ tipFaults < MaxTipFaults /\ tipFaults' = tipFaults + 1
    /\ UNCHANGED <<onConflict, index, contents, tipRows, lines, unflushed, batch, tipMerged, tipJournal,
                   tipClock, derived, derivedAt>>

-----------------------------------------------------------------------------

Meets(e, c)  == e.from < c[2] /\ c[1] < e.to
StaleTip(c)  == \E e \in tipJournal : Meets(e, c) /\ derivedAt[c] < e.at
\* A tick derives again what an entry newer than it meets, and drops the
\* entries, which are then all older than what they meet.
Derive ==
    /\ \E c \in CoarseRanges : StaleTip(c)
    /\ tipClock' = tipClock + 1
    /\ derived' = [c \in CoarseRanges |-> IF StaleTip(c) THEN Current ELSE derived[c]]
    /\ derivedAt' = [c \in CoarseRanges |-> IF StaleTip(c) THEN tipClock + 1 ELSE derivedAt[c]]
    /\ tipJournal' = {}
    /\ UNCHANGED <<onConflict, index, contents, tipRows, lines, unflushed, tipStep, batch, tipMerged,
                   tipFaults>>

NextTip == StartProcess \/ ReadTip \/ PutTip \/ RecordTip \/ InvalidateTip \/ NextBatch
           \/ ProcessDies \/ Derive

SpecTip == InitTip /\ [][NextTip]_tipVars

-----------------------------------------------------------------------------
(* Properties *)

TypeTip ==
    /\ onConflict \in OnConflicts /\ index \in {"rows", "file", "object"}
    /\ \A r \in {tipMerged} \cup contents \cup {derived[c] : c \in CoarseRanges} : DOMAIN r = TipBins
    /\ \A i \in DOMAIN tipRows : tipRows[i] \in contents
    /\ \A i \in DOMAIN lines : lines[i] \in contents
    /\ unflushed \in 0 .. FlushEvery /\ batch \in 1 .. Len(TipBatches) + 1
    /\ tipStep \in {"start", "read", "put", "record", "invalidate", "done"}
    /\ \A e \in tipJournal : e.from < e.to /\ e.at <= tipClock
    /\ \A c \in CoarseRanges : derivedAt[c] <= tipClock /\ tipFaults \in 0 .. MaxTipFaults

\* Bin by bin, what the flushes up to the n-th have appended.
Flushed(n) ==
    [b \in TipBins |->
        LET of == {i \in 1 .. n : b \in DOMAIN TipBatches[i]}
        IN IF of = {} THEN 0 ELSE TipBatches[IF onConflict = "keep-last" THEN LastBin(of) ELSE FirstBin(of)][b]]

\* "merge (dedupe ..., keep-last)": once a flush has returned, the registered tip
\* holds every row appended so far, however often a process died and was run again
\* ("per-close cadence is what makes resume trustworthy").
RowsKept == tipStep = "done" => Current = Flushed(batch)

\* "append an Invalidation covering the touched bins so cascade re-derives
\* downstream": a coarser shard that is behind the registered tip is met by an
\* entry newer than it, or the flush that must append one is not over.
BehindIsJournalled ==
    \A c \in CoarseRanges :
        (\E b \in c[1] .. c[2] - 1 : derived[c][b] # Current[b])
            => \/ StaleTip(c)
               \/ /\ tipStep # "done" /\ batch <= Len(TipBatches)
                  /\ \E b \in DOMAIN TipBatches[batch] : c[1] <= b /\ b < c[2]

\* The tip and the shards derived from it (TipWriter.flush, the indexes).
TipSound == RowsKept /\ BehindIsJournalled
=============================================================================
