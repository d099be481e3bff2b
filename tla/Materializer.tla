----------------------------- MODULE Materializer -----------------------------
(***************************************************************************)
(* The strict cascade, one shard at a time (materialize_shard of            *)
(* pyrmts_engine/materialize.py): a driver takes the shards of the cover in *)
(* order of dependency, each is built from the shards of its source tier or *)
(* from raw rows, and the rows to register are written at the end           *)
(* (emit_d1_insert_sql).  A raw row is a unit; a row of a shard is a bin    *)
(* with the number of raw rows it counts.                                   *)
(***************************************************************************)
EXTENDS ShardLadder, Sequences, FiniteSetsExt

CONSTANTS
    MatLadders,     \* ladders: per tier its bin and the durations of its shards
    MatGenesis,
    MatClocks,      \* the ends of the ranges, in order
    DayLen,         \* the length of a chunk of raw rows
    RawChoices,     \* the units that may have a raw row
    MaxMatFaults    \* bound on objects lost and on drivers that die

\* A tier's bin divides its shards and one of a tier above, and is the longer the
\* further down; the rungs of a tier divide one another.
ASSUME MatAssumption ==
    /\ MatGenesis \in Nat /\ DayLen \in Nat \ {0} /\ MaxMatFaults \in Nat
    /\ \E n \in MatClocks : MatClocks \subseteq 1 .. n
    /\ RawChoices \subseteq SUBSET Nat
    /\ \A l \in MatLadders :
          /\ Len(l) \in Nat \ {0} /\ DOMAIN l = 1 .. Len(l)
          /\ \A t \in DOMAIN l :
                /\ l[t].bin \in Nat \ {0} /\ l[t].shards # {}
                /\ l[t].shards \subseteq Nat \ {0} /\ IsFiniteSet(l[t].shards)
                /\ \A c \in 1 .. t - 1 : l[c].bin < l[t].bin
                /\ t > 1 => \E c \in 1 .. t - 1 : l[t].bin % l[c].bin = 0
                /\ \A d \in l[t].shards : d % l[t].bin = 0
                /\ \A d, e \in l[t].shards : d <= e => e % d = 0

VARIABLES
    matLadder, rawUnits,
    rawGiven,     \* raw_ingest is given; otherwise the base tier is there
    whole,        \* the driver takes the whole cover, or the gaps only
    matNow,
    held,         \* shard -> its rows
    keySet,       \* the keys the driver knows of
    todo,         \* the shards of the round that are still to come
    emitted, matRows, matEnded, matFaults

materializerVars ==
    <<matLadder, rawUnits, rawGiven, whole, matNow, held, keySet, todo, emitted, matRows, matEnded, matFaults>>

MatEnd    == Max(MatClocks)
MTier(t)  == ShardsOf(t, matLadder[t].shards, MatEnd)
MShards   == UNION {MTier(t) : t \in DOMAIN matLadder}
MCover    == MinCover(MShards, MatGenesis, matNow)
MBin(s)   == matLadder[s[1]].bin
Floor(u, bin) == (u \div bin) * bin

-----------------------------------------------------------------------------
(* The rows of a shard.                                                      *)

\* rebin_long over raw rows; part tells rows apart that were not combined.
Grouped(us, bin, part) ==
    {[bin |-> b, n |-> Cardinality({u \in us : Floor(u, bin) = b}), part |-> part] :
        b \in {Floor(u, bin) : u \in us}}

CountOf(rs) == MapThenSumSet(LAMBDA r : r.n, rs)

\* rebin_long and combine_long over the rows of shards.
Combined(rs, bin) ==
    {[bin |-> b, n |-> CountOf({r \in rs : Floor(r.bin, bin) = b}), part |-> 0] :
        b \in {Floor(r.bin, bin) : r \in rs}}

EffStart(s)     == LargerOf(s[2], MatGenesis)
RawIn(from, to) == {u \in rawUnits : from <= u /\ u < to}

\* Raw rows for a tier above the base are read a day at a time.
DayChunks(from, to, bin) ==
    UNION {Grouped(RawIn(LargerOf(from, d[1]), SmallerOf(to, d[2])), bin, d[1]) : d \in Spans(DayLen, MatEnd)}

Above(t) == Max({c \in 1 .. t - 1 : matLadder[t].bin % matLadder[c].bin = 0})

\* plan_source_cover_single_tier.
Meeting(s) == {e \in MCover : e[1] = Above(s[1]) /\ e[2] < s[3] /\ e[3] > EffStart(s)}
Picks(s)   == Meeting(s) \cap keySet
Uncovered(s) == \E u \in EffStart(s) .. s[3] - 1 : \A e \in Picks(s) : ~Holds(e, u)

\* source_long_for_gap: whether it can be read, how many inputs, their rows.
FromRaw(s) == s[1] = 1 \/ (rawGiven /\ Above(s[1]) = 1)
RawRows(s) == IF s[1] = 1 THEN IF rawGiven THEN Grouped(RawIn(EffStart(s), s[3]), MBin(s), 0) ELSE {}
              ELSE DayChunks(EffStart(s), s[3], MBin(s))
Source(s) ==
    IF FromRaw(s) THEN [ok |-> TRUE, present |-> IF RawRows(s) = {} THEN 0 ELSE 1, rows |-> RawRows(s)]
    ELSE IF Uncovered(s) \/ ~(Picks(s) \subseteq DOMAIN held) THEN [ok |-> FALSE, present |-> 0, rows |-> {}]
    ELSE [ok |-> TRUE, present |-> Cardinality(Picks(s)),
          rows |-> Combined(UNION {held[p] : p \in Picks(s)}, MBin(s))]

\* (Mutant: the range of the shard is left to its sources.)
Unclipped(s) == Source(s).rows
InPeriod(s) == {r \in Source(s).rows : EffStart(s) <= r.bin /\ r.bin < s[3]}

-----------------------------------------------------------------------------
InitMat ==
    /\ matLadder \in MatLadders /\ rawUnits \in RawChoices /\ rawGiven \in BOOLEAN /\ whole \in BOOLEAN
    /\ matNow = Min(MatClocks)
    /\ held = [s \in (IF rawGiven THEN {} ELSE {b \in MTier(1) : b[3] > MatGenesis})
                    |-> {r \in Grouped(RawIn(EffStart(s), s[3]), MBin(s), 0) : EffStart(s) <= r.bin}]
    /\ keySet = {} /\ todo = {} /\ emitted = {} /\ matRows = {} /\ matEnded = FALSE /\ matFaults = 0

\* sort_by_dependency.
Dependency(a, b) == \/ a[1] < b[1]
                    \/ a[1] = b[1] /\ (Dur(a) < Dur(b) \/ (Dur(a) = Dur(b) /\ a[2] < b[2]))
Nearest == {s \in todo : \A o \in todo : o = s \/ Dependency(s, o)}

\* discover_gaps, and the driver's loop begins.
Discover ==
    /\ todo = {} /\ emitted = {}
    /\ keySet' = DOMAIN held
    /\ todo' = IF whole THEN MCover ELSE MCover \ DOMAIN held
    /\ matEnded' = FALSE
    /\ UNCHANGED <<matLadder, rawUnits, rawGiven, whole, matNow, held, emitted, matRows, matFaults>>

\* materialize_shard for the next one, with skip_existing.
Builds(s) == s \notin keySet /\ Source(s).ok /\ Source(s).present > 0 /\ InPeriod(s) # {}
MaterializeShard ==
    /\ \E s \in Nearest :
        /\ held'    = IF Builds(s) THEN [o \in DOMAIN held \cup {s} |-> IF o = s THEN InPeriod(s) ELSE held[o]]
                                   ELSE held
        /\ keySet'  = IF Builds(s) THEN keySet \cup {s} ELSE keySet
        /\ emitted' = IF Builds(s) \/ s \in keySet THEN emitted \cup {s} ELSE emitted
        /\ todo'    = todo \ {s}
    /\ matEnded' = (todo' = {})
    /\ UNCHANGED <<matLadder, rawUnits, rawGiven, whole, matNow, matRows, matFaults>>

\* emit_d1_insert_sql for what was written or was there; the operator applies it.
EmitSql ==
    /\ todo = {} /\ emitted # {}
    /\ matRows' = matRows \cup emitted
    /\ emitted' = {}
    /\ UNCHANGED <<matLadder, rawUnits, rawGiven, whole, matNow, held, keySet, todo, matEnded, matFaults>>

MatClock ==
    /\ todo = {} /\ emitted = {}
    /\ matNow' \in {n \in MatClocks : n > matNow}
    /\ matEnded' = FALSE
    /\ UNCHANGED <<matLadder, rawUnits, rawGiven, whole, held, keySet, todo, emitted, matRows, matFaults>>

MatDies ==
    /\ todo # {} \/ emitted # {}
    /\ matFaults < MaxMatFaults
    /\ todo' = {} /\ emitted' = {} /\ matEnded' = FALSE
    /\ matFaults' = matFaults + 1
    /\ UNCHANGED <<matLadder, rawUnits, rawGiven, whole, matNow, held, keySet, matRows>>

\* An object is deleted behind the driver's back.
ObjectLost ==
    /\ matFaults < MaxMatFaults
    /\ \E s \in DOMAIN held : held' = [o \in (DOMAIN held) \ {s} |-> held[o]]
    /\ matEnded' = FALSE
    /\ matFaults' = matFaults + 1
    /\ UNCHANGED <<matLadder, rawUnits, rawGiven, whole, matNow, keySet, todo, emitted, matRows>>

NextMat == Discover \/ MaterializeShard \/ EmitSql \/ MatClock \/ MatDies \/ ObjectLost

SpecMat == InitMat /\ [][NextMat]_materializerVars

TypeMat ==
    /\ matLadder \in MatLadders /\ rawUnits \in RawChoices /\ rawGiven \in BOOLEAN /\ whole \in BOOLEAN
    /\ DOMAIN held \subseteq MShards /\ keySet \subseteq MShards
    /\ todo \subseteq MCover /\ emitted \subseteq MCover /\ matRows \subseteq MShards
    /\ matNow \in MatClocks /\ matEnded \in BOOLEAN /\ matFaults \in 0 .. MaxMatFaults

-----------------------------------------------------------------------------
\* What a shard should hold: its whole bins from genesis on.
Whole(s) == {b \in {Floor(u, MBin(s)) : u \in RawIn(EffStart(s), s[3])} : b >= EffStart(s)}
Should(s) == {<<b, Cardinality(RawIn(b, b + MBin(s)))>> : b \in Whole(s)}

\* Raw rows are combined within a chunk only: a bin longer than a chunk, read
\* from raw, comes out in several rows.
ChunksHoldBins(s) == FromRaw(s) /\ s[1] # 1 => DayLen % MBin(s) = 0

\* buildable_at.
ReadyAt[p \in (DOMAIN matLadder) \X Nat] ==
    IF p[1] <= 1 THEN p[2]
    ELSE LET d == Min(matLadder[Above(p[1])].shards)
             c == ((p[2] + d - 1) \div d) * d
         IN  LargerOf(c, ReadyAt[<<Above(p[1]), c>>])

\* Every stored shard holds the whole bins of its period once, with all their
\* raw rows, whatever shards it was read from (plan_source_cover_single_tier,
\* source_long_for_gap, materialize_shard).
RowsExact ==
    \A s \in DOMAIN held : ChunksHoldBins(s) => {<<r.bin, r.n>> : r \in held[s]} = Should(s)

\* What buildable_at supposes of the source tiers: that their shards end where
\* their own sources do; and that genesis cuts none of their bins.
SourcesAlign ==
    \A t \in DOMAIN matLadder : t > 1 =>
        LET a == Above(t) IN
        /\ MatGenesis % matLadder[a].bin = 0
        /\ a > 1 => \A d \in matLadder[a].shards : d % Min(matLadder[Above(a)].shards) = 0

\* After a round with no loss before it, over raw rows without a dry period,
\* every shard of the cover that buildable_at says can be built is stored.
ReadyMeansBuilt ==
    matEnded /\ matFaults = 0 /\ rawUnits = 0 .. MatEnd - 1 /\ SourcesAlign =>
        \A s \in MCover : ReadyAt[<<s[1], s[3]>>] <= matNow /\ Should(s) # {} => s \in DOMAIN held

\* A driver that takes the whole cover registers what an earlier round wrote
\* and died over (emit_d1_insert_sql emits what `exists`).
RoundRegisters ==
    matEnded /\ whole /\ emitted = {} => MCover \cap DOMAIN held \subseteq matRows

\* Stored shards are exact, what is ready is built, what is built is registered
\* (materialize_shard, buildable_at, emit_d1_insert_sql).
MaterializedExact == RowsExact /\ ReadyMeansBuilt /\ RoundRegisters
=============================================================================
