---------------------------- MODULE ProducerProofs ----------------------------
(***************************************************************************)
(* Proofs about the producers of shards and the store they write to.       *)
(* Fills over a source with holes, for every ladder, source, tolerance,    *)
(* clock and window: no shard lacks rows that its fill was not told to do  *)
(* without.  The streaming producer, for every period, every sequence of   *)
(* batches and every set of coarser shards: no appended row is lost and no *)
(* coarser shard is behind the tip without an entry that says so.  The     *)
(* content-addressed store: every registered key is present when nothing   *)
(* is written during the deletes of a garbage collection, and, without     *)
(* that condition, when no rewrite reproduces earlier bytes and writes are *)
(* shorter than the grace period; and what an adoption does to the rows,   *)
(* for one writer that reproduces nothing and writes nothing meanwhile.    *)
(***************************************************************************)
EXTENDS HashedStore, HeldFill, TipWriter, FiniteSetTheorems, SequenceTheorems, TLAPS

(***************************************************************************)
(* Fills.  Numbers first.                                                  *)
(***************************************************************************)

LEMMA LeastIn ==
    ASSUME NEW S, S \subseteq Nat, S # {}
    PROVE  Min(S) \in S /\ \A y \in S : Min(S) <= y
<1>1. PICK x \in S : \A y \in S : ~(<<y, x>> \in OpToRel(<, Nat))
  BY NatLessThanWellFounded, WFMin
<1>2. \A y \in S : ~(y < x)
  BY <1>1, Zenon DEF OpToRel
<1>3. \A y \in S : x <= y
  BY <1>2
<1> QED BY <1>3 DEF Min

LEMMA GreatestIn ==
    ASSUME NEW S, NEW n \in S, S \subseteq Nat, \A y \in S : y <= n
    PROVE  Max(S) = n
<1>1. \E x \in S : \A y \in S : x >= y
  OBVIOUS
<1>2. Max(S) \in S /\ \A y \in S : Max(S) >= y
  BY <1>1 DEF Max
<1>3. Max(S) >= n /\ Max(S) <= n /\ Max(S) \in Nat /\ n \in Nat
  BY <1>2
<1> QED BY <1>3

\* The greatest of the numbers that a set is made of is one of them.
LEMMA MaxIn ==
    ASSUME NEW S, NEW n \in Nat, S \subseteq 0 .. n, S # {}
    PROVE  Max(S) \in S /\ \A y \in S : y <= Max(S)
<1> DEFINE T == {n - x : x \in S}
<1>1. T \subseteq Nat /\ T # {}
  <2>1. T \subseteq Nat
    <3> SUFFICES ASSUME NEW x \in S PROVE n - x \in Nat
      OBVIOUS
    <3>1. x \in 0 .. n
      OBVIOUS
    <3> QED BY <3>1
  <2>2. PICK x \in S : TRUE
    OBVIOUS
  <2>3. n - x \in T
    OBVIOUS
  <2> HIDE DEF T
  <2> QED BY <2>1, <2>3
<1>2. Min(T) \in T /\ \A y \in T : Min(T) <= y
  BY <1>1, LeastIn
<1>3. PICK x \in S : Min(T) = n - x
  BY <1>2
<1>4. \A y \in S : y <= x
  <2> SUFFICES ASSUME NEW y \in S PROVE y <= x
    OBVIOUS
  <2>1. n - x <= n - y
    BY <1>2, <1>3
  <2> QED BY <2>1
<1> QED BY <1>4 DEF Max

LEMMA DivMult ==
    ASSUME NEW a \in Nat, NEW c \in Nat \ {0}
    PROVE  a \div c \in Nat /\ (a \div c) * c <= a /\ a < (a \div c + 1) * c
OBVIOUS

LEMMA DivMono ==
    ASSUME NEW a \in Nat, NEW b \in Nat, NEW c \in Nat \ {0}, a <= b
    PROVE  a \div c <= b \div c
OBVIOUS

LEMMA NextMultiple ==
    ASSUME NEW j \in Nat, NEW k \in Nat, NEW c \in Nat \ {0}, NEW u \in Nat,
           k * c <= u, u < j * c
    PROVE  (k + 1) * c <= j * c
<1>1. k < j
  OBVIOUS
<1> QED BY <1>1

LEMMA Quotient ==
    ASSUME NEW e \in Nat, NEW d \in Nat \ {0}, e % d = 0
    PROVE  \E q \in Nat : e = q * d
OBVIOUS

LEMMA SamePeriod ==
    ASSUME NEW j \in Nat, NEW k \in Nat, NEW c \in Nat \ {0}, NEW u \in Nat,
           k * c <= u, u < (k + 1) * c, j * c <= u, u < (j + 1) * c
    PROVE  j = k
<1>1. j < k + 1 /\ k < j + 1
  OBVIOUS
<1> QED BY <1>1

-----------------------------------------------------------------------------
(* Shards and tiles *)

LEMMA Parameters ==
    /\ End \in Nat \ {0} /\ \A n \in Nows : n \in Nat \ {0} /\ n <= End
    /\ Genesis \in Nat /\ RawTile \in Nat \ {0} /\ FillWindow \in Nat \ {0} /\ MaxFillFaults \in Nat
    /\ 1 \in DOMAIN Ladder /\ \A t \in DOMAIN Ladder : t \in Nat \ {0} /\ Ladder[t].shards \subseteq Nat \ {0}
<1>1. PICK n \in Nows : Nows \subseteq 1 .. n
  BY HeldAssumption
<1>2. n \in Nat \ {0} /\ Nows \subseteq Nat /\ \A y \in Nows : y <= n /\ y \in Nat \ {0}
  BY <1>1
<1>3. End = n
  BY <1>2, GreatestIn DEF End
<1> QED BY <1>2, <1>3, HeldAssumption

\* A shard is a period of a duration.
LEMMA ShardShape ==
    ASSUME NEW t, NEW durs, durs \subseteq Nat \ {0}, NEW s \in ShardsOf(t, durs, End)
    PROVE  \E d \in durs, k \in Nat : /\ k <= (End - 1) \div d
                                      /\ s = <<t, k * d, (k + 1) * d>> /\ s[1] = t
                                      /\ s[2] = k * d /\ s[3] = (k + 1) * d /\ s[3] = s[2] + d
                                      /\ s[2] \in Nat /\ s[3] \in Nat /\ s[2] < End /\ Dur(s) = d
<1>1. PICK d \in durs : \E k \in 0 .. (End - 1) \div d : s = <<t, k * d, (k + 1) * d>>
  BY DEF ShardsOf, Spans
<1>2. PICK k \in 0 .. (End - 1) \div d : s = <<t, k * d, (k + 1) * d>>
  BY <1>1
<1>3. d \in Nat \ {0} /\ End - 1 \in Nat
  <2>1. End \in Nat \ {0}
    BY Parameters
  <2> QED BY <2>1
<1> DEFINE m == (End - 1) \div d
<1>4. m \in Nat /\ m * d <= End - 1 /\ k \in Nat /\ k <= m /\ End \in Nat
  BY <1>3, DivMult, Parameters
<1> HIDE DEF m
<1>5. k * d \in Nat /\ (k + 1) * d \in Nat /\ (k + 1) * d = k * d + d
  BY <1>3, <1>4
<1>6. k * d <= m * d /\ m * d \in Nat
  BY <1>3, <1>4
<1>7. k * d < End
  BY <1>3, <1>4, <1>5, <1>6
<1>8. s[1] = t /\ s[2] = k * d /\ s[3] = (k + 1) * d
  BY <1>2
<1>9. Dur(s) = d
  BY <1>3, <1>5, <1>8 DEF Dur
<1> QED BY <1>2, <1>4, <1>5, <1>7, <1>8, <1>9 DEF m

\* The period of a duration that a unit lies in.
LEMMA PeriodAt ==
    ASSUME NEW t, NEW durs, NEW d \in durs, d \in Nat \ {0}, NEW u \in Nat, u < End
    PROVE  \E s \in ShardsOf(t, durs, End) :
              Holds(s, u) /\ Dur(s) = d /\ s = <<t, (u \div d) * d, (u \div d + 1) * d>>
<1> DEFINE j == u \div d
           s == <<t, j * d, (j + 1) * d>>
<1>1. End - 1 \in Nat /\ u <= End - 1
  BY Parameters
<1>2. j \in Nat /\ j * d <= u /\ u < (j + 1) * d
  BY DivMult
<1>3. j <= (End - 1) \div d
  BY <1>1, DivMono
<1>4. j \in 0 .. (End - 1) \div d
  BY <1>1, <1>2, <1>3
<1>5. (j + 1) * d - j * d = d /\ j * d \in Nat /\ (j + 1) * d \in Nat
  BY <1>2
<1> HIDE DEF j
<1>6. s \in ShardsOf(t, durs, End)
  <2>1. <<j * d, (j + 1) * d>> \in Spans(d, End)
    BY <1>4 DEF Spans
  <2>2. s \in {<<t, iv[1], iv[2]>> : iv \in Spans(d, End)}
    <3>1. s = <<t, <<j * d, (j + 1) * d>>[1], <<j * d, (j + 1) * d>>[2]>>
      OBVIOUS
    <3> QED BY <2>1, <3>1, Zenon
  <2> HIDE DEF s
  <2> QED BY <2>2 DEF ShardsOf
<1>7. Dur(s) = d /\ Holds(s, u)
  BY <1>2, <1>5 DEF Dur, Holds
<1>8. s = <<t, (u \div d) * d, (u \div d + 1) * d>>
  BY DEF j
<1> HIDE DEF s
<1> QED BY <1>6, <1>7, <1>8

LEMMA ShardFacts ==
    ASSUME NEW s \in FillShards
    PROVE  /\ s[1] \in DOMAIN Ladder /\ s[2] \in Nat /\ s[3] \in Nat
           /\ s[2] < s[3] /\ s[2] < End
<1>1. PICK t \in DOMAIN Ladder : s \in ShardsOf(t, Ladder[t].shards, End)
  BY DEF FillShards, TierShards
<1>2. Ladder[t].shards \subseteq Nat \ {0}
  BY Parameters
<1>3. PICK d \in Ladder[t].shards :
          /\ s[1] = t /\ s[3] = s[2] + d
          /\ s[2] \in Nat /\ s[3] \in Nat /\ s[2] < End
  BY <1>1, <1>2, ShardShape
<1> QED BY <1>2, <1>3

LEMMA CoverFacts ==
    ASSUME NEW to \in Nows, NEW s \in Cover(to)
    PROVE  /\ s \in FillShards /\ s[3] <= to /\ Genesis < s[3] /\ To(s, to) = s[3]
           /\ From(s, to) \in Nat /\ From(s, to) < s[3]
           /\ Cells(s) = From(s, to) .. s[3] - 1
           /\ Cells(s) \subseteq Genesis .. to - 1 /\ Cells(s) \subseteq 0 .. End - 1
<1>1. s \in FillShards /\ s[3] <= to /\ s[3] > Genesis
  BY DEF Cover, MinCover
<1>2. s[2] \in Nat /\ s[3] \in Nat /\ s[2] < s[3] /\ to \in Nat /\ to <= End /\ End \in Nat /\ Genesis \in Nat
  BY <1>1, ShardFacts, Parameters
<1>3. To(s, to) = s[3]
  BY <1>1, <1>2 DEF To, SmallerOf
<1>4. From(s, to) \in Nat /\ From(s, to) < s[3] /\ From(s, to) >= Genesis
  BY <1>1, <1>2 DEF From, LargerOf
<1>5. Cells(s) = From(s, to) .. s[3] - 1
  BY DEF Cells, From
<1>6. Cells(s) \subseteq Genesis .. to - 1 /\ Cells(s) \subseteq 0 .. End - 1
  BY <1>1, <1>2, <1>4, <1>5
<1> QED BY <1>1, <1>3, <1>4, <1>5, <1>6

\* The units of a shard.
LEMMA CellFacts ==
    ASSUME NEW s \in FillShards, Genesis < s[3], NEW u \in Cells(s)
    PROVE  u \in Nat /\ Genesis <= u /\ s[2] <= u /\ u < s[3]
<1>1. s[2] \in Nat /\ s[3] \in Nat /\ Genesis \in Nat
  BY ShardFacts, Parameters
<1> QED BY <1>1 DEF Cells, LargerOf

LEMMA TileFacts ==
    ASSUME NEW t \in FillTiles
    PROVE  t[2] \in Nat /\ t[3] \in Nat /\ t[2] < t[3]
<1>1. {RawTile} \subseteq Nat \ {0} /\ 1 \in DOMAIN Ladder /\ Ladder[1].shards \subseteq Nat \ {0}
  BY Parameters
<1>2. CASE heldSource = "raw"
  <2>1. t \in ShardsOf(0, {RawTile}, End)
    BY <1>2 DEF FillTiles
  <2>2. PICK d \in {RawTile} : t[2] \in Nat /\ t[3] \in Nat /\ t[3] = t[2] + d
    BY <1>1, <2>1, ShardShape
  <2> QED BY <1>1, <2>2
<1>3. CASE heldSource # "raw"
  <2>1. t \in FillShards
    BY <1>1, <1>3 DEF FillTiles, FillShards
  <2> QED BY <2>1, ShardFacts
<1> QED BY <1>2, <1>3

-----------------------------------------------------------------------------
(* Raw tiles: one for each unit. *)

LEMMA RawShape ==
    ASSUME heldSource = "raw", NEW t \in FillTiles
    PROVE  \E k \in Nat : /\ t = <<0, k * RawTile, (k + 1) * RawTile>>
                          /\ t[2] = k * RawTile /\ t[3] = (k + 1) * RawTile
<1>1. {RawTile} \subseteq Nat \ {0}
  BY Parameters
<1>2. t \in ShardsOf(0, {RawTile}, End)
  BY DEF FillTiles
<1> QED BY <1>1, <1>2, ShardShape

LEMMA RawAt ==
    ASSUME heldSource = "raw", present \subseteq FillTiles, NEW u \in Nat, u < End
    PROVE  /\ TileOf(u) \in FillTiles /\ Holds(TileOf(u), u)
           /\ \A t \in FillTiles : Holds(t, u) => t = TileOf(u)
           /\ TileOf(u) = CHOOSE t \in FillTiles : Holds(t, u)
<1>1. PICK t \in FillTiles : Holds(t, u)
  <2>1. RawTile \in {RawTile} /\ RawTile \in Nat \ {0}
    BY Parameters
  <2>2. \E s \in ShardsOf(0, {RawTile}, End) : Holds(s, u)
    BY <2>1, PeriodAt
  <2> QED BY <2>2 DEF FillTiles
<1>2. \A o \in FillTiles : Holds(o, u) => o = t
  <2> SUFFICES ASSUME NEW o \in FillTiles, Holds(o, u) PROVE o = t
    OBVIOUS
  <2>1. PICK k \in Nat : /\ t = <<0, k * RawTile, (k + 1) * RawTile>>
                         /\ t[2] = k * RawTile /\ t[3] = (k + 1) * RawTile
    BY RawShape
  <2>2. PICK j \in Nat : /\ o = <<0, j * RawTile, (j + 1) * RawTile>>
                         /\ o[2] = j * RawTile /\ o[3] = (j + 1) * RawTile
    BY RawShape
  <2>3. j = k
    <3>1. k * RawTile <= u /\ u < (k + 1) * RawTile /\ j * RawTile <= u /\ u < (j + 1) * RawTile
      BY <1>1, <2>1, <2>2 DEF Holds
    <3>2. RawTile \in Nat \ {0}
      BY Parameters
    <3> QED BY <3>1, <3>2, SamePeriod
  <2> QED BY <2>1, <2>2, <2>3
<1> DEFINE all == {x \in FillTiles : Holds(x, u)}
           there == {x \in present : Holds(x, u)}
<1>3. all = {t}
  BY <1>1, <1>2
<1>4. there = {} \/ there = {t}
  BY <1>2
<1>5. Dur(t) <= Dur(t)
  BY <1>1, TileFacts DEF Dur
<1>6. TileOf(u) = IF there # {} THEN CHOOSE x \in there : \A o \in there : Dur(o) <= Dur(x)
                  ELSE CHOOSE x \in all : \A o \in all : Dur(x) <= Dur(o)
  BY Zenon DEF TileOf
<1> HIDE DEF all, there
<1>7. (CHOOSE x \in {t} : \A o \in {t} : Dur(o) <= Dur(x)) = t
  BY <1>5
<1>8. (CHOOSE x \in {t} : \A o \in {t} : Dur(x) <= Dur(o)) = t
  BY <1>5
<1>9. TileOf(u) = t
  BY <1>3, <1>4, <1>6, <1>7, <1>8
<1> QED BY <1>1, <1>2, <1>9

-----------------------------------------------------------------------------
(* Stored shards: the finest tile of a unit ends before any that starts later. *)

LEMMA TierOne ==
    ASSUME heldSource # "raw", NEW o \in FillTiles
    PROVE  \E d \in Ladder[1].shards, k \in Nat :
              d \in Nat \ {0} /\ o[2] = k * d /\ o[3] = (k + 1) * d /\ Dur(o) = d
<1>1. Ladder[1].shards \subseteq Nat \ {0}
  BY Parameters
<1>2. o \in ShardsOf(1, Ladder[1].shards, End)
  BY DEF FillTiles, TierShards
<1>3. PICK d \in Ladder[1].shards, k \in Nat : o[2] = k * d /\ o[3] = (k + 1) * d /\ Dur(o) = d
  BY <1>1, <1>2, ShardShape
<1> QED BY <1>1, <1>3

LEMMA FinestEnds ==
    ASSUME heldSource # "raw", present \subseteq FillTiles, NEW u \in Nat, u < End,
           \A t \in present : ~Holds(t, u),
           NEW t0 \in present, u < t0[3]
    PROVE  TileOf(u)[3] \in Nat /\ TileOf(u)[3] <= t0[2] /\ t0[2] \in Nat
<1> DEFINE all == {x \in FillTiles : Holds(x, u)}
           there == {x \in present : Holds(x, u)}
           durs == Ladder[1].shards
<1>1. durs \subseteq Nat \ {0} /\ FillTiles = ShardsOf(1, durs, End)
  BY Parameters DEF FillTiles, TierShards
<1>2. PICK e \in durs : \A d \in durs : d % e = 0
  BY Parameters, HeldAssumption
<1>3. e \in Nat \ {0}
  BY <1>1, <1>2
<1> HIDE DEF durs
<1>4. PICK x \in all : Dur(x) = e
  <2>1. \E s \in ShardsOf(1, durs, End) : Holds(s, u) /\ Dur(s) = e
    BY <1>2, <1>3, PeriodAt
  <2> QED BY <1>1, <2>1
<1>5. \A o \in all : Dur(o) \in durs /\ e <= Dur(o)
  <2> SUFFICES ASSUME NEW o \in all PROVE Dur(o) \in durs /\ e <= Dur(o)
    OBVIOUS
  <2>2. Dur(o) \in durs
    BY TierOne DEF durs
  <2>3. Dur(o) \in Nat \ {0} /\ Dur(o) % e = 0
    BY <1>1, <1>2, <2>2
  <2>4. PICK q \in Nat : Dur(o) = q * e
    BY <1>3, <2>3, Quotient
  <2>5. q # 0
    BY <1>3, <2>3, <2>4
  <2>6. e <= q * e
    BY <1>3, <2>5
  <2> QED BY <2>2, <2>4, <2>6
<1>6. TileOf(u) = CHOOSE z \in all : \A o \in all : Dur(z) <= Dur(o)
  <2>1. TileOf(u) = IF there # {} THEN CHOOSE z \in there : \A o \in there : Dur(o) <= Dur(z)
                    ELSE CHOOSE z \in all : \A o \in all : Dur(z) <= Dur(o)
    BY Zenon DEF TileOf
  <2>2. there = {}
    OBVIOUS
  <2> QED BY <2>1, <2>2
<1>7. \A z \in all : z \in FillTiles /\ Holds(z, u)
  OBVIOUS
<1> HIDE DEF all, there
<1>8. TileOf(u) \in all /\ \A o \in all : Dur(TileOf(u)) <= Dur(o)
  <2>1. \E z \in all : \A o \in all : Dur(z) <= Dur(o)
    BY <1>4, <1>5
  <2> HIDE DEF all, there
  <2> QED BY <1>6, <2>1
<1>9. PICK y \in all : y = TileOf(u) /\ Dur(y) <= e
  BY <1>4, <1>8
<1>10. Dur(y) \in Nat /\ Dur(y) = e
  <2>1. Dur(y) \in durs /\ e <= Dur(y) /\ Dur(y) <= e
    BY <1>5, <1>9
  <2>2. Dur(y) \in Nat /\ e \in Nat
    BY <2>1, <1>1, <1>3
  <2> QED BY <2>1, <2>2
<1>11. PICK k \in Nat : y[2] = k * e /\ y[3] = (k + 1) * e
  <2>1. y \in FillTiles
    BY <1>7
  <2>2. PICK d \in durs, k \in Nat : y[2] = k * d /\ y[3] = (k + 1) * d /\ Dur(y) = d
    BY <2>1, TierOne DEF durs
  <2> QED BY <1>10, <2>2
<1>12. t0[2] \in Nat /\ t0[3] \in Nat /\ u < t0[2]
  BY TileFacts DEF Holds
<1>13. PICK d \in durs, j \in Nat : t0[2] = j * d
  BY TierOne DEF durs
<1>14. PICK q \in Nat : d = q * e
  BY <1>1, <1>2, <1>3, Quotient
<1>15. j * q \in Nat /\ (j * q) * e = j * d
  BY <1>3, <1>14
<1>16. k * e <= u /\ u < (j * q) * e
  BY <1>7, <1>11, <1>12, <1>13, <1>15 DEF Holds
<1>17. (k + 1) * e <= (j * q) * e
  BY <1>3, <1>15, <1>16, NextMultiple
<1>18. (k + 1) * e \in Nat
  BY <1>3
<1> QED BY <1>9, <1>11, <1>12, <1>13, <1>15, <1>17, <1>18

-----------------------------------------------------------------------------
(* The spans of a walk, in order. *)

Ahead(spans, s) == {o \in spans : SpanBefore(o, s)}
SpansIn(spans, e) == e \in Nat /\ spans \subseteq (0 .. e) \X (0 .. e)

LEMMA SpanOrder ==
    ASSUME NEW e, NEW spans, SpansIn(spans, e), NEW x \in spans, NEW y \in spans, NEW z \in spans
    PROVE  /\ x[1] \in Nat /\ x[2] \in Nat
           /\ ~SpanBefore(x, x)
           /\ x # y => SpanBefore(x, y) \/ SpanBefore(y, x)
           /\ SpanBefore(x, y) /\ SpanBefore(y, z) => SpanBefore(x, z)
<1>1. e \in Nat /\ \A o \in spans : o[1] \in 0 .. e /\ o[2] \in 0 .. e /\ o = <<o[1], o[2]>>
  BY DEF SpansIn
<1>2. x[1] \in Nat /\ x[2] \in Nat /\ y[1] \in Nat /\ y[2] \in Nat /\ z[1] \in Nat /\ z[2] \in Nat
  BY <1>1
<1>3. x # y => x[1] # y[1] \/ x[2] # y[2]
  BY <1>1
<1> QED BY <1>2, <1>3 DEF SpanBefore

LEMMA AheadFewer ==
    ASSUME NEW e, NEW S, SpansIn(S, e)
    PROVE  /\ IsFiniteSet(S) /\ Cardinality(S) \in Nat
           /\ \A t \in S : Cardinality(Ahead(S, t)) \in 0 .. Cardinality(S) - 1
           /\ \A t \in S, r \in S : SpanBefore(r, t) => Cardinality(Ahead(S, r)) < Cardinality(Ahead(S, t))
<1>1. IsFiniteSet((0 .. e) \X (0 .. e))
  <2>1. IsFiniteSet(0 .. e)
    BY FS_Interval DEF SpansIn
  <2> QED BY <2>1, FS_Product
<1>2. IsFiniteSet(S) /\ Cardinality(S) \in Nat
  BY <1>1, FS_Subset, FS_CardinalityType DEF SpansIn
<1>3. \A t \in S : /\ IsFiniteSet(Ahead(S, t)) /\ Cardinality(Ahead(S, t)) \in Nat
                   /\ Cardinality(Ahead(S, t)) <= Cardinality(S) - 1
  <2> SUFFICES ASSUME NEW t \in S
               PROVE  /\ IsFiniteSet(Ahead(S, t)) /\ Cardinality(Ahead(S, t)) \in Nat
                      /\ Cardinality(Ahead(S, t)) <= Cardinality(S) - 1
    OBVIOUS
  <2>1. IsFiniteSet(S \ {t}) /\ Cardinality(S \ {t}) = Cardinality(S) - 1
    BY <1>2, FS_RemoveElement
  <2>2. Ahead(S, t) \in SUBSET (S \ {t})
    BY SpanOrder DEF Ahead
  <2>3. IsFiniteSet(Ahead(S, t)) /\ Cardinality(Ahead(S, t)) <= Cardinality(S \ {t})
    BY <2>1, <2>2, FS_Subset
  <2> QED BY <2>1, <2>3, FS_CardinalityType
<1>4. \A t \in S, r \in S : SpanBefore(r, t) => Cardinality(Ahead(S, r)) < Cardinality(Ahead(S, t))
  <2> SUFFICES ASSUME NEW t \in S, NEW r \in S, SpanBefore(r, t)
               PROVE  Cardinality(Ahead(S, r)) < Cardinality(Ahead(S, t))
    OBVIOUS
  <2>1. r \notin Ahead(S, r)
    BY SpanOrder DEF Ahead
  <2>2. r \in Ahead(S, t)
    BY DEF Ahead
  <2>3. Ahead(S, r) \subseteq Ahead(S, t)
    <3> SUFFICES ASSUME NEW x \in S, SpanBefore(x, r) PROVE SpanBefore(x, t)
      BY DEF Ahead
    <3> QED BY SpanOrder
  <2>4. Cardinality(Ahead(S, r) \cup {r}) = Cardinality(Ahead(S, r)) + 1
    BY <1>3, <2>1, FS_AddElement
  <2>5. (Ahead(S, r) \cup {r}) \in SUBSET Ahead(S, t)
    BY <2>2, <2>3
  <2>6. Cardinality(Ahead(S, r) \cup {r}) <= Cardinality(Ahead(S, t))
    BY <1>3, <2>5, FS_Subset
  <2> QED BY <1>3, <2>4, <2>6
<1>5. \A t \in S : Cardinality(Ahead(S, t)) \in 0 .. Cardinality(S) - 1
  BY <1>2, <1>3
<1> QED BY <1>2, <1>4, <1>5

\* Every rank is taken.
LEMMA RankOnto ==
    ASSUME NEW e, NEW S, SpansIn(S, e), NEW i \in 1 .. Cardinality(S)
    PROVE  \E t \in S : Cardinality(Ahead(S, t)) = i - 1
<1> DEFINE n == Cardinality(S)
           rank == [t \in S |-> Cardinality(Ahead(S, t))]
<1>1. IsFiniteSet(S) /\ n \in Nat
  BY AheadFewer
<1> HIDE DEF n
<1>2. rank \in [S -> 0 .. n - 1]
  BY AheadFewer DEF n
<1>3. \A t \in S, r \in S : rank[t] = rank[r] => t = r
  <2> SUFFICES ASSUME NEW t \in S, NEW r \in S, rank[t] = rank[r], t # r PROVE FALSE
    OBVIOUS
  <2>1. Cardinality(Ahead(S, t)) \in Nat /\ Cardinality(Ahead(S, r)) \in Nat
    BY AheadFewer
  <2>2. Cardinality(Ahead(S, t)) = Cardinality(Ahead(S, r))
    BY DEF rank
  <2>3. SpanBefore(t, r) \/ SpanBefore(r, t)
    BY SpanOrder
  <2> QED BY <2>1, <2>2, <2>3, AheadFewer
<1>4. rank \in Injection(S, 0 .. n - 1)
  BY <1>2, <1>3 DEF Injection, IsInjective
<1>5. IsFiniteSet(0 .. n - 1) /\ Cardinality(0 .. n - 1) = n
  <2>1. 0 \in Int /\ n - 1 \in Int /\ (0 > n - 1 <=> n = 0)
    BY <1>1
  <2>2. IsFiniteSet(0 .. n - 1) /\ Cardinality(0 .. n - 1) = IF 0 > n - 1 THEN 0 ELSE (n - 1) - 0 + 1
    BY <2>1, FS_Interval
  <2> QED BY <1>1, <2>1, <2>2
<1>6. rank \in Surjection(S, 0 .. n - 1)
  BY <1>4, <1>5, FS_Injection DEF n
<1>7. i - 1 \in 0 .. n - 1
  BY <1>1 DEF n
<1>8. \E t \in S : rank[t] = i - 1
  BY <1>6, <1>7 DEF Surjection
<1> QED BY <1>8 DEF rank

LEMMA SortedFacts ==
    ASSUME NEW e, NEW S, SpansIn(S, e)
    PROVE  /\ Cardinality(S) \in Nat
           /\ Len(Sorted(S)) = Cardinality(S) /\ DOMAIN Sorted(S) = 1 .. Cardinality(S)
           /\ \A i \in 1 .. Cardinality(S) : Sorted(S)[i] \in S
           /\ \A i, j \in 1 .. Cardinality(S) : i < j => Sorted(S)[i][1] <= Sorted(S)[j][1]
           /\ \A s \in S : \E i \in 1 .. Cardinality(S) : Sorted(S)[i] = s
<1> DEFINE n == Cardinality(S)
<1>1. n \in Nat
  BY AheadFewer
<1>2. Sorted(S) = [i \in 1 .. n |-> CHOOSE s \in S : Cardinality(Ahead(S, s)) = i - 1]
  BY Zenon DEF Sorted, Ahead
<1>3. \A i \in 1 .. n : Sorted(S)[i] \in S /\ Cardinality(Ahead(S, Sorted(S)[i])) = i - 1
  <2> SUFFICES ASSUME NEW i \in 1 .. n
               PROVE  Sorted(S)[i] \in S /\ Cardinality(Ahead(S, Sorted(S)[i])) = i - 1
    OBVIOUS
  <2>1. \E t \in S : Cardinality(Ahead(S, t)) = i - 1
    BY RankOnto
  <2>2. Sorted(S)[i] = CHOOSE s \in S : Cardinality(Ahead(S, s)) = i - 1
    BY <1>2
  <2> QED BY <2>1, <2>2
<1>4. Sorted(S) \in Seq(S) /\ Len(Sorted(S)) = n /\ DOMAIN Sorted(S) = 1 .. n
  <2>1. Sorted(S) \in [1 .. n -> S]
    BY <1>2, <1>3
  <2> HIDE DEF n
  <2> QED BY <2>1, <1>1
<1>5. ASSUME NEW i \in 1 .. n, NEW j \in 1 .. n, i < j PROVE Sorted(S)[i][1] <= Sorted(S)[j][1]
  <2>1. Cardinality(Ahead(S, Sorted(S)[i])) = i - 1 /\ Cardinality(Ahead(S, Sorted(S)[j])) = j - 1
    BY <1>3
  <2>2. Sorted(S)[i] \in S /\ Sorted(S)[j] \in S
    BY <1>3
  <2>3. SpanBefore(Sorted(S)[j], Sorted(S)[i]) => j - 1 < i - 1
    BY <2>1, <2>2, AheadFewer
  <2>4. ~SpanBefore(Sorted(S)[j], Sorted(S)[i])
    BY <2>3, <1>1, <1>5
  <2>5. Sorted(S)[i][1] \in Nat /\ Sorted(S)[j][1] \in Nat
    BY <2>2, SpanOrder
  <2> QED BY <2>4, <2>5 DEF SpanBefore
<1>6. ASSUME NEW s \in S PROVE \E i \in 1 .. n : Sorted(S)[i] = s
  <2>1. Cardinality(Ahead(S, s)) \in 0 .. n - 1
    BY AheadFewer
  <2>2. PICK i \in 1 .. n : i - 1 = Cardinality(Ahead(S, s))
    BY <2>1, <1>1
  <2>3. Sorted(S)[i] \in S /\ Cardinality(Ahead(S, Sorted(S)[i])) = Cardinality(Ahead(S, s))
    BY <2>2, <1>3
  <2>4. Cardinality(Ahead(S, s)) \in Nat
    BY <2>1, <1>1
  <2>5. Sorted(S)[i] = s
    <3> DEFINE y == Sorted(S)[i]
    <3>1. y \in S /\ Cardinality(Ahead(S, y)) = Cardinality(Ahead(S, s))
      BY <2>3
    <3> HIDE DEF y
    <3>2. ~SpanBefore(y, s) /\ ~SpanBefore(s, y)
      BY <3>1, <2>4, AheadFewer
    <3>3. y = s
      BY <3>1, <3>2, SpanOrder
    <3> QED BY <3>3 DEF y
  <2> QED BY <2>5
<1> QED BY <1>1, <1>3, <1>4, <1>5, <1>6

-----------------------------------------------------------------------------
(* Merged spans: in order, and every span in one of them. *)

MergesOf(sorted, n, f) == f = [k \in 0 .. n |-> IF k = 0 THEN <<>> ELSE Merged(f[k - 1], sorted[k])]

LEMMA MergesExist ==
    ASSUME NEW sorted, NEW n \in Nat
    PROVE  \E f : MergesOf(sorted, n, f)
<1> DEFINE Bad == {k \in Nat : ~\E f : MergesOf(sorted, k, f)}
<1>1. ASSUME Bad # {} PROVE FALSE
  <2>1. Min(Bad) \in Bad /\ \A y \in Bad : Min(Bad) <= y
    BY <1>1, LeastIn
  <2>2. PICK k \in Bad : \A y \in Bad : k <= y
    BY <2>1
  <2>3. k \in Nat /\ ~\E f : MergesOf(sorted, k, f)
    BY <2>2
  <2>4. CASE k = 0
    <3>1. MergesOf(sorted, 0, [t \in 0 .. 0 |-> <<>>])
      BY DEF MergesOf
    <3> QED BY <3>1, <2>3, <2>4
  <2>5. CASE k # 0
    <3>1. k - 1 \in Nat /\ k - 1 \notin Bad
      BY <2>2, <2>3, <2>5
    <3>2. PICK f : MergesOf(sorted, k - 1, f)
      BY <3>1
    <3> DEFINE g == [t \in 0 .. k |-> IF t = 0 THEN <<>> ELSE Merged(f[t - 1], sorted[t])]
    <3>3. \A t \in 0 .. k - 1 : f[t] = g[t]
      BY <3>2, <2>3 DEF MergesOf
    <3>4. \A t \in 0 .. k : t = 0 \/ t - 1 \in 0 .. k - 1
      BY <2>3
    <3>5. \A t \in 0 .. k : g[t] = IF t = 0 THEN <<>> ELSE Merged(g[t - 1], sorted[t])
      BY <3>3, <3>4
    <3>6. MergesOf(sorted, k, g)
      BY <3>5 DEF MergesOf
    <3> QED BY <3>6, <2>3
  <2> QED BY <2>4, <2>5
<1> QED BY <1>1

\* The spans merged so far: pairs of numbers that start in order, the last one
\* not after x.
Ordered(ms, x) ==
    /\ Len(ms) \in Nat \ {0} /\ DOMAIN ms = 1 .. Len(ms) /\ ms \in Seq(Nat \X Nat)
    /\ \A i, j \in DOMAIN ms : i < j => ms[i][1] <= ms[j][1]
    /\ ms[Len(ms)][1] <= x
Inside(ms, s) == \E j \in DOMAIN ms : ms[j][1] <= s[1] /\ s[2] <= ms[j][2]

LEMMA MergedOne ==
    ASSUME NEW ms, NEW s \in Nat \X Nat,
           ms = <<>> \/ Ordered(ms, s[1])
    PROVE  /\ Ordered(Merged(ms, s), s[1]) /\ Inside(Merged(ms, s), s)
           /\ \A o \in Nat \X Nat : ms # <<>> /\ Inside(ms, o) => Inside(Merged(ms, s), o)
<1>0. s[1] \in Nat /\ s[2] \in Nat /\ s = <<s[1], s[2]>>
  OBVIOUS
<1>1. CASE ms = <<>>
  <2>1. Merged(ms, s) = <<s>>
    BY <1>1 DEF Merged
  <2> DEFINE r == <<s>>
  <2>2. r \in Seq(Nat \X Nat) /\ Len(r) = 1 /\ DOMAIN r = 1 .. 1 /\ r[1] = s
    OBVIOUS
  <2> HIDE DEF r
  <2>3. Ordered(r, s[1])
    BY <1>0, <2>2 DEF Ordered
  <2>4. 1 \in DOMAIN r /\ r[1][1] <= s[1] /\ s[2] <= r[1][2]
    BY <1>0, <2>2
  <2>5. Inside(r, s)
    BY <2>4 DEF Inside
  <2> QED BY <1>1, <2>1, <2>3, <2>5 DEF r
<1>2. CASE ms # <<>>
  <2> DEFINE n == Len(ms)
  <2>1. n \in Nat \ {0} /\ DOMAIN ms = 1 .. n /\ ms \in Seq(Nat \X Nat) /\ ms[n][1] <= s[1]
    BY <1>2 DEF Ordered
  <2>2. \A i, j \in 1 .. n : i < j => ms[i][1] <= ms[j][1]
    BY <1>2, <2>1 DEF Ordered
  <2>3. \A i \in 1 .. n : ms[i] \in Nat \X Nat /\ ms[i][1] \in Nat /\ ms[i][2] \in Nat
    BY <2>1
  <2>4. CASE s[1] <= ms[n][2]
    <3> DEFINE new == <<ms[n][1], LargerOf(ms[n][2], s[2])>>
               r == [ms EXCEPT ![n] = new]
    <3>1. Merged(ms, s) = r
      BY <1>2, <2>4 DEF Merged, Joined
    <3>2. /\ new \in Nat \X Nat /\ new[1] = ms[n][1]
          /\ new[2] >= ms[n][2] /\ new[2] >= s[2] /\ new[1] <= s[1] /\ new[2] \in Nat
      BY <1>0, <2>1, <2>3 DEF LargerOf
    <3> HIDE DEF new
    <3>3. r \in Seq(Nat \X Nat) /\ Len(r) = n /\ DOMAIN r = 1 .. n
      BY <2>1, <3>2
    <3>4. \A i \in 1 .. n : r[i][1] = ms[i][1] /\ r[i][2] >= ms[i][2]
      <4> SUFFICES ASSUME NEW i \in 1 .. n PROVE r[i][1] = ms[i][1] /\ r[i][2] >= ms[i][2]
        OBVIOUS
      <4>1. r[i] = IF i = n THEN new ELSE ms[i]
        BY <2>1
      <4>2. ms[i][2] >= ms[i][2]
        BY <2>3
      <4> QED BY <3>2, <4>1, <4>2
    <3>5. r[n] = new /\ n \in 1 .. n
      BY <2>1
    <3> HIDE DEF r, n
    <3>6. Ordered(r, s[1])
      <4>1. r[Len(r)][1] <= s[1]
        BY <3>2, <3>3, <3>5
      <4>2. \A i, j \in DOMAIN r : i < j => r[i][1] <= r[j][1]
        BY <2>2, <3>3, <3>4
      <4>3. Len(r) \in Nat \ {0} /\ DOMAIN r = 1 .. Len(r)
        BY <2>1, <3>3
      <4> QED BY <3>3, <4>1, <4>2, <4>3 DEF Ordered
    <3>7. Inside(r, s)
      <4>1. n \in DOMAIN r /\ r[n][1] <= s[1] /\ s[2] <= r[n][2]
        BY <1>0, <3>2, <3>3, <3>5
      <4> QED BY <4>1 DEF Inside
    <3>8. \A o \in Nat \X Nat : Inside(ms, o) => Inside(r, o)
      <4> SUFFICES ASSUME NEW o \in Nat \X Nat, NEW j \in 1 .. n, ms[j][1] <= o[1], o[2] <= ms[j][2]
                   PROVE  Inside(r, o)
        BY <2>1 DEF Inside
      <4>1. o[1] \in Nat /\ o[2] \in Nat
        OBVIOUS
      <4>2. r[j][1] = ms[j][1] /\ r[j][2] >= ms[j][2] /\ ms[j][2] \in Nat
        BY <2>3, <3>4
      <4>3. r[j][2] \in Nat
        BY <3>3
      <4>4. r[j][1] <= o[1] /\ o[2] <= r[j][2]
        BY <4>1, <4>2, <4>3
      <4> QED BY <3>3, <4>4 DEF Inside
    <3> QED BY <3>1, <3>6, <3>7, <3>8
  <2>5. CASE ~(s[1] <= ms[n][2])
    <3> DEFINE r == Append(ms, s)
    <3>1. Merged(ms, s) = r
      BY <1>2, <2>5 DEF Merged
    <3>2. r \in Seq(Nat \X Nat) /\ Len(r) = n + 1 /\ DOMAIN r = 1 .. n + 1
      BY <2>1
    <3>3. (\A i \in 1 .. n : r[i] = ms[i]) /\ r[n + 1] = s
      BY <2>1
    <3> HIDE DEF r, n
    <3>4. \A i \in 1 .. n : ms[i][1] <= s[1]
      <4> SUFFICES ASSUME NEW i \in 1 .. n PROVE ms[i][1] <= s[1]
        OBVIOUS
      <4>1. n \in 1 .. n /\ ms[i][1] \in Nat /\ ms[n][1] \in Nat
        BY <2>1, <2>3
      <4>2. i = n \/ i < n
        BY <2>1
      <4>3. ms[i][1] <= ms[n][1]
        BY <2>2, <4>1, <4>2
      <4> QED BY <1>0, <2>1, <4>1, <4>3
    <3>5. Ordered(r, s[1])
      <4>1. r[Len(r)][1] <= s[1]
        BY <1>0, <3>2, <3>3
      <4>2. \A i, j \in 1 .. n + 1 : i < j => r[i][1] <= r[j][1]
        <5> SUFFICES ASSUME NEW i \in 1 .. n + 1, NEW j \in 1 .. n + 1, i < j PROVE r[i][1] <= r[j][1]
          OBVIOUS
        <5>1. i \in 1 .. n /\ (j \in 1 .. n \/ j = n + 1)
          BY <2>1
        <5> QED BY <5>1, <2>2, <3>3, <3>4
      <4>3. Len(r) \in Nat \ {0}
        BY <2>1, <3>2
      <4> QED BY <3>2, <4>1, <4>2, <4>3 DEF Ordered
    <3>6. Inside(r, s)
      <4>1. n + 1 \in DOMAIN r /\ r[n + 1][1] <= s[1] /\ s[2] <= r[n + 1][2]
        BY <1>0, <2>1, <3>2, <3>3
      <4> QED BY <4>1 DEF Inside
    <3>7. \A o \in Nat \X Nat : Inside(ms, o) => Inside(r, o)
      <4> SUFFICES ASSUME NEW o \in Nat \X Nat, NEW j \in 1 .. n, ms[j][1] <= o[1], o[2] <= ms[j][2]
                   PROVE  Inside(r, o)
        BY <2>1 DEF Inside
      <4>1. j \in DOMAIN r /\ r[j] = ms[j]
        BY <2>1, <3>2, <3>3
      <4> QED BY <4>1 DEF Inside
    <3> QED BY <3>1, <3>5, <3>6, <3>7
  <2> QED BY <2>4, <2>5
<1> QED BY <1>1, <1>2

LEMMA MergesAre ==
    ASSUME NEW e, NEW S, SpansIn(S, e)
    PROVE  \E f : /\ MergesOf(Sorted(S), Cardinality(S), f)
                  /\ MergeSpans(S) = f[Cardinality(S)]
<1> DEFINE sorted == Sorted(S)
           n == Cardinality(S)
           g == CHOOSE f : f = [k \in 0 .. n |-> IF k = 0 THEN <<>> ELSE Merged(f[k - 1], sorted[k])]
<1>1. n \in Nat /\ Len(sorted) = n
  BY SortedFacts
<1>2. \E f : f = [k \in 0 .. n |-> IF k = 0 THEN <<>> ELSE Merged(f[k - 1], sorted[k])]
  BY <1>1, MergesExist, Zenon DEF MergesOf
<1>3. g = [k \in 0 .. n |-> IF k = 0 THEN <<>> ELSE Merged(g[k - 1], sorted[k])]
  BY <1>2
<1>4. MergeSpans(S) = g[n]
  BY <1>1 DEF MergeSpans
<1> QED BY <1>3, <1>4 DEF MergesOf

LEMMA MergeSpansFacts ==
    ASSUME NEW e, NEW S, SpansIn(S, e), S # {}
    PROVE  \E x : Ordered(MergeSpans(S), x) /\ \A s \in S : Inside(MergeSpans(S), s)
<1> DEFINE sorted == Sorted(S)
           n == Cardinality(S)
<1>1. PICK f : MergesOf(sorted, n, f) /\ MergeSpans(S) = f[n]
  BY MergesAre
<1>2. /\ n \in Nat /\ n # 0
      /\ \A i \in 1 .. n : sorted[i] \in S
      /\ \A i, j \in 1 .. n : i < j => sorted[i][1] <= sorted[j][1]
      /\ \A s \in S : \E i \in 1 .. n : sorted[i] = s
  <2>1. IsFiniteSet(S)
    BY AheadFewer
  <2>2. n # 0
    BY <2>1, FS_EmptySet
  <2> QED BY <2>2, SortedFacts
<1>3. S \subseteq Nat \X Nat
  BY DEF SpansIn
<1> HIDE DEF sorted, n
<1>4. f[0] = <<>> /\ \A k \in 1 .. n : f[k] = Merged(f[k - 1], sorted[k])
  BY <1>1, <1>2 DEF MergesOf
<1> DEFINE Good(k) == Ordered(f[k], sorted[k][1]) /\ \A i \in 1 .. k : Inside(f[k], sorted[i])
           Bad == {k \in 1 .. n : ~Good(k)}
<1>5. ASSUME Bad # {} PROVE FALSE
  <2>1. Bad \subseteq Nat
    BY <1>2
  <2>2. PICK k \in Bad : \A y \in Bad : k <= y
    BY <1>5, <2>1, LeastIn
  <2>3. k \in 1 .. n /\ ~Good(k)
    BY <2>2
  <2>4. sorted[k] \in Nat \X Nat /\ sorted[k] \in S
    BY <1>2, <1>3, <2>3
  <2>5. f[k - 1] = <<>> \/ Ordered(f[k - 1], sorted[k][1])
    <3>1. CASE k = 1
      BY <1>4, <3>1
    <3>2. CASE k # 1
      <4>1. k - 1 \in 1 .. n /\ k - 1 \notin Bad
        BY <1>2, <2>2, <2>3, <3>2
      <4>2. Ordered(f[k - 1], sorted[k - 1][1])
        BY <4>1
      <4>3. sorted[k - 1][1] <= sorted[k][1]
        BY <1>2, <2>3, <4>1
      <4>4. sorted[k - 1][1] \in Nat /\ sorted[k][1] \in Nat
        BY <1>2, <1>3, <2>3, <4>1
      <4> DEFINE p == f[k - 1]
      <4>5. p \in Seq(Nat \X Nat) /\ Len(p) \in 1 .. Len(p) /\ Len(p) \in Nat \ {0}
        BY <4>2 DEF Ordered
      <4>6. p[Len(p)][1] \in Nat /\ p[Len(p)][1] <= sorted[k - 1][1]
        BY <4>2, <4>5 DEF Ordered
      <4>7. p[Len(p)][1] <= sorted[k][1]
        BY <4>3, <4>4, <4>6
      <4> QED BY <4>2, <4>7 DEF Ordered
    <3> QED BY <3>1, <3>2
  <2>6. f[k] = Merged(f[k - 1], sorted[k])
    BY <1>4, <2>3
  <2>7. /\ Ordered(f[k], sorted[k][1]) /\ Inside(f[k], sorted[k])
        /\ \A o \in Nat \X Nat : f[k - 1] # <<>> /\ Inside(f[k - 1], o) => Inside(f[k], o)
    BY <2>4, <2>5, <2>6, MergedOne
  <2>8. \A i \in 1 .. k : Inside(f[k], sorted[i])
    <3> SUFFICES ASSUME NEW i \in 1 .. k PROVE Inside(f[k], sorted[i])
      OBVIOUS
    <3>1. CASE i = k
      BY <2>7, <3>1
    <3>2. CASE i # k
      <4>1. k - 1 \in 1 .. n /\ k - 1 \notin Bad /\ i \in 1 .. k - 1
        BY <1>2, <2>2, <2>3, <3>2
      <4>2. Inside(f[k - 1], sorted[i]) /\ Ordered(f[k - 1], sorted[k - 1][1])
        BY <4>1
      <4>3. f[k - 1] # <<>>
        BY <4>2 DEF Ordered
      <4>4. sorted[i] \in Nat \X Nat
        BY <1>2, <1>3, <4>1, <2>3
      <4> QED BY <2>7, <4>2, <4>3, <4>4
    <3> QED BY <3>1, <3>2
  <2> QED BY <2>3, <2>7, <2>8
<1>6. n \in 1 .. n
  BY <1>2
<1>7. Good(n)
  BY <1>5, <1>6
<1>8. \A s \in S : Inside(f[n], s)
  BY <1>2, <1>7
<1> QED BY <1>1, <1>7, <1>8

\* Every unit of a shard to build is in a window that the fill walks.
LEMMA WalkCovers ==
    ASSUME now \in Nows, NEW C, C \subseteq Cover(now), NEW s \in C, NEW u \in Cells(s)
    PROVE  \E w \in FillWindows(C) : u \in LargerOf(w[1], Genesis) .. SmallerOf(w[2], now) - 1
<1>1. \A o \in C : /\ From(o, now) \in 0 .. End /\ To(o, now) \in 0 .. End
                   /\ Cells(o) = From(o, now) .. To(o, now) - 1
  <2> SUFFICES ASSUME NEW o \in C
               PROVE  /\ From(o, now) \in 0 .. End /\ To(o, now) \in 0 .. End
                      /\ Cells(o) = From(o, now) .. To(o, now) - 1
    OBVIOUS
  <2>1. o \in Cover(now)
    OBVIOUS
  <2>2. /\ From(o, now) \in Nat /\ From(o, now) < o[3] /\ To(o, now) = o[3] /\ o[3] <= now
        /\ Cells(o) = From(o, now) .. o[3] - 1 /\ o \in FillShards
    BY <2>1, CoverFacts
  <2>3. now \in Nat /\ now <= End /\ End \in Nat /\ o[3] \in Nat
    BY <2>2, Parameters, ShardFacts
  <2> QED BY <2>2, <2>3
<1>2. PICK S : S = {<<From(o, now), To(o, now)>> : o \in C}
  OBVIOUS
<1>3. SpansIn(S, End)
  BY <1>1, <1>2, Parameters DEF SpansIn
<1>4. PICK x : x = <<From(s, now), To(s, now)>>
  OBVIOUS
<1>5. x \in S /\ x[1] = From(s, now) /\ x[2] = To(s, now)
  BY <1>2, <1>4
<1>6. PICK ms : ms = MergeSpans(S)
  OBVIOUS
<1>7. PICK y : Ordered(ms, y) /\ \A o \in S : Inside(ms, o)
  <2>1. S # {}
    BY <1>5
  <2> QED BY <1>3, <1>6, <2>1, MergeSpansFacts
<1>8. PICK j \in DOMAIN ms : ms[j][1] <= x[1] /\ x[2] <= ms[j][2]
  BY <1>5, <1>7 DEF Inside
<1>9. /\ From(s, now) \in Nat /\ To(s, now) \in Nat /\ From(s, now) <= u /\ u < To(s, now)
      /\ u \in Nat /\ Genesis <= u /\ u < now /\ now \in Nat /\ now <= End /\ Genesis \in Nat /\ End \in Nat
  <2>1. From(s, now) \in 0 .. End /\ To(s, now) \in 0 .. End /\ u \in From(s, now) .. To(s, now) - 1
    BY <1>1
  <2>2. Cells(s) \subseteq Genesis .. now - 1
    BY CoverFacts
  <2>3. now \in Nat /\ now <= End /\ Genesis \in Nat /\ End \in Nat
    BY Parameters
  <2> QED BY <2>1, <2>2, <2>3
<1> DEFINE k == u \div FillWindow
<1>10. k \in Nat /\ k * FillWindow <= u /\ u < (k + 1) * FillWindow /\ FillWindow \in Nat \ {0}
  BY <1>9, DivMult, Parameters
<1>11. k \in 0 .. (End - 1) \div FillWindow
  <2>1. End - 1 \in Nat /\ u <= End - 1
    BY <1>9, Parameters
  <2>2. k <= (End - 1) \div FillWindow
    BY <2>1, <1>9, <1>10, DivMono
  <2> QED BY <2>1, <2>2, <1>10
<1> HIDE DEF k
<1>12. PICK w : w = <<k * FillWindow, (k + 1) * FillWindow>>
  OBVIOUS
<1>13. w \in Spans(FillWindow, End)
  BY <1>11, <1>12 DEF Spans
<1>14. w[1] \in Nat /\ w[2] \in Nat /\ w[1] <= u /\ u < w[2]
  BY <1>10, <1>12
<1> DEFINE later == {i \in DOMAIN ms : ms[i][2] > w[1]}
<1>15. Len(ms) \in Nat /\ DOMAIN ms = 1 .. Len(ms) /\ ms \in Seq(Nat \X Nat)
  BY <1>7 DEF Ordered
<1>16. \A i \in DOMAIN ms : ms[i][1] \in Nat /\ ms[i][2] \in Nat
  BY <1>15
<1>17. j \in later
  BY <1>5, <1>8, <1>9, <1>14, <1>16
<1>18. later \subseteq Nat /\ later # {}
  BY <1>15, <1>17
<1>19. Min(later) \in later /\ Min(later) <= j
  BY <1>17, <1>18, LeastIn
<1>20. ms[Min(later)][1] <= ms[j][1]
  <2>1. PICK i \in DOMAIN ms : i = Min(later) /\ i <= j
    BY <1>19
  <2>2. i = j \/ i < j
    BY <2>1, <1>15
  <2>3. ms[i][1] <= ms[j][1]
    <3>1. CASE i = j
      BY <3>1, <1>16
    <3>2. CASE i < j
      BY <3>2, <1>7 DEF Ordered
    <3> QED BY <2>2, <3>1, <3>2
  <2> QED BY <2>1, <2>3
<1>21. ms[Min(later)][1] < w[2]
  <2>1. ms[Min(later)][1] \in Nat /\ ms[j][1] \in Nat
    BY <1>16, <1>19
  <2>2. ms[j][1] <= u
    BY <1>5, <1>8, <1>9, <2>1
  <2> HIDE DEF later
  <2> QED BY <1>9, <1>14, <1>20, <2>1, <2>2
<1>22. w[1] < now
  BY <1>9, <1>14
<1>23. w \in FillWindows(C)
  <2>1. FillWindows(C) = {v \in Spans(FillWindow, End) :
            /\ v[1] < now /\ {i \in DOMAIN ms : ms[i][2] > v[1]} # {}
            /\ ms[Min({i \in DOMAIN ms : ms[i][2] > v[1]})][1] < v[2]}
    BY <1>2, <1>6 DEF FillWindows
  <2> QED BY <2>1, <1>13, <1>18, <1>21, <1>22
<1>24. u \in LargerOf(w[1], Genesis) .. SmallerOf(w[2], now) - 1
  BY <1>9, <1>14 DEF LargerOf, SmallerOf
<1> QED BY <1>23, <1>24

-----------------------------------------------------------------------------
(* What a fill plans *)

LEMMA ModeFacts ==
    ASSUME TypeFill
    PROVE  /\ heldSource \in {"raw", "shards"} /\ strictOpen \in BOOLEAN
           /\ tolerance[1] \in Nat /\ tolerance[2] \in Nat \ {0}
           /\ now \in Nows /\ now \in Nat \ {0} /\ now <= End /\ now \in 1 .. End
           /\ present \subseteq FillTiles
<1>1. <<heldSource, strictOpen, tolerance>> \in Modes /\ now \in Nows /\ present \subseteq FillTiles
  BY DEF TypeFill
<1>2. PICK m \in Modes : m = <<heldSource, strictOpen, tolerance>>
  BY <1>1
<1>3. m \in {"raw", "shards"} \X BOOLEAN \X (Nat \X (Nat \ {0}))
  BY <1>2, HeldAssumption
<1>4. m[1] \in {"raw", "shards"} /\ m[2] \in BOOLEAN /\ m[3][1] \in Nat /\ m[3][2] \in Nat \ {0}
  BY <1>3
<1>5. m[1] = heldSource /\ m[2] = strictOpen /\ m[3] = tolerance
  BY <1>2
<1>6. now \in Nat \ {0} /\ now <= End /\ End \in Nat
  BY <1>1, Parameters
<1> QED BY <1>1, <1>4, <1>5, <1>6

LEMMA RawTilesFinite == heldSource = "raw" => IsFiniteSet(FillTiles)
<1> SUFFICES ASSUME heldSource = "raw" PROVE IsFiniteSet(FillTiles)
  OBVIOUS
<1>1. PICK F : F = FillTiles
  OBVIOUS
<1>2. \A t \in F : t[2] \in 0 .. End - 1
  <2> SUFFICES ASSUME NEW t \in F PROVE t[2] \in 0 .. End - 1
    OBVIOUS
  <2>1. {RawTile} \subseteq Nat \ {0} /\ t \in ShardsOf(0, {RawTile}, End)
    BY <1>1, Parameters DEF FillTiles
  <2>2. t[2] \in Nat /\ t[2] < End
    BY <2>1, ShardShape
  <2> QED BY <2>2, Parameters
<1>3. \A t, o \in F : t[2] = o[2] => t = o
  <2> SUFFICES ASSUME NEW t \in F, NEW o \in F, t[2] = o[2] PROVE t = o
    OBVIOUS
  <2>1. PICK k \in Nat : t = <<0, k * RawTile, (k + 1) * RawTile>> /\ t[2] = k * RawTile
    BY <1>1, RawShape
  <2>2. PICK j \in Nat : o = <<0, j * RawTile, (j + 1) * RawTile>> /\ o[2] = j * RawTile
    BY <1>1, RawShape
  <2>3. RawTile \in Nat \ {0}
    BY Parameters
  <2>4. k * RawTile \in Nat /\ j * RawTile = k * RawTile
    BY <2>1, <2>2, <2>3
  <2>5. k * RawTile < (k + 1) * RawTile /\ j * RawTile < (j + 1) * RawTile
    BY <2>3
  <2>6. j = k
    <3>1. j * RawTile <= k * RawTile /\ k * RawTile < (j + 1) * RawTile /\ k * RawTile <= k * RawTile
      BY <2>4, <2>5
    <3> QED BY <2>3, <2>4, <2>5, <3>1, SamePeriod
  <2> QED BY <2>1, <2>2, <2>6
<1> DEFINE f == [t \in F |-> t[2]]
<1>4. f \in Injection(F, 0 .. End - 1)
  <2>1. f \in [F -> 0 .. End - 1]
    BY <1>2
  <2>2. \A t, o \in F : f[t] = f[o] => t = o
    BY <1>3
  <2> HIDE DEF f
  <2> QED BY <2>1, <2>2 DEF Injection, IsInjective
<1>5. IsFiniteSet(0 .. End - 1)
  BY Parameters, FS_Interval
<1> HIDE DEF f
<1>6. IsFiniteSet(F)
  BY <1>4, <1>5, FS_Injection
<1> QED BY <1>1, <1>6

\* What a fill to `at` may leave out of a raw tile.
RawTileOf(u)    == CHOOSE t \in FillTiles : Holds(t, u)
MayMiss(u, at)  == tolerance[1] > 0 /\ (strictOpen \/ RawTileOf(u)[3] <= at)
Stored(u)       == \E t \in present : Holds(t, u)

LEMMA CandidateFacts ==
    ASSUME NEW s \in Candidates
    PROVE  s \in Cover(now) /\ s \notin Built /\ s \notin Unfillable /\ s \notin Deferred
BY DEF Candidates, Lacking, Outputs

LEMMA PlanSources ==
    ASSUME TypeFill, heldSource # "raw", NEW s \in Candidates
    PROVE  \E t \in present : s[3] <= t[3]
<1> DEFINE E == {Genesis} \cup {SmallerOf(t[3], now) : t \in {t \in present : t[3] > Genesis}}
<1>0. now \in Nat /\ Genesis \in Nat /\ now \in Nows /\ present \subseteq FillTiles
  BY ModeFacts, Parameters
<1>1. PICK X : X = E
  OBVIOUS
<1>2. \A t \in present : t[3] \in Nat
  BY <1>0, TileFacts
<1>3. X \subseteq 0 .. LargerOf(Genesis, now) /\ X # {} /\ LargerOf(Genesis, now) \in Nat
  BY <1>0, <1>1, <1>2 DEF SmallerOf, LargerOf
<1>4. PICK n \in Nat : X \subseteq 0 .. n
  BY <1>3
<1>5. Max(X) \in X
  BY <1>3, <1>4, MaxIn
<1>6. CoverageEnd = Max(X)
  BY <1>1 DEF CoverageEnd
<1>7. s \in Cover(now) /\ s \in Lacking /\ s \notin Unfillable
  BY CandidateFacts DEF Candidates
<1>8. s[3] \in Nat /\ To(s, now) = s[3] /\ Genesis < s[3]
  BY <1>0, <1>7, CoverFacts, ShardFacts
<1>9. ~(To(s, now) > CoverageEnd)
  BY <1>7 DEF Unfillable
<1>10. CoverageEnd \in X /\ CoverageEnd \in Nat
  <2>1. X \subseteq Nat
    BY <1>4
  <2>2. CoverageEnd \in X
    BY <1>5, <1>6
  <2> QED BY <2>1, <2>2
<1>11. s[3] <= CoverageEnd /\ CoverageEnd # Genesis
  BY <1>0, <1>8, <1>9, <1>10
<1>12. PICK t \in present : CoverageEnd = SmallerOf(t[3], now)
  BY <1>1, <1>10, <1>11
<1>13. CoverageEnd <= t[3]
  BY <1>0, <1>2, <1>12 DEF SmallerOf
<1>14. s[3] <= t[3]
  BY <1>2, <1>8, <1>10, <1>11, <1>13
<1> QED BY <1>14

LEMMA PlanRaw ==
    ASSUME TypeFill, heldSource = "raw", Held = {}, NEW s \in Candidates, NEW u \in Cells(s), ~Stored(u)
    PROVE  MayMiss(u, now)
<1>0. /\ now \in Nat /\ now \in Nows /\ present \subseteq FillTiles /\ now <= End
      /\ tolerance[1] \in Nat /\ tolerance[2] \in Nat \ {0}
  BY ModeFacts
<1>1. s \in Cover(now) /\ s \notin Deferred /\ s \in Lacking
  BY CandidateFacts DEF Candidates
<1>2. /\ s \in FillShards /\ s[3] <= now /\ To(s, now) = s[3] /\ Genesis < s[3] /\ s[3] \in Nat
      /\ From(s, now) \in Nat /\ u \in From(s, now) .. s[3] - 1 /\ Genesis <= u
      /\ u \in Nat /\ u < End /\ u < s[3]
  <2>1. /\ s \in FillShards /\ s[3] <= now /\ To(s, now) = s[3] /\ Genesis < s[3]
        /\ From(s, now) \in Nat /\ Cells(s) = From(s, now) .. s[3] - 1
        /\ Cells(s) \subseteq Genesis .. now - 1 /\ Cells(s) \subseteq 0 .. End - 1
    BY <1>0, <1>1, CoverFacts
  <2>2. s[3] \in Nat /\ End \in Nat /\ Genesis \in Nat
    BY <2>1, ShardFacts, Parameters
  <2> QED BY <2>1, <2>2
<1>3. PICK t \in FillTiles : Holds(t, u) /\ t = RawTileOf(u)
  BY <1>0, <1>2, RawAt DEF RawTileOf
<1>4. t[2] \in Nat /\ t[3] \in Nat /\ t[2] <= u /\ u < t[3]
  BY <1>3, TileFacts DEF Holds
<1>5. t \in Needed
  <2>1. t[2] < now /\ t[3] > Genesis
    BY <1>0, <1>2, <1>4, Parameters
  <2> QED BY <2>1 DEF Needed
<1>6. Overlap(s, t)
  <2>1. From(s, now) < t[3] /\ s[3] > t[2]
    BY <1>2, <1>4
  <2> QED BY <1>2, <2>1 DEF Overlap
<1>7. t \in Absent
  BY <1>3, <1>5 DEF Absent, Stored
<1>8. t \notin AbsentOpen
  BY <1>1, <1>6 DEF Deferred
<1>9. strictOpen \/ t[3] <= now
  BY <1>0, <1>4, <1>7, <1>8 DEF AbsentOpen, OpenTile
<1>10. t \in HeldTiles
  BY <1>5, <1>6, <1>7, <1>8 DEF HeldTiles, AbsentClosed, TilesRead
<1>11. tolerance[1] > 0
  <2> SUFFICES ASSUME tolerance[1] = 0 PROVE FALSE
    BY <1>0
  <2>1. PICK F, H, R : F = FillTiles /\ H = HeldTiles /\ R = TilesRead
    OBVIOUS
  <2>2. H \in SUBSET F /\ R \in SUBSET F
    BY <2>1 DEF HeldTiles, TilesRead, Needed
  <2>3. IsFiniteSet(F)
    BY <2>1, RawTilesFinite
  <2>4. IsFiniteSet(H) /\ IsFiniteSet(R)
    BY <2>2, <2>3, FS_Subset
  <2>5. Cardinality(H) \in Nat /\ Cardinality(R) \in Nat /\ Cardinality(H) # 0
    BY <1>10, <2>1, <2>4, FS_CardinalityType, FS_EmptySet
  <2> DEFINE h == Cardinality(H)
             r == Cardinality(R)
             d == tolerance[2]
  <2>6. h \in Nat /\ h # 0 /\ r \in Nat /\ d \in Nat \ {0}
    BY <1>0, <2>5
  <2> HIDE DEF h, r, d
  <2>7. h * d > 0 * r
    BY <2>6
  <2>8. TooMany(Cardinality(HeldTiles), Cardinality(TilesRead))
    BY <2>1, <2>7 DEF TooMany, h, r, d
  <2>9. s \in Held
    BY <1>6, <1>10, <2>8 DEF Held
  <2> QED BY <2>9
<1> QED BY <1>3, <1>9, <1>11 DEF MayMiss

-----------------------------------------------------------------------------
(* The invariant of a fill *)

\* What the steps of a fill keep in order.
Steps ==
    /\ fill = "idle" => unwritten = {} /\ heldRows = {}
    /\ fill = "walk" => fresh = {}
    /\ fill = "write" => heldRows = Readable
    /\ \A t \in present : t[2] < now

\* The shards to write are missing, their units are walked, and over stored
\* shards the source reaches as far as they do.
Reaches(s) == heldSource # "raw" => \E t \in present : s[3] <= t[3]
TodoRead ==
    \A s \in unwritten : s \in Cover(now) /\ s \notin Built /\ Cells(s) \subseteq walk /\ Reaches(s)
\* The units without a raw tile are those the fill may do without.
TodoMayMiss ==
    heldSource = "raw" => \A s \in unwritten : \A u \in Cells(s) : Stored(u) \/ MayMiss(u, now)
BuiltMayMiss ==
    \A b \in built : /\ Cells(b.shard) \subseteq 0 .. End - 1 /\ b.units \subseteq Cells(b.shard)
                     /\ heldSource = "raw" => \A u \in Cells(b.shard) \ b.units : MayMiss(u, b.at)
\* What this fill wrote holds all that it read.
FreshRead ==
    fill = "write" =>
        \A b \in built : b.shard \in fresh =>
            /\ b.units = Cells(b.shard) \cap heldRows /\ Cells(b.shard) \subseteq walk
            /\ Reaches(b.shard) /\ \A u \in Cells(b.shard) : u < b.shard[3]
FreshWhole ==
    (heldSource # "raw" /\ tolerance[1] = 0 /\ fill = "idle" /\ heldVerdict = "ok") =>
        \A b \in built : b.shard \in fresh => b.units = Cells(b.shard)

FillInv == TypeFill /\ Steps /\ TodoRead /\ TodoMayMiss /\ BuiltMayMiss /\ FreshRead /\ FreshWhole

LEMMA InitFillInv == InitFill => FillInv
<1> SUFFICES ASSUME InitFill PROVE FillInv
  OBVIOUS
<1>1. <<heldSource, strictOpen, tolerance>> \in Modes
  <2>1. PICK m \in Modes : heldSource = m[1] /\ strictOpen = m[2] /\ tolerance = m[3]
    BY DEF InitFill
  <2>2. m \in {"raw", "shards"} \X BOOLEAN \X (Nat \X (Nat \ {0}))
    BY HeldAssumption
  <2>3. m = <<m[1], m[2], m[3]>>
    BY <2>2
  <2> QED BY <2>1, <2>3
<1>2. now \in Nows
  <2>1. Nows \subseteq Nat /\ Nows # {}
    BY Parameters, HeldAssumption
  <2> QED BY <2>1, LeastIn DEF InitFill
<1>3. /\ present = {} /\ built = {} /\ fill = "idle" /\ unwritten = {} /\ walk = {} /\ heldRows = {}
      /\ fresh = {} /\ heldVerdict = "none" /\ fillFaults = 0
  BY DEF InitFill
<1>4. TypeFill
  BY <1>1, <1>2, <1>3, Parameters DEF TypeFill, Built
<1> QED BY <1>3, <1>4 DEF FillInv, Steps, TodoRead, TodoMayMiss, BuiltMayMiss, FreshRead, FreshWhole

LEMMA AdvanceInv == ASSUME FillInv, Advance PROVE FillInv'
<1>1. /\ fill = "idle" /\ now' \in Nows /\ now < now' /\ unwritten = {} /\ heldRows = {}
      /\ UNCHANGED <<heldSource, strictOpen, tolerance, present, built, fill, unwritten, walk, heldRows, fresh,
                     heldVerdict, fillFaults>>
  BY DEF Advance, FillInv, Steps
<1>2. now \in Nat /\ now' \in Nat
  BY <1>1, ModeFacts, Parameters DEF FillInv
<1>3. TypeFill'
  <2>1. TypeFill
    BY DEF FillInv
  <2>2. Genesis .. now - 1 \subseteq Genesis .. now' - 1
    BY <1>1, <1>2, Parameters
  <2> QED BY <1>1, <2>1, <2>2 DEF TypeFill, Built, FillTiles
<1>4. Steps'
  <2> SUFFICES ASSUME NEW t \in present PROVE t[2] < now'
    BY <1>1 DEF Steps
  <2>1. t[2] \in Nat /\ t[2] < now
    BY ModeFacts, TileFacts DEF FillInv, Steps
  <2> QED BY <1>1, <1>2, <2>1
<1>5. TodoRead' /\ TodoMayMiss'
  BY <1>1 DEF TodoRead, TodoMayMiss
<1>6. BuiltMayMiss' /\ FreshRead' /\ FreshWhole'
  BY <1>1 DEF FillInv, BuiltMayMiss, FreshRead, FreshWhole, Cells, MayMiss, RawTileOf, FillTiles
<1> QED BY <1>3, <1>4, <1>5, <1>6 DEF FillInv

LEMMA ArriveInv == ASSUME FillInv, NEW t0 \in FillTiles, Arrive(t0) PROVE FillInv'
<1>1. /\ fill # "write" /\ t0[2] < now /\ present' = present \cup {t0}
      /\ UNCHANGED <<heldSource, strictOpen, tolerance, now, built, fill, unwritten, walk, heldRows, fresh,
                     heldVerdict, fillFaults>>
  BY DEF Arrive
<1>2. TypeFill'
  BY <1>1 DEF FillInv, TypeFill, Built, FillTiles
<1>3. Steps'
  BY <1>1 DEF FillInv, Steps
<1>4. TodoRead'
  BY <1>1 DEF FillInv, TodoRead, Cover, Built, Cells, Reaches
<1>5. TodoMayMiss'
  BY <1>1 DEF FillInv, TodoMayMiss, Cells, MayMiss, RawTileOf, FillTiles, Stored
<1>6. BuiltMayMiss' /\ FreshRead' /\ FreshWhole'
  BY <1>1 DEF FillInv, BuiltMayMiss, FreshRead, FreshWhole, Cells, MayMiss, RawTileOf, FillTiles
<1> QED BY <1>2, <1>3, <1>4, <1>5, <1>6 DEF FillInv

LEMMA InvalidatedInv == ASSUME FillInv, NEW v \in 0 .. End - 1, Invalidated(v) PROVE FillInv'
<1> DEFINE stale == {b \in built : b.shard \in Outputs(now) /\ v \in Cells(b.shard)}
<1>1. /\ fill = "idle" /\ built' = built \ stale /\ fillFaults' = fillFaults + 1 /\ fillFaults < MaxFillFaults
      /\ fresh' = fresh \ {b.shard : b \in stale}
      /\ UNCHANGED <<heldSource, strictOpen, tolerance, now, present, fill, unwritten, walk, heldRows, heldVerdict>>
  BY DEF Invalidated
<1> HIDE DEF stale
<1>2. unwritten = {}
  BY <1>1 DEF FillInv, Steps
<1>3. TypeFill'
  <2>1. TypeFill
    BY DEF FillInv
  <2>2. (fresh \subseteq Built)'
    BY <1>1, <2>1 DEF TypeFill, Built
  <2>3. fillFaults' \in 0 .. MaxFillFaults
    BY <1>1, <2>1, Parameters DEF TypeFill
  <2> QED BY <1>1, <2>1, <2>2, <2>3 DEF TypeFill, FillTiles
<1>4. Steps' /\ TodoRead' /\ TodoMayMiss'
  BY <1>1, <1>2 DEF FillInv, Steps, TodoRead, TodoMayMiss
<1>5. BuiltMayMiss' /\ FreshRead' /\ FreshWhole'
  BY <1>1 DEF FillInv, BuiltMayMiss, FreshRead, FreshWhole, Cells, MayMiss, RawTileOf, FillTiles
<1> QED BY <1>3, <1>4, <1>5 DEF FillInv

LEMMA PlanFillInv == ASSUME FillInv, PlanFill PROVE FillInv'
<1>1. /\ fill = "idle" /\ fresh' = {}
      /\ UNCHANGED <<heldSource, strictOpen, tolerance, now, present, built, heldRows, fillFaults>>
  BY DEF PlanFill
<1>0. TypeFill
  BY DEF FillInv
<1>2. CASE Held # {}
  <2>1. heldVerdict' = "held" /\ UNCHANGED <<fill, unwritten, walk>>
    BY <1>2 DEF PlanFill
  <2>2. TypeFill'
    BY <1>0, <1>1, <2>1 DEF TypeFill, Built, FillTiles
  <2>3. Steps' /\ TodoRead' /\ TodoMayMiss'
    BY <1>1, <2>1 DEF FillInv, Steps, TodoRead, TodoMayMiss
  <2>4. BuiltMayMiss' /\ FreshRead' /\ FreshWhole'
    BY <1>1, <2>1 DEF FillInv, BuiltMayMiss, FreshRead, FreshWhole, Cells, MayMiss, RawTileOf, FillTiles
  <2> QED BY <2>2, <2>3, <2>4 DEF FillInv
<1>3. CASE Held = {}
  <2>1. /\ unwritten' = Candidates /\ fill' = "walk" /\ heldVerdict' = "none"
        /\ walk' = UNION {LargerOf(w[1], Genesis) .. SmallerOf(w[2], now) - 1 : w \in FillWindows(Candidates)}
    BY <1>3 DEF PlanFill
  <2>2. now \in Nows /\ now \in Nat /\ Genesis \in Nat
    BY <1>0, ModeFacts, Parameters
  <2>3. PICK C : C = Candidates
    OBVIOUS
  <2>4. C \subseteq Cover(now) /\ \A s \in C : s \notin Built
    BY <2>3, CandidateFacts
  <2>5. walk' \subseteq Genesis .. now - 1
    <3> SUFFICES ASSUME NEW w \in FillWindows(C), NEW u \in LargerOf(w[1], Genesis) .. SmallerOf(w[2], now) - 1
                 PROVE  u \in Genesis .. now - 1
      BY <2>1, <2>3
    <3>1. w \in Spans(FillWindow, End)
      BY DEF FillWindows
    <3>2. PICK k \in 0 .. (End - 1) \div FillWindow : w = <<k * FillWindow, (k + 1) * FillWindow>>
      BY <3>1 DEF Spans
    <3>3. End - 1 \in Nat /\ FillWindow \in Nat \ {0}
      BY Parameters
    <3>4. k \in Nat
      BY <3>3, DivMult
    <3>5. w[1] \in Nat /\ w[2] \in Nat
      BY <3>2, <3>3, <3>4
    <3> QED BY <2>2, <3>5 DEF LargerOf, SmallerOf
  <2>6. TypeFill'
    <3>1. unwritten' \subseteq FillShards
      BY <2>1, <2>3, <2>4 DEF Cover, MinCover
    <3>2. heldRows = {}
      BY <1>0, <1>1 DEF FillInv, Steps, TypeFill
    <3> QED BY <1>0, <1>1, <2>1, <2>5, <3>1, <3>2 DEF TypeFill, Built, FillTiles
  <2>7. Steps'
    BY <1>1, <2>1 DEF FillInv, Steps
  <2>8. TodoRead'
    <3> SUFFICES ASSUME NEW s \in C
                 PROVE  s \in Cover(now) /\ s \notin Built /\ Cells(s) \subseteq walk' /\ Reaches(s)
      BY <1>1, <2>1, <2>3 DEF TodoRead, Cover, Built, Cells, Reaches
    <3>1. Cells(s) \subseteq walk'
      <4> SUFFICES ASSUME NEW u \in Cells(s) PROVE u \in walk'
        OBVIOUS
      <4>1. \E w \in FillWindows(C) : u \in LargerOf(w[1], Genesis) .. SmallerOf(w[2], now) - 1
        BY <2>2, <2>4, WalkCovers
      <4> QED BY <2>1, <2>3, <4>1
    <3>2. Reaches(s)
      BY <1>0, <2>3, PlanSources DEF Reaches
    <3> QED BY <2>4, <3>1, <3>2
  <2>9. TodoMayMiss'
    <3> SUFFICES ASSUME heldSource = "raw", NEW s \in C, NEW u \in Cells(s)
                 PROVE  Stored(u) \/ MayMiss(u, now)
      BY <1>1, <2>1, <2>3 DEF TodoMayMiss, Cells, MayMiss, RawTileOf, FillTiles, Stored
    <3> QED BY <1>0, <1>3, <2>3, PlanRaw
  <2>10. BuiltMayMiss' /\ FreshRead' /\ FreshWhole'
    BY <1>1, <2>1 DEF FillInv, BuiltMayMiss, FreshRead, FreshWhole, Cells, MayMiss, RawTileOf, FillTiles
  <2> QED BY <2>6, <2>7, <2>8, <2>9, <2>10 DEF FillInv
<1> QED BY <1>2, <1>3

LEMMA WalkWindowsInv == ASSUME FillInv, WalkWindows PROVE FillInv'
<1>1. /\ fill = "walk" /\ fill' = "write" /\ heldRows' = Readable
      /\ UNCHANGED <<heldSource, strictOpen, tolerance, now, present, built, unwritten, walk, fresh,
                     heldVerdict, fillFaults>>
  BY DEF WalkWindows
<1>2. TypeFill'
  <2>1. Readable \subseteq walk
    BY DEF Readable
  <2> QED BY <1>1, <2>1 DEF FillInv, TypeFill, Built, FillTiles
<1>3. Steps'
  BY <1>1 DEF FillInv, Steps, Readable
<1>4. TodoRead'
  BY <1>1 DEF FillInv, TodoRead, Cover, Built, Cells, Reaches
<1>5. TodoMayMiss'
  BY <1>1 DEF FillInv, TodoMayMiss, Cells, MayMiss, RawTileOf, FillTiles, Stored
<1>6. BuiltMayMiss'
  BY <1>1 DEF FillInv, BuiltMayMiss, Cells, MayMiss, RawTileOf, FillTiles
<1>7. FreshRead' /\ FreshWhole'
  <2>1. fresh' = {}
    BY <1>1 DEF FillInv, Steps
  <2> QED BY <1>1, <2>1 DEF FreshRead, FreshWhole
<1> QED BY <1>2, <1>3, <1>4, <1>5, <1>6, <1>7 DEF FillInv

LEMMA WriteFilledInv == ASSUME FillInv, NEW s \in unwritten, WriteFilled(s) PROVE FillInv'
<1> DEFINE b0 == [shard |-> s, units |-> Cells(s) \cap heldRows, at |-> now]
<1>1. /\ fill = "write" /\ built' = built \cup {b0} /\ unwritten' = unwritten \ {s} /\ fresh' = fresh \cup {s}
      /\ UNCHANGED <<heldSource, strictOpen, tolerance, now, present, fill, walk, heldRows, heldVerdict, fillFaults>>
  BY DEF WriteFilled
<1>2. /\ s \in Cover(now) /\ s \notin Built /\ Cells(s) \subseteq walk /\ Reaches(s)
  BY DEF FillInv, TodoRead
<1>3. now \in Nows /\ now \in 1 .. End
  BY ModeFacts DEF FillInv
<1>4. s \in FillShards /\ Cells(s) \subseteq 0 .. End - 1 /\ Genesis < s[3]
  BY <1>2, <1>3, CoverFacts
<1>5. b0.shard = s /\ b0.units = Cells(s) \cap heldRows /\ b0.at = now
  OBVIOUS
<1>6. b0 \in [shard : FillShards, units : SUBSET (0 .. End - 1), at : 1 .. End]
  BY <1>3, <1>4
<1> HIDE DEF b0
<1>7. Built' = Built \cup {s}
  BY <1>1, <1>5 DEF Built
<1>8. TypeFill'
  BY <1>1, <1>6, <1>7 DEF FillInv, TypeFill, FillTiles
<1>9. Steps'
  BY <1>1 DEF FillInv, Steps, Readable
<1>10. TodoRead'
  <2> SUFFICES ASSUME NEW o \in unwritten, o # s
               PROVE  o \in Cover(now) /\ o \notin Built' /\ Cells(o) \subseteq walk /\ Reaches(o)
    BY <1>1 DEF TodoRead, Cover, Cells, Reaches
  <2> QED BY <1>7 DEF FillInv, TodoRead
<1>11. TodoMayMiss'
  BY <1>1 DEF FillInv, TodoMayMiss, Cells, MayMiss, RawTileOf, FillTiles, Stored
<1>12. BuiltMayMiss'
  <2> SUFFICES ASSUME NEW b \in built'
               PROVE  /\ Cells(b.shard) \subseteq 0 .. End - 1 /\ b.units \subseteq Cells(b.shard)
                      /\ heldSource = "raw" => \A u \in Cells(b.shard) \ b.units : MayMiss(u, b.at)
    BY <1>1 DEF BuiltMayMiss, Cells, MayMiss, RawTileOf, FillTiles
  <2>1. CASE b \in built
    BY <2>1 DEF FillInv, BuiltMayMiss
  <2>2. CASE b = b0
    <3>1. ASSUME heldSource = "raw", NEW u \in Cells(s), u \notin heldRows PROVE MayMiss(u, now)
      <4>1. u \in walk /\ heldRows = Readable
        BY <1>1, <1>2 DEF FillInv, Steps
      <4>2. ~Stored(u)
        BY <3>1, <4>1 DEF Readable, Stored
      <4> QED BY <3>1, <4>2 DEF FillInv, TodoMayMiss
    <3> QED BY <1>4, <1>5, <2>2, <3>1
  <2> QED BY <1>1, <2>1, <2>2
<1>13. FreshRead'
  <2> SUFFICES ASSUME NEW b \in built', b.shard \in fresh'
               PROVE  /\ b.units = Cells(b.shard) \cap heldRows /\ Cells(b.shard) \subseteq walk
                      /\ Reaches(b.shard) /\ \A u \in Cells(b.shard) : u < b.shard[3]
    BY <1>1 DEF FreshRead, Cells, Reaches
  <2>1. CASE b \in built
    <3>1. b.shard \in Built
      BY <2>1 DEF Built
    <3>2. b.shard \in fresh
      BY <1>1, <1>2, <3>1
    <3> QED BY <1>1, <2>1, <3>2 DEF FillInv, FreshRead
  <2>2. CASE b = b0
    <3>1. \A u \in Cells(s) : u < s[3]
      BY <1>4, CellFacts
    <3> QED BY <1>2, <1>5, <2>2, <3>1
  <2> QED BY <1>1, <2>1, <2>2
<1>14. FreshWhole'
  BY <1>1 DEF FreshWhole
<1> QED BY <1>8, <1>9, <1>10, <1>11, <1>12, <1>13, <1>14 DEF FillInv

\* A fill that ends well at tolerance 0 has read every unit of what it wrote: a
\* unit it could not read would have an open tile, which the source that reaches
\* past the shard has over.
LEMMA ReadWhole ==
    ASSUME FillInv, JudgeFill, heldSource # "raw", tolerance[1] = 0, heldVerdict' = "ok",
           NEW b \in built, b.shard \in fresh
    PROVE  b.units = Cells(b.shard)
<1> DEFINE closed == {u \in walk : strictOpen \/ ~OpenTile(TileOf(u))}
           holes  == {TileOf(u) : u \in closed \ heldRows}
           judged == {TileOf(u) : u \in closed}
<1>1. /\ fill = "write"
      /\ heldVerdict' = IF TooMany(Cardinality(holes), Cardinality(judged)) THEN "coverage" ELSE "ok"
  BY Zenon DEF JudgeFill
<1>2. ~TooMany(Cardinality(holes), Cardinality(judged))
  BY <1>1
<1>3. /\ now \in Nat /\ now <= End /\ tolerance[2] \in Nat \ {0} /\ present \subseteq FillTiles
      /\ walk \subseteq Genesis .. now - 1 /\ Genesis \in Nat /\ End \in Nat
  BY ModeFacts, Parameters DEF FillInv, TypeFill
<1>4. PICK X, Y, H, J : X = closed \ heldRows /\ Y = closed /\ H = holes /\ J = judged
  OBVIOUS
<1>5. PICK g : g = [u \in Y |-> TileOf(u)]
  OBVIOUS
<1>6. IsFiniteSet(Y) /\ IsFiniteSet(X)
  <2>1. IsFiniteSet(Genesis .. now - 1)
    <3>1. PICK n \in Int : n = now - 1
      BY <1>3
    <3>2. IsFiniteSet(Genesis .. n)
      BY <1>3, FS_Interval
    <3> QED BY <3>1, <3>2
  <2>2. PICK Z : Z = Genesis .. now - 1
    OBVIOUS
  <2>3. Y \in SUBSET Z /\ X \in SUBSET Y
    BY <1>3, <1>4, <2>2
  <2> QED BY <2>1, <2>2, <2>3, FS_Subset
<1>7. H = {g[u] : u \in X} /\ J = {g[u] : u \in Y} /\ X \subseteq Y /\ DOMAIN g = Y
  BY <1>4, <1>5
<1>8. IsFiniteSet(J) /\ IsFiniteSet(H)
  <2>1. g \in Surjection(Y, J)
    BY <1>5, <1>7 DEF Surjection
  <2>2. IsFiniteSet(J)
    BY <1>6, <2>1, FS_Surjection
  <2>3. H \in SUBSET J
    BY <1>7
  <2> QED BY <2>2, <2>3, FS_Subset
<1>9. X = {}
  <2> SUFFICES ASSUME X # {} PROVE FALSE
    OBVIOUS
  <2>1. H # {}
    BY <1>7
  <2>2. Cardinality(H) \in Nat /\ Cardinality(J) \in Nat /\ Cardinality(H) # 0
    BY <1>8, <2>1, FS_CardinalityType, FS_EmptySet
  <2> DEFINE h == Cardinality(H)
             j == Cardinality(J)
             d == tolerance[2]
  <2>3. h \in Nat /\ h # 0 /\ j \in Nat /\ d \in Nat \ {0}
    BY <1>3, <2>2
  <2> HIDE DEF h, j, d
  <2>4. h * d > 0 * j
    BY <2>3
  <2>5. TooMany(Cardinality(H), Cardinality(J))
    BY <2>4 DEF TooMany, h, j, d
  <2> QED BY <1>2, <1>4, <2>5
<1>10. \A u \in walk : u \notin heldRows => TileOf(u)[3] > now
  BY <1>4, <1>9 DEF OpenTile
<1> HIDE DEF closed, holes, judged
<1>11. /\ b.units = Cells(b.shard) \cap heldRows /\ Cells(b.shard) \subseteq walk
       /\ heldRows = Readable /\ \A u \in Cells(b.shard) : u < b.shard[3]
       /\ b.shard \in FillShards
  BY <1>1 DEF FillInv, FreshRead, Steps, TypeFill
<1>12. PICK t \in present : b.shard[3] <= t[3]
  BY <1>1 DEF FillInv, FreshRead, Reaches
<1>13. ASSUME NEW u \in Cells(b.shard), u \notin heldRows PROVE FALSE
  <2>0. u \in walk
    BY <1>11
  <2>1. u \in walk /\ u \in Nat /\ u < End
    BY <1>3, <2>0
  <2>2. \A o \in present : ~Holds(o, u)
    BY <1>11, <1>13, <2>1 DEF Readable
  <2>3. t[3] \in Nat /\ b.shard[3] \in Nat /\ t[2] < now
    BY <1>3, <1>11, TileFacts, ShardFacts DEF FillInv, Steps
  <2>4. u < t[3]
    BY <1>11, <1>12, <2>1, <2>3
  <2>5. TileOf(u)[3] \in Nat /\ TileOf(u)[3] <= t[2] /\ t[2] \in Nat
    BY <1>3, <2>1, <2>2, <2>4, FinestEnds
  <2>6. TileOf(u)[3] > now
    BY <1>10, <1>13, <2>1
  <2> QED BY <1>3, <2>3, <2>5, <2>6
<1> QED BY <1>11, <1>13

LEMMA FillOverInv ==
    ASSUME FillInv, FillOver, UNCHANGED fresh,
           heldVerdict' \in {"none", "held", "died", "coverage", "ok"}, fillFaults' \in 0 .. MaxFillFaults,
           heldSource # "raw" /\ tolerance[1] = 0 /\ heldVerdict' = "ok" =>
               \A b \in built : b.shard \in fresh => b.units = Cells(b.shard)
    PROVE  FillInv'
<1>1. /\ fill' = "idle" /\ unwritten' = {} /\ walk' = {} /\ heldRows' = {} /\ fresh' = fresh
      /\ UNCHANGED <<heldSource, strictOpen, tolerance, now, present, built>>
  BY DEF FillOver
<1>2. TypeFill'
  BY <1>1 DEF FillInv, TypeFill, Built, FillTiles
<1>3. Steps' /\ TodoRead' /\ TodoMayMiss' /\ FreshRead'
  BY <1>1 DEF FillInv, Steps, TodoRead, TodoMayMiss, FreshRead
<1>4. BuiltMayMiss'
  BY <1>1 DEF FillInv, BuiltMayMiss, Cells, MayMiss, RawTileOf, FillTiles
<1>5. FreshWhole'
  BY <1>1 DEF FreshWhole, Cells
<1> QED BY <1>2, <1>3, <1>4, <1>5 DEF FillInv

LEMMA NextFillInv == FillInv /\ [NextFill]_fillVars => FillInv'
<1> SUFFICES ASSUME FillInv, [NextFill]_fillVars PROVE FillInv'
  OBVIOUS
<1>1. CASE Advance
  BY <1>1, AdvanceInv
<1>2. CASE \E t \in FillTiles : Arrive(t)
  BY <1>2, ArriveInv
<1>3. CASE \E u \in 0 .. End - 1 : Invalidated(u)
  BY <1>3, InvalidatedInv
<1>4. CASE PlanFill
  BY <1>4, PlanFillInv
<1>5. CASE WalkWindows
  BY <1>5, WalkWindowsInv
<1>6. CASE \E s \in unwritten : WriteFilled(s)
  BY <1>6, WriteFilledInv
<1>7. CASE JudgeFill
  <2>1. FillOver /\ UNCHANGED fresh /\ UNCHANGED fillFaults
    BY <1>7 DEF JudgeFill
  <2>2. heldVerdict' \in {"none", "held", "died", "coverage", "ok"}
    BY <1>7 DEF JudgeFill
  <2>3. fillFaults' \in 0 .. MaxFillFaults
    BY <2>1 DEF FillInv, TypeFill
  <2>4. heldSource # "raw" /\ tolerance[1] = 0 /\ heldVerdict' = "ok" =>
            \A b \in built : b.shard \in fresh => b.units = Cells(b.shard)
    BY <1>7, ReadWhole
  <2> QED BY <2>1, <2>2, <2>3, <2>4, FillOverInv
<1>8. CASE FillDies
  <2>1. FillOver /\ UNCHANGED fresh /\ heldVerdict' = "died" /\ fillFaults < MaxFillFaults
        /\ fillFaults' = fillFaults + 1
    BY <1>8 DEF FillDies
  <2>2. fillFaults' \in 0 .. MaxFillFaults
    BY <2>1, Parameters DEF FillInv, TypeFill
  <2> QED BY <2>1, <2>2, FillOverInv
<1>9. CASE UNCHANGED fillVars
  <2>1. UNCHANGED <<heldSource, strictOpen, tolerance, now, present, built, fill, unwritten, walk, heldRows,
                    fresh, heldVerdict, fillFaults>>
    BY <1>9 DEF fillVars
  <2>2. TypeFill'
    BY <2>1 DEF FillInv, TypeFill, FillTiles, Built
  <2>3. Steps'
    BY <2>1 DEF FillInv, Steps, Readable, FillTiles
  <2>4. TodoRead'
    BY <2>1 DEF FillInv, TodoRead, Built, Reaches
  <2>5. TodoMayMiss' /\ BuiltMayMiss'
    BY <2>1 DEF FillInv, TodoMayMiss, BuiltMayMiss, MayMiss, RawTileOf, Stored, FillTiles
  <2>6. FreshRead' /\ FreshWhole'
    BY <2>1 DEF FillInv, FreshRead, FreshWhole, Reaches
  <2> QED BY <2>2, <2>3, <2>4, <2>5, <2>6 DEF FillInv
<1> QED BY <1>1, <1>2, <1>3, <1>4, <1>5, <1>6, <1>7, <1>8, <1>9 DEF NextFill

LEMMA FillAlways == SpecFill => []FillInv
<1> QED BY InitFillInv, NextFillInv, PTL DEF SpecFill

(* The fills keep their types: the shards a fill writes are shards of the    *)
(* ladder, the units it walks lie in its range, and what it read is what it  *)
(* walked (build_local).                                                     *)
THEOREM FillTypes == SpecFill => []TypeFill
<1>1. FillInv => TypeFill
  BY DEF FillInv
<1> QED BY <1>1, FillAlways, PTL

(* No shard has a hole that its fill was not told to do without: over raw    *)
(* tiles a shard lacks only units of closed tiles within the tolerance, none *)
(* at tolerance 0; over stored shards what a fill that ends well at          *)
(* tolerance 0 wrote is whole (build_local, its windows and its deferrals).  *)
THEOREM NoQuietHoleHolds == SpecFill => []NoQuietHole
<1>1. FillInv => NoQuietHole
  <2> SUFFICES ASSUME FillInv, NEW b \in built, b.units # Cells(b.shard)
               PROVE  IF heldSource = "raw"
                      THEN tolerance[1] > 0 /\ \A u \in Cells(b.shard) \ b.units :
                              strictOpen \/ TileOf(u)[3] <= b.at
                      ELSE tolerance[1] = 0 => ~(b.shard \in fresh /\ fill = "idle" /\ heldVerdict = "ok")
    BY DEF NoQuietHole
  <2>1. CASE heldSource = "raw"
    <3>1. Cells(b.shard) \subseteq 0 .. End - 1 /\ \A u \in Cells(b.shard) \ b.units : MayMiss(u, b.at)
      BY <2>1 DEF FillInv, BuiltMayMiss
    <3>2. ASSUME NEW u \in Cells(b.shard) PROVE TileOf(u) = RawTileOf(u)
      <4>1. present \subseteq FillTiles /\ End \in Nat /\ u \in 0 .. End - 1
        BY <3>1, Parameters, ModeFacts DEF FillInv
      <4>2. u \in Nat /\ u < End
        BY <4>1
      <4> QED BY <2>1, <4>1, <4>2, RawAt DEF RawTileOf
    <3>3. Cells(b.shard) \ b.units # {}
      BY DEF FillInv, BuiltMayMiss
    <3> QED BY <2>1, <3>1, <3>2, <3>3 DEF MayMiss
  <2>2. CASE heldSource # "raw"
    BY <2>2 DEF FillInv, FreshWhole
  <2> QED BY <2>1, <2>2
<1> QED BY <1>1, FillAlways, PTL

(***************************************************************************)
(* The streaming producer.                                                 *)
(***************************************************************************)
\* Batches and their bins.
LEMMA BatchFacts ==
    /\ Len(TipBatches) \in Nat /\ DOMAIN TipBatches = 1 .. Len(TipBatches)
    /\ \A i \in 1 .. Len(TipBatches) :
          /\ DOMAIN TipBatches[i] \subseteq TipBins /\ DOMAIN TipBatches[i] # {}
          /\ \A b \in DOMAIN TipBatches[i] : TipBatches[i][b] \in Nat \ {0}
BY TipAssumption

\* A set of numbers that is not empty has a first, and a last if it is bounded.
LEMMA FirstIn ==
    ASSUME NEW S, S \subseteq Nat, S # {}
    PROVE  FirstBin(S) \in S /\ \A o \in S : FirstBin(S) <= o
<1>1. PICK x \in S : \A y \in S : ~(<<y, x>> \in OpToRel(<, Nat))
  BY NatLessThanWellFounded, WFMin
<1>2. \A y \in S : ~(y < x)
  BY <1>1, Zenon DEF OpToRel
<1>3. \A y \in S : x <= y
  BY <1>2
<1> QED BY <1>3 DEF FirstBin

LEMMA LastIn ==
    ASSUME NEW S, NEW n \in Nat, S \subseteq 0 .. n, S # {}
    PROVE  LastBin(S) \in S /\ \A o \in S : o <= LastBin(S)
<1> DEFINE T == {n - x : x \in S}
<1>1. T \subseteq Nat /\ T # {}
  <2>1. T \subseteq Nat
    <3> SUFFICES ASSUME NEW x \in S PROVE n - x \in Nat
      OBVIOUS
    <3>1. x \in 0 .. n
      OBVIOUS
    <3> QED BY <3>1
  <2>2. PICK x \in S : TRUE
    OBVIOUS
  <2>3. n - x \in T
    OBVIOUS
  <2> HIDE DEF T
  <2> QED BY <2>1, <2>3
<1>2. FirstBin(T) \in T /\ \A y \in T : FirstBin(T) <= y
  BY <1>1, FirstIn
<1>3. PICK x \in S : FirstBin(T) = n - x
  BY <1>2
<1>4. \A y \in S : y <= x
  <2> SUFFICES ASSUME NEW y \in S PROVE y <= x
    OBVIOUS
  <2>1. n - y \in T
    OBVIOUS
  <2>2. y \in 0 .. n /\ x \in 0 .. n
    OBVIOUS
  <2>3. n - x <= n - y
    BY <1>2, <1>3, <2>1
  <2> HIDE DEF T
  <2> QED BY <2>2, <2>3
<1> QED BY <1>4 DEF LastBin

-----------------------------------------------------------------------------
(* What the flushes so far have appended. *)

\* The flushes up to the n-th that touch a bin.
Touching(n, b) == {i \in 1 .. n : b \in DOMAIN TipBatches[i]}

LEMMA FlushedAt ==
    ASSUME NEW n \in Nat, NEW b \in TipBins
    PROVE  Flushed(n)[b] = IF Touching(n, b) = {} THEN 0
                           ELSE TipBatches[IF onConflict = "keep-last" THEN LastBin(Touching(n, b))
                                           ELSE FirstBin(Touching(n, b))][b]
BY DEF Flushed, Touching

\* A flush changes the bins it touches and no other.
LEMMA NotTouched ==
    ASSUME NEW n \in Nat \ {0}, NEW b \in TipBins, b \notin DOMAIN TipBatches[n]
    PROVE  Flushed(n)[b] = Flushed(n - 1)[b]
<1>1. Touching(n, b) = Touching(n - 1, b)
  BY DEF Touching
<1> QED BY <1>1, FlushedAt

\* The first and the last flush that touches a bin.
LEMMA TouchingEnds ==
    ASSUME NEW n \in Nat, NEW b \in TipBins, Touching(n, b) # {}
    PROVE  /\ FirstBin(Touching(n, b)) \in Touching(n, b) /\ LastBin(Touching(n, b)) \in Touching(n, b)
           /\ \A i \in Touching(n, b) : FirstBin(Touching(n, b)) <= i /\ i <= LastBin(Touching(n, b))
<1>1. Touching(n, b) \subseteq Nat /\ Touching(n, b) \subseteq 0 .. n
  BY DEF Touching
<1> QED BY <1>1, FirstIn, LastIn

\* A bin that some flush has touched holds a row.
LEMMA TouchedHolds ==
    ASSUME NEW n \in 0 .. Len(TipBatches), NEW b \in TipBins, Touching(n, b) # {}
    PROVE  Flushed(n)[b] # 0
<1>1. n \in Nat /\ \A i \in Touching(n, b) : i \in 1 .. Len(TipBatches) /\ b \in DOMAIN TipBatches[i]
  BY BatchFacts DEF Touching
<1>2. PICK i \in Touching(n, b) : Flushed(n)[b] = TipBatches[i][b]
  BY <1>1, FlushedAt, TouchingEnds
<1> QED BY <1>1, <1>2, BatchFacts

\* Merging a batch into what the flushes before it left, or into what it left
\* itself the last time it was run, gives what it leaves.
LEMMA MergeFlushes ==
    ASSUME batch \in 1 .. Len(TipBatches), onConflict \in OnConflicts,
           LastOf(lines) \in {Flushed(batch - 1), Flushed(batch)}
    PROVE  Merge = Flushed(batch)
<1> DEFINE old == LastOf(lines)
<1>1. batch \in Nat \ {0} /\ batch - 1 \in Nat /\ batch - 1 \in 0 .. Len(TipBatches)
      /\ batch \in 0 .. Len(TipBatches) /\ batch \in Nat
  BY BatchFacts
<1>2. ASSUME NEW b \in TipBins PROVE Merge[b] = Flushed(batch)[b]
  <2>1. CASE b \notin DOMAIN TipBatches[batch]
    <3>1. Merge[b] = old[b]
      BY <2>1 DEF Merge
    <3> QED BY <1>1, <2>1, <3>1, NotTouched
  <2>2. CASE b \in DOMAIN TipBatches[batch] /\ onConflict = "keep-last"
    <3>1. batch \in Touching(batch, b)
      BY <1>1, <2>2 DEF Touching
    <3>2. LastBin(Touching(batch, b)) = batch
      <4>1. LastBin(Touching(batch, b)) \in Touching(batch, b) /\ batch <= LastBin(Touching(batch, b))
        BY <1>1, <3>1, TouchingEnds
      <4>2. LastBin(Touching(batch, b)) \in 1 .. batch
        BY <4>1 DEF Touching
      <4> QED BY <1>1, <4>1, <4>2
    <3>3. Merge[b] = TipBatches[batch][b]
      BY <2>2 DEF Merge, KeepLast
    <3>4. Flushed(batch)[b] = TipBatches[LastBin(Touching(batch, b))][b]
      BY <1>1, <2>2, <3>1, FlushedAt
    <3> QED BY <3>2, <3>3, <3>4
  <2>3. CASE b \in DOMAIN TipBatches[batch] /\ onConflict # "keep-last"
    <3>1. batch \in Touching(batch, b)
      BY <1>1, <2>3 DEF Touching
    <3>2. Merge[b] = IF old[b] # 0 THEN old[b] ELSE TipBatches[batch][b]
      BY <2>3 DEF Merge, KeepFirst
    <3>3. Flushed(batch)[b] # 0
      BY <1>1, <3>1, TouchedHolds
    <3>4. Flushed(batch)[b] = TipBatches[FirstBin(Touching(batch, b))][b]
      BY <1>1, <2>3, <3>1, FlushedAt
    <3>5. CASE Touching(batch - 1, b) = {}
      <4>1. Flushed(batch - 1)[b] = 0
        BY <1>1, <3>5, FlushedAt
      <4>2. FirstBin(Touching(batch, b)) = batch
        <5>1. FirstBin(Touching(batch, b)) \in Touching(batch, b)
          BY <1>1, <3>1, TouchingEnds
        <5>2. Touching(batch, b) \subseteq Touching(batch - 1, b) \cup {batch}
          BY <1>1 DEF Touching
        <5> QED BY <3>5, <5>1, <5>2
      <4> QED BY <3>2, <3>3, <3>4, <4>1, <4>2
    <3>6. CASE Touching(batch - 1, b) # {}
      <4>1. Flushed(batch - 1)[b] = TipBatches[FirstBin(Touching(batch - 1, b))][b]
        BY <1>1, <2>3, <3>6, FlushedAt
      <4>2. Flushed(batch - 1)[b] # 0
        BY <1>1, <3>6, TouchedHolds
      <4> DEFINE f == FirstBin(Touching(batch - 1, b))
                 g == FirstBin(Touching(batch, b))
      <4>3. f \in Touching(batch - 1, b) /\ \A i \in Touching(batch - 1, b) : f <= i
        BY <1>1, <3>6, TouchingEnds
      <4>4. g \in Touching(batch, b) /\ \A i \in Touching(batch, b) : g <= i
        BY <1>1, <3>1, TouchingEnds
      <4> HIDE DEF f, g
      <4>5. f \in 1 .. batch - 1 /\ f \in Touching(batch, b) /\ g <= f /\ g \in 1 .. batch
        BY <1>1, <4>3, <4>4 DEF Touching
      <4>6. g \in Touching(batch - 1, b)
        BY <1>1, <4>4, <4>5 DEF Touching
      <4>7. f = g
        BY <1>1, <4>3, <4>5, <4>6
      <4> QED BY <3>2, <3>3, <3>4, <4>1, <4>2, <4>7 DEF f, g
    <3> QED BY <3>5, <3>6
  <2> QED BY <2>1, <2>2, <2>3
<1>3. Merge = [b \in TipBins |-> Merge[b]] /\ Flushed(batch) = [b \in TipBins |-> Flushed(batch)[b]]
  BY DEF Merge, Flushed
<1> QED BY <1>2, <1>3

-----------------------------------------------------------------------------
(* The inductive invariant. *)

TipRows == [TipBins -> Nat]

\* Where the process is, what it holds, and what others read: the process's own
\* rows are those stored; a flush finds the rows of those before it, or its own
\* when it is run again, and leaves its own.
FlushInv ==
    /\ onConflict \in OnConflicts /\ batch \in 1 .. Len(TipBatches) + 1 /\ unflushed = 0
    /\ tipStep \in {"start", "read", "put", "record", "invalidate", "done"}
    /\ tipRows \in Seq(TipRows)
    /\ tipStep # "start" => lines = tipRows /\ batch <= Len(TipBatches)
    /\ Current \in {Flushed(batch - 1), Flushed(batch)}
    /\ tipStep \in {"put", "record"} => tipMerged = Flushed(batch)
    /\ tipStep \in {"invalidate", "done"} => Current = Flushed(batch)

\* No shard was derived later than now.
ClockInv ==
    /\ tipClock \in Nat
    /\ \A c \in CoarseRanges : derivedAt[c] \in Nat /\ derivedAt[c] <= tipClock

TipInv == FlushInv /\ ClockInv /\ BehindIsJournalled

\* What the flushes leave are rows.
LEMMA FlushedRows ==
    ASSUME NEW n \in 0 .. Len(TipBatches) PROVE Flushed(n) \in TipRows
<1>1. ASSUME NEW b \in TipBins PROVE Flushed(n)[b] \in Nat
  <2>1. n \in Nat /\ \A i \in Touching(n, b) : i \in 1 .. Len(TipBatches) /\ b \in DOMAIN TipBatches[i]
    BY BatchFacts DEF Touching
  <2>2. CASE Touching(n, b) = {}
    BY <2>1, <2>2, FlushedAt
  <2>3. CASE Touching(n, b) # {}
    <3>1. PICK i \in Touching(n, b) : Flushed(n)[b] = TipBatches[i][b]
      BY <2>1, <2>3, FlushedAt, TouchingEnds
    <3> QED BY <2>1, <3>1, BatchFacts
  <2> QED BY <2>2, <2>3
<1>2. Flushed(n) = [b \in TipBins |-> Flushed(n)[b]]
  BY DEF Flushed
<1> HIDE DEF Flushed
<1> QED BY <1>1, <1>2 DEF TipRows

LEMMA InitTipInv == InitTip => TipInv
<1> SUFFICES ASSUME InitTip PROVE TipInv
  OBVIOUS
<1>1. Current = NoTip
  BY DEF InitTip, Current, LastOf
<1>2. Flushed(0) = NoTip
  <2>1. \A b \in TipBins : Touching(0, b) = {}
    BY DEF Touching
  <2>2. \A b \in TipBins : Flushed(0)[b] = 0
    BY <2>1, FlushedAt
  <2>3. Flushed(0) = [b \in TipBins |-> Flushed(0)[b]]
    BY DEF Flushed
  <2> QED BY <2>2, <2>3 DEF NoTip
<1>3. FlushInv
  BY <1>1, <1>2, BatchFacts DEF InitTip, FlushInv
<1>4. ClockInv
  BY DEF InitTip, ClockInv
<1>5. BehindIsJournalled
  <2>1. ASSUME NEW c \in CoarseRanges, NEW b \in c[1] .. c[2] - 1 PROVE derived[c][b] = Current[b]
    BY <1>1, TipAssumption DEF InitTip
  <2> QED BY <2>1 DEF BehindIsJournalled
<1> QED BY <1>3, <1>4, <1>5 DEF TipInv

\* A step that leaves the tip, the journal and the derived shards alone, and with
\* the flush not done, leaves nothing behind that was not.
LEMMA TipUntouched ==
    ASSUME BehindIsJournalled, UNCHANGED <<tipRows, batch, derived, derivedAt, tipJournal>>,
           tipStep' # "done" \/ tipStep = "done"
    PROVE  BehindIsJournalled'
<1>1. Current' = Current
  BY DEF Current, LastOf
<1>2. \A c \in CoarseRanges : StaleTip(c)' <=> StaleTip(c)
  BY DEF StaleTip
<1>3. ASSUME NEW c \in CoarseRanges, (\E b \in c[1] .. c[2] - 1 : derived[c][b] # Current[b])'
      PROVE  \/ StaleTip(c)'
             \/ /\ tipStep' # "done" /\ batch' <= Len(TipBatches)
                /\ \E b \in DOMAIN TipBatches[batch'] : c[1] <= b /\ b < c[2]
  <2>1. \E b \in c[1] .. c[2] - 1 : derived[c][b] # Current[b]
    BY <1>1, <1>3
  <2>2. \/ StaleTip(c)
        \/ /\ tipStep # "done" /\ batch <= Len(TipBatches)
           /\ \E b \in DOMAIN TipBatches[batch] : c[1] <= b /\ b < c[2]
    BY <2>1 DEF BehindIsJournalled
  <2> QED BY <1>2, <2>2
<1> QED BY <1>3 DEF BehindIsJournalled

LEMMA RecordTipInv == ASSUME TipInv, FlushEvery = 1, RecordTip PROVE TipInv'
<1> USE DEF TipInv
<1>1. /\ batch \in 1 .. Len(TipBatches) /\ lines = tipRows /\ tipMerged = Flushed(batch)
      /\ tipRows \in Seq(TipRows) /\ unflushed = 0 /\ tipStep = "record" /\ batch \in Nat \ {0}
  BY BatchFacts DEF RecordTip, FlushInv
<1>2. /\ tipRows' = Append(tipRows, tipMerged) /\ lines' = tipRows' /\ unflushed' = 0 /\ tipStep' = "invalidate"
      /\ UNCHANGED <<onConflict, batch, tipMerged, tipJournal, tipClock, derived, derivedAt>>
  BY <1>1 DEF RecordTip
<1>3. tipMerged \in TipRows
  BY <1>1, BatchFacts, FlushedRows
<1>4. tipRows' \in Seq(TipRows) /\ tipRows' # <<>> /\ tipRows'[Len(tipRows')] = tipMerged
  BY <1>1, <1>2, <1>3
<1>5. Current' = Flushed(batch)
  BY <1>1, <1>4 DEF Current, LastOf
<1>6. Flushed(batch)' = Flushed(batch)
  BY <1>2 DEF Flushed
<1>7. FlushInv'
  BY <1>1, <1>2, <1>4, <1>5, <1>6 DEF FlushInv
<1>8. ClockInv'
  BY <1>2 DEF ClockInv
<1>9. BehindIsJournalled'
  <2>1. \A c \in CoarseRanges : StaleTip(c)' <=> StaleTip(c)
    BY <1>2 DEF StaleTip
  <2>2. ASSUME NEW c \in CoarseRanges, NEW b \in c[1] .. c[2] - 1, derived[c][b] # Flushed(batch)[b]
        PROVE  \/ StaleTip(c)
               \/ \E o \in DOMAIN TipBatches[batch] : c[1] <= o /\ o < c[2]
    <3>1. c[1] \in Nat /\ c[2] \in Nat /\ b \in TipBins /\ b \in Int /\ c[1] <= b /\ b < c[2]
      BY TipAssumption
    <3>2. CASE b \in DOMAIN TipBatches[batch]
      BY <3>1, <3>2
    <3>3. CASE b \notin DOMAIN TipBatches[batch]
      <4>1. Current[b] = Flushed(batch)[b]
        BY <1>1, <3>1, <3>3, NotTouched DEF FlushInv
      <4> QED BY <2>2, <4>1 DEF BehindIsJournalled
    <3> QED BY <3>2, <3>3
  <2>3. (\A c \in CoarseRanges :
           (\E b \in c[1] .. c[2] - 1 : derived[c][b] # Flushed(batch)[b])
               => StaleTip(c) \/ \E o \in DOMAIN TipBatches[batch] : c[1] <= o /\ o < c[2])
    BY <2>2
  <2>4. ASSUME NEW c \in CoarseRanges, (\E b \in c[1] .. c[2] - 1 : derived[c][b] # Current[b])'
        PROVE  \/ StaleTip(c)'
               \/ /\ tipStep' # "done" /\ batch' <= Len(TipBatches)
                  /\ \E b \in DOMAIN TipBatches[batch'] : c[1] <= b /\ b < c[2]
    <3>1. \E b \in c[1] .. c[2] - 1 : derived[c][b] # Flushed(batch)[b]
      BY <1>2, <1>5, <2>4
    <3> QED BY <1>1, <1>2, <2>1, <2>3, <3>1
  <2> QED BY <2>4 DEF BehindIsJournalled
<1> QED BY <1>7, <1>8, <1>9

LEMMA InvalidateTipInv == ASSUME TipInv, InvalidateTip PROVE TipInv'
<1> USE DEF TipInv
<1> DEFINE bins == DOMAIN TipBatches[batch]
           new  == [from |-> FirstBin(bins), to |-> LastBin(bins) + 1, at |-> tipClock + 1]
<1>1. /\ tipStep = "invalidate" /\ tipStep' = "done" /\ tipClock' = tipClock + 1
      /\ tipJournal' = tipJournal \cup {new}
      /\ UNCHANGED <<onConflict, tipRows, lines, unflushed, batch, tipMerged, derived, derivedAt>>
  BY DEF InvalidateTip, Touched
<1>2. Current' = Current /\ Flushed(batch)' = Flushed(batch) /\ Flushed(batch - 1)' = Flushed(batch - 1)
  BY <1>1 DEF Current, LastOf, Flushed
<1>3. FlushInv'
  BY <1>1, <1>2 DEF FlushInv
<1>4. ClockInv'
  BY <1>1 DEF ClockInv
<1>5. batch \in 1 .. Len(TipBatches)
  BY <1>1, BatchFacts DEF FlushInv
<1>6. bins \subseteq TipBins /\ bins # {}
  BY <1>5, BatchFacts
<1> HIDE DEF bins
<1>7. PICK n \in TipBins : TipBins \subseteq Nat /\ \A b \in TipBins : b <= n
  BY TipAssumption
<1>8. n \in Nat /\ bins \subseteq 0 .. n /\ bins \subseteq Nat
  BY <1>6, <1>7
<1>9. /\ FirstBin(bins) \in Nat /\ LastBin(bins) \in Nat
      /\ \A b \in bins : b \in Nat /\ FirstBin(bins) <= b /\ b <= LastBin(bins)
  BY <1>6, <1>8, FirstIn, LastIn
<1>10. ASSUME NEW c \in CoarseRanges, StaleTip(c) PROVE StaleTip(c)'
  BY <1>1, <1>10 DEF StaleTip
<1>11. ASSUME NEW c \in CoarseRanges, NEW b \in bins, c[1] <= b, b < c[2] PROVE StaleTip(c)'
  <2>1. c[1] \in Nat /\ c[2] \in Nat
    BY TipAssumption
  <2>2. Meets(new, c)
    BY <1>9, <1>11, <2>1 DEF Meets
  <2>3. derivedAt'[c] < new.at
    BY <1>1 DEF ClockInv
  <2> QED BY <1>1, <2>2, <2>3 DEF StaleTip
<1>12. BehindIsJournalled'
  <2>1. ASSUME NEW c \in CoarseRanges, (\E b \in c[1] .. c[2] - 1 : derived[c][b] # Current[b])'
        PROVE  StaleTip(c)'
    <3>1. \E b \in c[1] .. c[2] - 1 : derived[c][b] # Current[b]
      BY <1>1, <1>2, <2>1
    <3>2. StaleTip(c) \/ \E b \in bins : c[1] <= b /\ b < c[2]
      BY <3>1 DEF BehindIsJournalled, bins
    <3> QED BY <1>10, <1>11, <3>2
  <2> QED BY <2>1 DEF BehindIsJournalled
<1> QED BY <1>3, <1>4, <1>12

LEMMA DeriveInv == ASSUME TipInv, Derive PROVE TipInv'
<1> USE DEF TipInv
<1>1. /\ tipClock' = tipClock + 1 /\ tipJournal' = {}
      /\ UNCHANGED <<onConflict, tipRows, lines, unflushed, tipStep, batch, tipMerged>>
      /\ \A c \in CoarseRanges :
            /\ derived'[c] = IF StaleTip(c) THEN Current ELSE derived[c]
            /\ derivedAt'[c] = IF StaleTip(c) THEN tipClock + 1 ELSE derivedAt[c]
  BY DEF Derive
<1>2. Current' = Current /\ Flushed(batch)' = Flushed(batch) /\ Flushed(batch - 1)' = Flushed(batch - 1)
  BY <1>1 DEF Current, LastOf, Flushed
<1>3. FlushInv'
  BY <1>1, <1>2 DEF FlushInv
<1>4. ClockInv'
  BY <1>1 DEF ClockInv
<1>5. BehindIsJournalled'
  <2>1. ASSUME NEW c \in CoarseRanges, (\E b \in c[1] .. c[2] - 1 : derived[c][b] # Current[b])'
        PROVE  /\ tipStep' # "done" /\ batch' <= Len(TipBatches)
               /\ \E b \in DOMAIN TipBatches[batch'] : c[1] <= b /\ b < c[2]
    <3>1. PICK b \in c[1] .. c[2] - 1 : derived'[c][b] # Current[b]
      BY <1>2, <2>1
    <3>2. ~StaleTip(c) /\ derived[c][b] # Current[b]
      BY <1>1, <3>1
    <3> QED BY <1>1, <3>2 DEF BehindIsJournalled
  <2> QED BY <2>1 DEF BehindIsJournalled
<1> QED BY <1>3, <1>4, <1>5

LEMMA NextTipInv == FlushEvery = 1 /\ TipInv /\ [NextTip]_tipVars => TipInv'
<1> SUFFICES ASSUME FlushEvery = 1, TipInv, [NextTip]_tipVars PROVE TipInv'
  OBVIOUS
<1> USE DEF TipInv
<1>1. CASE UNCHANGED tipVars
  <2>1. UNCHANGED <<onConflict, tipRows, lines, unflushed, tipStep, batch, tipMerged, tipJournal,
                    tipClock, derived, derivedAt>>
    BY <1>1 DEF tipVars
  <2>2. Current' = Current /\ Flushed(batch)' = Flushed(batch) /\ Flushed(batch - 1)' = Flushed(batch - 1)
    BY <2>1 DEF Current, LastOf, Flushed
  <2>3. FlushInv' /\ ClockInv'
    BY <2>1, <2>2 DEF FlushInv, ClockInv
  <2> QED BY <2>1, <2>3, TipUntouched
<1>2. CASE StartProcess \/ ReadTip \/ PutTip \/ ProcessDies
  <2>1. /\ UNCHANGED <<onConflict, tipRows, batch, tipJournal, tipClock, derived, derivedAt>>
        /\ (tipStep \notin {"done", "invalidate"} \/ tipStep' = "start") /\ tipStep' # "done"
        /\ tipStep' \in {"start", "read", "put", "record"}
    BY <1>2 DEF StartProcess, ReadTip, PutTip, ProcessDies
  <2>2. Current' = Current /\ Flushed(batch)' = Flushed(batch) /\ Flushed(batch - 1)' = Flushed(batch - 1)
    BY <2>1 DEF Current, LastOf, Flushed
  <2>3. unflushed' = 0 /\ (tipStep' # "start" => lines' = tipRows /\ batch <= Len(TipBatches))
    BY <1>2 DEF StartProcess, ReadTip, PutTip, ProcessDies, Loaded, FlushInv
  <2>4. tipStep' \in {"put", "record"} => tipMerged' = Flushed(batch)
    <3>1. CASE ReadTip
      <4>1. batch \in 1 .. Len(TipBatches) /\ LastOf(lines) \in {Flushed(batch - 1), Flushed(batch)}
        BY <3>1, BatchFacts DEF ReadTip, FlushInv, Current
      <4> QED BY <3>1, <4>1, MergeFlushes DEF ReadTip, FlushInv
    <3> QED BY <1>2, <3>1 DEF StartProcess, PutTip, ProcessDies, FlushInv
  <2>5. FlushInv'
    BY <2>1, <2>2, <2>3, <2>4 DEF FlushInv
  <2>6. ClockInv'
    BY <2>1 DEF ClockInv
  <2> QED BY <2>1, <2>5, <2>6, TipUntouched
<1>3. CASE RecordTip
  BY <1>3, RecordTipInv
<1>4. CASE InvalidateTip
  BY <1>4, InvalidateTipInv
<1>5. CASE NextBatch
  <2>1. /\ UNCHANGED <<onConflict, tipRows, lines, unflushed, tipJournal, tipClock, derived, derivedAt>>
        /\ tipStep = "done" /\ batch' = batch + 1
        /\ tipStep' \in {"read", "start"} /\ (tipStep' = "read" => batch < Len(TipBatches))
    BY <1>5 DEF NextBatch
  <2>2. batch \in 1 .. Len(TipBatches) /\ batch' \in 1 .. Len(TipBatches) + 1 /\ batch' - 1 = batch
        /\ (tipStep' = "read" => batch' <= Len(TipBatches))
    BY <2>1, BatchFacts DEF FlushInv
  <2>3. Current' = Current /\ Flushed(batch)' = Flushed(batch')
    <3> QED BY <2>1 DEF Current, LastOf, Flushed
  <2>4. Current' = Flushed(batch - 1)'
    BY <2>1, <2>2 DEF Current, LastOf, Flushed, FlushInv
  <2>5. FlushInv'
    BY <2>1, <2>2, <2>4 DEF FlushInv
  <2>6. ClockInv'
    BY <2>1 DEF ClockInv
  <2>7. BehindIsJournalled'
    <3>1. ASSUME NEW c \in CoarseRanges, (\E b \in c[1] .. c[2] - 1 : derived[c][b] # Current[b])'
          PROVE  StaleTip(c)'
      <4>1. \E b \in c[1] .. c[2] - 1 : derived[c][b] # Current[b]
        BY <2>1, <3>1 DEF Current, LastOf
      <4> QED BY <2>1, <4>1 DEF BehindIsJournalled, StaleTip
    <3> QED BY <3>1 DEF BehindIsJournalled
  <2> QED BY <2>5, <2>6, <2>7
<1>6. CASE Derive
  BY <1>6, DeriveInv
<1> QED BY <1>1, <1>2, <1>3, <1>4, <1>5, <1>6 DEF NextTip

\* Where every registered row is stored at once, whatever dies and is run again:
\* once a flush has returned the registered tip holds every row appended so far,
\* and a coarser shard that is behind the registered tip is met by an entry newer
\* than it, or the flush that must append one is not over.
THEOREM TipSoundHolds == FlushEvery = 1 => (SpecTip => []TipSound)
<1> SUFFICES ASSUME FlushEvery = 1 PROVE SpecTip => []TipSound
  OBVIOUS
<1>1. TipInv => TipSound
  BY DEF TipInv, FlushInv, TipSound, RowsKept
<1> QED BY <1>1, InitTipInv, NextTipInv, PTL DEF SpecTip

-----------------------------------------------------------------------------
(***************************************************************************)
(* The content-addressed store.                                            *)
(***************************************************************************)

\* A swap only adds the swapped key to the referenced ones.
LEMMA SwapReferenced ==
    ASSUME registry \in [Slots -> Versions \cup {None}], NEW k \in Keys, SwapRow(k)
    PROVE  Referenced' \subseteq Referenced \cup {k}
<1> SUFFICES ASSUME NEW o \in Keys, registry'[SlotOf(o)] = o[2], o # k
             PROVE  registry[SlotOf(o)] = o[2]
  BY DEF Referenced
<1>1. o = <<o[1], o[2]>> /\ k = <<k[1], k[2]>> /\ o[1] \in Slots /\ k[1] \in Slots
  BY DEF Keys
<1>2. CASE o[1] = k[1]
  BY <1>1, <1>2 DEF SwapRow, SlotOf
<1>3. CASE o[1] # k[1]
  BY <1>1, <1>3 DEF SwapRow, SlotOf
<1> QED BY <1>2, <1>3

-----------------------------------------------------------------------------
(* Types *)

LEMMA InitType == Init => TypeOK
BY StoreAssumption DEF Init, TypeOK

LEMMA SwapType ==
    ASSUME TypeOK, NEW k \in Keys, SwapRow(k)
    PROVE  /\ registry' \in [Slots -> Versions \cup {None}]
           /\ rowTime' \in [Slots -> Nat]
           /\ replaced' \in [Keys -> Nat]
BY DEF TypeOK, SwapRow, SlotOf, Keys

LEMMA NextType == TypeOK /\ [Next]_vars => TypeOK'
<1> SUFFICES ASSUME TypeOK, [Next]_vars PROVE TypeOK'
  OBVIOUS
<1>0. \A k \in Keys : SlotOf(k) \in Slots /\ k[2] \in Versions
  BY DEF Keys, SlotOf
<1>1. CASE UNCHANGED vars
  BY <1>1 DEF TypeOK, vars, storeVars, rowVars, writerVars, gcVars, adoptVars
<1>2. CASE Tick
  BY <1>2 DEF Tick, TypeOK, storeVars, rowVars, writerVars, gcVars, adoptVars
<1>3. ASSUME NEW w \in Writers, NEW k \in Keys, Produce(w, k) PROVE TypeOK'
  BY <1>3 DEF Produce, TypeOK, storeVars, rowVars, gcVars, adoptVars
<1>4. ASSUME NEW w \in Writers, HeadObject(w) PROVE TypeOK'
  BY <1>4 DEF HeadObject, TypeOK, storeVars, rowVars, gcVars, adoptVars
<1>5. ASSUME NEW w \in Writers, Put(w) PROVE TypeOK'
  BY <1>5 DEF Put, TypeOK, rowVars, gcVars, adoptVars
<1>6. ASSUME NEW w \in Writers, Record(w) PROVE TypeOK'
  <2>1. wkey[w] \in Keys
    BY <1>6 DEF Record, TypeOK
  <2>2. /\ registry' \in [Slots -> Versions \cup {None}] /\ rowTime' \in [Slots -> Nat]
        /\ replaced' \in [Keys -> Nat]
    BY <1>6, <2>1, SwapType DEF Record
  <2> QED BY <1>6, <2>2 DEF Record, Forget, TypeOK, storeVars, gcVars, adoptVars
<1>7. ASSUME NEW w \in Writers, WriterDies(w) PROVE TypeOK'
  <2>1. wkey[w] \in Keys
    BY <1>7 DEF WriterDies, TypeOK
  <2>2. lost' \in [Slots -> Versions \cup {None}]
    BY <1>0, <1>7, <2>1 DEF WriterDies, TypeOK
  <2> QED BY <1>7, <2>2 DEF WriterDies, Forget, TypeOK, storeVars, gcVars, adoptVars
<1>8. CASE Gc
  <2>1. gcand' \subseteq Keys /\ gnow' \in Nat /\ gcs' \in Nat /\ grefs' \subseteq Keys
        /\ gpc' \in {"idle", "list", "reread", "delete"}
    BY <1>8 DEF Gc, GcStart, GcList, GcReread, GcDelete, PassTo, TypeOK, Referenced
  <2>2. /\ objects' \subseteq objects
        /\ UNCHANGED <<clock, mtime, rowVars, writerVars, adoptVars>>
    BY <1>8 DEF Gc, GcStart, GcList, GcReread, GcDelete, storeVars
  <2> QED BY <2>1, <2>2 DEF TypeOK, rowVars, writerVars, adoptVars
<1>9. CASE AdoptStart \/ AdoptEnd
  BY <1>9, StoreAssumption
    DEF AdoptStart, AdoptEnd, TypeOK, storeVars, rowVars, writerVars, gcVars
<1>10. CASE AdoptList
  <2>1. acand' \subseteq Keys \X Nat
    BY <1>10 DEF AdoptList, TypeOK
  <2> QED BY <1>10, <2>1 DEF AdoptList, TypeOK, storeVars, rowVars, writerVars, gcVars
<1>11. CASE AdoptGet
  <2>1. acand' \subseteq Keys \X Nat /\ akey' \in Keys \cup {None}
    BY <1>11 DEF AdoptGet, TypeOK
  <2> QED BY <1>11, <2>1 DEF AdoptGet, TypeOK, storeVars, rowVars, writerVars, gcVars
<1>12. CASE AdoptRecord
  <2>1. akey \in Keys
    BY <1>12 DEF AdoptRecord, TypeOK
  <2>2. /\ registry' \in [Slots -> Versions \cup {None}] /\ rowTime' \in [Slots -> Nat]
        /\ replaced' \in [Keys -> Nat]
    BY <1>12, <2>1, SwapType DEF AdoptRecord
  <2>3. lost' \in [Slots -> Versions \cup {None}]
    BY <1>12 DEF AdoptRecord, TypeOK
  <2> QED BY <1>12, <2>2, <2>3 DEF AdoptRecord, TypeOK, storeVars, writerVars, gcVars
<1> QED BY <1>1, <1>2, <1>3, <1>4, <1>5, <1>6, <1>7, <1>8, <1>9, <1>10, <1>11, <1>12
  DEF Next, Writer, Adopt, Over

\* The types hold in every reachable state.
THEOREM TypeCorrect == Spec => []TypeOK
BY InitType, NextType, PTL DEF Spec

-----------------------------------------------------------------------------
(* Quiet deletes: the re-read settles what may be deleted *)

\* What writers and an adoption are about to register is there, and while
\* objects are deleted nothing is about to be registered.
QuietInv ==
    /\ TypeOK
    /\ RegisteredPresent
    /\ \A w \in Writers : wpc[w] = "record" => wkey[w] \in objects
    /\ akey # None => akey \in objects /\ apc = "adopt"
    /\ gpc = "delete" => /\ ~Writing /\ ~Adopting
                         /\ gcand \cap Referenced = {}

LEMMA InitQuiet == Init => QuietInv
BY InitType, StoreAssumption
  DEF Init, QuietInv, RegisteredPresent, Referenced, Keys, SlotOf

LEMMA NextQuiet == QuietDeletes /\ ~CachedIndex /\ QuietInv /\ [Next]_vars => QuietInv'
<1> SUFFICES ASSUME QuietDeletes, ~CachedIndex, QuietInv, [Next]_vars PROVE QuietInv'
  OBVIOUS
<1>0. TypeOK /\ TypeOK' /\ None \notin Keys
  BY NextType, StoreAssumption DEF QuietInv
<1>1. CASE UNCHANGED vars
  BY <1>0, <1>1 DEF QuietInv, RegisteredPresent, Referenced, Writing, Adopting,
                    vars, storeVars, rowVars, writerVars, gcVars, adoptVars
<1>2. CASE Tick
  BY <1>0, <1>2 DEF Tick, QuietInv, RegisteredPresent, Referenced, Writing, Adopting,
                    storeVars, rowVars, writerVars, gcVars, adoptVars
<1>3. ASSUME NEW w \in Writers, NEW k \in Keys, Produce(w, k) PROVE QuietInv'
  BY <1>0, <1>3 DEF Produce, QuietInv, RegisteredPresent, Referenced, TypeOK,
                    storeVars, rowVars, gcVars, adoptVars
<1>4. ASSUME NEW w \in Writers, HeadObject(w) PROVE QuietInv'
  BY <1>0, <1>4 DEF HeadObject, QuietInv, RegisteredPresent, Referenced, Writing, TypeOK,
                    storeVars, rowVars, gcVars, adoptVars
<1>5. ASSUME NEW w \in Writers, Put(w) PROVE QuietInv'
  BY <1>0, <1>5 DEF Put, QuietInv, RegisteredPresent, Referenced, Writing, TypeOK,
                    rowVars, gcVars, adoptVars
<1>6. ASSUME NEW w \in Writers, Record(w) PROVE QuietInv'
  <2>1. wkey[w] \in Keys /\ wkey[w] \in objects /\ gpc # "delete"
    BY <1>6 DEF Record, QuietInv, Writing, TypeOK
  <2>2. Referenced' \subseteq Referenced \cup {wkey[w]}
    BY <1>0, <1>6, <2>1, SwapReferenced DEF Record, TypeOK
  <2> QED BY <1>0, <1>6, <2>1, <2>2
    DEF Record, Forget, QuietInv, RegisteredPresent, TypeOK, storeVars, gcVars, adoptVars
<1>7. ASSUME NEW w \in Writers, WriterDies(w) PROVE QuietInv'
  BY <1>0, <1>7 DEF WriterDies, Forget, QuietInv, RegisteredPresent, Referenced, Writing,
                    Adopting, TypeOK, storeVars, gcVars, adoptVars
<1>8. CASE GcStart \/ GcList
  <2>1. gpc' # "delete"
    BY <1>8 DEF GcStart, GcList, PassTo
  <2> QED BY <1>0, <1>8, <2>1 DEF GcStart, GcList, QuietInv, RegisteredPresent, Referenced,
                                  storeVars, rowVars, writerVars, adoptVars
<1>9. CASE GcReread
  <2>1. ~Writing /\ ~Adopting /\ gcand' \cap Referenced = {}
    BY <1>9 DEF GcReread, RefsAgain
  <2> QED BY <1>0, <1>9, <2>1
    DEF GcReread, QuietInv, RegisteredPresent, Referenced, Writing, Adopting,
        storeVars, rowVars, writerVars, adoptVars
<1>10. CASE GcDelete
  <2>1. PICK o \in gcand : objects' = objects \ {o} /\ gcand' = gcand \ {o}
    BY <1>10 DEF GcDelete
  <2>2. ~Writing /\ ~Adopting /\ o \notin Referenced /\ gcand \cap Referenced = {}
    BY <1>10 DEF GcDelete, QuietInv
  <2>3. akey = None /\ \A w \in Writers : wpc[w] = "idle"
    BY <2>2 DEF QuietInv, Writing, Adopting
  <2>4. UNCHANGED <<registry, wpc, wkey, akey, apc>>
    BY <1>10 DEF GcDelete, rowVars, writerVars, adoptVars
  <2> QED BY <1>0, <2>1, <2>2, <2>3, <2>4
    DEF QuietInv, RegisteredPresent, Referenced, Writing, Adopting
<1>11. CASE AdoptStart \/ AdoptList \/ AdoptEnd
  BY <1>0, <1>11 DEF AdoptStart, AdoptList, AdoptEnd, QuietInv, RegisteredPresent, Referenced,
                     Writing, Adopting, storeVars, rowVars, writerVars, gcVars
<1>12. CASE AdoptGet
  <2>1. akey' # None => akey' \in objects
    BY <1>12 DEF AdoptGet
  <2> QED BY <1>0, <1>12, <2>1
    DEF AdoptGet, QuietInv, RegisteredPresent, Referenced, Writing, Adopting,
        storeVars, rowVars, writerVars, gcVars
<1>13. CASE AdoptRecord
  <2>1. akey \in Keys /\ akey \in objects /\ gpc # "delete"
    BY <1>13 DEF AdoptRecord, QuietInv, Adopting, TypeOK
  <2>2. Referenced' \subseteq Referenced \cup {akey}
    BY <1>0, <1>13, <2>1, SwapReferenced DEF AdoptRecord, TypeOK
  <2> QED BY <1>0, <1>13, <2>1, <2>2
    DEF AdoptRecord, QuietInv, RegisteredPresent, storeVars, writerVars, gcVars
<1> QED BY <1>1, <1>2, <1>3, <1>4, <1>5, <1>6, <1>7, <1>8, <1>9, <1>10, <1>11, <1>12, <1>13
  DEF Next, Writer, Gc, Adopt, Over

\* When nothing is written from the re-read of a collection to its last delete,
\* and the re-read is a real one, every row points at an object.
THEOREM QuietRegisteredPresent ==
    QuietDeletes /\ ~CachedIndex => (Spec => []RegisteredPresent)
<1> SUFFICES ASSUME QuietDeletes, ~CachedIndex PROVE Spec => []RegisteredPresent
  OBVIOUS
<1>1. QuietInv /\ [Next]_vars => QuietInv'
  BY NextQuiet
<1>2. QuietInv => RegisteredPresent
  BY DEF QuietInv
<1> QED BY InitQuiet, <1>1, <1>2, PTL DEF Spec

-----------------------------------------------------------------------------
(* Fresh versions: the grace period covers the writes in flight *)

\* The writer holds a key it has not registered yet.
Active(w) == wpc[w] # "idle"

\* A key belongs to one writer, is registered by it at most once, and a writer
\* keeps within its time.
OwnInv ==
    /\ objects \subseteq produced /\ Referenced \subseteq objects
    /\ \A w \in Writers : Active(w) =>
          /\ wkey[w] \in produced \ Referenced
          /\ wsince[w] <= clock /\ clock <= wsince[w] + WriteTime
          /\ wpc[w] # "record" => wkey[w] \notin objects
          /\ wpc[w] = "record" => wkey[w] \in objects /\ wsince[w] <= mtime[wkey[w]]
    /\ \A v, w \in Writers : Active(v) /\ Active(w) /\ v # w => wkey[v] # wkey[w]

\* What a collection has listed was put before every write in flight began;
\* what was registered since the collection began was put within the grace
\* period.
ListedInv ==
    /\ gpc # "idle" => gnow <= clock
    /\ gpc = "list" => \A o \in Referenced \ grefs : gnow < mtime[o] + Grace
    /\ gpc \in {"reread", "delete"} =>
          \A o \in gcand : /\ o \in produced \ Referenced
                           /\ \A w \in Writers : Active(w) => wkey[w] # o

FreshInv == TypeOK /\ OwnInv /\ ListedInv /\ apc = "idle" /\ akey = None

Fresh == ~Reuse /\ MaxAdopts = 0 /\ WriteTime < Grace

LEMMA InitFresh == Init => FreshInv
BY InitType, StoreAssumption
  DEF Init, FreshInv, OwnInv, ListedInv, Active, Referenced, Keys, SlotOf

LEMMA NextFresh == Fresh /\ FreshInv /\ [Next]_vars => FreshInv'
<1> SUFFICES ASSUME Fresh, FreshInv, [Next]_vars PROVE FreshInv'
  OBVIOUS
<1>0. /\ TypeOK /\ TypeOK' /\ OwnInv /\ ListedInv /\ apc = "idle" /\ akey = None
      /\ WriteTime \in Nat /\ Grace \in Nat /\ WriteTime < Grace
      /\ clock \in Nat /\ mtime \in [Keys -> Nat] /\ wsince \in [Writers -> Nat]
  BY NextType, StoreAssumption DEF FreshInv, Fresh, TypeOK
<1>1. CASE UNCHANGED vars
  BY <1>0, <1>1 DEF FreshInv, OwnInv, ListedInv, Active, Referenced,
                    vars, storeVars, rowVars, writerVars, gcVars, adoptVars
<1>2. CASE Tick
  <2>1. clock' = clock + 1 /\ UNCHANGED <<objects, mtime, registry, wpc, wkey, wsince, produced>>
        /\ UNCHANGED <<gpc, gnow, grefs, gcand, apc, akey>>
    BY <1>2 DEF Tick, storeVars, rowVars, writerVars, gcVars, adoptVars
  <2>2. \A w \in Writers : Active(w) => clock - wsince[w] < WriteTime
    BY <1>2 DEF Tick, Active
  <2>3. OwnInv'
    BY <1>0, <2>1, <2>2 DEF OwnInv, Active, Referenced
  <2>4. ListedInv'
    <3>1. gnow \in Nat
      BY <1>0 DEF TypeOK
    <3> QED BY <1>0, <2>1, <3>1 DEF ListedInv, Active, Referenced
  <2> QED BY <1>0, <2>1, <2>3, <2>4 DEF FreshInv
<1>3. ASSUME NEW w \in Writers, NEW k \in Keys, Produce(w, k) PROVE FreshInv'
  <2>1. /\ wpc' = [wpc EXCEPT ![w] = "head"] /\ wkey' = [wkey EXCEPT ![w] = k]
        /\ wsince' = [wsince EXCEPT ![w] = clock] /\ produced' = produced \cup {k}
        /\ UNCHANGED <<clock, objects, mtime, registry, gpc, gnow, grefs, gcand, apc, akey>>
    BY <1>3 DEF Produce, storeVars, rowVars, gcVars, adoptVars
  <2>2. k \notin produced
    BY <1>3 DEF Produce, Fresh
  <2>3. Referenced' = Referenced
    BY <2>1 DEF Referenced
  <2>4. /\ wkey'[w] = k /\ wpc'[w] = "head" /\ wsince'[w] = clock
        /\ \A v \in Writers : v # w => /\ wkey'[v] = wkey[v] /\ wpc'[v] = wpc[v]
                                       /\ wsince'[v] = wsince[v]
    BY <1>0, <2>1 DEF TypeOK
  <2>5. OwnInv'
    BY <1>0, <2>1, <2>2, <2>3, <2>4 DEF OwnInv, Active
  <2>6. ListedInv'
    BY <1>0, <2>1, <2>2, <2>3, <2>4 DEF ListedInv, Active
  <2> QED BY <1>0, <2>1, <2>5, <2>6 DEF FreshInv
<1>4. ASSUME NEW w \in Writers, HeadObject(w) PROVE FreshInv'
  <2>1. /\ wpc' = [wpc EXCEPT ![w] = "put"]
        /\ UNCHANGED <<clock, objects, mtime, registry, wkey, wsince, produced>>
        /\ UNCHANGED <<gpc, gnow, grefs, gcand, apc, akey>>
    BY <1>0, <1>4 DEF HeadObject, OwnInv, Active, storeVars, rowVars, gcVars, adoptVars
  <2>2. wpc'[w] = "put" /\ Active(w) /\ \A v \in Writers : v # w => wpc'[v] = wpc[v]
    BY <1>0, <1>4, <2>1 DEF HeadObject, Active, TypeOK
  <2>3. wpc[w] # "record"
    BY <1>4 DEF HeadObject
  <2>4. OwnInv'
    BY <1>0, <2>1, <2>2, <2>3 DEF OwnInv, Active, Referenced
  <2>5. ListedInv'
    BY <1>0, <2>1, <2>2 DEF ListedInv, Active, Referenced
  <2> QED BY <1>0, <2>1, <2>4, <2>5 DEF FreshInv
<1>5. ASSUME NEW w \in Writers, Put(w) PROVE FreshInv'
  <2>1. /\ objects' = objects \cup {wkey[w]} /\ mtime' = [mtime EXCEPT ![wkey[w]] = clock]
        /\ wpc' = [wpc EXCEPT ![w] = "record"]
        /\ UNCHANGED <<clock, registry, wkey, wsince, produced>>
        /\ UNCHANGED <<gpc, gnow, grefs, gcand, apc, akey>>
    BY <1>5 DEF Put, rowVars, gcVars, adoptVars
  <2>2. /\ wpc'[w] = "record" /\ wpc[w] = "put" /\ Active(w) /\ wkey[w] \in Keys
        /\ \A v \in Writers : v # w => wpc'[v] = wpc[v]
    BY <1>0, <1>5, <2>1 DEF Put, Active, TypeOK
  <2>3. /\ mtime'[wkey[w]] = clock
        /\ \A o \in Keys : o # wkey[w] => mtime'[o] = mtime[o]
    BY <1>0, <2>1, <2>2
  <2>4. Referenced' = Referenced /\ Referenced \subseteq Keys /\ wkey[w] \notin Referenced
    BY <1>0, <2>1, <2>2 DEF OwnInv, Referenced
  <2>5. OwnInv'
    <3>1. \A v \in Writers : Active(v) => wkey[v] \in Keys
      BY <1>0 DEF TypeOK, Active
    <3>2. \A v \in Writers : Active(v)' => Active(v)
      BY <2>2 DEF Active
    <3> QED BY <1>0, <2>1, <2>2, <2>3, <2>4, <3>1, <3>2 DEF OwnInv, Active
  <2>6. ListedInv'
    BY <1>0, <2>1, <2>2, <2>3, <2>4 DEF ListedInv, Active
  <2> QED BY <1>0, <2>1, <2>5, <2>6 DEF FreshInv
<1>6. ASSUME NEW w \in Writers, Record(w) PROVE FreshInv'
  <2>1. /\ SwapRow(wkey[w]) /\ wpc[w] = "record" /\ Forget(w)
        /\ UNCHANGED <<clock, objects, mtime, produced, gpc, gnow, grefs, gcand, apc, akey>>
    BY <1>6 DEF Record, storeVars, gcVars, adoptVars
  <2>2. /\ Active(w) /\ wkey[w] \in Keys /\ wkey[w] \in objects /\ wsince[w] <= mtime[wkey[w]]
        /\ clock <= wsince[w] + WriteTime
    BY <1>0, <2>1 DEF Active, OwnInv, TypeOK
  <2>3. Referenced' \subseteq Referenced \cup {wkey[w]}
    BY <1>0, <2>1, <2>2, SwapReferenced DEF TypeOK
  <2>4. /\ wpc'[w] = "idle"
        /\ \A v \in Writers : v # w => /\ wkey'[v] = wkey[v] /\ wpc'[v] = wpc[v]
                                       /\ wsince'[v] = wsince[v]
    BY <1>0, <2>1 DEF Forget, TypeOK
  <2>5. OwnInv'
    BY <1>0, <2>1, <2>2, <2>3, <2>4 DEF OwnInv, Active
  <2>6. gpc # "idle" => gnow < mtime[wkey[w]] + Grace
    <3>1. gnow \in Nat /\ mtime[wkey[w]] \in Nat /\ wsince[w] \in Nat
      BY <1>0, <2>2 DEF TypeOK
    <3> QED BY <1>0, <2>2, <3>1 DEF ListedInv
  <2>7. ListedInv'
    BY <1>0, <2>1, <2>2, <2>3, <2>4, <2>6 DEF ListedInv, Active
  <2> QED BY <1>0, <2>1, <2>5, <2>7 DEF FreshInv
<1>7. ASSUME NEW w \in Writers, WriterDies(w) PROVE FreshInv'
  <2>1. /\ Forget(w)
        /\ UNCHANGED <<clock, objects, mtime, registry, produced, gpc, gnow, grefs, gcand, apc, akey>>
    BY <1>7 DEF WriterDies, storeVars, gcVars, adoptVars
  <2>2. /\ wpc'[w] = "idle"
        /\ \A v \in Writers : v # w => /\ wkey'[v] = wkey[v] /\ wpc'[v] = wpc[v]
                                       /\ wsince'[v] = wsince[v]
    BY <1>0, <2>1 DEF Forget, TypeOK
  <2>3. OwnInv' /\ ListedInv'
    BY <1>0, <2>1, <2>2 DEF OwnInv, ListedInv, Active, Referenced
  <2> QED BY <1>0, <2>1, <2>3 DEF FreshInv
<1>8. CASE GcStart
  <2>1. /\ gpc' = "list" /\ gnow' = clock /\ grefs' = Referenced
        /\ UNCHANGED <<clock, objects, mtime, registry, wpc, wkey, wsince, produced, gcand, apc, akey>>
    BY <1>8 DEF GcStart, storeVars, rowVars, writerVars, adoptVars
  <2>2. OwnInv' /\ ListedInv'
    BY <1>0, <2>1 DEF OwnInv, ListedInv, Active, Referenced
  <2> QED BY <1>0, <2>1, <2>2 DEF FreshInv
<1>9. CASE GcList
  <2>1. /\ gpc = "list" /\ gcand' = {o \in objects \ grefs : gnow - mtime[o] >= Grace}
        /\ gpc' = "idle" \/ (gpc' = "reread" /\ gnow' = gnow)
        /\ UNCHANGED <<clock, objects, mtime, registry, wpc, wkey, wsince, produced, apc, akey>>
    BY <1>9 DEF GcList, PastGrace, PassTo, storeVars, rowVars, writerVars, adoptVars
  <2>2. gnow \in Nat /\ gnow <= clock /\ objects \subseteq Keys
    BY <1>0, <2>1 DEF TypeOK, ListedInv
  <2>3. ASSUME NEW o \in gcand' PROVE o \notin Referenced
    BY <1>0, <2>1, <2>2, <2>3 DEF ListedInv
  <2>4. ASSUME NEW o \in gcand', NEW w \in Writers, Active(w) PROVE wkey[w] # o
    <3>1. o \in objects /\ o \in Keys /\ mtime[o] \in Nat /\ wsince[w] \in Nat
          /\ gnow - mtime[o] >= Grace
      BY <1>0, <2>1, <2>2, <2>4
    <3>2. wkey[w] = o => wsince[w] <= mtime[o] /\ clock <= wsince[w] + WriteTime
      BY <1>0, <2>4, <3>1 DEF OwnInv
    <3> QED BY <1>0, <2>2, <3>1, <3>2
  <2>5. OwnInv'
    BY <1>0, <2>1 DEF OwnInv, Active, Referenced
  <2>6. ListedInv'
    <3>1. \A o \in gcand' : o \in produced'
      BY <1>0, <2>1 DEF OwnInv
    <3>2. Referenced' = Referenced /\ \A w \in Writers : Active(w)' = Active(w) /\ wkey'[w] = wkey[w]
      BY <2>1 DEF Referenced, Active
    <3> QED BY <2>1, <2>2, <2>3, <2>4, <3>1, <3>2 DEF ListedInv
  <2> QED BY <1>0, <2>1, <2>5, <2>6 DEF FreshInv
<1>10. CASE GcReread
  <2>1. /\ gpc = "reread" /\ gcand' \subseteq gcand
        /\ gpc' = "idle" \/ (gpc' = "delete" /\ gnow' = gnow)
        /\ UNCHANGED <<clock, objects, mtime, registry, wpc, wkey, wsince, produced, apc, akey>>
    BY <1>10 DEF GcReread, PassTo, storeVars, rowVars, writerVars, adoptVars
  <2>2. OwnInv' /\ ListedInv'
    BY <1>0, <2>1 DEF OwnInv, ListedInv, Active, Referenced
  <2> QED BY <1>0, <2>1, <2>2 DEF FreshInv
<1>11. CASE GcDelete
  <2>1. /\ gpc = "delete"
        /\ gpc' = "idle" \/ (gpc' = "delete" /\ gnow' = gnow)
        /\ UNCHANGED <<clock, mtime, registry, wpc, wkey, wsince, produced, apc, akey>>
    BY <1>11 DEF GcDelete, PassTo, rowVars, writerVars, adoptVars
  <2>2. PICK o \in gcand : objects' = objects \ {o} /\ gcand' = gcand \ {o}
    BY <1>11 DEF GcDelete
  <2>3. o \notin Referenced /\ \A w \in Writers : Active(w) => wkey[w] # o
    BY <1>0, <2>1, <2>2 DEF ListedInv
  <2>4. OwnInv' /\ ListedInv'
    BY <1>0, <2>1, <2>2, <2>3 DEF OwnInv, ListedInv, Active, Referenced
  <2> QED BY <1>0, <2>1, <2>4 DEF FreshInv
<1>12. ~Adopt
  BY <1>0, StoreAssumption
    DEF Adopt, AdoptStart, AdoptList, AdoptGet, AdoptRecord, AdoptEnd, Fresh, TypeOK
<1> QED BY <1>1, <1>2, <1>3, <1>4, <1>5, <1>6, <1>7, <1>8, <1>9, <1>10, <1>11, <1>12
  DEF Next, Writer, Gc, Over

\* When every rewrite has new bytes and takes less than the grace period, every
\* row points at an object, however writes and collections interleave.
THEOREM FreshRegisteredPresent == Fresh => (Spec => []RegisteredPresent)
<1> SUFFICES ASSUME Fresh PROVE Spec => []RegisteredPresent
  OBVIOUS
<1>1. FreshInv /\ [Next]_vars => FreshInv'
  BY NextFresh
<1>2. FreshInv => RegisteredPresent
  BY DEF FreshInv, OwnInv, RegisteredPresent
<1> QED BY InitFresh, <1>1, <1>2, PTL DEF Spec
-----------------------------------------------------------------------------
(* One writer, and nothing written during an adoption: rows go forward and *)
(* adoptions heal                                                          *)

\* The settings adopt_unregistered asks for: keys are not produced twice, a slot has
\* one writer at a time, and adoptions run while nothing writes.
Alone == ~Reuse /\ QuietAdopt /\ \A v, w \in Writers : v = w

\* What is stored, registered or lost has been produced; times lie in the past,
\* a row's after its object's.
TimesInv ==
    /\ objects \subseteq produced
    /\ \A k \in Keys : mtime[k] <= clock
    /\ \A s \in Slots : rowTime[s] <= clock
    /\ \A s \in Slots : registry[s] # None =>
          <<s, registry[s]>> \in produced /\ mtime[<<s, registry[s]>>] <= rowTime[s]
    /\ \A s \in Slots : lost[s] # None => <<s, lost[s]>> \in produced

\* What is being written is new, and later than all its slot has.
WriteInv ==
    \A w \in Writers : wpc[w] # "idle" =>
        /\ apc = "idle" /\ wkey[w] \in produced /\ wsince[w] <= clock
        /\ registry[SlotOf(wkey[w])] # wkey[w][2] /\ lost[SlotOf(wkey[w])] # wkey[w][2]
        /\ registry[SlotOf(wkey[w])] # None => rowTime[SlotOf(wkey[w])] < wsince[w]
        /\ \A o \in objects : SlotOf(o) = SlotOf(wkey[w]) /\ o # wkey[w] => mtime[o] < wsince[w]
        /\ IF wpc[w] = "record" THEN mtime[wkey[w]] >= wsince[w] ELSE wkey[w] \notin objects

\* A lost version that is still stored is later than the row and than all else in
\* the slot that nobody is about to register.
LostInv ==
    \A s \in Slots : lost[s] # None /\ <<s, lost[s]>> \in objects =>
        /\ registry[s] # lost[s]
        /\ registry[s] # None => rowTime[s] < mtime[<<s, lost[s]>>]
        /\ \A o \in objects :
              \/ SlotOf(o) # s \/ o = <<s, lost[s]>> \/ mtime[o] < mtime[<<s, lost[s]>>]
              \/ \E w \in Writers : wpc[w] = "record" /\ wkey[w] = o

\* A key that may still be adopted: its slot's row is as the pass has read it, and
\* older than the key's object.
Adoptable(k) ==
    /\ k \in produced
    /\ registry[SlotOf(k)] = arows[SlotOf(k)] /\ rowTime[SlotOf(k)] = atimes[SlotOf(k)]
    /\ NewerThanRow(k)

\* A pass holds adoptable keys only, and every lost version that is still stored.
PassInv ==
    /\ apc # "adopt" => acand = {} /\ akey = None
    /\ apc = "list" => arows = registry /\ atimes = rowTime
    /\ \A c \in acand : c[2] = mtime[c[1]] /\ Adoptable(c[1])
    /\ akey # None => Adoptable(akey) /\ \A c \in acand : SlotOf(c[1]) # SlotOf(akey)
    /\ apc = "adopt" =>
          \A s \in Slots : lost[s] # None /\ <<s, lost[s]>> \in objects =>
              \/ <<<<s, lost[s]>>, mtime[<<s, lost[s]>>]>> \in acand
              \/ akey = <<s, lost[s]>>

AdoptInv == TypeOK /\ TimesInv /\ WriteInv /\ LostInv /\ PassInv

\* A key is a slot and a version.
LEMMA KeyParts ==
    /\ \A k \in Keys : /\ k = <<SlotOf(k), k[2]>> /\ SlotOf(k) = k[1]
                       /\ SlotOf(k) \in Slots /\ k[2] \in Versions /\ k[2] # None /\ k # None
    /\ \A s \in Slots, v \in Versions : /\ <<s, v>> \in Keys /\ <<s, v>>[2] = v
                                        /\ SlotOf(<<s, v>>) = s
BY StoreAssumption DEF Keys, SlotOf

\* The row of the swapped key's slot, and no other, is replaced.
LEMMA SwapRows ==
    ASSUME TypeOK, NEW k \in Keys, SwapRow(k)
    PROVE  /\ registry'[SlotOf(k)] = k[2] /\ rowTime'[SlotOf(k)] = clock
           /\ \A s \in Slots : s # SlotOf(k) => registry'[s] = registry[s] /\ rowTime'[s] = rowTime[s]
BY KeyParts DEF TypeOK, SwapRow

LEMMA InitAdopt == Init => AdoptInv
<1> SUFFICES ASSUME Init PROVE AdoptInv
  OBVIOUS
<1>1. TypeOK
  BY InitType
<1>2. TimesInv /\ WriteInv /\ LostInv /\ PassInv
  BY KeyParts DEF Init, TimesInv, WriteInv, LostInv, PassInv
<1> QED BY <1>1, <1>2 DEF AdoptInv

\* While a writer writes no adoption runs.
LEMMA WritingIdle ==
    ASSUME TypeOK, WriteInv, PassInv, NEW w \in Writers, wpc[w] # "idle"
    PROVE  apc = "idle" /\ acand = {} /\ akey = None /\ wkey[w] \in Keys
BY DEF TypeOK, WriteInv, PassInv

\* Time passes, or a collection deletes: nothing gets younger.
LEMMA ShrinkAdopt ==
    ASSUME AdoptInv, TypeOK', objects' \subseteq objects, clock <= clock',
           UNCHANGED <<mtime, rowTime, registry, lost, wpc, wkey, wsince, produced>>,
           UNCHANGED <<apc, arows, atimes, acand, akey>>
    PROVE  AdoptInv'
<1>0. /\ clock \in Nat /\ clock' \in Nat /\ mtime \in [Keys -> Nat] /\ rowTime \in [Slots -> Nat]
      /\ wsince \in [Writers -> Nat]
  BY DEF AdoptInv, TypeOK
<1>1. TimesInv'
  BY <1>0 DEF AdoptInv, TimesInv
<1>2. WriteInv'
  BY <1>0 DEF AdoptInv, WriteInv
<1>3. LostInv'
  BY DEF AdoptInv, LostInv
<1>4. PassInv'
  BY DEF AdoptInv, PassInv, Adoptable, NewerThanRow
<1> QED BY <1>1, <1>2, <1>3, <1>4 DEF AdoptInv

\* The steps of the writer.
LEMMA WriterAdopt ==
    ASSUME Alone, AdoptInv, TypeOK', NEW w \in Writers, Writer(w)
    PROVE  AdoptInv'
<1>0. /\ TypeOK /\ TimesInv /\ WriteInv /\ LostInv /\ PassInv
      /\ clock \in Nat /\ mtime \in [Keys -> Nat] /\ rowTime \in [Slots -> Nat]
      /\ wsince \in [Writers -> Nat] /\ objects \subseteq Keys
      /\ \A v \in Writers : v = w
  BY DEF AdoptInv, TypeOK, Alone
<1>1. ASSUME NEW k \in Keys, Produce(w, k) PROVE AdoptInv'
  <2>1. /\ wpc'[w] = "head" /\ wkey'[w] = k /\ wsince'[w] = clock
        /\ produced' = produced \cup {k} /\ k \notin produced
        /\ UNCHANGED <<clock, objects, mtime, rowTime, registry, lost>>
        /\ UNCHANGED <<apc, arows, atimes, acand, akey>>
    BY <1>0, <1>1 DEF Produce, Alone, TypeOK, storeVars, rowVars, adoptVars
  <2>2. /\ apc = "idle" /\ wpc[w] = "idle"
        /\ registry[SlotOf(k)] # None => rowTime[SlotOf(k)] < clock
        /\ \A o \in objects : SlotOf(o) = SlotOf(k) => mtime[o] < clock
    BY <1>1 DEF Produce, Alone, Adopting
  <2>3. TimesInv'
    BY <1>0, <2>1 DEF TimesInv
  <2>4. registry[SlotOf(k)] # k[2] /\ lost[SlotOf(k)] # k[2] /\ k \notin objects
    <3>1. k = <<SlotOf(k), k[2]>> /\ SlotOf(k) \in Slots /\ k[2] # None
      BY KeyParts
    <3> QED BY <1>0, <2>1, <3>1 DEF TimesInv
  <2>5. WriteInv'
    BY <1>0, <2>1, <2>2, <2>4 DEF WriteInv
  <2>6. LostInv'
    <3>1. ~\E v \in Writers : wpc[v] = "record"
      BY <1>0, <2>2
    <3> QED BY <1>0, <2>1, <3>1 DEF LostInv
  <2>7. PassInv'
    BY <1>0, <2>1, <2>2 DEF PassInv
  <2> QED BY <2>3, <2>5, <2>6, <2>7 DEF AdoptInv
<1>2. CASE HeadObject(w)
  <2>1. /\ apc = "idle" /\ acand = {} /\ akey = None /\ wkey[w] \in Keys /\ wpc[w] = "head"
    BY <1>0, <1>2, WritingIdle DEF HeadObject
  <2>2. /\ wpc'[w] = "put"
        /\ UNCHANGED <<clock, objects, mtime, rowTime, registry, lost, wkey, wsince, produced>>
        /\ UNCHANGED <<apc, arows, atimes, acand, akey>>
    BY <1>0, <1>2, <2>1 DEF HeadObject, WriteInv, TypeOK, storeVars, rowVars, adoptVars
  <2>3. TimesInv' /\ WriteInv'
    BY <1>0, <2>1, <2>2 DEF TimesInv, WriteInv
  <2>4. LostInv'
    BY <1>0, <2>1, <2>2 DEF LostInv
  <2>5. PassInv'
    BY <2>1, <2>2 DEF PassInv
  <2> QED BY <2>3, <2>4, <2>5 DEF AdoptInv
<1>3. CASE Put(w)
  <2> DEFINE k == wkey[w]
  <2>1. apc = "idle" /\ acand = {} /\ akey = None /\ k \in Keys /\ wpc[w] = "put"
    BY <1>0, <1>3, WritingIdle DEF Put
  <2>2. /\ wpc'[w] = "record" /\ objects' = objects \cup {k} /\ mtime'[k] = clock
        /\ \A o \in Keys : o # k => mtime'[o] = mtime[o]
        /\ UNCHANGED <<clock, rowTime, registry, lost, wkey, wsince, produced>>
        /\ UNCHANGED <<apc, arows, atimes, acand, akey>>
    BY <1>0, <1>3, <2>1 DEF Put, TypeOK, rowVars, adoptVars
  <2>3. /\ k \in produced /\ wsince[w] <= clock /\ k \notin objects
        /\ registry[SlotOf(k)] # k[2] /\ lost[SlotOf(k)] # k[2]
    BY <1>0, <2>1 DEF WriteInv
  <2> HIDE DEF k
  <2>4. \A s \in Slots : /\ registry[s] # None => <<s, registry[s]>> \in Keys /\ <<s, registry[s]>> # k
                         /\ lost[s] # None => <<s, lost[s]>> \in Keys /\ <<s, lost[s]>> # k
    <3>1. \A s \in Slots, v \in Versions : <<s, v>> = k => s = SlotOf(k) /\ v = k[2]
      BY KeyParts
    <3>2. \A s \in Slots : registry[s] \in Versions \cup {None} /\ lost[s] \in Versions \cup {None}
      BY <1>0 DEF TypeOK
    <3> QED BY <2>3, <3>1, <3>2, KeyParts
  <2>5. TimesInv'
    <3>1. objects' \subseteq produced' /\ \A o \in Keys : mtime'[o] <= clock'
      BY <1>0, <2>2, <2>3 DEF TimesInv
    <3>2. \A s \in Slots : registry[s] # None => mtime'[<<s, registry[s]>>] = mtime[<<s, registry[s]>>]
      BY <2>2, <2>4
    <3> QED BY <1>0, <2>2, <3>1, <3>2 DEF TimesInv
  <2>6. WriteInv'
    BY <1>0, <2>1, <2>2, <2>3 DEF WriteInv, k
  <2>7. LostInv'
    <3> SUFFICES ASSUME NEW s \in Slots, lost[s] # None, <<s, lost[s]>> \in objects
                 PROVE  /\ registry[s] # lost[s]
                        /\ registry[s] # None => rowTime[s] < mtime[<<s, lost[s]>>]
                        /\ \A o \in objects' :
                              \/ SlotOf(o) # s \/ o = <<s, lost[s]>> \/ mtime'[o] < mtime[<<s, lost[s]>>]
                              \/ wpc'[w] = "record" /\ wkey[w] = o
      BY <2>2, <2>4 DEF LostInv
    <3>1. ~\E v \in Writers : wpc[v] = "record"
      BY <1>0, <2>1
    <3>2. \A o \in objects : SlotOf(o) # s \/ o = <<s, lost[s]>> \/ mtime[o] < mtime[<<s, lost[s]>>]
      BY <1>0, <3>1 DEF LostInv
    <3>3. \A o \in objects : mtime'[o] = mtime[o]
      BY <1>0, <2>2, <2>3
    <3> QED BY <1>0, <2>2, <3>2, <3>3 DEF LostInv, k
  <2>8. PassInv'
    BY <2>1, <2>2 DEF PassInv
  <2> QED BY <2>5, <2>6, <2>7, <2>8 DEF AdoptInv
<1>4. CASE Record(w)
  <2> DEFINE k == wkey[w]
  <2>1. apc = "idle" /\ acand = {} /\ akey = None /\ k \in Keys /\ wpc[w] = "record"
    BY <1>0, <1>4, WritingIdle DEF Record
  <2>2. /\ wpc'[w] = "idle" /\ lost'[SlotOf(k)] = None
        /\ \A s \in Slots : s # SlotOf(k) => lost'[s] = lost[s]
        /\ UNCHANGED <<clock, objects, mtime, produced, apc, arows, atimes, acand, akey>>
    BY <1>0, <1>4, <2>1, KeyParts DEF Record, Forget, TypeOK, storeVars, adoptVars
  <2>3. /\ registry'[SlotOf(k)] = k[2] /\ rowTime'[SlotOf(k)] = clock
        /\ \A s \in Slots : s # SlotOf(k) => registry'[s] = registry[s] /\ rowTime'[s] = rowTime[s]
    BY <1>0, <1>4, <2>1, SwapRows DEF Record
  <2>4. /\ SlotOf(k) \in Slots /\ k = <<SlotOf(k), k[2]>> /\ k \in produced
    BY <1>0, <2>1, KeyParts DEF WriteInv
  <2> HIDE DEF k
  <2>5. TimesInv'
    BY <1>0, <2>1, <2>2, <2>3, <2>4 DEF TimesInv
  <2>6. WriteInv'
    BY <1>0, <2>2 DEF WriteInv
  <2>7. LostInv'
    <3> SUFFICES ASSUME NEW s \in Slots, lost'[s] # None, <<s, lost'[s]>> \in objects
                 PROVE  /\ registry'[s] # lost'[s]
                        /\ registry'[s] # None => rowTime'[s] < mtime[<<s, lost'[s]>>]
                        /\ \A o \in objects :
                              SlotOf(o) # s \/ o = <<s, lost'[s]>> \/ mtime[o] < mtime[<<s, lost'[s]>>]
      BY <2>2 DEF LostInv
    <3>1. s # SlotOf(k) /\ lost'[s] = lost[s] /\ registry'[s] = registry[s] /\ rowTime'[s] = rowTime[s]
      BY <2>2, <2>3
    <3>2. \A o \in objects : SlotOf(o) # s \/ ~\E v \in Writers : wpc[v] = "record" /\ wkey[v] = o
      BY <1>0, <3>1 DEF k
    <3> QED BY <1>0, <3>1, <3>2 DEF LostInv
  <2>8. PassInv'
    BY <2>1, <2>2 DEF PassInv
  <2> QED BY <2>5, <2>6, <2>7, <2>8 DEF AdoptInv
<1>5. CASE WriterDies(w)
  <2> DEFINE k == wkey[w]
  <2>1. apc = "idle" /\ acand = {} /\ akey = None /\ k \in Keys /\ wpc[w] # "idle"
    BY <1>0, <1>5, WritingIdle DEF WriterDies
  <2>2. /\ wpc'[w] = "idle"
        /\ UNCHANGED <<clock, objects, mtime, registry, rowTime, produced, apc, arows, atimes, acand, akey>>
        /\ IF wpc[w] = "record"
           THEN lost'[SlotOf(k)] = k[2] /\ \A s \in Slots : s # SlotOf(k) => lost'[s] = lost[s]
           ELSE lost' = lost
    BY <1>0, <1>5, <2>1, KeyParts DEF WriterDies, Forget, TypeOK, storeVars, adoptVars
  <2>3. /\ SlotOf(k) \in Slots /\ k = <<SlotOf(k), k[2]>> /\ k \in produced
        /\ registry[SlotOf(k)] # k[2]
        /\ registry[SlotOf(k)] # None => rowTime[SlotOf(k)] < wsince[w]
        /\ \A o \in objects : SlotOf(o) = SlotOf(k) /\ o # k => mtime[o] < wsince[w]
        /\ wpc[w] = "record" => mtime[k] >= wsince[w]
    BY <1>0, <2>1, KeyParts DEF WriteInv
  <2>4. \A v \in Writers : wpc[v] = "record" => wpc[w] = "record" /\ wkey[v] = k
    BY <1>0
  <2> HIDE DEF k
  <2>5. TimesInv'
    BY <1>0, <2>2, <2>3 DEF TimesInv
  <2>6. WriteInv'
    BY <1>0, <2>2 DEF WriteInv
  <2>7. LostInv'
    <3> SUFFICES ASSUME NEW s \in Slots, lost'[s] # None, <<s, lost'[s]>> \in objects
                 PROVE  /\ registry[s] # lost'[s]
                        /\ registry[s] # None => rowTime[s] < mtime[<<s, lost'[s]>>]
                        /\ \A o \in objects :
                              SlotOf(o) # s \/ o = <<s, lost'[s]>> \/ mtime[o] < mtime[<<s, lost'[s]>>]
      BY <2>2 DEF LostInv
    <3>1. CASE wpc[w] = "record" /\ s = SlotOf(k)
      <4>1. <<s, lost'[s]>> = k /\ lost'[s] = k[2]
        BY <2>2, <2>3, <3>1
      <4>2. wsince[w] \in Nat /\ mtime[k] \in Nat /\ rowTime[s] \in Nat /\ \A o \in objects : mtime[o] \in Nat
        BY <1>0, <2>1
      <4> QED BY <2>3, <3>1, <4>1, <4>2
    <3>2. CASE ~(wpc[w] = "record" /\ s = SlotOf(k))
      <4>1. lost'[s] = lost[s]
        BY <2>2, <3>2
      <4>2. \A o \in objects : SlotOf(o) # s \/ ~\E v \in Writers : wpc[v] = "record" /\ wkey[v] = o
        BY <2>4, <3>2
      <4> QED BY <1>0, <4>1, <4>2 DEF LostInv
    <3> QED BY <3>1, <3>2
  <2>8. PassInv'
    BY <2>1, <2>2 DEF PassInv
  <2> QED BY <2>5, <2>6, <2>7, <2>8 DEF AdoptInv
<1> QED BY <1>1, <1>2, <1>3, <1>4, <1>5 DEF Writer

\* The steps of an adoption, in which nothing is written.
LEMMA PassAdopt ==
    ASSUME Alone, AdoptInv, TypeOK', Adopt
    PROVE  AdoptInv'
<1>0. /\ TypeOK /\ TimesInv /\ WriteInv /\ LostInv /\ PassInv
      /\ clock \in Nat /\ mtime \in [Keys -> Nat] /\ rowTime \in [Slots -> Nat]
      /\ objects \subseteq Keys /\ acand \subseteq Keys \X Nat /\ akey \in Keys \cup {None}
  BY DEF AdoptInv, TypeOK
<1>1. \A w \in Writers : wpc[w] = "idle"
  BY <1>0 DEF Adopt, AdoptStart, AdoptList, AdoptGet, AdoptRecord, AdoptEnd, Alone, Writing,
              WriteInv, PassInv
<1>2. UNCHANGED <<clock, objects, mtime, wpc, wkey, wsince, produced>>
  BY DEF Adopt, AdoptStart, AdoptList, AdoptGet, AdoptRecord, AdoptEnd, storeVars, writerVars
<1>3. WriteInv'
  BY <1>1, <1>2 DEF WriteInv
<1>4. ASSUME UNCHANGED <<rowTime, registry, lost>> PROVE TimesInv' /\ LostInv'
  <2>1. TimesInv'
    BY <1>0, <1>2, <1>4 DEF TimesInv
  <2>2. LostInv'
    BY <1>0, <1>2, <1>4 DEF LostInv
  <2> QED BY <2>1, <2>2
<1>5. \A s \in Slots : lost[s] # None /\ <<s, lost[s]>> \in objects =>
        /\ <<s, lost[s]>> \in Keys /\ SlotOf(<<s, lost[s]>>) = s /\ <<s, lost[s]>>[2] = lost[s]
        /\ registry[s] # lost[s]
        /\ registry[s] # None => rowTime[s] < mtime[<<s, lost[s]>>]
        /\ \A o \in objects : \/ SlotOf(o) # s \/ o = <<s, lost[s]>>
                              \/ mtime[o] < mtime[<<s, lost[s]>>]
  BY <1>0, <1>1, KeyParts DEF LostInv
<1>6. CASE AdoptStart
  <2>1. /\ apc' = "list" /\ arows' = registry /\ atimes' = rowTime
        /\ UNCHANGED <<rowTime, registry, lost, acand, akey>> /\ apc = "idle"
    BY <1>6 DEF AdoptStart, rowVars
  <2>2. PassInv'
    BY <1>0, <2>1 DEF PassInv
  <2> QED BY <1>3, <1>4, <2>1, <2>2 DEF AdoptInv
<1>7. CASE AdoptList
  <2>1. /\ apc = "list" /\ apc' = "adopt" /\ arows = registry /\ atimes = rowTime /\ akey = None
        /\ acand' = {<<o, mtime[o]>> : o \in {k \in objects : arows[SlotOf(k)] # k[2] /\ NewerThanRow(k)}}
        /\ UNCHANGED <<rowTime, registry, lost, arows, atimes, akey>>
    BY <1>0, <1>7 DEF AdoptList, PassInv, rowVars
  <2>2. \A c \in acand' : c[2] = mtime[c[1]] /\ Adoptable(c[1])'
    BY <1>0, <1>2, <2>1 DEF Adoptable, NewerThanRow, TimesInv
  <2>3. ASSUME NEW s \in Slots, lost[s] # None, <<s, lost[s]>> \in objects
        PROVE  <<<<s, lost[s]>>, mtime[<<s, lost[s]>>]>> \in acand'
    <3>1. arows[s] # lost[s] /\ NewerThanRow(<<s, lost[s]>>)
      BY <1>0, <1>5, <2>1, <2>3 DEF NewerThanRow
    <3> QED BY <1>5, <2>1, <2>3, <3>1
  <2>4. PassInv'
    BY <1>2, <2>1, <2>2, <2>3 DEF PassInv
  <2> QED BY <1>3, <1>4, <2>1, <2>4 DEF AdoptInv
<1>8. CASE AdoptGet
  <2>1. /\ apc = "adopt" /\ apc' = "adopt" /\ akey = None
        /\ UNCHANGED <<rowTime, registry, lost, arows, atimes>>
    BY <1>8 DEF AdoptGet, rowVars
  <2>2. PICK c \in acand :
          /\ Newest(c)
          /\ IF c[1] \in objects
             THEN akey' = c[1] /\ acand' = {d \in acand : SlotOf(d[1]) # SlotOf(c[1])}
             ELSE akey' = None /\ acand' = acand \ {c}
    BY <1>8 DEF AdoptGet
  <2>3. c[1] \in Keys /\ c[2] = mtime[c[1]] /\ Adoptable(c[1]) /\ c[1] # None
    BY <1>0, <2>2, KeyParts DEF PassInv
  <2>4. \A d \in acand' : d[2] = mtime[d[1]] /\ Adoptable(d[1])'
    BY <1>0, <1>2, <2>1, <2>2 DEF PassInv, Adoptable, NewerThanRow
  <2>5. akey' # None => Adoptable(akey)' /\ \A d \in acand' : SlotOf(d[1]) # SlotOf(akey')
    BY <1>2, <2>1, <2>2, <2>3 DEF Adoptable, NewerThanRow
  <2>6. ASSUME NEW s \in Slots, lost[s] # None, <<s, lost[s]>> \in objects
        PROVE  \/ <<<<s, lost[s]>>, mtime[<<s, lost[s]>>]>> \in acand'
               \/ akey' = <<s, lost[s]>>
    <3> DEFINE k == <<s, lost[s]>>
    <3>0. k \in Keys /\ SlotOf(k) = s /\ akey # k
      BY <1>5, <2>1, <2>6, KeyParts
    <3>1. <<k, mtime[k]>> \in acand /\ k \in Keys /\ SlotOf(k) = s
      BY <1>0, <2>1, <2>6, <3>0 DEF PassInv
    <3>2. CASE c[1] \notin objects
      BY <2>2, <2>6, <3>1, <3>2
    <3>3. CASE c[1] \in objects /\ SlotOf(c[1]) # s
      BY <2>2, <3>1, <3>3
    <3>4. CASE c[1] \in objects /\ SlotOf(c[1]) = s
      <4>1. mtime[k] <= mtime[c[1]]
        BY <2>2, <2>3, <3>1, <3>4 DEF Newest
      <4>2. c[1] = k \/ mtime[c[1]] < mtime[k]
        BY <1>5, <2>6, <3>4
      <4>3. mtime[k] \in Nat /\ mtime[c[1]] \in Nat
        BY <1>0, <2>3, <3>1
      <4>4. c[1] = k
        BY <4>1, <4>2, <4>3
      <4> QED BY <2>2, <3>4, <4>4
    <3> QED BY <3>2, <3>3, <3>4
  <2>7. PassInv'
    BY <1>2, <2>1, <2>4, <2>5, <2>6 DEF PassInv
  <2> QED BY <1>3, <1>4, <2>1, <2>7 DEF AdoptInv
<1>9. CASE AdoptRecord
  <2>1. /\ akey # None /\ akey \in Keys /\ apc = "adopt" /\ apc' = "adopt" /\ akey' = None
        /\ UNCHANGED <<arows, atimes, acand>> /\ SwapRow(akey)
    BY <1>0, <1>9 DEF AdoptRecord, PassInv
  <2>2. SlotOf(akey) \in Slots /\ akey = <<SlotOf(akey), akey[2]>>
    BY <2>1, KeyParts
  <2>3. /\ registry'[SlotOf(akey)] = akey[2] /\ rowTime'[SlotOf(akey)] = clock
        /\ \A s \in Slots : s # SlotOf(akey) => registry'[s] = registry[s] /\ rowTime'[s] = rowTime[s]
    BY <1>0, <2>1, SwapRows
  <2>4. /\ lost'[SlotOf(akey)] = IF lost[SlotOf(akey)] = akey[2] THEN None ELSE lost[SlotOf(akey)]
        /\ \A s \in Slots : s # SlotOf(akey) => lost'[s] = lost[s]
    BY <1>0, <1>9, <2>2 DEF AdoptRecord, TypeOK
  <2>5. \A d \in acand : SlotOf(d[1]) # SlotOf(akey) /\ SlotOf(d[1]) \in Slots
    BY <1>0, <2>1, KeyParts DEF PassInv
  <2>6. \A s \in Slots : lost'[s] # None /\ <<s, lost'[s]>> \in objects =>
            lost'[s] = lost[s] /\ s # SlotOf(akey)
    <3> SUFFICES ASSUME lost[SlotOf(akey)] # akey[2], lost[SlotOf(akey)] # None,
                        <<SlotOf(akey), lost[SlotOf(akey)]>> \in objects
                 PROVE  FALSE
      BY <2>2, <2>4
    <3> DEFINE k == <<SlotOf(akey), lost[SlotOf(akey)]>>
    <3>1. <<k, mtime[k]>> \in acand \/ akey = k
      BY <1>0, <2>1, <2>2 DEF PassInv
    <3>2. SlotOf(k) = SlotOf(akey) /\ k[2] = lost[SlotOf(akey)]
      BY <1>5, <2>2
    <3> QED BY <2>5, <3>1, <3>2
  <2>7. akey \in produced
    BY <1>0, <2>1 DEF PassInv, Adoptable
  <2>8. TimesInv'
    BY <1>0, <1>2, <2>1, <2>2, <2>3, <2>4, <2>7 DEF TimesInv
  <2>9. LostInv'
    <3> SUFFICES ASSUME NEW s \in Slots, lost'[s] # None, <<s, lost'[s]>> \in objects
                 PROVE  /\ registry'[s] # lost'[s]
                        /\ registry'[s] # None => rowTime'[s] < mtime[<<s, lost'[s]>>]
                        /\ \A o \in objects :
                              SlotOf(o) # s \/ o = <<s, lost'[s]>> \/ mtime[o] < mtime[<<s, lost'[s]>>]
      BY <1>2 DEF LostInv
    <3>1. lost'[s] = lost[s] /\ registry'[s] = registry[s] /\ rowTime'[s] = rowTime[s]
      BY <2>3, <2>6
    <3> QED BY <1>5, <3>1
  <2>10. \A d \in acand : d[2] = mtime[d[1]] /\ Adoptable(d[1])'
    BY <1>0, <1>2, <2>1, <2>3, <2>5 DEF PassInv, Adoptable, NewerThanRow
  <2>11. ASSUME NEW s \in Slots, lost'[s] # None, <<s, lost'[s]>> \in objects
         PROVE  <<<<s, lost'[s]>>, mtime[<<s, lost'[s]>>]>> \in acand
    <3>1. lost'[s] = lost[s] /\ s # SlotOf(akey)
      BY <2>6, <2>11
    <3>2. akey # <<s, lost[s]>>
      BY <1>5, <2>11, <3>1
    <3> QED BY <1>0, <2>1, <2>11, <3>1, <3>2 DEF PassInv
  <2>12. PassInv'
    BY <1>2, <2>1, <2>10, <2>11 DEF PassInv
  <2> QED BY <1>3, <2>8, <2>9, <2>12 DEF AdoptInv
<1>10. CASE AdoptEnd
  <2>1. /\ apc' = "idle" /\ acand = {} /\ akey = None
        /\ UNCHANGED <<rowTime, registry, lost, acand, akey>>
    BY <1>10 DEF AdoptEnd, rowVars
  <2>2. PassInv'
    BY <2>1 DEF PassInv
  <2> QED BY <1>3, <1>4, <2>1, <2>2 DEF AdoptInv
<1> QED BY <1>6, <1>7, <1>8, <1>9, <1>10 DEF Adopt

LEMMA NextAdopt == Alone /\ AdoptInv /\ [Next]_vars => AdoptInv'
<1> SUFFICES ASSUME Alone, AdoptInv, [Next]_vars PROVE AdoptInv'
  OBVIOUS
<1>0. TypeOK' /\ clock \in Nat
  BY NextType DEF AdoptInv, TypeOK
<1>1. CASE Tick \/ Gc \/ UNCHANGED vars
  <2>1. /\ objects' \subseteq objects /\ clock <= clock'
        /\ UNCHANGED <<mtime, rowTime, registry, lost, wpc, wkey, wsince, produced>>
        /\ UNCHANGED <<apc, arows, atimes, acand, akey>>
    BY <1>0, <1>1 DEF Tick, Gc, GcStart, GcList, GcReread, GcDelete, vars, storeVars, rowVars,
                      writerVars, adoptVars
  <2> QED BY <1>0, <2>1, ShrinkAdopt
<1> QED BY <1>0, <1>1, WriterAdopt, PassAdopt DEF Next, Over

\* An adoption heals every lost registration whose blob is there, and no row is
\* replaced by an older version (adopt_unregistered).
THEOREM AdoptionsSoundHolds == Alone => (Spec => AdoptionsSound)
<1> SUFFICES ASSUME Alone PROVE Spec => AdoptionsSound
  OBVIOUS
<1> DEFINE Heals ==
             (apc = "adopt" /\ apc' = "idle") =>
                \A s \in Slots : lost[s] \in {None, registry[s]} \/ <<s, lost[s]>> \notin objects
           Forward ==
             \A s \in Slots :
                (registry[s] # None /\ registry'[s] # registry[s]) =>
                    mtime[<<s, registry'[s]>>] > mtime[<<s, registry[s]>>]
<1>1. AdoptInv /\ [Next]_vars => AdoptInv'
  BY NextAdopt
<1>2. ASSUME AdoptInv, [Next]_vars PROVE Heals
  <2> SUFFICES ASSUME apc = "adopt", apc' = "idle",
                      NEW s \in Slots, lost[s] # None, <<s, lost[s]>> \in objects
               PROVE  FALSE
    OBVIOUS
  <2>1. AdoptEnd
    BY <1>2 DEF Next, Tick, Writer, Produce, HeadObject, Put, Record, WriterDies, Gc, GcStart, GcList,
                GcReread, GcDelete, Adopt, AdoptStart, AdoptList, AdoptGet, AdoptRecord, Over,
                adoptVars, vars
  <2>2. acand = {} /\ akey = None
    BY <2>1 DEF AdoptEnd
  <2>3. <<s, lost[s]>> # None
    BY <1>2, KeyParts DEF AdoptInv, TypeOK
  <2> QED BY <1>2, <2>2, <2>3 DEF AdoptInv, PassInv
<1>3. ASSUME AdoptInv, [Next]_vars PROVE Forward
  <2> SUFFICES ASSUME NEW s \in Slots, registry[s] # None, registry'[s] # registry[s]
               PROVE  mtime[<<s, registry'[s]>>] > mtime[<<s, registry[s]>>]
    OBVIOUS
  <2>0. /\ TypeOK /\ TimesInv /\ WriteInv /\ PassInv /\ rowTime[s] \in Nat
        /\ registry[s] \in Versions /\ <<s, registry[s]>> \in Keys
        /\ mtime[<<s, registry[s]>>] \in Nat /\ mtime[<<s, registry[s]>>] <= rowTime[s]
    BY <1>3, KeyParts DEF AdoptInv, TypeOK, TimesInv
  <2>1. (\E w \in Writers : Record(w)) \/ AdoptRecord
    BY <1>3 DEF Next, Tick, Writer, Produce, HeadObject, Put, WriterDies, Gc, GcStart, GcList,
                GcReread, GcDelete, Adopt, AdoptStart, AdoptList, AdoptGet, AdoptEnd, Over,
                rowVars, vars
  <2>2. ASSUME NEW k \in Keys, SwapRow(k), rowTime[s] < mtime[k] \/ SlotOf(k) # s
        PROVE  mtime[<<s, registry'[s]>>] > mtime[<<s, registry[s]>>]
    <3>1. SlotOf(k) = s /\ registry'[s] = k[2]
      BY <2>0, <2>2, SwapRows
    <3>2. <<s, registry'[s]>> = k
      BY <3>1, KeyParts
    <3>3. mtime[k] \in Nat
      BY <2>0 DEF TypeOK
    <3> QED BY <2>0, <2>2, <3>1, <3>2, <3>3
  <2>3. ASSUME NEW w \in Writers, Record(w) PROVE mtime[<<s, registry'[s]>>] > mtime[<<s, registry[s]>>]
    <3>1. wkey[w] \in Keys /\ wpc[w] = "record" /\ SwapRow(wkey[w]) /\ wsince[w] \in Nat
      BY <2>0, <2>3 DEF Record, TypeOK
    <3>2. mtime[wkey[w]] >= wsince[w] /\ (SlotOf(wkey[w]) = s => rowTime[s] < wsince[w])
      BY <2>0, <3>1 DEF WriteInv
    <3>3. mtime[wkey[w]] \in Nat
      BY <2>0, <3>1 DEF TypeOK
    <3>4. rowTime[s] < mtime[wkey[w]] \/ SlotOf(wkey[w]) # s
      BY <2>0, <3>1, <3>2, <3>3
    <3> QED BY <2>2, <3>1, <3>4
  <2>4. CASE AdoptRecord
    <3>1. akey \in Keys /\ SwapRow(akey) /\ Adoptable(akey)
      BY <2>0, <2>4 DEF AdoptRecord, TypeOK, PassInv
    <3>2. SlotOf(akey) = s => rowTime[s] < mtime[akey]
      BY <2>0, <3>1 DEF Adoptable, NewerThanRow, TypeOK
    <3> QED BY <2>2, <3>1, <3>2
  <2> QED BY <2>1, <2>3, <2>4
<1>4. AdoptInv /\ [Next]_vars => [Heals]_vars /\ [Forward]_vars
  BY <1>2, <1>3
<1> QED BY InitAdopt, <1>1, <1>4, PTL DEF Spec, AdoptionsSound, AdoptHeals, NoRollback
=============================================================================
