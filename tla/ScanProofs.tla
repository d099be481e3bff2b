----------------------------- MODULE ScanProofs -----------------------------
(***************************************************************************)
(* Proofs about scans that span periods.  Seals, for every policy size,    *)
(* number of scans and of crashes: no tile that has arrived is lost.       *)
(* Encodings and differences of scans, for every state, every sequence of  *)
(* scans, every number of levels and every death of an ingest: what is     *)
(* read back is what was ingested, and a composed difference is the        *)
(* difference of the two scans.  Intervals, for every plan of key ranges:   *)
(* appended scan by scan they are those of a rebuild.                      *)
(***************************************************************************)
EXTENDS ScanSeal, MultiScan, Intervals, FiniteSetTheorems, SequenceTheorems, WellFoundedInduction, TLAPS

(***************************************************************************)
(* Numbers first.                                                          *)
(***************************************************************************)

LEMMA LeastIn ==
    ASSUME NEW S, S \subseteq Nat, S # {}
    PROVE  Min(S) \in S /\ \A y \in S : Min(S) <= y
<1>1. PICK x \in S : \A y \in S : ~(<<y, x>> \in OpToRel(<, Nat))
  BY NatLessThanWellFounded, WFMin
<1>2. \A y \in S : ~(y < x)
  BY <1>1, Zenon DEF OpToRel
<1>3. \A y \in S : x <= y
  BY <1>2
<1> QED BY <1>3 DEF Min

\* The greatest of the numbers that a set is made of is one of them.
LEMMA MaxIn ==
    ASSUME NEW S, NEW n \in Nat, S \subseteq 0 .. n, S # {}
    PROVE  Max(S) \in S /\ \A y \in S : y <= Max(S)
<1> DEFINE T == {n - x : x \in S}
<1>1. T \subseteq Nat /\ T # {}
  <2>1. T \subseteq Nat
    <3> SUFFICES ASSUME NEW x \in S PROVE n - x \in Nat
      OBVIOUS
    <3>1. x \in 0 .. n
      OBVIOUS
    <3> QED BY <3>1
  <2>2. PICK x \in S : TRUE
    OBVIOUS
  <2>3. n - x \in T
    OBVIOUS
  <2> HIDE DEF T
  <2> QED BY <2>1, <2>3
<1>2. Min(T) \in T /\ \A y \in T : Min(T) <= y
  BY <1>1, LeastIn
<1>3. PICK x \in S : Min(T) = n - x
  BY <1>2
<1>4. \A y \in S : y <= x
  <2> SUFFICES ASSUME NEW y \in S PROVE y <= x
    OBVIOUS
  <2>1. n - x <= n - y
    BY <1>2, <1>3
  <2> QED BY <2>1
<1> QED BY <1>4 DEF Max

LEMMA DivMult ==
    ASSUME NEW a \in Nat, NEW c \in Nat \ {0}
    PROVE  a \div c \in Nat /\ (a \div c) * c <= a /\ a < (a \div c + 1) * c
OBVIOUS

LEMMA Quotient ==
    ASSUME NEW e \in Nat, NEW d \in Nat \ {0}, e % d = 0
    PROVE  \E q \in Nat : e = q * d
OBVIOUS

LEMMA ModTrans ==
    ASSUME NEW c \in Nat \ {0}, NEW d \in Nat \ {0}, d % c = 0, NEW m \in Nat, m % d = 0
    PROVE  m % c = 0
<1>1. PICK i \in Nat, j \in Nat : d = i * c /\ m = j * d
  BY Quotient
<1>2. m = (j * i) * c /\ j * i \in Nat
  BY <1>1
<1>3. \A n \in Nat : (n * c) % c = 0
  OBVIOUS
<1> QED BY <1>2, <1>3
-----------------------------------------------------------------------------

-----------------------------------------------------------------------------
(***************************************************************************)
(* Seals of scans.  The exponential scheme first.                          *)
(***************************************************************************)

\* The blocks of the exponential scheme.
LEMMA BlockSizeFits ==
    ASSUME NEW m \in Nat, NEW a \in Nat, a < m
    PROVE  BlockSize(a, m) \in 1 .. m /\ a + BlockSize(a, m) <= m
<1> DEFINE S == {s \in 1 .. m : /\ s = 1 \/ \E n \in 1 .. m : s = Base ^ n
                                /\ a % s = 0 /\ a + s <= m}
<1>1. a % 1 = 0
  OBVIOUS
<1>2. 1 \in S
  BY <1>1
<1>3. S \subseteq 0 .. m
  OBVIOUS
<1>4. Max(S) \in S
  BY <1>2, <1>3, MaxIn
<1> QED BY <1>4 DEF BlockSize

Decomposed(m, n, f) ==
    f = [k \in 0 .. n |-> IF k = 0 THEN <<>> ELSE
            LET s == BlockSize(m - k, m) IN <<<<m - k, s>>>> \o f[k - s]]

LEMMA DecomposedExist ==
    ASSUME NEW m \in Nat
    PROVE  \E f : Decomposed(m, m, f)
<1> DEFINE Bad == {k \in 0 .. m : ~\E f : Decomposed(m, k, f)}
<1>1. ASSUME Bad # {} PROVE FALSE
  <2>1. Min(Bad) \in Bad /\ \A y \in Bad : Min(Bad) <= y
    BY <1>1, LeastIn
  <2>2. PICK k \in Bad : \A y \in Bad : k <= y
    BY <2>1
  <2>3. k \in 0 .. m /\ ~\E f : Decomposed(m, k, f)
    BY <2>2
  <2>4. CASE k = 0
    <3>1. Decomposed(m, 0, [t \in 0 .. 0 |-> <<>>])
      BY DEF Decomposed
    <3> QED BY <3>1, <2>3, <2>4
  <2>5. CASE k # 0
    <3>1. k - 1 \in 0 .. m /\ k - 1 \notin Bad
      BY <2>2, <2>3, <2>5
    <3>2. PICK f : Decomposed(m, k - 1, f)
      BY <3>1
    <3> DEFINE e(h, t) == IF t = 0 THEN <<>> ELSE <<<<m - t, BlockSize(m - t, m)>>>> \o h[t - BlockSize(m - t, m)]
               g == [t \in 0 .. k |-> e(f, t)]
    <3>3. f = [t \in 0 .. k - 1 |-> e(f, t)]
      BY <3>2 DEF Decomposed
    <3> HIDE DEF e
    <3>9. \A t \in 0 .. k - 1 : f[t] = e(f, t) /\ t \in 0 .. k
      BY <3>3, <2>3
    <3>4. \A t \in 0 .. k - 1 : f[t] = g[t]
      BY <3>9
    <3> USE DEF e
    <3>5. \A t \in 0 .. k : t = 0 \/ t - BlockSize(m - t, m) \in 0 .. k - 1
      <4> SUFFICES ASSUME NEW t \in 1 .. k PROVE t - BlockSize(m - t, m) \in 0 .. k - 1
        BY <2>3
      <4>1. m - t \in Nat /\ m - t < m /\ m - t + t = m
        BY <2>3
      <4>2. BlockSize(m - t, m) \in 1 .. m /\ m - t + BlockSize(m - t, m) <= m
        BY <4>1, BlockSizeFits
      <4> QED BY <4>2, <2>3
    <3>6. \A t \in 0 .. k : e(f, t) = e(g, t)
      BY <3>4, <3>5
    <3>7. g = [t \in 0 .. k |-> e(g, t)]
      BY <3>6
    <3>8. Decomposed(m, k, g)
      BY <3>7 DEF Decomposed
    <3> QED BY <3>8, <2>3
  <2> QED BY <2>4, <2>5
<1>2. m \in 0 .. m /\ m \notin Bad
  BY <1>1
<1> QED BY <1>2

LEMMA DecomposedIs ==
    ASSUME NEW m \in Nat
    PROVE  \E f : Decomposed(m, m, f) /\ Decompose(m) = f[m]
<1> DEFINE g == CHOOSE f : f = [k \in 0 .. m |-> IF k = 0 THEN <<>> ELSE
                                    LET s == BlockSize(m - k, m) IN <<<<m - k, s>>>> \o f[k - s]]
<1>1. \E f : f = [k \in 0 .. m |-> IF k = 0 THEN <<>> ELSE
                                    LET s == BlockSize(m - k, m) IN <<<<m - k, s>>>> \o f[k - s]]
  BY DecomposedExist, Zenon DEF Decomposed
<1>2. g = [k \in 0 .. m |-> IF k = 0 THEN <<>> ELSE
                                    LET s == BlockSize(m - k, m) IN <<<<m - k, s>>>> \o g[k - s]]
  BY <1>1
<1>3. Decompose(m) = g[m]
  BY DEF Decompose
<1> QED BY <1>2, <1>3 DEF Decomposed

\* The blocks bs cover a .. m - 1, each number in one of them.
Tiling(bs, a, m) ==
    /\ bs \in Seq(Nat \X Nat)
    /\ \A i \in DOMAIN bs : a <= bs[i][1] /\ 1 <= bs[i][2] /\ bs[i][1] + bs[i][2] <= m
    /\ \A x \in a .. m - 1 : \E i \in DOMAIN bs : bs[i][1] <= x /\ x < bs[i][1] + bs[i][2]
    /\ \A i, j \in DOMAIN bs : i # j => bs[i][1] + bs[i][2] <= bs[j][1] \/ bs[j][1] + bs[j][2] <= bs[i][1]

LEMMA TilingStep ==
    ASSUME NEW m \in Nat, NEW a \in Nat, NEW s \in Nat \ {0}, NEW bs, a + s <= m, Tiling(bs, a + s, m)
    PROVE  Tiling(<<<<a, s>>>> \o bs, a, m)
<1> DEFINE n == Len(bs)
           cs == <<<<a, s>>>> \o bs
<1>1. bs \in Seq(Nat \X Nat) /\ n \in Nat /\ DOMAIN bs = 1 .. n
  BY DEF Tiling
<1>2. <<<<a, s>>>> \in Seq(Nat \X Nat) /\ Len(<<<<a, s>>>>) = 1
  OBVIOUS
<1>3. cs \in Seq(Nat \X Nat) /\ Len(cs) = n + 1 /\ DOMAIN cs = 1 .. n + 1
  BY <1>1, <1>2
<1>4. cs[1] = <<a, s>> /\ \A i \in 1 .. n : cs[i + 1] = bs[i]
  BY <1>1, <1>2
<1>5. \A i \in 1 .. n : /\ bs[i][1] \in Nat /\ bs[i][2] \in Nat /\ a + s <= bs[i][1] /\ 1 <= bs[i][2]
                        /\ bs[i][1] + bs[i][2] <= m
  <2>1. \A i \in DOMAIN bs : a + s <= bs[i][1] /\ 1 <= bs[i][2] /\ bs[i][1] + bs[i][2] <= m
    BY DEF Tiling
  <2>2. \A i \in DOMAIN bs : bs[i] \in Nat \X Nat
    BY <1>1
  <2> QED BY <1>1, <2>1, <2>2
<1>6. \A x \in a + s .. m - 1 : \E i \in 1 .. n : bs[i][1] <= x /\ x < bs[i][1] + bs[i][2]
  <2>1. \A x \in a + s .. m - 1 : \E i \in DOMAIN bs : bs[i][1] <= x /\ x < bs[i][1] + bs[i][2]
    BY DEF Tiling
  <2> QED BY <2>1, <1>1
<1>7. \A i, j \in 1 .. n : i # j => bs[i][1] + bs[i][2] <= bs[j][1] \/ bs[j][1] + bs[j][2] <= bs[i][1]
  <2>1. \A i, j \in DOMAIN bs : i # j => bs[i][1] + bs[i][2] <= bs[j][1] \/ bs[j][1] + bs[j][2] <= bs[i][1]
    BY DEF Tiling
  <2> QED BY <2>1, <1>1
<1> HIDE DEF cs, n
<1>8. \A i \in 1 .. n + 1 : i = 1 \/ (i - 1 \in 1 .. n /\ cs[i] = bs[i - 1])
  <2> SUFFICES ASSUME NEW i \in 1 .. n + 1, i # 1 PROVE i - 1 \in 1 .. n /\ cs[i] = bs[i - 1]
    OBVIOUS
  <2>1. i - 1 \in 1 .. n /\ (i - 1) + 1 = i
    BY <1>1
  <2> QED BY <2>1, <1>4
<1>9. \A i \in 1 .. n + 1 : a <= cs[i][1] /\ 1 <= cs[i][2] /\ cs[i][1] + cs[i][2] <= m
  BY <1>4, <1>5, <1>8
<1>10. ASSUME NEW x \in a .. m - 1
       PROVE  \E i \in 1 .. n + 1 : cs[i][1] <= x /\ x < cs[i][1] + cs[i][2]
  <2>1. CASE x < a + s
    <3>1. 1 \in 1 .. n + 1 /\ cs[1][1] <= x /\ x < cs[1][1] + cs[1][2]
      BY <2>1, <1>1, <1>4
    <3> QED BY <3>1
  <2>2. CASE ~(x < a + s)
    <3>1. PICK i \in 1 .. n : bs[i][1] <= x /\ x < bs[i][1] + bs[i][2]
      BY <2>2, <1>6
    <3>2. i + 1 \in 1 .. n + 1 /\ cs[i + 1] = bs[i]
      BY <1>1, <1>4
    <3> QED BY <3>1, <3>2
  <2> QED BY <2>1, <2>2
<1>11. ASSUME NEW i \in 1 .. n + 1, NEW j \in 1 .. n + 1, i # j
       PROVE  cs[i][1] + cs[i][2] <= cs[j][1] \/ cs[j][1] + cs[j][2] <= cs[i][1]
  <2>1. CASE i = 1
    <3>1. j - 1 \in 1 .. n /\ cs[j] = bs[j - 1]
      BY <2>1, <1>8, <1>11
    <3> QED BY <2>1, <3>1, <1>4, <1>5
  <2>2. CASE j = 1
    <3>1. i - 1 \in 1 .. n /\ cs[i] = bs[i - 1]
      BY <2>2, <1>8, <1>11
    <3> QED BY <2>2, <3>1, <1>4, <1>5
  <2>3. CASE i # 1 /\ j # 1
    <3>1. i - 1 \in 1 .. n /\ cs[i] = bs[i - 1] /\ j - 1 \in 1 .. n /\ cs[j] = bs[j - 1]
      BY <2>3, <1>8
    <3>2. i - 1 # j - 1
      BY <1>1, <1>11
    <3> QED BY <3>1, <3>2, <1>7
  <2> QED BY <2>1, <2>2, <2>3
<1>12. Tiling(cs, a, m)
  BY <1>3, <1>9, <1>10, <1>11 DEF Tiling
<1> QED BY <1>12 DEF cs

LEMMA DecomposeTiles ==
    ASSUME NEW m \in Nat
    PROVE  Tiling(Decompose(m), 0, m)
<1>1. PICK f : Decomposed(m, m, f) /\ Decompose(m) = f[m]
  BY DecomposedIs
<1> DEFINE Bad == {k \in 0 .. m : ~Tiling(f[k], m - k, m)}
<1>2. ASSUME Bad # {} PROVE FALSE
  <2>1. Min(Bad) \in Bad /\ \A y \in Bad : Min(Bad) <= y
    BY <1>2, LeastIn
  <2>2. PICK k \in Bad : \A y \in Bad : k <= y
    BY <2>1
  <2>3. k \in 0 .. m /\ ~Tiling(f[k], m - k, m)
    BY <2>2
  <2>4. CASE k = 0
    <3>1. f[0] = <<>> /\ m - k = m /\ m .. m - 1 = {}
      BY <1>1, <2>4 DEF Decomposed
    <3>2. Tiling(<<>>, m, m)
      BY <3>1 DEF Tiling
    <3> QED BY <2>3, <2>4, <3>1, <3>2
  <2>5. CASE k # 0
    <3> DEFINE s == BlockSize(m - k, m)
    <3>1. m - k \in Nat /\ m - k < m
      BY <2>3, <2>5
    <3>2. s \in 1 .. m /\ m - k + s <= m
      BY <3>1, BlockSizeFits
    <3>3. f[k] = <<<<m - k, s>>>> \o f[k - s]
      BY <1>1, <2>3, <2>5 DEF Decomposed
    <3> HIDE DEF s
    <3>4. k - s \in 0 .. m /\ k - s < k /\ m - (k - s) = (m - k) + s
      BY <3>2, <2>3
    <3>5. k - s \notin Bad
      BY <2>2, <2>3, <3>4
    <3>6. Tiling(f[k - s], (m - k) + s, m)
      BY <3>4, <3>5
    <3>7. Tiling(<<<<m - k, s>>>> \o f[k - s], m - k, m)
      BY <3>1, <3>2, <3>6, TilingStep
    <3> QED BY <2>3, <3>3, <3>7
  <2> QED BY <2>4, <2>5
<1>3. m \in 0 .. m /\ m \notin Bad /\ m - m = 0
  BY <1>2
<1> QED BY <1>1, <1>3

-----------------------------------------------------------------------------
\* Records of blocks: the key says which scans, and a scan is in one block.
Keys    == Nat \X Nat \X Nat
Records == [key : Keys, period : Nat, scans : Seq(Nat)]

BlockOf(k) == [key |-> k, period |-> 1, scans |-> [j \in 1 .. k[3] |-> (k[2] - 1) + j]]
Span(k)    == k[2] .. (k[2] + k[3] - 1)

Dyadics(B, m) ==
    /\ B \in Seq(Records)
    /\ \A i \in DOMAIN B : B[i] = BlockOf(B[i].key) /\ Members(B[i]) = Span(B[i].key) /\ B[i].period = 1
    /\ \A i \in DOMAIN B : B[i].key \in Keys /\ B[i].key[3] # 0 /\ Span(B[i].key) \subseteq 1 .. m
    /\ \A x \in 1 .. m : \E i \in DOMAIN B : x \in Span(B[i].key)
    /\ \A i, j \in DOMAIN B : \A x : x \in Span(B[i].key) /\ x \in Span(B[j].key) => i = j

LEMMA NumbersSeq ==
    ASSUME NEW n \in Nat, NEW f \in [1 .. n -> Nat]
    PROVE  f \in Seq(Nat)
OBVIOUS

LEMMA BlockMembers ==
    ASSUME NEW k \in Keys, k[2] # 0
    PROVE  Members(BlockOf(k)) = Span(k) /\ BlockOf(k) \in Records
<1> DEFINE f == [j \in 1 .. k[3] |-> (k[2] - 1) + j]
<1>1. k[2] \in Nat /\ k[3] \in Nat /\ k[2] - 1 \in Nat
  BY DEF Keys
<1>2. \A j \in 1 .. k[3] : (k[2] - 1) + j \in Nat /\ (k[2] - 1) + j \in Span(k)
  BY <1>1 DEF Span
<1>3. f \in [1 .. k[3] -> Nat]
  BY <1>2
<1>4. f \in Seq(Nat)
  BY <1>1, <1>3, NumbersSeq
<1>5. BlockOf(k).scans = f /\ DOMAIN f = 1 .. k[3]
  BY DEF BlockOf
<1>6. \A x \in Span(k) : \E j \in 1 .. k[3] : f[j] = x
  <2> SUFFICES ASSUME NEW x \in Span(k) PROVE \E j \in 1 .. k[3] : f[j] = x
    OBVIOUS
  <2>1. x - (k[2] - 1) \in 1 .. k[3] /\ (k[2] - 1) + (x - (k[2] - 1)) = x
    BY <1>1 DEF Span
  <2>2. f[x - (k[2] - 1)] = x
    BY <2>1
  <2> QED BY <2>1, <2>2
<1>7. \A j \in 1 .. k[3] : f[j] \in Span(k)
  BY <1>2
<1> HIDE DEF f
<1>8. Members(BlockOf(k)) = Span(k)
  BY <1>5, <1>6, <1>7 DEF Members
<1>9. BlockOf(k) \in Records
  BY <1>4, <1>5 DEF BlockOf, Records
<1> QED BY <1>8, <1>9

LEMMA DyadicsFacts ==
    ASSUME NEW m \in Nat
    PROVE  Dyadics(BlocksOf(1, m), m)
<1> DEFINE bs == Decompose(m)
           n == Len(bs)
           B == BlocksOf(1, m)
           K(b) == <<1, bs[b][1] + 1, bs[b][2]>>
<1>1. Tiling(bs, 0, m)
  BY DecomposeTiles
<1>2. B = [b \in DOMAIN bs |-> [key |-> Key(1, bs[b][1] + 1, bs[b][2]), period |-> 1,
                                scans |-> [i \in 1 .. bs[b][2] |-> bs[b][1] + i]]]
  BY DEF BlocksOf
<1> HIDE DEF bs, B
<1>3. bs \in Seq(Nat \X Nat) /\ n \in Nat /\ DOMAIN bs = 1 .. n
  BY <1>1 DEF Tiling
<1>4. \A b \in 1 .. n : bs[b][1] \in Nat /\ bs[b][2] \in Nat /\ 1 <= bs[b][2] /\ bs[b][1] + bs[b][2] <= m
  <2>1. \A b \in DOMAIN bs : 1 <= bs[b][2] /\ bs[b][1] + bs[b][2] <= m
    BY <1>1 DEF Tiling
  <2>2. \A b \in DOMAIN bs : bs[b] \in Nat \X Nat
    BY <1>3
  <2> QED BY <1>3, <2>1, <2>2
<1>5. \A x \in 0 .. m - 1 : \E b \in DOMAIN bs : bs[b][1] <= x /\ x < bs[b][1] + bs[b][2]
  BY <1>1 DEF Tiling
<1>6. \A i, j \in DOMAIN bs : i # j => bs[i][1] + bs[i][2] <= bs[j][1] \/ bs[j][1] + bs[j][2] <= bs[i][1]
  BY <1>1 DEF Tiling
<1> HIDE DEF n
<1>7. \A b \in 1 .. n : B[b] = [key |-> K(b), period |-> 1, scans |-> [i \in 1 .. bs[b][2] |-> bs[b][1] + i]]
  BY <1>2, <1>3 DEF Key
<1>8. ASSUME NEW b \in 1 .. n
      PROVE  /\ K(b) \in Keys /\ K(b)[2] = bs[b][1] + 1 /\ K(b)[3] = bs[b][2]
             /\ Span(K(b)) = bs[b][1] + 1 .. bs[b][1] + bs[b][2]
  <2>1. K(b) \in Keys /\ K(b)[2] = bs[b][1] + 1 /\ K(b)[3] = bs[b][2]
    BY <1>4 DEF Keys
  <2>2. K(b)[2] + K(b)[3] - 1 = bs[b][1] + bs[b][2]
    BY <2>1, <1>4
  <2> QED BY <2>1, <2>2 DEF Span
<1>9. ASSUME NEW b \in 1 .. n
      PROVE  B[b].key = K(b) /\ B[b].period = 1 /\ B[b] = BlockOf(K(b))
  <2> DEFINE f == [i \in 1 .. bs[b][2] |-> bs[b][1] + i]
  <2>0. B[b] = [key |-> K(b), period |-> 1, scans |-> f]
    BY <1>7
  <2>1. B[b].key = K(b) /\ B[b].period = 1
    BY <2>0
  <2>2. \A i \in 1 .. bs[b][2] : (K(b)[2] - 1) + i = bs[b][1] + i
    BY <1>4, <1>8
  <2>3. B[b] = BlockOf(K(b))
    BY <2>2, <1>7, <1>8 DEF BlockOf
  <2> QED BY <2>1, <2>3
<1> HIDE DEF K
<1>10. \A b \in 1 .. n : B[b] \in Records /\ Members(B[b]) = Span(K(b))
  <2> SUFFICES ASSUME NEW b \in 1 .. n PROVE B[b] \in Records /\ Members(B[b]) = Span(K(b))
    OBVIOUS
  <2>1. K(b) \in Keys /\ K(b)[2] # 0
    BY <1>4, <1>8
  <2> QED BY <2>1, <1>9, BlockMembers
<1>11. DOMAIN B = 1 .. n /\ B \in [1 .. n -> Records]
  BY <1>2, <1>3, <1>10
<1>12. B \in Seq(Records)
  BY <1>3, <1>11
<1>13. \A b \in 1 .. n : B[b].key[3] # 0 /\ Span(B[b].key) \subseteq 1 .. m
  <2> SUFFICES ASSUME NEW b \in 1 .. n PROVE B[b].key[3] # 0 /\ Span(B[b].key) \subseteq 1 .. m
    OBVIOUS
  <2>1. B[b].key = K(b)
    BY <1>9
  <2>2. K(b)[3] = bs[b][2] /\ Span(K(b)) = bs[b][1] + 1 .. bs[b][1] + bs[b][2]
    BY <1>8
  <2>3. bs[b][1] \in Nat /\ bs[b][2] \in Nat /\ 1 <= bs[b][2] /\ bs[b][1] + bs[b][2] <= m
    BY <1>4
  <2>4. (bs[b][1] + 1 .. bs[b][1] + bs[b][2]) \subseteq 1 .. m
    BY <2>3
  <2> QED BY <2>1, <2>2, <2>3, <2>4
<1>14. ASSUME NEW x \in 1 .. m PROVE \E i \in 1 .. n : x \in Span(B[i].key)
  <2>1. x - 1 \in 0 .. m - 1
    OBVIOUS
  <2>2. PICK b \in 1 .. n : bs[b][1] <= x - 1 /\ x - 1 < bs[b][1] + bs[b][2]
    BY <2>1, <1>3, <1>5
  <2>3. x \in Span(K(b))
    BY <2>2, <1>4, <1>8
  <2> QED BY <2>3, <1>9
<1>15. ASSUME NEW i \in 1 .. n, NEW j \in 1 .. n, NEW x, x \in Span(B[i].key), x \in Span(B[j].key), i # j
       PROVE  FALSE
  <2>1. x \in Span(K(i)) /\ x \in Span(K(j))
    BY <1>9, <1>15
  <2>2. bs[i][1] + bs[i][2] <= bs[j][1] \/ bs[j][1] + bs[j][2] <= bs[i][1]
    BY <1>3, <1>6, <1>15
  <2>3. x \in bs[i][1] + 1 .. bs[i][1] + bs[i][2] /\ x \in bs[j][1] + 1 .. bs[j][1] + bs[j][2]
    BY <2>1, <1>8
  <2>4. /\ bs[i][1] \in Nat /\ bs[i][2] \in Nat /\ bs[j][1] \in Nat /\ bs[j][2] \in Nat
    BY <1>4
  <2> QED BY <2>2, <2>3, <2>4
<1>16. Dyadics(B, m)
  <2>1. \A i \in DOMAIN B : B[i] = BlockOf(B[i].key) /\ Members(B[i]) = Span(B[i].key) /\ B[i].period = 1
    BY <1>9, <1>10, <1>11
  <2>2. \A i \in DOMAIN B : B[i].key \in Keys /\ B[i].key[3] # 0 /\ Span(B[i].key) \subseteq 1 .. m
    BY <1>8, <1>9, <1>11, <1>13
  <2>3. \A x \in 1 .. m : \E i \in DOMAIN B : x \in Span(B[i].key)
    BY <1>11, <1>14
  <2>4. \A i, j \in DOMAIN B : \A x : x \in Span(B[i].key) /\ x \in Span(B[j].key) => i = j
    BY <1>11, <1>15
  <2> QED BY <1>12, <2>1, <2>2, <2>3, <2>4 DEF Dyadics
<1> QED BY <1>16 DEF B
-----------------------------------------------------------------------------
\* Scans a + 1 .. n of the only period; the archives of given keys.
After(a, n) == (a + 1 .. n) \X {1}
Ones(k)     == [l \in Span(k) |-> 1]
Stock(ks)   == [k \in ks |-> Ones(k)]
RecordKeys(rs)  == {rs[i].key : i \in DOMAIN rs}

Stages == {"idle", "put", "record", "drop", "build", "delete", "singles", "rewrite"}
JobSet == [stage : Stages, work : Seq(Records), left : Seq(Nat), current : Seq(Records),
           target : Seq(Records), count : Nat]

Resting(n, b) == sealJob.stage = "idle" /\ archives = Stock(RecordKeys(manifest)) /\ singles = After(b, n)
Building(n, b, m) ==
    /\ sealJob.stage = "build" /\ sealJob.work # <<>> /\ Dyadics(sealJob.target \o sealJob.work, m)
    /\ archives = Stock(RecordKeys(manifest) \cup RecordKeys(sealJob.target)) /\ singles = After(b, n)
Deleting(n, b, m) ==
    /\ sealJob.stage = "delete" /\ Dyadics(sealJob.target, m)
    /\ archives = Stock(RecordKeys(manifest) \cup RecordKeys(sealJob.target)) /\ singles = After(b, n)
Dropping(n, b, m) ==
    /\ sealJob.stage = "singles" /\ Dyadics(sealJob.target, m)
    /\ archives = Stock(RecordKeys(sealJob.target)) /\ singles = After(b, n)
Rewriting(n, b, m) ==
    /\ sealJob.stage = "rewrite" /\ Dyadics(sealJob.target, m)
    /\ archives = Stock(RecordKeys(sealJob.target)) /\ singles = After(m, n)

Sealing(n, b, m) ==
    /\ b <= m /\ 1 <= m /\ m <= n /\ sealJob.current = manifest
    /\ Building(n, b, m) \/ Deleting(n, b, m) \/ Dropping(n, b, m) \/ Rewriting(n, b, m)

OnePeriod == policy = [scheme |-> "exponential", periods |-> 1]

\* n scans have arrived, and the records are the blocks of the first b of them.
DyadicInv ==
    /\ sealJob \in JobSet
    /\ \E n, b \in Nat : /\ b <= n /\ arrived = After(0, n) /\ Dyadics(manifest, b)
                         /\ Resting(n, b) \/ \E m \in Nat : Sealing(n, b, m)

LEMMA AfterNext ==
    ASSUME NEW n \in Nat, NEW a \in Nat, a <= n
    PROVE  After(a, n + 1) = After(a, n) \cup {<<n + 1, 1>>}
<1>1. a + 1 .. n + 1 = (a + 1 .. n) \cup {n + 1}
  OBVIOUS
<1> QED BY <1>1 DEF After

LEMMA BlocksSome ==
    ASSUME NEW B, NEW m \in Nat, Dyadics(B, m), 1 <= m
    PROVE  B # <<>>
<1>1. PICK i \in DOMAIN B : 1 \in Span(B[i].key)
  BY DEF Dyadics
<1> QED BY <1>1

LEMMA NextDone ==
    ASSUME NEW S, NEW s \in Seq(S), NEW t \in Seq(S), t # <<>>
    PROVE  /\ Append(s, t[1]) \o Tail(t) = s \o t /\ t[1] \in S
           /\ Append(s, t[1]) \in Seq(S) /\ Tail(t) \in Seq(S)
           /\ Len(t) = 1 => Append(s, t[1]) = s \o t
           /\ Len(t) # 1 => Tail(t) # <<>>
<1> DEFINE p == Len(s)
           q == Len(t)
<1>1. p \in Nat /\ q \in Nat /\ q # 0 /\ t[1] \in S
  OBVIOUS
<1>2. /\ Append(s, t[1]) \in Seq(S) /\ Len(Append(s, t[1])) = p + 1
      /\ (\A i \in 1 .. p : Append(s, t[1])[i] = s[i]) /\ Append(s, t[1])[p + 1] = t[1]
  BY <1>1
<1>3. Tail(t) \in Seq(S) /\ Len(Tail(t)) = q - 1 /\ \A i \in 1 .. q - 1 : Tail(t)[i] = t[i + 1]
  BY <1>1
<1> DEFINE a == Append(s, t[1])
           r == Tail(t)
           x == a \o r
           y == s \o t
<1>4. a \in Seq(S) /\ Len(a) = p + 1 /\ (\A i \in 1 .. p : a[i] = s[i]) /\ a[p + 1] = t[1]
  BY <1>2
<1>5. r \in Seq(S) /\ Len(r) = q - 1 /\ \A i \in 1 .. q - 1 : r[i] = t[i + 1]
  BY <1>3
<1> HIDE DEF a, r
<1>6. x \in Seq(S) /\ Len(x) = p + q /\ (\A i \in 1 .. p + 1 : x[i] = a[i]) /\ \A i \in 1 .. q - 1 : x[p + 1 + i] = r[i]
  <2>0. a \in Seq(S) /\ r \in Seq(S)
    BY <1>4, <1>5
  <2>1. x \in Seq(S) /\ Len(x) = Len(a) + Len(r) /\ \A i \in 1 .. Len(a) : x[i] = a[i]
    BY <2>0, ConcatProperties
  <2>2. ASSUME NEW i \in 1 .. q - 1 PROVE x[p + 1 + i] = r[i]
    <3>1. i \in 1 .. Len(r)
      BY <1>5
    <3>2. x[Len(a) + i] = r[i]
      BY <3>1, <1>4, <1>5
    <3> QED BY <3>2, <1>4
  <2> QED BY <2>1, <2>2, <1>1, <1>4, <1>5
<1>7. y \in Seq(S) /\ Len(y) = p + q /\ (\A i \in 1 .. p : y[i] = s[i]) /\ \A i \in 1 .. q : y[p + i] = t[i]
  BY <1>1
<1> HIDE DEF x, y, p, q
<1>8. \A i \in 1 .. p + q : x[i] = y[i]
  <2> SUFFICES ASSUME NEW i \in 1 .. p + q PROVE x[i] = y[i]
    OBVIOUS
  <2>1. CASE i <= p
    BY <2>1, <1>1, <1>4, <1>6, <1>7
  <2>2. CASE i = p + 1
    <3>1. 1 \in 1 .. q /\ p + 1 \in 1 .. p + 1
      BY <1>1
    <3>2. y[p + 1] = t[1] /\ x[p + 1] = a[p + 1]
      BY <1>6, <1>7, <3>1
    <3> QED BY <2>2, <3>2, <1>4
  <2>3. CASE i > p + 1
    <3>1. i - (p + 1) \in 1 .. q - 1 /\ p + 1 + (i - (p + 1)) = i /\ p + ((i - (p + 1)) + 1) = i
          /\ (i - (p + 1)) + 1 \in 1 .. q
      BY <2>3, <1>1
    <3>2. x[i] = r[i - (p + 1)] /\ y[i] = t[(i - (p + 1)) + 1]
      BY <3>1, <1>6, <1>7
    <3> QED BY <3>1, <3>2, <1>5
  <2> QED BY <2>1, <2>2, <2>3, <1>1
<1>9. x = y
  BY <1>6, <1>7, <1>8, SeqEqual
<1>10. q = 1 => a = y
  <2> SUFFICES ASSUME q = 1 PROVE a = y
    OBVIOUS
  <2>1. r = <<>>
    BY <1>5 
  <2> QED BY <2>1, <1>4, <1>9 DEF x
<1>11. q # 1 => r # <<>>
  BY <1>1, <1>5
<1> QED BY <1>1, <1>2, <1>3, <1>9, <1>10, <1>11 DEF x, y, a, r, p, q

LEMMA AfterFacts ==
    ASSUME NEW n \in Nat
    PROVE  /\ {t[1] : t \in After(0, n)} = 1 .. n /\ Cardinality(1 .. n) = n
           /\ \A a \in Nat : \A l : <<l, 1>> \in After(a, n) <=> l \in a + 1 .. n
<1>1. \A a \in Nat : \A l : <<l, 1>> \in After(a, n) <=> l \in a + 1 .. n
  BY DEF After
<1>2. \A t \in After(0, n) : t[1] \in 1 .. n
  BY DEF After
<1>3. \A l \in 1 .. n : <<l, 1>> \in After(0, n) /\ <<l, 1>>[1] = l
  <2>1. \A l : <<l, 1>> \in After(0, n) <=> l \in 0 + 1 .. n
    BY <1>1
  <2>2. 0 + 1 = 1
    OBVIOUS
  <2> QED BY <2>1, <2>2
<1>4. {t[1] : t \in After(0, n)} = 1 .. n
  BY <1>2, <1>3
<1>5. Cardinality(1 .. n) = n
  BY FS_Interval
<1> QED BY <1>1, <1>4, <1>5

LEMMA StartDyadicInv ==
    ASSUME DyadicInv, OnePeriod, StartDyadic
    PROVE  DyadicInv'
<1>1. PICK n \in Nat, b \in Nat : /\ b <= n /\ arrived = After(0, n) /\ Dyadics(manifest, b)
                                  /\ Resting(n, b) \/ \E m \in Nat : Sealing(n, b, m)
  BY DEF DyadicInv
<1>2. sealJob.stage = "idle" /\ sealJob' = StartPeriod(1, Count, manifest) /\ Labels # {}
      /\ UNCHANGED <<arrived, singles, archives, manifest>>
  BY DEF StartDyadic
<1>3. Resting(n, b)
  BY <1>1, <1>2 DEF Sealing, Building, Deleting, Dropping, Rewriting
<1>4. Labels = 1 .. n /\ Count = n /\ 1 <= n
  <2>1. Labels = 1 .. n
    BY <1>1, AfterFacts DEF Labels
  <2>2. Count = n
    BY <2>1, AfterFacts DEF Count
  <2> QED BY <2>1, <2>2, <1>2
<1> DEFINE B == BlocksOf(1, n)
<1>5. Dyadics(B, n) /\ B # <<>> /\ B \in Seq(Records)
  BY <1>4, DyadicsFacts, BlocksSome DEF Dyadics
<1>6. sealJob' = [stage |-> "build", work |-> B, left |-> <<>>, current |-> manifest, target |-> <<>>, count |-> n]
  BY <1>2, <1>4 DEF StartPeriod
<1> HIDE DEF B
<1>7. manifest \in Seq(Records) /\ <<>> \in Seq(Records) /\ <<>> \in Seq(Nat)
  BY <1>1 DEF Dyadics
<1>8. sealJob' \in JobSet
  BY <1>4, <1>5, <1>6, <1>7 DEF JobSet, Stages
<1>9. sealJob'.target \o sealJob'.work = B /\ RecordKeys(sealJob'.target) = {}
  BY <1>5, <1>6, <1>7, ConcatEmptySeq DEF RecordKeys
<1>10. archives' = Stock(RecordKeys(manifest') \cup RecordKeys(sealJob'.target)) /\ singles' = After(b, n)
  <2>1. RecordKeys(manifest') \cup RecordKeys(sealJob'.target) = RecordKeys(manifest)
    BY <1>2, <1>9
  <2> QED BY <2>1, <1>2, <1>3 DEF Resting
<1>11. Building(n, b, n)'
  BY <1>5, <1>6, <1>9, <1>10 DEF Building
<1>12. Sealing(n, b, n)'
  BY <1>1, <1>2, <1>4, <1>6, <1>11 DEF Sealing
<1> QED BY <1>1, <1>2, <1>8, <1>12 DEF DyadicInv

LEMMA TileDyadicInv ==
    ASSUME DyadicInv, OnePeriod, NEW l \in 1 .. MaxLabels, NEW p \in 1 .. policy.periods, TileArrives(l, p),
           MaxLabels \in Nat
    PROVE  DyadicInv'
<1>1. PICK n \in Nat, b \in Nat : /\ b <= n /\ arrived = After(0, n) /\ Dyadics(manifest, b)
                                  /\ Resting(n, b) \/ \E m \in Nat : Sealing(n, b, m)
  BY DEF DyadicInv
<1>2. p = 1 /\ policy.periods = 1
  BY DEF OnePeriod
<1>3. /\ <<l, 1>> \notin arrived /\ (l > 1 => <<l - 1, 1>> \in arrived)
      /\ arrived' = arrived \cup {<<l, 1>>} /\ singles' = singles \cup {<<l, 1>>}
      /\ UNCHANGED <<archives, manifest, sealJob>>
  BY <1>2 DEF TileArrives
<1>4. l = n + 1
  <2>1. l \in Nat /\ 1 <= l
    OBVIOUS
  <2>2. ~(l \in 1 .. n) /\ (l > 1 => l - 1 \in 1 .. n)
    BY <1>1, <1>3, AfterFacts
  <2> QED BY <2>1, <2>2
<1>5. arrived' = After(0, n + 1) /\ b <= n + 1 /\ n + 1 \in Nat
  BY <1>1, <1>3, <1>4, AfterNext
<1>6. \A a \in Nat : a <= n /\ singles = After(a, n) => singles' = After(a, n + 1)
  BY <1>3, <1>4, AfterNext
<1>7. Resting(n, b) => Resting(n + 1, b)'
  BY <1>1, <1>3, <1>6 DEF Resting
<1>8. ASSUME NEW m \in Nat, Sealing(n, b, m)
      PROVE  Sealing(n + 1, b, m)'
  <2>1. b <= m /\ 1 <= m /\ m <= n /\ sealJob.current = manifest
    BY <1>8 DEF Sealing
  <2>2. Building(n, b, m) => Building(n + 1, b, m)'
    BY <1>1, <1>3, <1>6 DEF Building
  <2>3. Deleting(n, b, m) => Deleting(n + 1, b, m)'
    BY <1>1, <1>3, <1>6 DEF Deleting
  <2>4. Dropping(n, b, m) => Dropping(n + 1, b, m)'
    BY <1>1, <1>3, <1>6 DEF Dropping
  <2>5. Rewriting(n, b, m) => Rewriting(n + 1, b, m)'
    BY <1>1, <1>3, <1>6, <2>1 DEF Rewriting
  <2>6. m <= n + 1
    BY <2>1
  <2> QED BY <1>3, <1>8, <2>1, <2>2, <2>3, <2>4, <2>5, <2>6 DEF Sealing
<1>9. Resting(n + 1, b)' \/ \E m \in Nat : Sealing(n + 1, b, m)'
  BY <1>1, <1>7, <1>8
<1>10. sealJob' \in JobSet /\ Dyadics(manifest', b)
  BY <1>1, <1>3 DEF DyadicInv
<1> QED BY <1>5, <1>9, <1>10 DEF DyadicInv

\* In each stage the job holds what the stage says.
LEMMA StageOf ==
    ASSUME NEW n, NEW b, NEW m, Sealing(n, b, m)
    PROVE  /\ sealJob.stage = "build" => Building(n, b, m)
           /\ sealJob.stage = "delete" => Deleting(n, b, m)
           /\ sealJob.stage = "singles" => Dropping(n, b, m)
           /\ sealJob.stage = "rewrite" => Rewriting(n, b, m)
           /\ sealJob.stage \in {"build", "delete", "singles", "rewrite"}
BY DEF Sealing, Building, Deleting, Dropping, Rewriting

LEMMA TargetPeriod ==
    ASSUME NEW m \in Nat, 1 <= m, Dyadics(sealJob.target, m)
    PROVE  PeriodOfJob = 1
<1> PICK T : T = sealJob.target
  OBVIOUS
<1>1. Dyadics(T, m) /\ T # <<>> /\ T \in Seq(Records)
  BY BlocksSome DEF Dyadics
<1>2. 1 \in DOMAIN T
  BY <1>1
<1> QED BY <1>1, <1>2 DEF Dyadics, PeriodOfJob

IsMap(f) == f = [k \in DOMAIN f |-> f[k]]

LEMMA StockLess ==
    ASSUME NEW K, NEW T, NEW s, s = Stock(K \cup T),
           NEW a, IsMap(a), DOMAIN a = (DOMAIN s) \ (K \ T), \A k \in DOMAIN a : a[k] = s[k]
    PROVE  a = Stock(T)
<1>1. DOMAIN s = K \cup T /\ \A k \in K \cup T : s[k] = Ones(k)
  BY DEF Stock
<1>2. (K \cup T) \ (K \ T) = T
  OBVIOUS
<1> QED BY <1>1, <1>2 DEF Stock, IsMap

LEMMA DeleteSupersededInv ==
    ASSUME DyadicInv, OnePeriod, DeleteSuperseded
    PROVE  DyadicInv'
<1>1. PICK n \in Nat, b \in Nat : /\ b <= n /\ arrived = After(0, n) /\ Dyadics(manifest, b)
                                  /\ Resting(n, b) \/ \E m \in Nat : Sealing(n, b, m)
  BY DEF DyadicInv
<1>2. sealJob.stage = "delete" /\ UNCHANGED <<arrived, singles, manifest>>
      /\ sealJob' = [sealJob EXCEPT !.stage = "singles"]
  BY DEF DeleteSuperseded
<1>3. PICK m \in Nat : Sealing(n, b, m)
  BY <1>1, <1>2 DEF Resting
<1>4. Deleting(n, b, m) /\ sealJob.current = manifest /\ b <= m /\ 1 <= m /\ m <= n
  BY <1>2, <1>3, StageOf DEF Sealing
<1>5. archives' = [k \in (DOMAIN archives) \ (RecordKeys(manifest) \ RecordKeys(sealJob.target)) |-> archives[k]]
  BY <1>4 DEF DeleteSuperseded, RecordKeys
<1>6. archives' = Stock(RecordKeys(sealJob.target))
  <2>1. archives = Stock(RecordKeys(manifest) \cup RecordKeys(sealJob.target))
    BY <1>4 DEF Deleting
  <2>5. PICK K, T : K = RecordKeys(manifest) /\ T = RecordKeys(sealJob.target)
    OBVIOUS
  <2>2. archives' = [k \in (DOMAIN archives) \ (K \ T) |-> archives[k]] /\ archives = Stock(K \cup T)
    BY <1>5, <2>1, <2>5
  <2>6. PICK s, a : s = archives /\ a = archives'
    OBVIOUS
  <2>3. s = Stock(K \cup T) /\ a = [k \in (DOMAIN s) \ (K \ T) |-> s[k]]
    BY <2>2, <2>6
  <2>7. IsMap(a) /\ DOMAIN a = (DOMAIN s) \ (K \ T) /\ \A k \in DOMAIN a : a[k] = s[k]
    BY <2>3 DEF IsMap
  <2>4. a = Stock(T)
    BY <2>3, <2>7, StockLess
  <2> QED BY <2>4, <2>5, <2>6
<1>7. sealJob \in JobSet
  BY DEF DyadicInv
<1>8. sealJob' \in JobSet /\ sealJob'.stage = "singles" /\ sealJob'.target = sealJob.target
      /\ sealJob'.current = sealJob.current
  BY <1>2, <1>7 DEF JobSet, Stages
<1>9. Dropping(n, b, m)'
  BY <1>2, <1>4, <1>6, <1>8 DEF Dropping, Deleting
<1>10. Sealing(n, b, m)'
  BY <1>2, <1>4, <1>8, <1>9 DEF Sealing
<1> QED BY <1>1, <1>2, <1>8, <1>10 DEF DyadicInv

LEMMA CoveredBy ==
    ASSUME NEW T, NEW m \in Nat, Dyadics(T, m), NEW l
    PROVE  (\E i \in DOMAIN T : l \in Members(T[i])) <=> l \in 1 .. m
<1>1. \A i \in DOMAIN T : Members(T[i]) = Span(T[i].key) /\ Span(T[i].key) \subseteq 1 .. m
  BY DEF Dyadics
<1>2. l \in 1 .. m => \E i \in DOMAIN T : l \in Span(T[i].key)
  BY DEF Dyadics
<1> QED BY <1>1, <1>2

LEMMA DropCoveredInv ==
    ASSUME DyadicInv, OnePeriod, DropCovered
    PROVE  DyadicInv'
<1>1. PICK n \in Nat, b \in Nat : /\ b <= n /\ arrived = After(0, n) /\ Dyadics(manifest, b)
                                  /\ Resting(n, b) \/ \E m \in Nat : Sealing(n, b, m)
  BY DEF DyadicInv
<1>2. sealJob.stage = "singles" /\ UNCHANGED <<arrived, archives, manifest>>
      /\ sealJob' = [sealJob EXCEPT !.stage = "rewrite"]
  BY DEF DropCovered
<1>3. PICK m \in Nat : Sealing(n, b, m)
  BY <1>1, <1>2 DEF Resting
<1>4. Dropping(n, b, m) /\ sealJob.current = manifest /\ b <= m /\ 1 <= m /\ m <= n
  BY <1>2, <1>3, StageOf DEF Sealing
<1>5. Dyadics(sealJob.target, m) /\ singles = After(b, n) /\ PeriodOfJob = 1
  BY <1>4, TargetPeriod DEF Dropping
<1> PICK T : T = sealJob.target
  OBVIOUS
<1>6. singles' = {t \in After(b, n) : ~(t[2] = 1 /\ \E i \in DOMAIN T : t[1] \in Members(T[i]))}
  BY <1>5 DEF DropCovered
<1>7. \A l : (\E i \in DOMAIN T : l \in Members(T[i])) <=> l \in 1 .. m
  BY <1>5, CoveredBy
<1>8. singles' = After(m, n)
  <2>1. singles' = {t \in After(b, n) : ~(t[2] = 1 /\ t[1] \in 1 .. m)}
    BY <1>6, <1>7
  <2>2. \A t \in After(b, n) : t[2] = 1 /\ t = <<t[1], 1>> /\ t[1] \in b + 1 .. n
    BY DEF After
  <2>3. \A l \in b + 1 .. n : ~(l \in 1 .. m) <=> l \in m + 1 .. n
    BY <1>4
  <2>4. \A t \in After(m, n) : t[1] \in m + 1 .. n /\ t = <<t[1], 1>>
    BY DEF After
  <2>5. \A l \in m + 1 .. n : l \in b + 1 .. n /\ ~(l \in 1 .. m)
    BY <1>4
  <2>6. \A t \in After(m, n) : t \in After(b, n) /\ ~(t[1] \in 1 .. m)
    BY <2>4, <2>5 DEF After
  <2>7. \A t \in After(b, n) : ~(t[1] \in 1 .. m) => t \in After(m, n)
    BY <2>2, <2>3 DEF After
  <2> QED BY <2>1, <2>2, <2>6, <2>7
<1>9. sealJob \in JobSet
  BY DEF DyadicInv
<1>10. sealJob' \in JobSet /\ sealJob'.stage = "rewrite" /\ sealJob'.target = sealJob.target
       /\ sealJob'.current = sealJob.current
  BY <1>2, <1>9 DEF JobSet, Stages
<1>11. Rewriting(n, b, m)'
  BY <1>2, <1>4, <1>8, <1>10 DEF Dropping, Rewriting
<1>12. Sealing(n, b, m)'
  BY <1>2, <1>4, <1>10, <1>11 DEF Sealing
<1> QED BY <1>1, <1>2, <1>10, <1>12 DEF DyadicInv

LEMMA NoJobTyped == NoJob \in JobSet /\ NoJob.stage = "idle"
<1>1. \A S : <<>> \in Seq(S)
  OBVIOUS
<1>2. <<>> \in Seq(Records) /\ <<>> \in Seq(Nat)
  BY <1>1
<1> QED BY <1>2 DEF NoJob, JobSet, Stages

LEMMA RewriteInv ==
    ASSUME DyadicInv, OnePeriod, Rewrite
    PROVE  DyadicInv'
<1>1. PICK n \in Nat, b \in Nat : /\ b <= n /\ arrived = After(0, n) /\ Dyadics(manifest, b)
                                  /\ Resting(n, b) \/ \E m \in Nat : Sealing(n, b, m)
  BY DEF DyadicInv
<1>2. sealJob.stage = "rewrite" /\ UNCHANGED <<arrived, archives, singles>> /\ manifest' = sealJob.target
  BY DEF Rewrite
<1>3. PICK m \in Nat : Sealing(n, b, m)
  BY <1>1, <1>2 DEF Resting
<1>4. Rewriting(n, b, m) /\ 1 <= m /\ m <= n
  BY <1>2, <1>3, StageOf DEF Sealing
<1>5. Dyadics(sealJob.target, m) /\ PeriodOfJob = 1 /\ policy.periods = 1
  BY <1>4, TargetPeriod DEF Rewriting, OnePeriod
<1>6. sealJob' = NoJob
  BY <1>5 DEF Rewrite
<1>7. Resting(n, m)' /\ Dyadics(manifest', m)
  BY <1>2, <1>4, <1>5, <1>6, NoJobTyped DEF Resting, Rewriting
<1> QED BY <1>1, <1>2, <1>4, <1>6, <1>7, NoJobTyped DEF DyadicInv

LEMMA RowsFound ==
    ASSUME NEW b \in Nat, NEW n \in Nat, NEW m \in Nat, b <= m, m <= n, Dyadics(manifest, b),
           NEW T, archives = Stock(RecordKeys(manifest) \cup T), singles = After(b, n),
           sealJob.current = manifest, NEW l \in 1 .. m
    PROVE  Rows(l, 1) = <<1>>
<1> PICK M, c : M = manifest /\ c = Covering(M, l)
  OBVIOUS
<1>1. Dyadics(M, b) /\ DOMAIN M \subseteq Nat
  BY DEF Dyadics
<1>2. c = {i \in DOMAIN M : l \in Members(M[i])}
  BY DEF Covering
<1>3. CASE c # {}
  <2>1. Min(c) \in c
    BY <1>1, <1>2, <1>3, LeastIn
  <2> PICK i : i = Min(c)
    OBVIOUS
  <2>2. i \in DOMAIN M /\ l \in Span(M[i].key)
    BY <1>1, <1>2, <2>1 DEF Dyadics
  <2>3. M[i].key \in RecordKeys(M)
    BY <2>2 DEF RecordKeys
  <2> PICK k : k = M[i].key
    OBVIOUS
  <2>4. k \in DOMAIN archives /\ archives[k] = [x \in Span(k) |-> 1]
    BY <2>3 DEF Stock, Ones
  <2>5. archives[k][l] = 1
    BY <2>2, <2>4
  <2> QED BY <1>3, <2>4, <2>5 DEF Rows
<1>4. CASE c = {}
  <2>1. ~(l \in 1 .. b)
    BY <1>1, <1>2, <1>4, CoveredBy
  <2>2. l \in b + 1 .. n
    BY <2>1
  <2>3. <<l, 1>> \in singles
    BY <2>2, AfterFacts
  <2> QED BY <1>4, <2>3 DEF Rows
<1> QED BY <1>3, <1>4

\* a is s and the archive of one key.
OneMore(a, s, k) ==
    IsMap(a) /\ DOMAIN a = {k} \cup DOMAIN s /\ \A o \in DOMAIN a : a[o] = IF o = k THEN Ones(k) ELSE s[o]

LEMMA StockMore ==
    ASSUME NEW X, NEW k, NEW a, OneMore(a, Stock(X), k)
    PROVE  a = Stock(X \cup {k})
<1>1. DOMAIN Stock(X) = X /\ \A o \in X : Stock(X)[o] = Ones(o)
  BY DEF Stock
<1>2. DOMAIN a = X \cup {k} /\ \A o \in X \cup {k} : a[o] = Ones(o)
  BY <1>1 DEF OneMore
<1>3. a = [o \in X \cup {k} |-> a[o]]
  BY <1>2 DEF OneMore, IsMap
<1> QED BY <1>2, <1>3 DEF Stock

LEMMA KeysMore ==
    ASSUME NEW T \in Seq(Records), NEW r
    PROVE  RecordKeys(Append(T, r)) = RecordKeys(T) \cup {r.key}
<1>1. DOMAIN Append(T, r) = 1 .. Len(T) + 1 /\ Append(T, r)[Len(T) + 1] = r /\ Len(T) \in Nat
  OBVIOUS
<1>2. \A i \in 1 .. Len(T) : Append(T, r)[i] = T[i]
  OBVIOUS
<1>3. DOMAIN T = 1 .. Len(T) /\ 1 .. Len(T) + 1 = (1 .. Len(T)) \cup {Len(T) + 1}
  BY <1>1
<1> QED BY <1>1, <1>2, <1>3 DEF RecordKeys

LEMMA BuildBlockInv ==
    ASSUME DyadicInv, OnePeriod, BuildBlock
    PROVE  DyadicInv'
<1>1. PICK n \in Nat, b \in Nat : /\ b <= n /\ arrived = After(0, n) /\ Dyadics(manifest, b)
                                  /\ Resting(n, b) \/ \E m \in Nat : Sealing(n, b, m)
  BY DEF DyadicInv
<1>2. sealJob.stage = "build" /\ UNCHANGED <<arrived, singles, manifest>>
  BY DEF BuildBlock
<1>3. PICK m \in Nat : Sealing(n, b, m)
  BY <1>1, <1>2 DEF Resting
<1>4. Building(n, b, m) /\ sealJob.current = manifest /\ b <= m /\ 1 <= m /\ m <= n
  BY <1>2, <1>3, StageOf DEF Sealing
<1>5. sealJob \in JobSet
  BY DEF DyadicInv
<1>0. PICK T, W, B, M : T = sealJob.target /\ W = sealJob.work /\ B = T \o W /\ M = manifest
  OBVIOUS
<1> DEFINE r == W[1]
<1>6. /\ T \in Seq(Records) /\ W \in Seq(Records) /\ W # <<>> /\ Dyadics(B, m) /\ singles = After(b, n)
      /\ archives = Stock(RecordKeys(M) \cup RecordKeys(T))
  BY <1>0, <1>4, <1>5 DEF Building, JobSet
<1>7. /\ Append(T, r) \o Tail(W) = B /\ Append(T, r) \in Seq(Records) /\ Tail(W) \in Seq(Records) /\ r \in Records
      /\ (Len(W) = 1 => Append(T, r) = B) /\ (Len(W) # 1 => Tail(W) # <<>>)
  <2>1. T \in Seq(Records) /\ W \in Seq(Records) /\ W # <<>>
    BY <1>6
  <2> HIDE DEF r
  <2>2. /\ Append(T, W[1]) \o Tail(W) = T \o W /\ W[1] \in Records
        /\ Append(T, W[1]) \in Seq(Records) /\ Tail(W) \in Seq(Records)
        /\ Len(W) = 1 => Append(T, W[1]) = T \o W
        /\ Len(W) # 1 => Tail(W) # <<>>
    BY <2>1, NextDone
  <2>3. r = W[1]
    BY DEF r
  <2> QED BY <1>0, <2>2, <2>3
<1>8. Item = r
  BY <1>0 DEF Item
<1>9. r = BlockOf(r.key) /\ Members(r) = Span(r.key) /\ r.period = 1 /\ Span(r.key) \subseteq 1 .. m
  <2>1. Len(T) \in Nat /\ Len(W) \in Nat \ {0}
    BY <1>6
  <2>2. /\ B \in Seq(Records) /\ Len(B) = Len(T) + Len(W)
        /\ \A i \in 1 .. Len(T) + Len(W) : B[i] = IF i <= Len(T) THEN T[i] ELSE W[i - Len(T)]
    <3>1. T \in Seq(Records) /\ W \in Seq(Records) /\ B = T \o W
      BY <1>0, <1>6
    <3> HIDE DEF r
    <3> QED BY ONLY <3>1, ConcatProperties
  <2>5. PICK j : j = Len(T) + 1
    OBVIOUS
  <2>3. j \in 1 .. Len(T) + Len(W) /\ ~(j <= Len(T)) /\ j - Len(T) = 1
    BY <2>1, <2>5
  <2>4. j \in DOMAIN B /\ B[j] = r
    BY <2>1, <2>2, <2>3
  <2> QED BY <1>6, <2>4 DEF Dyadics
<1> HIDE DEF r
<1>10. \A l \in 1 .. m : Rows(l, 1) = <<1>>
  <2> SUFFICES ASSUME NEW l \in 1 .. m PROVE Rows(l, 1) = <<1>>
    OBVIOUS
  <2>2. PICK K : K = RecordKeys(T)
    OBVIOUS
  <2>1. archives = Stock(RecordKeys(manifest) \cup K)
    BY <1>0, <1>6, <2>2
  <2> QED BY <1>1, <1>4, <1>6, <2>1, RowsFound
<1>11. \A l \in Members(Item) : Rows(l, Item.period) = <<1>>
  BY <1>8, <1>9, <1>10
<1>12. /\ archives' = IF Reused(Item) THEN archives ELSE Archived(Item.key, [l \in Members(Item) |-> Rows(l, Item.period)[1]])
       /\ sealJob' = [sealJob EXCEPT !.target = Append(@, Item), !.work = Tail(@),
                                     !.stage  = IF Len(sealJob.work) = 1 THEN "delete" ELSE "build"]
  <2>0. <<1>> # <<>>
    OBVIOUS
  <2>1. \A l \in Members(Item) : Rows(l, Item.period) # <<>>
    BY <1>11, <2>0
  <2> QED BY <2>1 DEF BuildBlock
<1>13. archives' = Stock(RecordKeys(M) \cup (RecordKeys(T) \cup {r.key}))
  <2>1. CASE Reused(Item)
    <3>1. PICK i \in DOMAIN M : M[i] = r
      BY <1>0, <1>4, <1>8, <2>1 DEF Reused
    <3>2. r.key \in RecordKeys(M)
      BY <3>1 DEF RecordKeys
    <3>3. RecordKeys(M) \cup (RecordKeys(T) \cup {r.key}) = RecordKeys(M) \cup RecordKeys(T)
      BY <3>2
    <3> QED BY <1>6, <1>12, <2>1, <3>3
  <2>2. CASE ~Reused(Item)
    <3>1. [l \in Members(Item) |-> Rows(l, Item.period)[1]] = [l \in Span(r.key) |-> 1]
      BY <1>8, <1>9, <1>11
    <3>2. archives' = Archived(r.key, [l \in Span(r.key) |-> 1])
      BY <1>8, <1>12, <2>2, <3>1
    <3>6. PICK s, a, k : s = archives /\ a = archives' /\ k = r.key
      OBVIOUS
    <3>3. a = [o \in {k} \cup DOMAIN s |-> IF o = k THEN [l \in Span(k) |-> 1] ELSE s[o]]
      BY <3>2, <3>6 DEF Archived
    <3>7. PICK X : X = RecordKeys(M) \cup RecordKeys(T)
      OBVIOUS
    <3>4. s = Stock(X)
      BY <1>6, <3>6, <3>7
    <3>9. OneMore(a, s, k)
      BY <3>3 DEF OneMore, IsMap, Ones
    <3>5. a = Stock(X \cup {k})
      BY <3>4, <3>9, StockMore
    <3>8. X \cup {k} = RecordKeys(M) \cup (RecordKeys(T) \cup {r.key})
      BY <3>6, <3>7
    <3> QED BY <3>5, <3>6, <3>8
  <2> QED BY <2>1, <2>2
<1>14. RecordKeys(Append(T, r)) = RecordKeys(T) \cup {r.key}
  BY <1>6, KeysMore
<1>15. /\ sealJob'.target = Append(T, r) /\ sealJob'.work = Tail(W) /\ sealJob'.current = manifest
       /\ sealJob'.stage = IF Len(W) = 1 THEN "delete" ELSE "build"
  BY <1>0, <1>4, <1>5, <1>8, <1>12 DEF JobSet
<1>16. sealJob' \in JobSet
  BY <1>0, <1>5, <1>7, <1>8, <1>12 DEF JobSet, Stages
<1>17. archives' = Stock(RecordKeys(manifest') \cup RecordKeys(sealJob'.target)) /\ singles' = After(b, n)
  BY <1>0, <1>2, <1>6, <1>13, <1>14, <1>15
<1>18. CASE Len(W) = 1
  <2>1. Deleting(n, b, m)'
    BY <1>6, <1>7, <1>15, <1>17, <1>18 DEF Deleting
  <2> QED BY <1>1, <1>2, <1>4, <1>15, <1>16, <2>1 DEF DyadicInv, Sealing
<1>19. CASE Len(W) # 1
  <2>1. Building(n, b, m)'
    BY <1>6, <1>7, <1>15, <1>17, <1>19 DEF Building
  <2> QED BY <1>1, <1>2, <1>4, <1>15, <1>16, <2>1 DEF DyadicInv, Sealing
<1> QED BY <1>18, <1>19

\* At rest, and with no crash behind it, the scheme serves every scan.
LEMMA DyadicServes ==
    ASSUME DyadicInv, OnePeriod, sealJob = NoJob
    PROVE  /\ EveryScanServed
           /\ DOMAIN archives = {manifest[i].key : i \in DOMAIN manifest}
           /\ \A l \in Labels : Cardinality(Covering(manifest, l)) <= 1
<1>1. PICK n \in Nat, b \in Nat : /\ b <= n /\ arrived = After(0, n) /\ Dyadics(manifest, b)
                                  /\ Resting(n, b) \/ \E m \in Nat : Sealing(n, b, m)
  BY DEF DyadicInv
<1>2. Resting(n, b)
  BY <1>1, NoJobTyped, StageOf
<1>3. PICK M : M = manifest
  OBVIOUS
<1>4. Dyadics(M, b) /\ DOMAIN M \subseteq Nat /\ archives = Stock(RecordKeys(M)) /\ singles = After(b, n)
  BY <1>1, <1>2, <1>3 DEF Dyadics, Resting
<1>5. \A i \in DOMAIN M : Members(M[i]) = Span(M[i].key) /\ M[i].period = 1
  BY <1>4 DEF Dyadics
<1>6. ASSUME NEW t \in arrived
      PROVE  Serves(t[1], t[2])
  <2>1. PICK l : l = t[1]
    OBVIOUS
  <2>2. t[2] = 1 /\ l \in 1 .. n
    BY <1>1, <2>1 DEF After
  <2>3. PICK c : c = {i \in DOMAIN M : l \in Members(M[i])}
    OBVIOUS
  <2>4. {i \in Covering(manifest, l) : manifest[i].period = 1} = c
    BY <1>3, <1>5, <2>3 DEF Covering
  <2>5. CASE c # {}
    <3>1. PICK j : j = Min(c)
      OBVIOUS
    <3>2. j \in c
      BY <1>4, <2>3, <2>5, <3>1, LeastIn
    <3>3. j \in DOMAIN M /\ l \in Span(M[j].key)
      BY <1>5, <2>3, <3>2
    <3>4. M[j].key \in RecordKeys(M)
      BY <3>3 DEF RecordKeys
    <3>5. PICK k : k = M[j].key
      OBVIOUS
    <3>6. k \in DOMAIN archives /\ archives[k] = Ones(k)
      BY <1>4, <3>4, <3>5 DEF Stock
    <3>7. l \in DOMAIN archives[k] /\ archives[k][l] = 1
      BY <3>3, <3>5, <3>6 DEF Ones
    <3> QED BY <1>3, <2>1, <2>2, <2>4, <2>5, <3>1, <3>5, <3>6, <3>7 DEF Serves
  <2>6. CASE c = {}
    <3>1. ~(l \in 1 .. b)
      BY <1>4, <2>3, <2>6, CoveredBy
    <3>2. l \in b + 1 .. n
      BY <2>2, <3>1
    <3>3. <<l, 1>> \in singles
      BY <1>4, <3>2, AfterFacts
    <3> QED BY <2>1, <2>2, <2>4, <2>6, <3>3 DEF Serves
  <2> QED BY <2>5, <2>6
<1>7. DOMAIN archives = {manifest[i].key : i \in DOMAIN manifest}
  BY <1>3, <1>4 DEF Stock, RecordKeys
<1>8. ASSUME NEW l \in Labels
      PROVE  Cardinality(Covering(manifest, l)) <= 1
  <2>1. PICK x, c : x = l /\ c = Covering(M, x)
    OBVIOUS
  <2>5. \A i \in c : i \in DOMAIN M /\ x \in Span(M[i].key)
    BY <1>5, <2>1 DEF Covering
  <2>6. \A i, j \in DOMAIN M : x \in Span(M[i].key) /\ x \in Span(M[j].key) => i = j
    BY <1>4 DEF Dyadics
  <2>2. \A i, j \in c : i = j
    BY <2>5, <2>6
  <2>3. CASE c = {}
    BY <1>3, <2>1, <2>3, FS_EmptySet
  <2>4. CASE c # {}
    <3>1. PICK i \in c : TRUE
      BY <2>4
    <3>2. c = {i}
      BY <2>2, <3>1
    <3>3. Cardinality({i}) = 1
      BY FS_Singleton
    <3> QED BY <1>3, <2>1, <3>2, <3>3
  <2> QED BY <2>3, <2>4
<1> QED BY <1>6, <1>7, <1>8 DEF EveryScanServed

-----------------------------------------------------------------------------
\* The fixed scheme: scans in order, cut into groups.
Below(R, l) == {o \in R : o < l}

LEMMA SomeFinite ==
    ASSUME NEW n \in Nat, NEW R, R \subseteq 1 .. n
    PROVE  IsFiniteSet(R) /\ Cardinality(R) \in Nat
<1>1. IsFiniteSet(1 .. n)
  BY FS_Interval
<1>2. IsFiniteSet(R)
  BY <1>1, FS_Subset
<1> QED BY <1>2, FS_CardinalityType

LEMMA Ranked ==
    ASSUME NEW n \in Nat, NEW R, R \subseteq 1 .. n, NEW i \in 1 .. Cardinality(R)
    PROVE  \E l \in R : Cardinality(Below(R, l)) = i - 1
<1>1. IsFiniteSet(R) /\ Cardinality(R) \in Nat
  BY SomeFinite
<1>2. \A l \in R : IsFiniteSet(Below(R, l)) /\ Cardinality(Below(R, l)) \in Nat
  <2>1. \A l \in R : Below(R, l) \subseteq R
    BY DEF Below
  <2> QED BY <1>1, <2>1, FS_Subset, FS_CardinalityType
<1>3. R # {} /\ R \subseteq 0 .. n /\ R \subseteq Nat
  BY FS_EmptySet
<1> DEFINE T == {l \in R : Cardinality(Below(R, l)) + 1 >= i}
<1>4. T # {}
  <2>1. PICK x : x = Max(R)
    OBVIOUS
  <2>2. x \in R /\ \A y \in R : y <= x
    BY <1>3, <2>1, MaxIn
  <2>3. Below(R, x) = R \ {x}
    <3>1. \A y \in R : y < x <=> y # x
      BY <1>3, <2>2
    <3> QED BY <3>1 DEF Below
  <2>4. Cardinality(R \ {x}) = Cardinality(R) - 1
    BY <1>1, <2>2, FS_RemoveElement
  <2>5. Cardinality(Below(R, x)) + 1 = Cardinality(R)
    BY <1>1, <2>3, <2>4
  <2>6. x \in T
    BY <1>1, <2>2, <2>5
  <2> QED BY <2>6
<1>5. PICK l \in T : \A y \in T : l <= y
  <2>1. T \subseteq Nat
    BY <1>3
  <2>2. Min(T) \in T /\ \A y \in T : Min(T) <= y
    BY <1>4, <2>1, LeastIn
  <2> QED BY <2>2
<1>6. CASE Below(R, l) = {}
  <2>1. Cardinality(Below(R, l)) = 0
    BY <1>6, FS_EmptySet
  <2> QED BY <1>5, <2>1
<1>7. CASE Below(R, l) # {}
  <2>1. PICK k : k = Max(Below(R, l))
    OBVIOUS
  <2>2. Below(R, l) \subseteq 0 .. n
    BY <1>3 DEF Below
  <2>3. k \in Below(R, l) /\ \A y \in Below(R, l) : y <= k
    BY <1>7, <2>1, <2>2, MaxIn
  <2>4. k \in R /\ k < l /\ k \notin T
    BY <1>3, <1>5, <2>3 DEF Below
  <2>5. Below(R, l) = Below(R, k) \cup {k} /\ k \notin Below(R, k)
    <3>1. \A y \in R : y < l <=> y < k \/ y = k
      BY <1>3, <1>5, <2>3, <2>4 DEF Below
    <3>2. ~(k < k)
      BY <1>3, <2>4
    <3> QED BY <2>4, <3>1, <3>2 DEF Below
  <2>6. Cardinality(Below(R, k) \cup {k}) = Cardinality(Below(R, k)) + 1
    BY <1>2, <2>4, <2>5, FS_AddElement
  <2>7. Cardinality(Below(R, k)) + 1 < i
    BY <1>2, <2>4
  <2>8. Cardinality(Below(R, l)) < i /\ Cardinality(Below(R, l)) + 1 >= i
    BY <1>5, <2>5, <2>6, <2>7
  <2>9. Cardinality(Below(R, l)) = i - 1
    BY <1>2, <1>5, <2>8
  <2> QED BY <1>5, <2>9
<1> QED BY <1>6, <1>7

PlaceOf(R, i) == CHOOSE l \in R : Cardinality(Below(R, l)) = i - 1

LEMMA InOrder ==
    ASSUME NEW n \in Nat, NEW R, R \subseteq 1 .. n, NEW U, \A i \in 1 .. Cardinality(R) : U[i] = PlaceOf(R, i)
    PROVE  /\ \A i \in 1 .. Cardinality(R) : U[i] \in R
           /\ \A i, j \in 1 .. Cardinality(R) : U[i] = U[j] => i = j
<1>1. \A i \in 1 .. Cardinality(R) : \E l \in R : Cardinality(Below(R, l)) = i - 1
  BY Ranked
<1>2. \A i \in 1 .. Cardinality(R) : U[i] \in R /\ Cardinality(Below(R, U[i])) = i - 1
  BY <1>1 DEF PlaceOf
<1>3. Cardinality(R) \in Nat
  BY SomeFinite
<1>4. ASSUME NEW i \in 1 .. Cardinality(R), NEW j \in 1 .. Cardinality(R), U[i] = U[j] PROVE i = j
  <2>1. i - 1 = j - 1
    BY <1>2, <1>4
  <2> QED BY <1>3, <2>1
<1> QED BY <1>2, <1>4

\* The groups of whole size: their places are places of scans.
LEMMA PlaceIn ==
    ASSUME NEW c \in Nat, NEW s \in Nat \ {0}, NEW g \in 1 .. c \div s, NEW i \in 1 .. s
    PROVE  (g - 1) * s + i \in 1 .. c
<1>1. c \div s \in Nat /\ (c \div s) * s <= c
  BY DivMult
<1>2. g * s <= (c \div s) * s
  BY <1>1
<1>3. (g - 1) * s + i <= g * s /\ (g - 1) * s + i >= 1 /\ (g - 1) * s + i \in Nat
  <2>1. (g - 1) * s \in Nat /\ (g - 1) * s + s = g * s
    BY <1>1
  <2> QED BY <2>1
<1> QED BY <1>1, <1>2, <1>3

LEMMA FirstPlaces ==
    ASSUME NEW g \in Nat, NEW h \in Nat, NEW s \in Nat \ {0}, (g - 1) * s + 1 = (h - 1) * s + 1
    PROVE  g = h
OBVIOUS

LEMMA TurnOf ==
    ASSUME NEW P \in Nat, NEW G \in Nat \ {0}, NEW i \in 1 .. P * G
    PROVE  /\ ((i - 1) \div G) + 1 \in Nat \ {0} /\ ((i - 1) % G) + 1 \in 1 .. G
           /\ i = ((i - 1) \div G) * G + ((i - 1) % G) + 1
<1>1. P * G \in Nat /\ i - 1 \in Nat
  OBVIOUS
<1>2. PICK a \in Nat : a = i - 1
  BY <1>1
<1>3. a \div G \in Nat /\ a % G \in 0 .. G - 1 /\ a = (a \div G) * G + (a % G)
  OBVIOUS
<1> QED BY <1>1, <1>2, <1>3

-----------------------------------------------------------------------------
\* The invariant of the fixed scheme.
SealTypes ==
    /\ policy \in SealPolicies /\ sealFaults \in Nat
    /\ arrived \subseteq (1 .. MaxLabels) \X (1 .. policy.periods)

OwnKey(r) == r.key = <<r.period, r.scans[1], 0>> /\ r.scans # <<>> /\ r \in Records
Named(r)  == \E i \in DOMAIN manifest : manifest[i].key = r.key
InArchive(r)   == r.key \in DOMAIN archives
               /\ \A l \in Members(r) : l \in DOMAIN archives[r.key] /\ archives[r.key][l] = r.period

WorkOwn(work) ==
    /\ \A i \in DOMAIN work : OwnKey(work[i])
    /\ \A i, j \in DOMAIN work : work[i].key = work[j].key => i = j

LEMMA FixedParameters ==
    ASSUME SealTypes
    PROVE  /\ GroupSize \in Nat \ {0} /\ policy.periods \in Nat \ {0} /\ MaxLabels \in Nat
           /\ Labels \subseteq 1 .. MaxLabels
<1>1. \A t \in arrived : t[1] \in 1 .. MaxLabels
  BY DEF SealTypes
<1> QED BY <1>1, SealAssumption DEF SealTypes, Labels

\* The work: items under keys of their own, of scans that no record names.
LEMMA FixedWorkFacts ==
    ASSUME SealTypes, GroupCount > 0
    PROVE  /\ FixedWork \in Seq(Records) /\ FixedWork # <<>> /\ WorkOwn(FixedWork)
           /\ \A i \in DOMAIN FixedWork : FixedWork[i].scans[1] \in Remaining
<1>1. /\ GroupSize \in Nat \ {0} /\ policy.periods \in Nat \ {0} /\ MaxLabels \in Nat
      /\ Remaining \subseteq 1 .. MaxLabels
  BY FixedParameters DEF Remaining
<1>2. PICK R, U, c, G, P, s, Gs, F :
         /\ R = Remaining /\ U = Unsealed /\ c = Cardinality(R) /\ G = GroupCount /\ P = policy.periods
         /\ s = GroupSize /\ Gs = Groups /\ F = FixedWork
  OBVIOUS
<1>3. s \in Nat \ {0} /\ P \in Nat \ {0} /\ c \in Nat /\ R \subseteq 1 .. MaxLabels
  BY <1>1, <1>2, SomeFinite
<1>4. G = c \div s /\ G \in Nat /\ G > 0
  <2>1. G = c \div s /\ G > 0
    BY <1>2 DEF GroupCount
  <2> QED BY <2>1, <1>3, DivMult
<1>5. /\ \A i \in 1 .. c : U[i] \in R
      /\ \A i, j \in 1 .. c : U[i] = U[j] => i = j
  <2>1. \A i \in 1 .. Cardinality(R) : U[i] = PlaceOf(R, i)
    BY <1>2 DEF Unsealed, PlaceOf, Below
  <2>2. /\ \A i \in 1 .. Cardinality(R) : U[i] \in R
        /\ \A i, j \in 1 .. Cardinality(R) : U[i] = U[j] => i = j
    BY <1>1, <1>3, <2>1, InOrder
  <2> QED BY <1>2, <2>2
<1>6. Gs = [g \in 1 .. G |-> [i \in 1 .. s |-> U[(g - 1) * s + i]]]
  BY <1>2 DEF Groups
<1>7. \A g \in 1 .. G : \A i \in 1 .. s : (g - 1) * s + i \in 1 .. c
  BY <1>3, <1>4, PlaceIn
<1>8. ASSUME NEW g \in 1 .. G
      PROVE  Gs[g] \in Seq(Nat) /\ Gs[g] # <<>> /\ Gs[g][1] = U[(g - 1) * s + 1] /\ Gs[g][1] \in R
  <2>1. PICK f : f = Gs[g]
    OBVIOUS
  <2>2. f = [i \in 1 .. s |-> U[(g - 1) * s + i]]
    BY <1>6, <2>1
  <2>3. \A i \in 1 .. s : U[(g - 1) * s + i] \in R
    BY <1>5, <1>7
  <2>4. 1 \in 1 .. s /\ R \subseteq Nat
    BY <1>3
  <2>5. f \in [1 .. s -> Nat] /\ f[1] = U[(g - 1) * s + 1] /\ f[1] \in R
    BY <2>2, <2>3, <2>4
  <2>6. f \in Seq(Nat) /\ f # <<>>
    BY <1>3, <2>4, <2>5
  <2> QED BY <2>1, <2>5, <2>6
<1>9. \A g, h \in 1 .. G : Gs[g][1] = Gs[h][1] => g = h
  <2> SUFFICES ASSUME NEW g \in 1 .. G, NEW h \in 1 .. G, Gs[g][1] = Gs[h][1] PROVE g = h
    OBVIOUS
  <2>1. 1 \in 1 .. s
    BY <1>3
  <2>2. (g - 1) * s + 1 \in 1 .. c /\ (h - 1) * s + 1 \in 1 .. c
    BY <1>7, <2>1
  <2>3. (g - 1) * s + 1 = (h - 1) * s + 1
    BY <1>5, <1>8, <2>2
  <2>4. g \in Nat /\ h \in Nat
    OBVIOUS
  <2> QED BY <1>3, <2>3, <2>4, FirstPlaces
<1> DEFINE A(i) == ((i - 1) \div G) + 1
           B(i) == ((i - 1) % G) + 1
<1>10. \A i \in 1 .. P * G : A(i) \in Nat \ {0} /\ B(i) \in 1 .. G /\ i = ((i - 1) \div G) * G + ((i - 1) % G) + 1
  <2> SUFFICES ASSUME NEW i \in 1 .. P * G
               PROVE  A(i) \in Nat \ {0} /\ B(i) \in 1 .. G /\ i = ((i - 1) \div G) * G + ((i - 1) % G) + 1
    OBVIOUS
  <2>1. P \in Nat /\ G \in Nat \ {0}
    BY <1>3, <1>4
  <2> QED BY <2>1, TurnOf
<1>11. \A i, j \in 1 .. P * G : A(i) = A(j) /\ B(i) = B(j) => i = j
  <2> SUFFICES ASSUME NEW i \in 1 .. P * G, NEW j \in 1 .. P * G, A(i) = A(j), B(i) = B(j) PROVE i = j
    OBVIOUS
  <2>1. PICK x, y, u, v : x = (i - 1) \div G /\ y = (i - 1) % G /\ u = (j - 1) \div G /\ v = (j - 1) % G
    OBVIOUS
  <2>2. x + 1 \in Nat \ {0} /\ u + 1 \in Nat \ {0} /\ y + 1 \in 1 .. G /\ v + 1 \in 1 .. G
    BY <1>10, <2>1
  <2>3. x + 1 = u + 1 /\ y + 1 = v + 1
    BY <2>1
  <2>4. (i - 1) \in Int /\ (j - 1) \in Int
    BY <1>3, <1>4
  <2>5. x \in Int /\ y \in Int /\ u \in Int /\ v \in Int
    BY <1>4, <2>1, <2>4
  <2>6. x = u /\ y = v
    BY <2>3, <2>5
  <2> QED BY <1>10, <2>1, <2>6
<1>12. F = [i \in 1 .. P * G |-> FixedItem(A(i), B(i))]
  BY <1>2 DEF FixedWork
<1>13. \A p, g : FixedItem(p, g) = [key |-> <<p, Gs[g][1], 0>>, period |-> p, scans |-> Gs[g]]
  BY <1>2 DEF FixedItem, Key
<1> HIDE DEF A, B
<1>14. ASSUME NEW i \in 1 .. P * G
       PROVE  /\ F[i].key = <<A(i), Gs[B(i)][1], 0>> /\ OwnKey(F[i])
              /\ F[i].scans[1] \in R
  <2>1. PICK p, g : p = A(i) /\ g = B(i)
    OBVIOUS
  <2>2. p \in Nat /\ g \in 1 .. G
    BY <1>10, <2>1
  <2>3. F[i] = [key |-> <<p, Gs[g][1], 0>>, period |-> p, scans |-> Gs[g]]
    BY <1>12, <1>13, <2>1
  <2>4. Gs[g] \in Seq(Nat) /\ Gs[g] # <<>> /\ Gs[g][1] \in R /\ Gs[g][1] \in Nat
    <3>1. Gs[g] \in Seq(Nat) /\ Gs[g] # <<>> /\ Gs[g][1] \in R
      BY <1>8, <2>2
    <3>2. R \subseteq Nat
      BY <1>3
    <3> QED BY <3>1, <3>2
  <2>5. PICK f : f = Gs[g]
    OBVIOUS
  <2>6. F[i] = [key |-> <<p, f[1], 0>>, period |-> p, scans |-> f] /\ f \in Seq(Nat) /\ f # <<>> /\ f[1] \in R
        /\ f[1] \in Nat
    BY <2>3, <2>4, <2>5
  <2>7. OwnKey(F[i])
    BY <2>2, <2>6 DEF OwnKey, Records, Keys
  <2> QED BY <2>1, <2>5, <2>6, <2>7
<1>15. \A i, j \in 1 .. P * G : F[i].key = F[j].key => i = j
  <2> SUFFICES ASSUME NEW i \in 1 .. P * G, NEW j \in 1 .. P * G, F[i].key = F[j].key PROVE i = j
    OBVIOUS
  <2>1. A(i) = A(j) /\ Gs[B(i)][1] = Gs[B(j)][1]
    BY <1>14
  <2>2. B(i) = B(j)
    BY <1>9, <1>10, <2>1
  <2> QED BY <1>11, <2>1, <2>2
<1>16. P * G \in Nat /\ 1 \in 1 .. P * G /\ DOMAIN F = 1 .. P * G
  BY <1>3, <1>4, <1>12
<1>17. F \in [1 .. P * G -> Records]
  BY <1>12, <1>14, <1>16 DEF OwnKey
<1>18. F \in Seq(Records) /\ F # <<>>
  BY <1>16, <1>17
<1>19. WorkOwn(F)
  BY <1>14, <1>15, <1>16 DEF WorkOwn
<1> QED BY <1>2, <1>14, <1>16, <1>18, <1>19

RecordsHeld == \A i \in DOMAIN manifest : OwnKey(manifest[i]) /\ InArchive(manifest[i])
Recorded(t) == \E i \in DOMAIN manifest : manifest[i].period = t[2] /\ t[1] \in Members(manifest[i])
TilesKept   == \A t \in arrived : t \in singles \/ Recorded(t)
WorkLeft    ==
    sealJob.stage # "idle" =>
        /\ sealJob.work # <<>> /\ WorkOwn(sealJob.work)
        /\ \A i \in DOMAIN sealJob.work : (i = 1 /\ sealJob.stage = "drop") \/ ~Named(sealJob.work[i])
Doing ==
    /\ sealJob.stage = "record" => InArchive(Item)
    /\ sealJob.stage = "drop" => /\ \E i \in DOMAIN manifest : manifest[i] = Item
                                 /\ sealJob.left # <<>>
                                 /\ \A x \in DOMAIN sealJob.left : sealJob.left[x] \in Members(Item)

FixedInv ==
    /\ manifest \in Seq(Records) /\ sealJob \in JobSet /\ sealJob.stage \in {"idle", "put", "record", "drop"}
    /\ RecordsHeld /\ TilesKept /\ WorkLeft /\ Doing

LEMMA FixedServes ==
    ASSUME SealTypes, FixedInv
    PROVE  EveryScanServed
<1> SUFFICES ASSUME NEW t \in arrived PROVE Serves(t[1], t[2])
  BY DEF EveryScanServed
<1>1. PICK M, l, p : M = manifest /\ l = t[1] /\ p = t[2]
  OBVIOUS
<1>2. PICK c : c = {i \in Covering(manifest, l) : manifest[i].period = p}
  OBVIOUS
<1>3. M \in Seq(Records) /\ DOMAIN M \subseteq Nat
  BY <1>1 DEF FixedInv
<1>4. c = {i \in DOMAIN M : l \in Members(M[i]) /\ M[i].period = p}
  BY <1>1, <1>2 DEF Covering
<1>5. CASE c = {}
  <2>1. ~Recorded(t)
    BY <1>1, <1>4, <1>5 DEF Recorded
  <2>2. t \in singles
    BY <2>1 DEF FixedInv, TilesKept
  <2>3. t = <<l, p>>
    BY <1>1 DEF SealTypes
  <2> QED BY <1>1, <1>2, <1>5, <2>2, <2>3 DEF Serves
<1>6. CASE c # {}
  <2>1. PICK j : j = Min(c)
    OBVIOUS
  <2>2. j \in c
    BY <1>3, <1>4, <1>6, <2>1, LeastIn
  <2>3. j \in DOMAIN M /\ l \in Members(M[j]) /\ M[j].period = p
    BY <1>4, <2>2
  <2>4. InArchive(M[j])
    BY <1>1, <2>3 DEF FixedInv, RecordsHeld
  <2> QED BY <1>1, <1>2, <1>6, <2>1, <2>3, <2>4 DEF Serves, InArchive
<1> QED BY <1>5, <1>6

LEMMA TileFixedInv ==
    ASSUME FixedInv, NEW l \in 1 .. MaxLabels, NEW p \in 1 .. policy.periods, TileArrives(l, p)
    PROVE  FixedInv'
<1>1. /\ arrived' = arrived \cup {<<l, p>>} /\ singles' = singles \cup {<<l, p>>}
      /\ UNCHANGED <<archives, manifest, sealJob>>
  BY DEF TileArrives
<1>2. RecordsHeld'
  BY <1>1 DEF FixedInv, RecordsHeld, InArchive, OwnKey
<1>3. TilesKept'
  BY <1>1 DEF FixedInv, TilesKept, Recorded
<1>4. WorkLeft'
  BY <1>1 DEF FixedInv, WorkLeft, WorkOwn, Named, OwnKey
<1>5. Doing'
  BY <1>1 DEF FixedInv, Doing, InArchive, Item
<1> QED BY <1>1, <1>2, <1>3, <1>4, <1>5 DEF FixedInv

\* A job that ends or dies takes nothing with it.
LEMMA IdleFixedInv ==
    ASSUME FixedInv, sealJob' = NoJob, UNCHANGED <<arrived, singles, archives, manifest>>
    PROVE  FixedInv'
<1>1. RecordsHeld'
  BY DEF FixedInv, RecordsHeld, InArchive, OwnKey
<1>2. TilesKept'
  BY DEF FixedInv, TilesKept, Recorded
<1>3. WorkLeft' /\ Doing'
  BY NoJobTyped DEF WorkLeft, Doing
<1> QED BY <1>1, <1>2, <1>3, NoJobTyped DEF FixedInv

LEMMA OwnFirst ==
    ASSUME NEW r, OwnKey(r)
    PROVE  r.scans[1] \in Members(r) /\ r.key[2] = r.scans[1]
<1>1. r.scans \in Seq(Nat) /\ r.scans # <<>>
  BY DEF OwnKey, Records
<1>2. 1 \in DOMAIN r.scans
  BY <1>1
<1> QED BY <1>2 DEF Members, OwnKey

LEMMA StartFixedInv ==
    ASSUME SealTypes, FixedInv, StartFixed
    PROVE  FixedInv'
<1>1. /\ GroupCount > 0 /\ sealJob' = [NoJob EXCEPT !.stage = "put", !.work = FixedWork]
      /\ UNCHANGED <<arrived, singles, archives, manifest>>
  BY DEF StartFixed
<1>2. PICK F : F = FixedWork
  OBVIOUS
<1>3. F \in Seq(Records) /\ F # <<>> /\ WorkOwn(F) /\ \A i \in DOMAIN F : F[i].scans[1] \in Remaining
  BY <1>1, <1>2, FixedWorkFacts
<1>4. sealJob' \in JobSet /\ sealJob'.stage = "put" /\ sealJob'.work = F
  <2>1. <<>> \in Seq(Records) /\ <<>> \in Seq(Nat)
    OBVIOUS
  <2>2. sealJob' = [stage |-> "put", work |-> F, left |-> <<>>, current |-> <<>>, target |-> <<>>, count |-> 0]
    BY <1>1, <1>2 DEF NoJob
  <2> QED BY <1>3, <2>1, <2>2 DEF JobSet, Stages
<1>5. \A i \in DOMAIN F : ~Named(F[i])
  <2> SUFFICES ASSUME NEW i \in DOMAIN F, NEW j \in DOMAIN manifest, manifest[j].key = F[i].key PROVE FALSE
    BY DEF Named
  <2>1. PICK r, q : r = manifest[j] /\ q = F[i]
    OBVIOUS
  <2>2. OwnKey(r) /\ OwnKey(q)
    BY <1>3, <2>1 DEF FixedInv, RecordsHeld, WorkOwn
  <2>3. r.scans[1] = q.scans[1] /\ r.scans[1] \in Members(r)
    BY <2>1, <2>2, OwnFirst
  <2>4. r.scans[1] \in SealedLabels
    BY <2>1, <2>3 DEF SealedLabels
  <2>5. q.scans[1] \in Remaining
    BY <1>3, <2>1
  <2> QED BY <2>3, <2>4, <2>5 DEF Remaining
<1>6. WorkLeft'
  BY <1>1, <1>3, <1>4, <1>5 DEF WorkLeft, WorkOwn, Named, OwnKey
<1>7. Doing'
  BY <1>4 DEF Doing
<1>8. RecordsHeld' /\ TilesKept'
  <2>1. RecordsHeld'
    BY <1>1 DEF FixedInv, RecordsHeld, InArchive, OwnKey
  <2>2. TilesKept'
    BY <1>1 DEF FixedInv, TilesKept, Recorded
  <2> QED BY <2>1, <2>2
<1> QED BY <1>1, <1>4, <1>6, <1>7, <1>8 DEF FixedInv

\* The item of the job, and a job that goes on with the same work.
LEMMA ItemFacts ==
    ASSUME FixedInv, sealJob.stage # "idle"
    PROVE  /\ OwnKey(Item) /\ 1 \in DOMAIN sealJob.work
           /\ sealJob.stage # "drop" => ~Named(Item)
<1>1. PICK W : W = sealJob.work
  OBVIOUS
<1>2. W \in Seq(Records) /\ W # <<>>
  BY <1>1 DEF FixedInv, JobSet, WorkLeft
<1>3. 1 \in DOMAIN W
  BY <1>2
<1> QED BY <1>1, <1>3 DEF FixedInv, WorkLeft, WorkOwn, Item

LEMMA PutGroupInv ==
    ASSUME FixedInv, PutGroup
    PROVE  FixedInv'
<1>1. sealJob.stage = "put" /\ UNCHANGED <<arrived, singles, manifest>>
  BY DEF PutGroup
<1>2. CASE Missing(Item) # {}
  BY <1>1, <1>2, IdleFixedInv DEF PutGroup
<1>3. CASE Missing(Item) = {}
  <2>1. /\ archives' = Archived(Item.key, [l \in Members(Item) |-> Item.period])
        /\ sealJob' = [sealJob EXCEPT !.stage = "record"]
    BY <1>3 DEF PutGroup
  <2>2. PICK q, a, b : q = Item /\ a = archives /\ b = archives'
    OBVIOUS
  <2>3. /\ DOMAIN b = {q.key} \cup DOMAIN a
        /\ \A k \in DOMAIN a : k # q.key => b[k] = a[k]
        /\ b[q.key] = [l \in Members(q) |-> q.period]
    BY <2>1, <2>2 DEF Archived
  <2>4. OwnKey(q) /\ ~Named(q)
    BY <1>1, <2>2, ItemFacts
  <2>5. sealJob' \in JobSet /\ sealJob'.stage = "record" /\ sealJob'.work = sealJob.work
    BY <2>1 DEF FixedInv, JobSet, Stages
  <2>6. RecordsHeld'
    <3>1. ASSUME NEW i \in DOMAIN manifest PROVE OwnKey(manifest[i]) /\ InArchive(manifest[i])'
      <4>1. PICK r : r = manifest[i]
        OBVIOUS
      <4>2. OwnKey(r) /\ InArchive(r)
        BY <4>1 DEF FixedInv, RecordsHeld
      <4>3. r.key # q.key
        BY <2>4, <4>1 DEF Named
      <4>4. r.key \in DOMAIN b /\ b[r.key] = a[r.key]
        BY <2>2, <2>3, <4>2, <4>3 DEF InArchive
      <4>5. \A l \in Members(r) : l \in DOMAIN b[r.key] /\ b[r.key][l] = r.period
        BY <2>2, <4>2, <4>4 DEF InArchive
      <4> QED BY <1>1, <2>2, <4>1, <4>2, <4>4, <4>5 DEF InArchive
    <3> QED BY <1>1, <3>1 DEF RecordsHeld, OwnKey, InArchive
  <2>7. TilesKept'
    BY <1>1 DEF FixedInv, TilesKept, Recorded
  <2>8. Item' = q
    BY <2>2, <2>5 DEF Item
  <2>9. InArchive(Item)'
    <3>1. q.key \in DOMAIN b /\ \A l \in Members(q) : l \in DOMAIN b[q.key] /\ b[q.key][l] = q.period
      BY <2>3
    <3> QED BY <2>2, <2>8, <3>1 DEF InArchive
  <2>10. Doing'
    BY <2>5, <2>9 DEF Doing
  <2>11. WorkLeft'
    BY <1>1, <2>5 DEF FixedInv, WorkLeft, WorkOwn, Named, OwnKey
  <2> QED BY <1>1, <2>5, <2>6, <2>7, <2>10, <2>11 DEF FixedInv
<1> QED BY <1>2, <1>3

LEMMA RecordGroupInv ==
    ASSUME FixedInv, RecordGroup
    PROVE  FixedInv'
<1>1. /\ sealJob.stage = "record" /\ manifest' = Append(manifest, Item)
      /\ sealJob' = [sealJob EXCEPT !.stage = "drop", !.left = Item.scans]
      /\ UNCHANGED <<arrived, singles, archives>>
  BY DEF RecordGroup
<1>2. PICK q, M, N : q = Item /\ M = manifest /\ N = manifest'
  OBVIOUS
<1>3. OwnKey(q) /\ ~Named(q) /\ InArchive(q) /\ q \in Records /\ q.scans \in Seq(Nat) /\ q.scans # <<>>
  <2>1. OwnKey(q) /\ ~Named(q) /\ InArchive(q)
    BY <1>1, <1>2, ItemFacts DEF FixedInv, Doing
  <2> QED BY <2>1 DEF OwnKey, Records
<1>4. PICK n : n = Len(M)
  OBVIOUS
<1>5. /\ N \in Seq(Records) /\ DOMAIN N = 1 .. n + 1 /\ N[n + 1] = q /\ n \in Nat /\ DOMAIN M = 1 .. n
      /\ \A i \in 1 .. n : N[i] = M[i]
  <2>1. M \in Seq(Records) /\ N = Append(M, q)
    BY <1>1, <1>2 DEF FixedInv
  <2> QED BY <1>3, <1>4, <2>1
<1>6. \A i \in 1 .. n + 1 : i \in 1 .. n \/ i = n + 1
  BY <1>5
<1>7. sealJob' \in JobSet /\ sealJob'.stage = "drop" /\ sealJob'.work = sealJob.work /\ sealJob'.left = q.scans
  BY <1>1, <1>2, <1>3 DEF FixedInv, JobSet, Stages
<1>8. RecordsHeld'
  <2>1. \A i \in 1 .. n : OwnKey(M[i]) /\ InArchive(M[i])
    BY <1>2, <1>5 DEF FixedInv, RecordsHeld
  <2>2. \A i \in 1 .. n + 1 : OwnKey(N[i]) /\ InArchive(N[i])
    BY <1>3, <1>5, <1>6, <2>1
  <2> QED BY <1>1, <1>2, <1>5, <2>2 DEF RecordsHeld, OwnKey, InArchive
<1>9. TilesKept'
  <2> SUFFICES ASSUME NEW t \in arrived, ~(t \in singles)
               PROVE  \E i \in DOMAIN N : N[i].period = t[2] /\ t[1] \in Members(N[i])
    BY <1>1, <1>2 DEF TilesKept, Recorded
  <2>1. PICK i \in DOMAIN M : M[i].period = t[2] /\ t[1] \in Members(M[i])
    BY <1>2 DEF FixedInv, TilesKept, Recorded
  <2>2. i \in DOMAIN N /\ N[i] = M[i]
    BY <1>5
  <2> QED BY <2>1, <2>2
<1>10. Item' = q /\ 1 \in DOMAIN sealJob.work
  BY <1>1, <1>2, <1>7, ItemFacts DEF Item
<1>11. WorkLeft'
  <2>1. PICK W : W = sealJob.work
    OBVIOUS
  <2>2. W # <<>> /\ WorkOwn(W) /\ W[1] = q /\ 1 \in DOMAIN W /\ \A i \in DOMAIN W : ~Named(W[i])
    BY <1>1, <1>2, <1>10, <2>1 DEF FixedInv, WorkLeft, Item
  <2>3. ASSUME NEW i \in DOMAIN W, i # 1 PROVE \A j \in DOMAIN N : N[j].key # W[i].key
    <3>1. W[i].key # q.key
      BY <2>2, <2>3 DEF WorkOwn
    <3>2. \A j \in 1 .. n : M[j].key # W[i].key
      BY <1>2, <1>5, <2>2 DEF Named
    <3> QED BY <1>5, <1>6, <3>1, <3>2
  <2>4. \A i \in DOMAIN W : i = 1 \/ ~Named(W[i])'
    BY <1>2, <2>3 DEF Named
  <2> QED BY <1>7, <2>1, <2>2, <2>4 DEF WorkLeft, WorkOwn, OwnKey, Named
<1>12. Doing'
  <2>1. \E i \in DOMAIN N : N[i] = q
    <3>1. n + 1 \in DOMAIN N
      BY <1>5
    <3> QED BY <1>5, <3>1
  <2>2. \A x \in DOMAIN q.scans : q.scans[x] \in Members(q)
    BY DEF Members
  <2> QED BY <1>2, <1>3, <1>7, <1>10, <2>1, <2>2 DEF Doing
<1>13. manifest' \in Seq(Records)
  BY <1>2, <1>5
<1> QED BY <1>7, <1>8, <1>9, <1>11, <1>12, <1>13 DEF FixedInv

LEMMA TailKeeps ==
    ASSUME NEW S, NEW s \in Seq(S), s # <<>>
    PROVE  /\ Tail(s) \in Seq(S) /\ (Len(s) # 1 => Tail(s) # <<>>)
           /\ \A i \in DOMAIN Tail(s) : i + 1 \in DOMAIN s /\ i + 1 # 1 /\ Tail(s)[i] = s[i + 1] /\ i \in Nat
<1>1. Len(s) \in Nat \ {0}
  OBVIOUS
<1>2. Tail(s) \in Seq(S) /\ Len(Tail(s)) = Len(s) - 1 /\ \A i \in 1 .. Len(s) - 1 : Tail(s)[i] = s[i + 1]
  BY <1>1
<1>3. DOMAIN Tail(s) = 1 .. Len(s) - 1
  BY <1>2
<1>4. \A i \in 1 .. Len(s) - 1 : i + 1 \in DOMAIN s /\ i + 1 # 1 /\ i \in Nat
  BY <1>1
<1>5. Len(s) # 1 => Tail(s) # <<>>
  BY <1>1, <1>2
<1> QED BY <1>2, <1>3, <1>4, <1>5

LEMMA DropMemberInv ==
    ASSUME SealTypes, FixedInv, DropMember
    PROVE  FixedInv'
<1>1. sealJob.stage = "drop" /\ UNCHANGED <<arrived, archives, manifest>>
  BY DEF DropMember
<1>2. PICK q, W, L : q = Item /\ W = sealJob.work /\ L = sealJob.left
  OBVIOUS
<1>3. CASE ~(q.key \in DOMAIN archives /\ L[1] \in DOMAIN archives[q.key])
  BY <1>1, <1>2, <1>3, IdleFixedInv DEF DropMember
<1>4. CASE q.key \in DOMAIN archives /\ L[1] \in DOMAIN archives[q.key]
  <2>1. /\ singles' = singles \ {<<L[1], q.period>>}
        /\ sealJob' = IF Len(L) = 1 THEN Onward(sealJob) ELSE [sealJob EXCEPT !.left = Tail(@)]
    BY <1>2, <1>4 DEF DropMember
  <2>2. /\ W \in Seq(Records) /\ W # <<>> /\ WorkOwn(W) /\ \A i \in DOMAIN W : i = 1 \/ ~Named(W[i])
        /\ L \in Seq(Nat) /\ L # <<>> /\ \A x \in DOMAIN L : L[x] \in Members(q)
    BY <1>1, <1>2 DEF FixedInv, JobSet, WorkLeft, Doing
  <2>3. PICK j \in DOMAIN manifest : manifest[j] = q
    BY <1>1, <1>2 DEF FixedInv, Doing
  <2>4. RecordsHeld'
    BY <1>1 DEF FixedInv, RecordsHeld, InArchive, OwnKey
  <2>5. L[1] \in Members(q)
    BY <2>2
  <2>6. TilesKept'
    <3> SUFFICES ASSUME NEW t \in arrived, ~(t \in singles') PROVE Recorded(t)
      BY <1>1 DEF TilesKept, Recorded
    <3>1. CASE t \in singles
      <4>1. t = <<L[1], q.period>>
        BY <2>1, <3>1
      <4>2. t[1] = L[1] /\ t[2] = q.period
        BY <4>1
      <4> QED BY <2>3, <2>5, <4>2 DEF Recorded
    <3>2. CASE ~(t \in singles)
      BY <3>2 DEF FixedInv, TilesKept
    <3> QED BY <3>1, <3>2
  <2>7. CASE Len(L) # 1
    <3>1. sealJob' \in JobSet /\ sealJob'.stage = "drop" /\ sealJob'.work = W /\ sealJob'.left = Tail(L)
      BY <1>1, <1>2, <2>1, <2>2, <2>7, TailKeeps DEF FixedInv, JobSet
    <3>2. Item' = q
      BY <1>2, <3>1 DEF Item
    <3>3. Tail(L) # <<>> /\ \A x \in DOMAIN Tail(L) : Tail(L)[x] \in Members(q)
      BY <2>2, <2>7, TailKeeps
    <3>4. Doing'
      BY <1>1, <2>3, <3>1, <3>2, <3>3 DEF Doing
    <3>5. WorkLeft'
      BY <1>1, <2>2, <3>1 DEF WorkLeft, WorkOwn, Named, OwnKey
    <3> QED BY <1>1, <2>4, <2>6, <3>1, <3>4, <3>5 DEF FixedInv
  <2>8. CASE Len(L) = 1 /\ Len(W) = 1
    <3>1. sealJob' = NoJob
      BY <1>2, <2>1, <2>8 DEF Onward
    <3>2. WorkLeft' /\ Doing'
      BY <3>1, NoJobTyped DEF WorkLeft, Doing
    <3> QED BY <1>1, <2>4, <2>6, <3>1, <3>2, NoJobTyped DEF FixedInv
  <2>9. CASE Len(L) = 1 /\ Len(W) # 1
    <3>1. sealJob' = [sealJob EXCEPT !.work = Tail(sealJob.work), !.stage = "put"]
      BY <1>2, <2>1, <2>9 DEF Onward
    <3>2. PICK V : V = Tail(W)
      OBVIOUS
    <3>3. V \in Seq(Records) /\ V # <<>>
          /\ \A i \in DOMAIN V : i + 1 \in DOMAIN W /\ i + 1 # 1 /\ V[i] = W[i + 1] /\ i \in Nat
      BY <2>2, <2>9, <3>2, TailKeeps
    <3>4. sealJob' \in JobSet /\ sealJob'.stage = "put" /\ sealJob'.work = V
      BY <1>2, <3>1, <3>2, <3>3 DEF FixedInv, JobSet, Stages
    <3>5. WorkOwn(V)
      <4>1. \A i \in DOMAIN V : OwnKey(V[i])
        BY <2>2, <3>3 DEF WorkOwn
      <4>2. ASSUME NEW i \in DOMAIN V, NEW k \in DOMAIN V, V[i].key = V[k].key PROVE i = k
        <5>1. i + 1 = k + 1
          BY <2>2, <3>3, <4>2 DEF WorkOwn
        <5> QED BY <3>3, <5>1
      <4> QED BY <4>1, <4>2 DEF WorkOwn
    <3>6. \A i \in DOMAIN V : ~Named(V[i])
      BY <2>2, <3>3
    <3>7. WorkLeft'
      BY <1>1, <3>3, <3>4, <3>5, <3>6 DEF WorkLeft, WorkOwn, Named, OwnKey
    <3>8. Doing'
      BY <3>4 DEF Doing
    <3> QED BY <1>1, <2>4, <2>6, <3>4, <3>7, <3>8 DEF FixedInv
  <2> QED BY <2>7, <2>8, <2>9
<1> QED BY <1>3, <1>4

-----------------------------------------------------------------------------
\* Both schemes, and the range of one period while no seal has crashed.
SealInv ==
    /\ SealTypes
    /\ policy.scheme = "fixed" => FixedInv
    /\ OnePeriod /\ sealFaults = 0 => DyadicInv

LEMMA InitSealInv == InitSeal => SealInv
<1> SUFFICES ASSUME InitSeal PROVE SealInv
  OBVIOUS
<1> USE DEF InitSeal
<1>1. manifest \in Seq(Records) /\ DOMAIN manifest = {} /\ sealJob \in JobSet /\ sealJob.stage = "idle"
  <2>1. \A S : <<>> \in Seq(S) /\ DOMAIN <<>> = {}
    OBVIOUS
  <2> QED BY <2>1, NoJobTyped
<1>2. SealTypes
  BY DEF SealTypes
<1>3. FixedInv
  BY <1>1 DEF FixedInv, RecordsHeld, TilesKept, WorkLeft, Doing
<1>4. DyadicInv
  <2>1. Dyadics(manifest, 0)
    BY <1>1 DEF Dyadics
  <2>2. After(0, 0) = {}
    BY DEF After
  <2>3. archives = Stock(RecordKeys(manifest))
    <3>1. RecordKeys(manifest) = {}
      BY <1>1 DEF RecordKeys
    <3> QED BY <3>1 DEF Stock
  <2>4. Resting(0, 0)
    BY <1>1, <2>2, <2>3 DEF Resting
  <2> QED BY <1>1, <2>1, <2>2, <2>4 DEF DyadicInv
<1> QED BY <1>2, <1>3, <1>4 DEF SealInv

LEMMA SealTypesStep == SealTypes /\ [NextSeal]_sealVars => SealTypes' /\ UNCHANGED policy
<1> SUFFICES ASSUME SealTypes, [NextSeal]_sealVars PROVE SealTypes' /\ UNCHANGED policy
  OBVIOUS
<1> USE DEF SealTypes
<1>1. ASSUME UNCHANGED <<policy, arrived, sealFaults>> PROVE SealTypes' /\ UNCHANGED policy
  BY <1>1
<1>2. CASE UNCHANGED sealVars
  BY <1>1, <1>2 DEF sealVars
<1>3. CASE \E l \in 1 .. MaxLabels, p \in 1 .. policy.periods : TileArrives(l, p)
  BY <1>3 DEF TileArrives
<1>4. CASE StartFixed \/ PutGroup \/ RecordGroup \/ DropMember
  BY <1>1, <1>4 DEF StartFixed, PutGroup, RecordGroup, DropMember
<1>5. CASE Dyadic
  BY <1>1, <1>5 DEF Dyadic, StartDyadic, BuildBlock, DeleteSuperseded, DropCovered, Rewrite
<1>6. CASE SealDies
  BY <1>6 DEF SealDies
<1> QED BY <1>2, <1>3, <1>4, <1>5, <1>6 DEF NextSeal

LEMMA FixedStep ==
    SealTypes /\ policy.scheme = "fixed" /\ FixedInv /\ [NextSeal]_sealVars => FixedInv'
<1> SUFFICES ASSUME SealTypes, policy.scheme = "fixed", FixedInv, [NextSeal]_sealVars PROVE FixedInv'
  OBVIOUS
<1>1. CASE UNCHANGED sealVars
  BY <1>1 DEF sealVars, FixedInv, RecordsHeld, TilesKept, WorkLeft, Doing, OwnKey, Named, InArchive, Recorded,
              WorkOwn, Item
<1>2. CASE \E l \in 1 .. MaxLabels, p \in 1 .. policy.periods : TileArrives(l, p)
  BY <1>2, TileFixedInv
<1>3. CASE StartFixed \/ PutGroup \/ RecordGroup \/ DropMember
  BY <1>3, StartFixedInv, PutGroupInv, RecordGroupInv, DropMemberInv
<1>4. ~Dyadic
  BY DEF FixedInv, Dyadic, StartDyadic, BuildBlock, DeleteSuperseded, DropCovered, Rewrite
<1>5. CASE SealDies
  BY <1>5, IdleFixedInv DEF SealDies
<1> QED BY <1>1, <1>2, <1>3, <1>4, <1>5 DEF NextSeal

LEMMA DyadicStep ==
    SealTypes /\ OnePeriod /\ sealFaults' = 0 /\ sealFaults = 0 /\ DyadicInv /\ [NextSeal]_sealVars => DyadicInv'
<1> SUFFICES ASSUME SealTypes, OnePeriod, sealFaults' = 0, sealFaults = 0, DyadicInv, [NextSeal]_sealVars
             PROVE  DyadicInv'
  OBVIOUS
<1>1. CASE UNCHANGED sealVars
  <2>1. UNCHANGED <<policy, arrived, singles, archives, manifest, sealJob, sealFaults>>
    BY <1>1 DEF sealVars
  <2>2. \A n, b : Resting(n, b)' = Resting(n, b)
    BY <2>1 DEF Resting
  <2>3. \A n, b, m : Sealing(n, b, m)' = Sealing(n, b, m)
    BY <2>1 DEF Sealing, Building, Deleting, Dropping, Rewriting
  <2> QED BY <2>1, <2>2, <2>3 DEF DyadicInv
<1>2. CASE \E l \in 1 .. MaxLabels, p \in 1 .. policy.periods : TileArrives(l, p)
  BY <1>2, TileDyadicInv, SealAssumption
<1>3. policy.scheme # "fixed"
  BY DEF OnePeriod
<1>4. ~(StartFixed \/ PutGroup \/ RecordGroup \/ DropMember)
  BY <1>3 DEF StartFixed, PutGroup, RecordGroup, DropMember
<1>5. CASE Dyadic
  BY <1>5, StartDyadicInv, BuildBlockInv, DeleteSupersededInv, DropCoveredInv, RewriteInv DEF Dyadic
<1>6. ~SealDies
  BY DEF SealDies
<1> QED BY <1>1, <1>2, <1>4, <1>5, <1>6 DEF NextSeal

LEMMA NextSealInv == SealInv /\ [NextSeal]_sealVars => SealInv'
<1> SUFFICES ASSUME SealInv, [NextSeal]_sealVars PROVE SealInv'
  OBVIOUS
<1>1. SealTypes /\ SealTypes' /\ policy' = policy
  BY SealTypesStep DEF SealInv
<1>2. (policy.scheme = "fixed" => FixedInv)'
  BY <1>1, FixedStep DEF SealInv
<1>3. sealFaults' = 0 => sealFaults = 0
  <2>1. sealFaults' = sealFaults \/ sealFaults' = sealFaults + 1
    BY DEF NextSeal, sealVars, TileArrives, StartFixed, PutGroup, RecordGroup, DropMember, Dyadic, StartDyadic,
           BuildBlock, DeleteSuperseded, DropCovered, Rewrite, SealDies
  <2> QED BY <1>1, <2>1 DEF SealTypes
<1>4. (OnePeriod /\ sealFaults = 0 => DyadicInv)'
  BY <1>1, <1>3, DyadicStep DEF SealInv, OnePeriod
<1> QED BY <1>1, <1>2, <1>4 DEF SealInv

(* Under the fixed scheme every tile that has arrived can be read at every step  *)
(* of a seal and after any crash of one; under the exponential scheme, over a    *)
(* range of one period and with no crash so far, it can be read at rest, where   *)
(* the archives are exactly those of the records and no scan is in two records.  *)
THEOREM SealsKeepScansHolds == SpecSeal => []SealsKeepScans
<1>1. SealInv => SealsKeepScans
  <2> SUFFICES ASSUME SealInv PROVE SealsKeepScans
    OBVIOUS
  <2>1. SealTypes
    BY DEF SealInv
  <2>2. policy.scheme = "fixed" => EveryScanServed
    BY <2>1, FixedServes DEF SealInv
  <2>3. ASSUME policy = [scheme |-> "exponential", periods |-> 1] /\ sealJob = NoJob /\ sealFaults = 0
        PROVE  /\ EveryScanServed
               /\ DOMAIN archives = {manifest[i].key : i \in DOMAIN manifest}
               /\ \A l \in Labels : Cardinality(Covering(manifest, l)) <= 1
    BY <2>3, DyadicServes DEF SealInv, OnePeriod
  <2> QED BY <2>2, <2>3 DEF SealsKeepScans
<1> QED BY <1>1, InitSealInv, NextSealInv, PTL DEF SpecSeal
-----------------------------------------------------------------------------
(***************************************************************************)
(* Encodings and differences.  Runs of equal states first.                 *)
(***************************************************************************)

(* Runs of equal states. *)

LEMMA SameInside ==
    ASSUME NEW ss, NEW k, NEW i \in Nat, NEW j \in Nat, SameState(ss, k, i, j),
           NEW a \in i .. j, NEW b \in i .. j
    PROVE  SameState(ss, k, a, b)
<1>1. ss[a][k] = ss[i][k]
  BY DEF SameState
<1>2. \A n \in a .. b : n \in i .. j
  OBVIOUS
<1> QED BY <1>1, <1>2 DEF SameState

\* Two runs that end together: the shorter one does not stop at a change.
LEMMA SameStart ==
    ASSUME NEW ss, NEW k, NEW i \in Nat, NEW j \in Nat, NEW e \in Nat, 1 <= i, 1 <= j,
           WholeRun(ss, k, i, e), WholeRun(ss, k, j, e)
    PROVE  i = j
<1>1. ASSUME NEW x \in Nat, NEW y \in Nat, 1 <= x, x < y, y <= e, SameState(ss, k, x, e)
      PROVE  y # 1 /\ SameState(ss, k, y - 1, e)
  BY <1>1, SameInside
<1> QED BY <1>1 DEF WholeRun

\* Every state of a scan is in a run that nothing extends.
LEMMA RunAround ==
    ASSUME NEW ss, Len(ss) \in Nat, NEW i \in 1 .. Len(ss), NEW k \in DOMAIN ss[i]
    PROVE  \E a \in 1 .. i, b \in i .. Len(ss) : WholeRun(ss, k, a, b)
<1> DEFINE A == {x \in 1 .. i : SameState(ss, k, x, i)}
<1>1. SameState(ss, k, i, i)
  BY DEF SameState
<1>2. i \in A /\ A \subseteq Nat
  BY <1>1
<1>3. Min(A) \in A /\ \A y \in A : Min(A) <= y
  BY <1>2, LeastIn
<1>4. PICK a \in 1 .. i : SameState(ss, k, a, i) /\ \A y \in A : a <= y
  BY <1>3
<1> DEFINE B == {x \in i .. Len(ss) : SameState(ss, k, a, x)}
<1>5. i \in B
  BY <1>4
<1>10. PICK m \in Nat : m = Len(ss)
  OBVIOUS
<1>11. B \subseteq 0 .. m /\ B # {}
  BY <1>5, <1>10
<1> HIDE DEF B
<1>6. Max(B) \in B /\ \A y \in B : y <= Max(B)
  BY <1>11, MaxIn
<1> USE DEF B
<1>7. PICK b \in i .. Len(ss) : SameState(ss, k, a, b) /\ \A y \in B : y <= b
  BY <1>6
<1>8. a = 1 \/ ~SameState(ss, k, a - 1, b)
  <2> SUFFICES ASSUME a # 1, SameState(ss, k, a - 1, b) PROVE FALSE
    OBVIOUS
  <2>1. a - 1 \in 1 .. i /\ a - 1 \in Nat /\ b \in Nat /\ a - 1 \in a - 1 .. b /\ i \in a - 1 .. b
    OBVIOUS
  <2>2. SameState(ss, k, a - 1, i)
    BY <2>1, SameInside
  <2> QED BY <2>1, <2>2, <1>4
<1>9. b = Len(ss) \/ ~SameState(ss, k, a, b + 1)
  <2> SUFFICES ASSUME b # Len(ss), SameState(ss, k, a, b + 1) PROVE FALSE
    OBVIOUS
  <2>1. b + 1 \in B
    OBVIOUS
  <2> QED BY <2>1, <1>7
<1> QED BY <1>4, <1>7, <1>8, <1>9 DEF WholeRun

\* The row of a run.
RunRow(ss, k, a, b) == [key |-> k, state |-> ss[a][k], lo |-> a, hi |-> b]

LEMMA RowIs ==
    ASSUME NEW ss, Len(ss) \in Nat, DOMAIN ss = 1 .. Len(ss), NEW r
    PROVE  r \in EncodeInterval(ss)
              <=> \E k : \E a, b \in 1 .. Len(ss) : WholeRun(ss, k, a, b) /\ r = RunRow(ss, k, a, b)
<1>1. ASSUME r \in EncodeInterval(ss)
      PROVE  \E k : \E a, b \in 1 .. Len(ss) : WholeRun(ss, k, a, b) /\ r = RunRow(ss, k, a, b)
  <2>1. PICK u \in KeysOf(ss) \X (DOMAIN ss) \X (DOMAIN ss) :
            WholeRun(ss, u[1], u[2], u[3]) /\ r = RunRow(ss, u[1], u[2], u[3])
    BY <1>1 DEF EncodeInterval, RunRow
  <2>2. u[2] \in 1 .. Len(ss) /\ u[3] \in 1 .. Len(ss)
    OBVIOUS
  <2> QED BY <2>1, <2>2
<1>2. ASSUME NEW k, NEW a \in 1 .. Len(ss), NEW b \in 1 .. Len(ss), WholeRun(ss, k, a, b),
             r = RunRow(ss, k, a, b)
      PROVE  r \in EncodeInterval(ss)
  <2>0. a <= b
    BY <1>2, Zenon DEF WholeRun
  <2>1. a \in a .. b
    BY <2>0
  <2>2. k \in DOMAIN ss[a]
    BY <1>2, <2>1 DEF WholeRun, SameState
  <2>3. k \in KeysOf(ss)
    BY <2>2 DEF KeysOf
  <2>4. PICK u : u = <<k, a, b>>
    OBVIOUS
  <2>5. u \in KeysOf(ss) \X (DOMAIN ss) \X (DOMAIN ss) /\ u[1] = k /\ u[2] = a /\ u[3] = b
    BY <2>3, <2>4
  <2> QED BY <1>2, <2>5 DEF EncodeInterval, RunRow
<1> QED BY <1>1, <1>2

\* A run's row gives the state of each scan it spans.
LEMMA RowSays ==
    ASSUME NEW ss, NEW k, NEW a \in Nat, NEW b \in Nat, WholeRun(ss, k, a, b), NEW i \in a .. b
    PROVE  k \in DOMAIN ss[i] /\ ss[i][k] = ss[a][k]
BY DEF WholeRun, SameState

LEMMA AsOfRows ==
    ASSUME NEW ss, Len(ss) \in Nat, DOMAIN ss = 1 .. Len(ss), NEW k, NEW i \in 1 .. Len(ss)
    PROVE  AsOf(EncodeInterval(ss), k, i) = StateOf(ss[i], k)
<1> DEFINE at == {r \in EncodeInterval(ss) : r.key = k /\ r.lo <= i /\ i <= r.hi}
<1>1. ASSUME NEW r \in at PROVE k \in DOMAIN ss[i] /\ r.state = ss[i][k]
  <2>1. PICK q : \E a, b \in 1 .. Len(ss) : WholeRun(ss, q, a, b) /\ r = RunRow(ss, q, a, b)
    BY RowIs
  <2>2. PICK a \in 1 .. Len(ss), b \in 1 .. Len(ss) : WholeRun(ss, q, a, b) /\ r = RunRow(ss, q, a, b)
    BY <2>1
  <2>3. r.key = q /\ r.lo = a /\ r.hi = b /\ r.state = ss[a][q]
    BY <2>2 DEF RunRow
  <2>4. q = k /\ i \in a .. b
    BY <2>3
  <2> QED BY <2>2, <2>3, <2>4, RowSays
<1>2. ASSUME k \in DOMAIN ss[i] PROVE at # {}
  <2>1. PICK a \in 1 .. i, b \in i .. Len(ss) : WholeRun(ss, k, a, b)
    BY <1>2, RunAround
  <2>2. PICK r : r = RunRow(ss, k, a, b)
    OBVIOUS
  <2>3. a \in 1 .. Len(ss) /\ b \in 1 .. Len(ss)
    OBVIOUS
  <2>4. r \in EncodeInterval(ss)
    BY <2>1, <2>2, <2>3, RowIs
  <2>5. r.key = k /\ r.lo <= i /\ i <= r.hi
    BY <2>2 DEF RunRow
  <2> QED BY <2>4, <2>5
<1>3. AsOf(EncodeInterval(ss), k, i) = IF at = {} THEN Identity ELSE (CHOOSE r \in at : TRUE).state
  BY DEF AsOf
<1> HIDE DEF at
<1>4. CASE at = {}
  BY <1>2, <1>3, <1>4 DEF StateOf
<1>5. CASE at # {}
  BY <1>1, <1>3, <1>5 DEF StateOf
<1> QED BY <1>4, <1>5

\* Between two scans in which a key's state differs, a run of it begins or ends.
LEMMA BoundaryBetween ==
    ASSUME NEW ss, Len(ss) \in Nat, DOMAIN ss = 1 .. Len(ss), NEW k,
           NEW lo \in 1 .. Len(ss), NEW hi \in 1 .. Len(ss), lo < hi,
           StateOf(ss[lo], k) # StateOf(ss[hi], k)
    PROVE  \E r \in EncodeInterval(ss) : r.key = k /\ Boundary(r, lo, hi)
<1>1. ASSUME NEW i \in 1 .. Len(ss), k \in DOMAIN ss[i]
      PROVE  \E r \in EncodeInterval(ss) : \E a \in 1 .. i, b \in i .. Len(ss) :
                 WholeRun(ss, k, a, b) /\ r.key = k /\ r.lo = a /\ r.hi = b
  <2>1. PICK a \in 1 .. i, b \in i .. Len(ss) : WholeRun(ss, k, a, b)
    BY <1>1, RunAround
  <2>2. PICK r : r = RunRow(ss, k, a, b)
    OBVIOUS
  <2>3. a \in 1 .. Len(ss) /\ b \in 1 .. Len(ss)
    OBVIOUS
  <2>4. r \in EncodeInterval(ss)
    BY <2>1, <2>2, <2>3, RowIs
  <2>5. r.key = k /\ r.lo = a /\ r.hi = b
    BY <2>2 DEF RunRow
  <2> QED BY <2>1, <2>4, <2>5
<1>2. ASSUME NEW a \in Nat, NEW b \in Nat, WholeRun(ss, k, a, b), a <= lo, hi <= b PROVE FALSE
  <2>1. lo \in a .. b /\ hi \in a .. b
    BY <1>2
  <2>3. k \in DOMAIN ss[lo] /\ ss[lo][k] = ss[a][k]
    BY <1>2, <2>1, RowSays
  <2>4. k \in DOMAIN ss[hi] /\ ss[hi][k] = ss[a][k]
    BY <1>2, <2>1, RowSays
  <2>2. k \in DOMAIN ss[lo] /\ k \in DOMAIN ss[hi] /\ ss[lo][k] = ss[hi][k]
    BY <2>3, <2>4
  <2> QED BY <2>2 DEF StateOf
<1>3. CASE k \in DOMAIN ss[lo]
  <2>1. PICK r \in EncodeInterval(ss) : \E a \in 1 .. lo, b \in lo .. Len(ss) :
            WholeRun(ss, k, a, b) /\ r.key = k /\ r.lo = a /\ r.hi = b
    BY <1>1, <1>3
  <2>2. r.hi < hi
    BY <1>2, <2>1
  <2> QED BY <2>1, <2>2 DEF Boundary
<1>4. CASE k \in DOMAIN ss[hi]
  <2>1. PICK r \in EncodeInterval(ss) : \E a \in 1 .. hi, b \in hi .. Len(ss) :
            WholeRun(ss, k, a, b) /\ r.key = k /\ r.lo = a /\ r.hi = b
    BY <1>1, <1>4
  <2>2. lo < r.lo
    BY <1>2, <2>1
  <2> QED BY <2>1, <2>2 DEF Boundary
<1> QED BY <1>3, <1>4 DEF StateOf

-----------------------------------------------------------------------------
(* The streamed fold: the runs that are closed are those that end before the *)
(* last scan, and each key of the last scan has its run open.                *)

Folded(ss, rs, op) ==
    /\ rs = {r \in EncodeInterval(ss) : r.hi < Len(ss)}
    /\ DOMAIN op = IF ss = <<>> THEN {} ELSE DOMAIN ss[Len(ss)]
    /\ \A k \in DOMAIN op :
          /\ op[k].from \in 1 .. Len(ss)
          /\ op[k].state = ss[op[k].from][k]
          /\ WholeRun(ss, k, op[k].from, Len(ss))

FoldInv == shots \in Seq(Shots) /\ Folded(shots, runs, open)

\* What a scan more changes in the runs: those of the earlier scans are the
\* same, but for the last one's.
LEMMA SameBefore ==
    ASSUME NEW S, NEW ss \in Seq(S), NEW cur \in S, NEW k, NEW a \in Nat, NEW b \in Nat, 1 <= a, a <= b, b <= Len(ss)
    PROVE  SameState(Append(ss, cur), k, a, b) <=> SameState(ss, k, a, b)
<1> DEFINE tt == Append(ss, cur)
<1>1. \A n \in a .. b : tt[n] = ss[n]
  OBVIOUS
<1>2. tt[a] = ss[a]
  BY <1>1
<1> HIDE DEF tt
<1>3. SameState(tt, k, a, b) <=> SameState(ss, k, a, b)
  BY <1>1, <1>2 DEF SameState
<1> QED BY <1>3 DEF tt

LEMMA AppendFacts ==
    ASSUME NEW S, NEW ss \in Seq(S), NEW cur \in S
    PROVE  /\ Append(ss, cur) \in Seq(S) /\ Len(ss) \in Nat
           /\ Len(Append(ss, cur)) = Len(ss) + 1 /\ DOMAIN Append(ss, cur) = 1 .. Len(ss) + 1
           /\ DOMAIN ss = 1 .. Len(ss)
           /\ \A n \in 1 .. Len(ss) : Append(ss, cur)[n] = ss[n]
           /\ Append(ss, cur)[Len(ss) + 1] = cur
OBVIOUS

\* A run that ended before the last scan is one, with a scan more or without.
LEMMA WholeBefore ==
    ASSUME NEW S, NEW ss \in Seq(S), NEW cur \in S, NEW k, NEW a \in Nat, NEW b \in Nat, 1 <= a, a <= b, b < Len(ss)
    PROVE  WholeRun(Append(ss, cur), k, a, b) <=> WholeRun(ss, k, a, b)
<1>0. Len(ss) \in Nat /\ Len(Append(ss, cur)) = Len(ss) + 1
  OBVIOUS
<1>1. SameState(Append(ss, cur), k, a, b) <=> SameState(ss, k, a, b)
  BY SameBefore, <1>0
<1>2. a # 1 => (SameState(Append(ss, cur), k, a - 1, b) <=> SameState(ss, k, a - 1, b))
  BY SameBefore, <1>0
<1>3. SameState(Append(ss, cur), k, a, b + 1) <=> SameState(ss, k, a, b + 1)
  BY SameBefore, <1>0
<1>4. b # Len(ss) /\ b # Len(Append(ss, cur))
  BY <1>0
<1> QED BY <1>1, <1>2, <1>3, <1>4, Zenon DEF WholeRun

\* A run up to the last scan stays one when the next scan changes its key.
LEMMA WholeLast ==
    ASSUME NEW S, NEW ss \in Seq(S), NEW cur \in S, NEW k, NEW a \in 1 .. Len(ss)
    PROVE  WholeRun(Append(ss, cur), k, a, Len(ss))
              <=> WholeRun(ss, k, a, Len(ss)) /\ ~(k \in DOMAIN cur /\ cur[k] = ss[a][k])
<1> DEFINE tt == Append(ss, cur)
           n  == Len(ss)
<1>0. n \in Nat /\ Len(tt) = n + 1 /\ n # n + 1 /\ a \in Nat /\ 1 <= a /\ a <= n /\ n <= n
  OBVIOUS
<1>1. SameState(tt, k, a, n) <=> SameState(ss, k, a, n)
  BY SameBefore, <1>0
<1>2. a # 1 => (SameState(tt, k, a - 1, n) <=> SameState(ss, k, a - 1, n))
  BY SameBefore, <1>0
<1>3. tt[a] = ss[a] /\ tt[n + 1] = cur /\ \A m \in a .. n + 1 : m = n + 1 \/ m \in a .. n
  OBVIOUS
<1>5. n + 1 \in a .. n + 1 /\ a .. n \subseteq a .. n + 1
  BY <1>0
<1> HIDE DEF tt, n
<1>4. SameState(tt, k, a, n + 1) <=> SameState(tt, k, a, n) /\ k \in DOMAIN cur /\ cur[k] = ss[a][k]
  BY <1>3, <1>5 DEF SameState
<1>6. WholeRun(tt, k, a, n) <=> WholeRun(ss, k, a, n) /\ ~(k \in DOMAIN cur /\ cur[k] = ss[a][k])
  <2>1. WholeRun(tt, k, a, n) <=> SameState(tt, k, a, n) /\ (a = 1 \/ ~SameState(tt, k, a - 1, n)) /\ ~SameState(tt, k, a, n + 1)
    BY <1>0, Zenon DEF WholeRun
  <2>2. WholeRun(ss, k, a, n) <=> SameState(ss, k, a, n) /\ (a = 1 \/ ~SameState(ss, k, a - 1, n))
    BY <1>0, Zenon DEF WholeRun, n
  <2> QED BY <2>1, <2>2, <1>1, <1>2, <1>4
<1> QED BY <1>6 DEF tt, n

\* The runs that are open when a scan more has come.
LEMMA WholeNext ==
    ASSUME NEW S, NEW ss \in Seq(S), NEW cur \in S, NEW k \in DOMAIN cur
    PROVE  /\ \A a \in 1 .. Len(ss) : WholeRun(ss, k, a, Len(ss)) /\ cur[k] = ss[a][k]
                  => WholeRun(Append(ss, cur), k, a, Len(ss) + 1)
           /\ (Len(ss) = 0 \/ k \notin DOMAIN ss[Len(ss)] \/ ss[Len(ss)][k] # cur[k])
                  => WholeRun(Append(ss, cur), k, Len(ss) + 1, Len(ss) + 1)
<1> DEFINE tt == Append(ss, cur)
           n  == Len(ss)
<1>0. n \in Nat /\ Len(tt) = n + 1 /\ tt[n + 1] = cur /\ \A m \in 1 .. n : tt[m] = ss[m]
  OBVIOUS
<1>1. ASSUME NEW a \in 1 .. n, WholeRun(ss, k, a, n), cur[k] = ss[a][k]
      PROVE  WholeRun(tt, k, a, n + 1)
  <2>0. a \in Nat /\ 1 <= a /\ a <= n /\ n <= n /\ a <= n + 1 /\ tt[a] = ss[a] /\ (a # 1 => a - 1 \in 1 .. n)
    BY <1>0
  <2>1. SameState(tt, k, a, n) <=> SameState(ss, k, a, n)
    BY SameBefore, <2>0, <1>0
  <2>2. a # 1 => (SameState(tt, k, a - 1, n) <=> SameState(ss, k, a - 1, n))
    BY SameBefore, <2>0, <1>0
  <2>3. \A m \in a .. n + 1 : m = n + 1 \/ m \in a .. n
    BY <2>0, <1>0
  <2> HIDE DEF tt, n
  <2>4. SameState(ss, k, a, n) /\ (a = 1 \/ ~SameState(ss, k, a - 1, n))
    BY <1>1, Zenon DEF WholeRun
  <2>5. SameState(tt, k, a, n + 1)
    BY <2>0, <2>1, <2>3, <2>4, <1>0, <1>1 DEF SameState
  <2>6. a # 1 => ~SameState(tt, k, a - 1, n + 1)
    <3> SUFFICES ASSUME a # 1, SameState(tt, k, a - 1, n + 1) PROVE FALSE
      OBVIOUS
    <3>1. a - 1 \in Nat /\ n + 1 \in Nat /\ a - 1 \in a - 1 .. n + 1 /\ n \in a - 1 .. n + 1
      BY <2>0, <1>0
    <3>2. SameState(tt, k, a - 1, n)
      BY <3>1, SameInside
    <3> QED BY <3>2, <2>2, <2>4
  <2> QED BY <2>0, <2>5, <2>6, <1>0 DEF WholeRun
<1>2. ASSUME n = 0 \/ k \notin DOMAIN ss[n] \/ ss[n][k] # cur[k]
      PROVE  WholeRun(tt, k, n + 1, n + 1)
  <2>1. SameState(tt, k, n + 1, n + 1)
    BY <1>0 DEF SameState
  <2>2. n # 0 => ~SameState(tt, k, n, n + 1)
    <3> SUFFICES ASSUME n # 0, SameState(tt, k, n, n + 1) PROVE FALSE
      OBVIOUS
    <3>1. n \in n .. n + 1 /\ n + 1 \in n .. n + 1 /\ tt[n] = ss[n] /\ tt[n + 1] = cur
      BY <1>0
    <3> HIDE DEF tt, n
    <3> QED BY <3>1, <1>2 DEF SameState
  <2>3. n + 1 - 1 = n /\ n + 1 <= n + 1 /\ (n = 0 \/ n # 0) /\ (n = 0 => n + 1 = 1)
    BY <1>0
  <2> HIDE DEF tt, n
  <2> QED BY <2>1, <2>2, <2>3, <1>0 DEF WholeRun
<1> QED BY <1>1, <1>2
LEMMA EmptyRuns ==
    ASSUME NEW ss, ss = <<>>
    PROVE  EncodeInterval(ss) = {}
<1>1. Len(ss) = 0 /\ DOMAIN ss = 1 .. Len(ss) /\ Len(ss) \in Nat
  OBVIOUS
<1> SUFFICES ASSUME NEW r \in EncodeInterval(ss) PROVE FALSE
  OBVIOUS
<1>2. \E k : \E a, b \in 1 .. Len(ss) : WholeRun(ss, k, a, b) /\ r = RunRow(ss, k, a, b)
  BY <1>1, RowIs
<1> QED BY <1>1, <1>2

LEMMA InitFold == InitMulti => FoldInv
<1> SUFFICES ASSUME InitMulti PROVE FoldInv
  OBVIOUS
<1>1. shots = <<>> /\ runs = {} /\ DOMAIN open = {}
  BY DEF InitMulti
<1>2. EncodeInterval(shots) = {}
  <2>1. PICK s : s = shots
    OBVIOUS
  <2> QED BY <1>1, <2>1, EmptyRuns
<1>3. shots \in Seq(Shots)
  BY <1>1
<1> QED BY <1>1, <1>2, <1>3 DEF FoldInv, Folded

\* The rows of the runs of k that are whole with a scan more and end before it.
LEMMA FoldRows ==
    ASSUME NEW S, NEW ss \in Seq(S), NEW cur \in S, NEW rs, NEW op, Folded(ss, rs, op), NEW r
    PROVE  r \in EncodeInterval(Append(ss, cur)) /\ r.hi < Len(ss) + 1
              <=> \/ r \in rs
                  \/ \E k \in DOMAIN op : /\ k \notin DOMAIN cur \/ cur[k] # op[k].state
                                          /\ r = [key |-> k, state |-> op[k].state, lo |-> op[k].from, hi |-> Len(ss)]
<1>0. PICK n, tt : n = Len(ss) /\ tt = Append(ss, cur)
  OBVIOUS
<1>5. /\ rs = {q \in EncodeInterval(ss) : q.hi < n}
      /\ DOMAIN op = (IF ss = <<>> THEN {} ELSE DOMAIN ss[n])
      /\ \A k \in DOMAIN op : /\ op[k].from \in 1 .. n
                              /\ op[k].state = ss[op[k].from][k]
                              /\ WholeRun(ss, k, op[k].from, n)
  BY <1>0 DEF Folded
<1>1. /\ Len(tt) = n + 1 /\ DOMAIN tt = 1 .. Len(tt) /\ Len(tt) \in Nat /\ n \in Nat
      /\ DOMAIN ss = 1 .. Len(ss) /\ Len(ss) \in Nat /\ \A m \in 1 .. n : tt[m] = ss[m]
      /\ (ss = <<>> <=> n = 0)
  BY <1>0
<1>2. ASSUME r \in EncodeInterval(tt), r.hi < n + 1
      PROVE  \/ r \in rs
             \/ \E k \in DOMAIN op : /\ k \notin DOMAIN cur \/ cur[k] # op[k].state
                                     /\ r = [key |-> k, state |-> op[k].state, lo |-> op[k].from, hi |-> n]
  <2>1. PICK k : \E a, b \in 1 .. Len(tt) : WholeRun(tt, k, a, b) /\ r = RunRow(tt, k, a, b)
    BY <1>1, <1>2, RowIs
  <2>2. PICK a \in 1 .. Len(tt), b \in 1 .. Len(tt) : WholeRun(tt, k, a, b) /\ r = RunRow(tt, k, a, b)
    BY <2>1
  <2>3. r.hi = b /\ a <= b
    BY <2>2 DEF RunRow, WholeRun
  <2>4. a \in 1 .. n /\ b \in 1 .. n /\ a \in Nat /\ b \in Nat /\ 1 <= a
    BY <1>1, <1>2, <2>3
  <2>5. r = RunRow(ss, k, a, b)
    BY <1>1, <2>2, <2>4 DEF RunRow
  <2>6. CASE b < n
    <3>1. WholeRun(ss, k, a, b)
      BY <1>0, <2>2, <2>3, <2>4, <2>6, WholeBefore
    <3>2. r \in EncodeInterval(ss)
      BY <3>1, <2>4, <2>5, <1>0, <1>1, RowIs
    <3> QED BY <3>2, <2>3, <2>6, <1>5
  <2>7. CASE b = n
    <3>1. WholeRun(ss, k, a, n) /\ ~(k \in DOMAIN cur /\ cur[k] = ss[a][k])
      BY <1>0, <2>2, <2>4, <2>7, WholeLast
    <3>2. n \in a .. n /\ k \in DOMAIN ss[n]
      BY <3>1, <2>3, <2>4, <2>7, RowSays, <1>0
    <3>3. k \in DOMAIN op
      BY <3>2, <1>5, <1>0, <1>1, <2>4
    <3>4. op[k].from \in 1 .. n /\ op[k].state = ss[op[k].from][k] /\ WholeRun(ss, k, op[k].from, n)
      BY <3>3, <1>5
    <3>5. op[k].from = a
      <4>1. PICK f \in Nat : f = op[k].from /\ 1 <= f
        BY <3>4
      <4> QED BY <4>1, <3>1, <3>4, <2>4, <1>1, SameStart
    <3>6. r = [key |-> k, state |-> op[k].state, lo |-> op[k].from, hi |-> n]
      BY <2>5, <2>7, <3>4, <3>5 DEF RunRow
    <3> QED BY <3>1, <3>3, <3>4, <3>5, <3>6
  <2> QED BY <2>4, <2>6, <2>7, <1>1
<1>3. ASSUME r \in rs PROVE r \in EncodeInterval(tt) /\ r.hi < n + 1
  <2>1. r \in EncodeInterval(ss) /\ r.hi < n
    BY <1>5, <1>3
  <2>2. PICK k : \E a, b \in 1 .. Len(ss) : WholeRun(ss, k, a, b) /\ r = RunRow(ss, k, a, b)
    BY <1>1, <2>1, RowIs
  <2>3. PICK a \in 1 .. Len(ss), b \in 1 .. Len(ss) : WholeRun(ss, k, a, b) /\ r = RunRow(ss, k, a, b)
    BY <2>2
  <2>4. r.hi = b /\ a <= b
    BY <2>3 DEF RunRow, WholeRun
  <2>5. a \in Nat /\ b \in Nat /\ 1 <= a /\ b < Len(ss) /\ a \in 1 .. Len(tt) /\ b \in 1 .. Len(tt)
    BY <1>0, <1>1, <2>1, <2>4
  <2>6. WholeRun(tt, k, a, b)
    BY <1>0, <2>3, <2>4, <2>5, WholeBefore
  <2>7. r = RunRow(tt, k, a, b)
    BY <1>0, <1>1, <2>3, <2>5 DEF RunRow
  <2>8. r \in EncodeInterval(tt)
    BY <2>5, <2>6, <2>7, <1>1, RowIs
  <2> QED BY <2>8, <2>4, <2>5, <1>0, <1>1
<1>4. ASSUME NEW k \in DOMAIN op, k \notin DOMAIN cur \/ cur[k] # op[k].state,
             r = [key |-> k, state |-> op[k].state, lo |-> op[k].from, hi |-> n]
      PROVE  r \in EncodeInterval(tt) /\ r.hi < n + 1
  <2>1. PICK a : a = op[k].from
    OBVIOUS
  <2>2. a \in 1 .. n /\ op[k].state = ss[a][k] /\ WholeRun(ss, k, a, n)
    BY <2>1, <1>5
  <2>3. WholeRun(tt, k, a, n)
    BY <1>0, <1>4, <2>2, WholeLast
  <2>4. r = RunRow(tt, k, a, n)
    BY <1>1, <1>4, <2>1, <2>2 DEF RunRow
  <2>5. a \in 1 .. Len(tt) /\ n \in 1 .. Len(tt)
    BY <1>1, <2>2
  <2>6. r \in EncodeInterval(tt)
    BY <2>3, <2>4, <2>5, <1>1, RowIs
  <2> QED BY <2>6, <1>4, <1>1
<1> QED BY <1>0, <1>2, <1>3, <1>4

LEMMA FoldScan ==
    ASSUME FoldInv, NEW cur \in Shots, ScanComes(cur)
    PROVE  FoldInv'
<1>0. PICK ss, rs, op : ss = shots /\ rs = runs /\ op = open
  OBVIOUS
<1>1. /\ ss \in Seq(Shots) /\ Folded(ss, rs, op) /\ rs = {r \in EncodeInterval(ss) : r.hi < Len(ss)}
      /\ DOMAIN op = (IF ss = <<>> THEN {} ELSE DOMAIN ss[Len(ss)])
      /\ \A k \in DOMAIN op : /\ op[k].from \in 1 .. Len(ss)
                              /\ op[k].state = ss[op[k].from][k]
                              /\ WholeRun(ss, k, op[k].from, Len(ss))
  BY <1>0 DEF FoldInv, Folded
<1>2. PICK n, tt : n = Len(ss) /\ tt = Append(ss, cur)
  OBVIOUS
<1>3. /\ n \in Nat /\ tt \in Seq(Shots) /\ Len(tt) = n + 1 /\ tt # <<>> /\ tt[n + 1] = cur
      /\ \A m \in 1 .. n : tt[m] = ss[m]
      /\ (ss = <<>> <=> n = 0)
  BY <1>1, <1>2
<1>4. shots' = tt /\ runs' = rs \cup ClosedAt(Ended(cur), n + 1) /\ open' = Opened(cur, n + 1)
  BY <1>0, <1>2 DEF ScanComes
<1>5. \A r : r \in ClosedAt(Ended(cur), n + 1) <=>
         \E k \in DOMAIN op : /\ k \notin DOMAIN cur \/ cur[k] # op[k].state
                              /\ r = [key |-> k, state |-> op[k].state, lo |-> op[k].from, hi |-> n]
  <2>1. n + 1 - 1 = n
    BY <1>3
  <2>4. PICK K : K = Ended(cur)
    OBVIOUS
  <2>2. \A r : r \in ClosedAt(K, n + 1) <=>
            \E k \in K : r = [key |-> k, state |-> op[k].state, lo |-> op[k].from, hi |-> n]
    BY <1>0, <1>3, <2>1 DEF ClosedAt
  <2>3. \A k : k \in Ended(cur) <=> k \in DOMAIN op /\ (k \notin DOMAIN cur \/ cur[k] # op[k].state)
    BY <1>0 DEF Ended
  <2> QED BY <2>2, <2>3, <2>4
<1>6. \A r : r \in runs' <=> (r \in EncodeInterval(tt) /\ r.hi < n + 1)
  <2>1. \A r : r \in runs' <=> (r \in rs \/ r \in ClosedAt(Ended(cur), n + 1))
    BY <1>4
  <2>2. \A r : r \in EncodeInterval(tt) /\ r.hi < n + 1
              <=> \/ r \in rs
                  \/ \E k \in DOMAIN op : /\ k \notin DOMAIN cur \/ cur[k] # op[k].state
                                          /\ r = [key |-> k, state |-> op[k].state, lo |-> op[k].from, hi |-> n]
    BY <1>1, <1>2, FoldRows
  <2> QED BY <2>1, <2>2, <1>5, Zenon
<1>7. runs' = {r \in EncodeInterval(tt) : r.hi < Len(tt)}
  BY <1>3, <1>6
<1>8. DOMAIN open' = DOMAIN cur
  BY <1>4 DEF Opened
<1>9. ASSUME NEW k \in DOMAIN cur
      PROVE  /\ open'[k].from \in 1 .. n + 1 /\ open'[k].state = tt[open'[k].from][k]
             /\ WholeRun(tt, k, open'[k].from, n + 1)
  <2>1. CASE k \in DOMAIN op /\ cur[k] = op[k].state
    <3>1. open'[k] = op[k]
      BY <1>0, <1>4, <2>1 DEF Opened, Ended
    <3>2. PICK a : a = op[k].from
      OBVIOUS
    <3>3. a \in 1 .. n /\ op[k].state = ss[a][k] /\ WholeRun(ss, k, a, n) /\ cur[k] = ss[a][k]
      BY <1>1, <1>2, <2>1, <3>2
    <3>4. WholeRun(tt, k, a, n + 1)
      BY <3>3, <1>1, <1>2, WholeNext
    <3>5. a \in 1 .. n + 1 /\ ss[a] = tt[a]
      BY <3>3, <1>3
    <3>6. open'[k].from = a /\ open'[k].state = ss[a][k]
      BY <3>1, <3>2, <3>3
    <3> QED BY <3>4, <3>5, <3>6
  <2>2. CASE ~(k \in DOMAIN op /\ cur[k] = op[k].state)
    <3>1. open'[k] = [from |-> n + 1, state |-> cur[k]]
      BY <1>0, <1>4, <2>2 DEF Opened, Ended
    <3>2. n = 0 \/ k \notin DOMAIN ss[n] \/ ss[n][k] # cur[k]
      <4> SUFFICES ASSUME n # 0, k \in DOMAIN ss[n], ss[n][k] = cur[k] PROVE FALSE
        OBVIOUS
      <4>1. k \in DOMAIN op
        BY <1>1, <1>2, <1>3
      <4>2. PICK a : a = op[k].from
        OBVIOUS
      <4>3. a \in 1 .. n /\ op[k].state = ss[a][k] /\ WholeRun(ss, k, a, n)
        BY <1>1, <1>2, <4>1, <4>2
      <4>4. n \in a .. n /\ a \in Nat /\ n \in Nat
        BY <4>3, <1>3
      <4>5. ss[n][k] = ss[a][k]
        BY <4>3, <4>4, RowSays
      <4> QED BY <4>1, <4>3, <4>5, <2>2
    <3>3. WholeRun(tt, k, n + 1, n + 1)
      BY <3>2, <1>1, <1>2, WholeNext
    <3> QED BY <3>1, <3>3, <1>3
  <2> QED BY <2>1, <2>2
<1> QED BY <1>3, <1>4, <1>7, <1>8, <1>9 DEF FoldInv, Folded

LEMMA NextFold == FoldInv /\ [NextMulti]_multiScanVars => FoldInv'
<1> SUFFICES ASSUME FoldInv, [NextMulti]_multiScanVars PROVE FoldInv'
  OBVIOUS
<1>1. CASE UNCHANGED <<shots, runs, open>>
  BY <1>1 DEF FoldInv
<1>2. ASSUME NEW cur \in Shots, ScanComes(cur) PROVE FoldInv'
  BY <1>2, FoldScan
<1>3. CASE InitScan \/ Adjacency \/ AlignedBlock \/ ListScan \/ IngestDies
  BY <1>1, <1>3 DEF InitScan, Adjacency, AlignedBlock, ListScan, IngestDies
<1>4. CASE UNCHANGED multiScanVars
  BY <1>1, <1>4 DEF multiScanVars
<1> QED BY <1>2, <1>3, <1>4 DEF NextMulti

-----------------------------------------------------------------------------
\* The streamed table is that of the eager encoder.
LEMMA TableIs == FoldInv => Table = EncodeInterval(shots)
<1> SUFFICES ASSUME FoldInv PROVE Table = EncodeInterval(shots)
  OBVIOUS
<1>0. PICK ss, rs, op : ss = shots /\ rs = runs /\ op = open
  OBVIOUS
<1>1. /\ ss \in Seq(Shots) /\ Folded(ss, rs, op) /\ rs = {r \in EncodeInterval(ss) : r.hi < Len(ss)}
      /\ DOMAIN op = (IF ss = <<>> THEN {} ELSE DOMAIN ss[Len(ss)])
      /\ \A k \in DOMAIN op : /\ op[k].from \in 1 .. Len(ss)
                              /\ op[k].state = ss[op[k].from][k]
                              /\ WholeRun(ss, k, op[k].from, Len(ss))
  BY <1>0 DEF FoldInv, Folded
<1>2. PICK n \in Nat : n = Len(ss) /\ (ss = <<>> <=> n = 0) /\ DOMAIN ss = 1 .. Len(ss)
  BY <1>1
<1>3. \A r : r \in Table <=> (r \in rs \/ \E k \in DOMAIN op : r = [key |-> k, state |-> op[k].state, lo |-> op[k].from, hi |-> n])
  <2>1. n + 1 - 1 = n
    OBVIOUS
  <2> QED BY <1>0, <1>2, <2>1 DEF Table, ClosedAt
<1>4. ASSUME NEW r, r \in EncodeInterval(ss)
      PROVE  r \in rs \/ \E k \in DOMAIN op : r = [key |-> k, state |-> op[k].state, lo |-> op[k].from, hi |-> n]
  <2>1. PICK k : \E a, b \in 1 .. Len(ss) : WholeRun(ss, k, a, b) /\ r = RunRow(ss, k, a, b)
    BY <1>2, <1>4, RowIs
  <2>2. PICK a \in 1 .. Len(ss), b \in 1 .. Len(ss) : WholeRun(ss, k, a, b) /\ r = RunRow(ss, k, a, b)
    BY <2>1
  <2>3. r.hi = b /\ a <= b
    BY <2>2 DEF RunRow, WholeRun
  <2>4. CASE b < n
    BY <1>1, <1>2, <1>4, <2>3, <2>4
  <2>5. CASE b = n
    <3>1. a \in Nat /\ n \in a .. n /\ n # 0 /\ 1 <= a
      BY <1>2, <2>3, <2>5
    <3>2. k \in DOMAIN ss[n]
      BY <3>1, <2>2, <2>5, RowSays
    <3>3. k \in DOMAIN op
      BY <3>1, <3>2, <1>1, <1>2
    <3>4. PICK f \in Nat : f = op[k].from /\ 1 <= f
      BY <1>1, <3>3
    <3>5. op[k].state = ss[f][k] /\ WholeRun(ss, k, f, n)
      BY <1>1, <1>2, <3>3, <3>4
    <3>6. f = a
      BY <3>1, <3>4, <3>5, <2>2, <2>5, SameStart
    <3>7. r = [key |-> k, state |-> op[k].state, lo |-> op[k].from, hi |-> n]
      BY <3>4, <3>5, <3>6, <2>2, <2>5 DEF RunRow
    <3> QED BY <3>3, <3>7
  <2> QED BY <1>2, <2>4, <2>5
<1>5. ASSUME NEW k \in DOMAIN op, NEW r, r = [key |-> k, state |-> op[k].state, lo |-> op[k].from, hi |-> n]
      PROVE  r \in EncodeInterval(ss)
  <2>1. PICK a : a = op[k].from
    OBVIOUS
  <2>2. a \in 1 .. n /\ op[k].state = ss[a][k] /\ WholeRun(ss, k, a, n)
    BY <2>1, <1>1, <1>2
  <2>3. r = RunRow(ss, k, a, n) /\ n \in 1 .. Len(ss)
    BY <1>2, <1>5, <2>1, <2>2 DEF RunRow
  <2> QED BY <2>2, <2>3, <1>2, RowIs
<1>6. Table = EncodeInterval(ss)
  BY <1>1, <1>3, <1>4, <1>5
<1> QED BY <1>0, <1>6
-----------------------------------------------------------------------------
\* The encoders agree, of any scans.
LEMMA RowsBack ==
    ASSUME NEW ss, Len(ss) \in Nat, DOMAIN ss = 1 .. Len(ss), NEW i \in 1 .. Len(ss)
    PROVE  /\ ExtractInterval(EncodeInterval(ss), i) = Real(RowsOf(ss[i]))
           /\ ExtractDense(Densify(ss), i) = Real(RowsOf(ss[i]))
<1> DEFINE E == {<<r.key, r.state>> : r \in {q \in EncodeInterval(ss) : q.lo <= i /\ i <= q.hi}}
           D == {<<r.key, r.state>> : r \in {q \in Densify(ss) : q.scan = i}}
           R == RowsOf(ss[i])
<1>1. ASSUME NEW x \in E PROVE x \in R
  <2>1. PICK r \in EncodeInterval(ss) : r.lo <= i /\ i <= r.hi /\ x = <<r.key, r.state>>
    OBVIOUS
  <2>2. PICK k : \E a, b \in 1 .. Len(ss) : WholeRun(ss, k, a, b) /\ r = RunRow(ss, k, a, b)
    BY RowIs
  <2>3. PICK a \in 1 .. Len(ss), b \in 1 .. Len(ss) : WholeRun(ss, k, a, b) /\ r = RunRow(ss, k, a, b)
    BY <2>2
  <2>4. r.key = k /\ r.lo = a /\ r.hi = b /\ r.state = ss[a][k]
    BY <2>3 DEF RunRow
  <2>5. i \in a .. b
    BY <2>1, <2>4
  <2>6. k \in DOMAIN ss[i] /\ ss[i][k] = ss[a][k]
    BY <2>3, <2>5, RowSays
  <2> QED BY <2>1, <2>4, <2>6 DEF RowsOf
<1>2. ASSUME NEW x \in R PROVE x \in E
  <2>1. PICK k \in DOMAIN ss[i] : x = <<k, ss[i][k]>>
    BY DEF RowsOf
  <2>2. PICK a \in 1 .. i, b \in i .. Len(ss) : WholeRun(ss, k, a, b)
    BY RunAround
  <2>3. PICK r : r = RunRow(ss, k, a, b)
    OBVIOUS
  <2>4. r \in EncodeInterval(ss)
    <3>1. a \in 1 .. Len(ss) /\ b \in 1 .. Len(ss)
      OBVIOUS
    <3> QED BY <3>1, <2>2, <2>3, RowIs
  <2>5. r.key = k /\ r.lo <= i /\ i <= r.hi /\ r.state = ss[a][k]
    BY <2>3 DEF RunRow
  <2>6. i \in a .. b
    OBVIOUS
  <2>7. ss[i][k] = ss[a][k]
    BY <2>2, <2>6, RowSays
  <2> QED BY <2>1, <2>4, <2>5, <2>7
<1>3. \A x : x \in D <=> \E k \in KeysOf(ss) : x = <<k, StateOf(ss[i], k)>>
  <2>1. ASSUME NEW x \in D PROVE \E k \in KeysOf(ss) : x = <<k, StateOf(ss[i], k)>>
    <3>1. PICK r \in Densify(ss) : r.scan = i /\ x = <<r.key, r.state>>
      OBVIOUS
    <3>2. PICK k \in KeysOf(ss), j \in DOMAIN ss : r = [key |-> k, scan |-> j, state |-> StateOf(ss[j], k)]
      BY DEF Densify
    <3>3. r.key = k /\ r.scan = j /\ r.state = StateOf(ss[j], k)
      BY <3>2
    <3> QED BY <3>1, <3>3
  <2>2. ASSUME NEW k \in KeysOf(ss), NEW x, x = <<k, StateOf(ss[i], k)>> PROVE x \in D
    <3>1. PICK r : r = [key |-> k, scan |-> i, state |-> StateOf(ss[i], k)]
      OBVIOUS
    <3>2. r \in Densify(ss)
      BY <3>1 DEF Densify
    <3>3. r.key = k /\ r.scan = i /\ r.state = StateOf(ss[i], k)
      BY <3>1
    <3> QED BY <2>2, <3>2, <3>3
  <2> QED BY <2>1, <2>2
<1>4. ASSUME NEW x \in Real(D) PROVE x \in Real(R)
  <2>1. PICK k \in KeysOf(ss) : x = <<k, StateOf(ss[i], k)>>
    BY <1>3 DEF Real
  <2>2. StateOf(ss[i], k) # Identity
    BY <2>1 DEF Real
  <2>3. k \in DOMAIN ss[i] /\ StateOf(ss[i], k) = ss[i][k]
    BY <2>2 DEF StateOf
  <2> QED BY <2>1, <2>2, <2>3 DEF Real, RowsOf
<1>5. ASSUME NEW x \in Real(R) PROVE x \in Real(D)
  <2>1. PICK k \in DOMAIN ss[i] : x = <<k, ss[i][k]>>
    BY DEF Real, RowsOf
  <2>2. k \in KeysOf(ss) /\ StateOf(ss[i], k) = ss[i][k]
    BY <2>1 DEF KeysOf, StateOf
  <2>3. x \in D
    BY <1>3, <2>1, <2>2
  <2> QED BY <2>3 DEF Real
<1>6. E = R /\ Real(D) = Real(R)
  BY <1>1, <1>2, <1>4, <1>5
<1> QED BY <1>6 DEF ExtractInterval, ExtractDense

LEMMA FoldEncodes == FoldInv => EncodersAgree
<1> SUFFICES ASSUME FoldInv PROVE EncodersAgree
  OBVIOUS
<1>1. Table = EncodeInterval(shots)
  BY TableIs
<1>2. PICK ss : ss = shots
  OBVIOUS
<1>3. ss \in Seq(Shots)
  BY <1>2 DEF FoldInv
<1>4. Len(ss) \in Nat /\ DOMAIN ss = 1 .. Len(ss)
  BY <1>3
<1>5. \A i \in 1 .. Len(ss) : /\ ExtractInterval(EncodeInterval(ss), i) = Real(RowsOf(ss[i]))
                              /\ ExtractDense(Densify(ss), i) = Real(RowsOf(ss[i]))
  BY <1>4, RowsBack
<1>6. \A k \in KeysOf(ss) : \A i \in DOMAIN ss : Series(Table, k)[i] = StateOf(ss[i], k)
  <2> SUFFICES ASSUME NEW k \in KeysOf(ss), NEW i \in 1 .. Len(ss)
               PROVE  Series(EncodeInterval(ss), k)[i] = StateOf(ss[i], k)
    BY <1>1, <1>2, <1>4
  <2>1. AsOf(EncodeInterval(ss), k, i) = StateOf(ss[i], k)
    BY <1>4, AsOfRows
  <2>2. i \in DOMAIN shots
    BY <1>2, <1>4
  <2> QED BY <2>1, <2>2 DEF Series
<1> QED BY <1>1, <1>2, <1>4, <1>5, <1>6 DEF EncodersAgree

-----------------------------------------------------------------------------
(* Changesets. *)

LEMMA MinMaxOfTwo ==
    ASSUME NEW a \in Nat, NEW b \in Nat
    PROVE  /\ Min({a, b}) = IF a <= b THEN a ELSE b
           /\ Max({a, b}) = IF a <= b THEN b ELSE a
<1>1. Min({a, b}) \in {a, b} /\ \A y \in {a, b} : Min({a, b}) <= y
  <2>1. {a, b} \subseteq Nat /\ {a, b} # {}
    OBVIOUS
  <2> QED BY <2>1, LeastIn
<1>2. Max({a, b}) \in {a, b} /\ \A y \in {a, b} : y <= Max({a, b})
  <2>1. {a, b} \subseteq 0 .. a + b /\ {a, b} # {} /\ a + b \in Nat
    OBVIOUS
  <2> QED BY <2>1, MaxIn
<1> QED BY <1>1, <1>2

\* The differences of two scans read off the boundaries of the runs.
LEMMA DiffScansIs ==
    ASSUME NEW ss, Len(ss) \in Nat, DOMAIN ss = 1 .. Len(ss), NEW i \in 1 .. Len(ss), NEW j \in 1 .. Len(ss)
    PROVE  DiffScans(EncodeInterval(ss), i, j) = Between(ss[i], ss[j])
<1>1. PICK t, lo, hi : t = EncodeInterval(ss) /\ lo = Min({i, j}) /\ hi = Max({i, j})
  OBVIOUS
<1>2. lo = (IF i <= j THEN i ELSE j) /\ hi = (IF i <= j THEN j ELSE i)
  BY <1>1, MinMaxOfTwo
<1>3. PICK cand : cand = {r.key : r \in {q \in t : Boundary(q, lo, hi)}}
  OBVIOUS
<1>4. DiffScans(t, i, j) =
          [k \in {q \in cand : AsOf(t, q, i) # AsOf(t, q, j)} |-> <<AsOf(t, k, i), AsOf(t, k, j)>>]
  BY <1>1, <1>3 DEF DiffScans
<1>5. \A k : AsOf(t, k, i) = StateOf(ss[i], k) /\ AsOf(t, k, j) = StateOf(ss[j], k)
  BY <1>1, AsOfRows
<1>6. ASSUME NEW k, StateOf(ss[i], k) # StateOf(ss[j], k)
      PROVE  k \in cand /\ (k \in DOMAIN ss[i] \/ k \in DOMAIN ss[j])
  <2>1. k \in DOMAIN ss[i] \/ k \in DOMAIN ss[j]
    BY <1>6 DEF StateOf
  <2>2. lo \in 1 .. Len(ss) /\ hi \in 1 .. Len(ss) /\ lo < hi /\ StateOf(ss[lo], k) # StateOf(ss[hi], k)
    BY <1>2, <1>6
  <2>3. \E r \in t : r.key = k /\ Boundary(r, lo, hi)
    BY <1>1, <2>2, BoundaryBetween
  <2> QED BY <1>3, <2>1, <2>3
<1> DEFINE A == {q \in cand : AsOf(t, q, i) # AsOf(t, q, j)}
           B == {q \in (DOMAIN ss[i]) \cup (DOMAIN ss[j]) : StateOf(ss[i], q) # StateOf(ss[j], q)}
<1>7. A = B
  BY <1>5, <1>6
<1>8. DiffScans(t, i, j) = [k \in B |-> <<StateOf(ss[i], k), StateOf(ss[j], k)>>]
  BY <1>4, <1>5, <1>7
<1> QED BY <1>1, <1>8 DEF Between

\* The changed keys of two scans, whatever the scans hold.
LEMMA BetweenIs ==
    ASSUME NEW a, NEW b
    PROVE  /\ \A k : k \in DOMAIN Between(a, b) <=> StateOf(a, k) # StateOf(b, k)
           /\ \A k \in DOMAIN Between(a, b) : Between(a, b)[k] = <<StateOf(a, k), StateOf(b, k)>>
           /\ Between(a, b) = [k \in DOMAIN Between(a, b) |-> <<StateOf(a, k), StateOf(b, k)>>]
<1>1. PICK D : D = {q \in (DOMAIN a) \cup (DOMAIN b) : StateOf(a, q) # StateOf(b, q)}
  OBVIOUS
<1>2. Between(a, b) = [k \in D |-> <<StateOf(a, k), StateOf(b, k)>>]
  BY <1>1 DEF Between
<1>3. \A k : k \in D <=> StateOf(a, k) # StateOf(b, k)
  BY <1>1 DEF StateOf
<1> QED BY <1>2, <1>3

\* What cancels is dropped, and nothing else.
LEMMA ComposeBetween ==
    ASSUME NEW a, NEW b, NEW c
    PROVE  Compose(Between(a, b), Between(b, c)) = Between(a, c)
<1>1. PICK l, r, d : l = Between(a, b) /\ r = Between(b, c) /\ d = Between(a, c)
  OBVIOUS
<1>2. /\ \A k : k \in DOMAIN l <=> StateOf(a, k) # StateOf(b, k)
      /\ \A k \in DOMAIN l : l[k][1] = StateOf(a, k) /\ l[k][2] = StateOf(b, k)
  BY <1>1, BetweenIs
<1>3. /\ \A k : k \in DOMAIN r <=> StateOf(b, k) # StateOf(c, k)
      /\ \A k \in DOMAIN r : r[k][1] = StateOf(b, k) /\ r[k][2] = StateOf(c, k)
  BY <1>1, BetweenIs
<1>4. /\ \A k : k \in DOMAIN d <=> StateOf(a, k) # StateOf(c, k)
      /\ d = [k \in DOMAIN d |-> <<StateOf(a, k), StateOf(c, k)>>]
  BY <1>1, BetweenIs
<1>5. PICK D : D = ((DOMAIN l) \cup (DOMAIN r)) \ {k \in (DOMAIN l) \cap (DOMAIN r) : l[k][1] = r[k][2]}
  OBVIOUS
<1>6. Compose(l, r) = [k \in D |-> <<IF k \in DOMAIN l THEN l[k][1] ELSE r[k][1],
                                     IF k \in DOMAIN r THEN r[k][2] ELSE l[k][2]>>]
  BY <1>5 DEF Compose
<1>7. \A k : k \in D <=> StateOf(a, k) # StateOf(c, k)
  BY <1>2, <1>3, <1>5
<1>8. D = DOMAIN d
  BY <1>4, <1>7
<1>9. \A k \in D : /\ (IF k \in DOMAIN l THEN l[k][1] ELSE r[k][1]) = StateOf(a, k)
                   /\ (IF k \in DOMAIN r THEN r[k][2] ELSE l[k][2]) = StateOf(c, k)
  BY <1>2, <1>3, <1>5
<1>10. Compose(l, r) = [k \in D |-> <<StateOf(a, k), StateOf(c, k)>>]
  BY <1>6, <1>9
<1> QED BY <1>1, <1>4, <1>8, <1>10

LEMMA NothingBetween ==
    ASSUME NEW a
    PROVE  Between(a, a) = Nothing
<1>1. DOMAIN Between(a, a) = {}
  BY BetweenIs
<1>2. Between(a, a) = [k \in DOMAIN Between(a, a) |-> <<StateOf(a, k), StateOf(a, k)>>]
  BY BetweenIs
<1> QED BY <1>1, <1>2 DEF Nothing
-----------------------------------------------------------------------------
(* Powers of two: the provers know nothing of them but that the subsets of   *)
(* n elements are so many.                                                   *)

LEMMA SubsetsDouble ==
    ASSUME NEW S, IsFiniteSet(S), NEW x, x \notin S
    PROVE  /\ IsFiniteSet(SUBSET S) /\ IsFiniteSet(SUBSET (S \cup {x}))
           /\ Cardinality(SUBSET (S \cup {x})) = Cardinality(SUBSET S) + Cardinality(SUBSET S)
<1> DEFINE A == SUBSET S
           B == {T \cup {x} : T \in A}
           f == [T \in A |-> T \cup {x}]
<1>1. IsFiniteSet(A)
  BY FS_SUBSET
<1>2. f \in Bijection(A, B)
  <2>1. f \in [A -> B]
    OBVIOUS
  <2>2. \A T, U \in A : f[T] = f[U] => T = U
    OBVIOUS
  <2>3. \A y \in B : \E T \in A : f[T] = y
    OBVIOUS
  <2> HIDE DEF f, A, B
  <2> QED BY <2>1, <2>2, <2>3 DEF Bijection, Injection, IsInjective, Surjection
<1>3. IsFiniteSet(B) /\ Cardinality(B) = Cardinality(A)
  <2> HIDE DEF f, A, B
  <2> QED BY <1>1, <1>2, FS_Bijection DEF ExistsBijection
<1>4. A \cap B = {}
  OBVIOUS
<1>5. SUBSET (S \cup {x}) = A \cup B
  <2>1. ASSUME NEW T \in SUBSET (S \cup {x}) PROVE T \in A \cup B
    <3>1. CASE x \notin T
      BY <3>1
    <3>2. CASE x \in T
      <4>1. T \ {x} \in A /\ T = (T \ {x}) \cup {x}
        BY <3>2
      <4> QED BY <4>1
    <3> QED BY <3>1, <3>2
  <2> QED BY <2>1
<1> HIDE DEF A, B
<1>6. IsFiniteSet(A \cup B) /\ Cardinality(A \cup B) = Cardinality(A) + Cardinality(B) - Cardinality(A \cap B)
  BY <1>1, <1>3, FS_Union
<1>7. Cardinality(A \cap B) = 0 /\ Cardinality(A) \in Nat
  BY <1>1, <1>4, FS_EmptySet, FS_CardinalityType
<1>8. /\ IsFiniteSet(SUBSET (S \cup {x}))
      /\ Cardinality(SUBSET (S \cup {x})) = Cardinality(A) + Cardinality(A)
  <2>1. Cardinality(A \cup B) = Cardinality(A) + Cardinality(A)
    BY <1>3, <1>6, <1>7
  <2> QED BY <1>5, <1>6, <2>1, Zenon
<1> QED BY <1>1, <1>8 DEF A

LEMMA PowIs ==
    ASSUME NEW n \in Nat
    PROVE  IsFiniteSet(SUBSET (1 .. n)) /\ Cardinality(SUBSET (1 .. n)) = Pow(n)
<1>1. IsFiniteSet(1 .. n) /\ Cardinality(1 .. n) = n
  BY FS_Interval
<1>2. PICK S : S = 1 .. n
  OBVIOUS
<1>3. IsFiniteSet(SUBSET S) /\ Cardinality(SUBSET S) = 2 ^ Cardinality(S)
  BY <1>1, <1>2, FS_SUBSET
<1> QED BY <1>1, <1>2, <1>3 DEF Pow

LEMMA PowStep ==
    ASSUME NEW n \in Nat
    PROVE  Pow(n + 1) = Pow(n) + Pow(n)
<1>1. PICK S : S = 1 .. n
  OBVIOUS
<1>2. IsFiniteSet(S) /\ n + 1 \notin S /\ S \cup {n + 1} = 1 .. n + 1
  <2>1. IsFiniteSet(S)
    BY <1>1, FS_Interval
  <2>2. n + 1 \notin S /\ \A y : y \in S \cup {n + 1} <=> y \in 1 .. n + 1
    BY <1>1
  <2> QED BY <2>1, <2>2
<1>3. Cardinality(SUBSET (S \cup {n + 1})) = Cardinality(SUBSET S) + Cardinality(SUBSET S)
  BY <1>2, SubsetsDouble
<1>4. Cardinality(SUBSET S) = Pow(n)
  BY <1>1, PowIs
<1>5. Cardinality(SUBSET (1 .. n + 1)) = Pow(n + 1)
  <2>1. n + 1 \in Nat
    OBVIOUS
  <2>2. PICK m \in Nat : m = n + 1
    BY <2>1
  <2>3. Cardinality(SUBSET (1 .. m)) = Pow(m)
    BY PowIs
  <2> QED BY <2>2, <2>3
<1> QED BY <1>2, <1>3, <1>4, <1>5

LEMMA PowZero == Pow(0) = 1
<1>1. SUBSET (1 .. 0) = {{}}
  OBVIOUS
<1>2. PICK S : S = 1 .. 0
  OBVIOUS
<1>3. Cardinality(SUBSET (1 .. 0)) = Pow(0)
  BY PowIs
<1> QED BY <1>1, <1>3, FS_Singleton

LEMMA PowPositive ==
    ASSUME NEW n \in Nat
    PROVE  Pow(n) \in Nat \ {0}
<1>1. IsFiniteSet(SUBSET (1 .. n)) /\ Cardinality(SUBSET (1 .. n)) = Pow(n)
  BY PowIs
<1>2. PICK S : S = SUBSET (1 .. n)
  OBVIOUS
<1>3. {} \in S
  BY <1>2
<1>4. Cardinality(S) \in Nat /\ Cardinality(S) # 0
  BY <1>1, <1>2, <1>3, FS_CardinalityType, FS_EmptySet
<1> QED BY <1>1, <1>2, <1>4

\* The width of a level divides the width of each longer one.
LEMMA PowDivides ==
    ASSUME NEW l \in Nat, NEW m \in Nat, l <= m
    PROVE  Pow(m) % Pow(l) = 0
<1> DEFINE Bad == {x \in l .. m : Pow(x) % Pow(l) # 0}
<1>1. ASSUME Bad # {} PROVE FALSE
  <2>1. Min(Bad) \in Bad /\ \A y \in Bad : Min(Bad) <= y
    <3>1. Bad \subseteq Nat
      OBVIOUS
    <3> QED BY <1>1, <3>1, LeastIn
  <2>2. PICK x \in Bad : \A y \in Bad : x <= y
    BY <2>1
  <2>3. x \in l .. m /\ Pow(x) % Pow(l) # 0
    BY <2>2
  <2>4. Pow(l) \in Nat \ {0}
    BY PowPositive
  <2>5. x # l
    <3>1. \A c \in Nat \ {0} : c % c = 0
      OBVIOUS
    <3> QED BY <2>3, <2>4, <3>1
  <2>6. PICK y \in Nat : y \in l .. m /\ x = y + 1
    <3>1. x - 1 \in Nat /\ x - 1 \in l .. m /\ x = (x - 1) + 1
      BY <2>3, <2>5
    <3> QED BY <3>1
  <2>7. Pow(y) % Pow(l) = 0
    BY <2>2, <2>6
  <2>8. Pow(y) \in Nat \ {0} /\ Pow(x) = Pow(y) + Pow(y)
    BY <2>6, PowStep, PowPositive
  <2>9. Pow(x) % Pow(l) = 0
    <3>1. \A p \in Nat, c \in Nat \ {0} : p % c = 0 => (p + p) % c = 0
      <4> SUFFICES ASSUME NEW p \in Nat, NEW c \in Nat \ {0}, p % c = 0 PROVE (p + p) % c = 0
        OBVIOUS
      <4>1. PICK q \in Nat : p = q * c
        BY Quotient
      <4>2. p + p = (q + q) * c /\ q + q \in Nat
        BY <4>1
      <4>3. \A n \in Nat : (n * c) % c = 0
        OBVIOUS
      <4> QED BY <4>2, <4>3
    <3> QED BY <2>4, <2>7, <2>8, <3>1
  <2> QED BY <2>3, <2>9
<1> QED BY <1>1
-----------------------------------------------------------------------------
(* The blocks that a difference is composed of. *)

LEMMA BlockFits ==
    ASSUME NEW pos \in Nat, NEW j \in Nat, pos < j, NEW cap \in Nat
    PROVE  /\ BlockAt(pos, j, cap) \in 0 .. cap
           /\ pos % Pow(BlockAt(pos, j, cap)) = 0
           /\ Pow(BlockAt(pos, j, cap)) \in Nat \ {0}
           /\ pos + Pow(BlockAt(pos, j, cap)) <= j
<1> DEFINE S == {l \in 0 .. cap : pos % Pow(l) = 0 /\ (l = 0 \/ pos + Pow(l) <= j)}
<1>1. 0 \in S
  <2>1. \A n \in Nat : n % 1 = 0
    OBVIOUS
  <2> QED BY <2>1, PowZero
<1>2. S \subseteq 0 .. cap /\ S # {}
  BY <1>1
<1> HIDE DEF S
<1>3. Max(S) \in S
  BY <1>2, MaxIn
<1> USE DEF S
<1>4. PICK l \in S : BlockAt(pos, j, cap) = l
  BY <1>3 DEF BlockAt
<1>5. l \in 0 .. cap /\ pos % Pow(l) = 0 /\ (l = 0 \/ pos + Pow(l) <= j)
  OBVIOUS
<1>6. Pow(l) \in Nat \ {0}
  BY <1>5, PowPositive
<1>7. pos + Pow(l) <= j
  <2>1. CASE l = 0
    <3>1. pos + 1 <= j
      OBVIOUS
    <3> QED BY <2>1, <3>1, PowZero
  <2>2. CASE l # 0
    BY <1>5, <2>2
  <2> QED BY <2>1, <2>2
<1> QED BY <1>4, <1>5, <1>6, <1>7

Blocked(j, cap, m, f) ==
    f = [n \in 0 .. m |-> IF n = 0 THEN <<>> ELSE
            LET l == BlockAt(j - n, j, cap) IN <<<<l, j - n>>>> \o f[n - Pow(l)]]

LEMMA BlockedExist ==
    ASSUME NEW j \in Nat, NEW cap \in Nat, NEW m \in 0 .. j
    PROVE  \E f : Blocked(j, cap, m, f)
<1> DEFINE Bad == {k \in 0 .. m : ~\E f : Blocked(j, cap, k, f)}
<1>1. ASSUME Bad # {} PROVE FALSE
  <2>1. Min(Bad) \in Bad /\ \A y \in Bad : Min(Bad) <= y
    <3>1. Bad \subseteq Nat
      OBVIOUS
    <3> QED BY <1>1, <3>1, LeastIn
  <2>2. PICK k \in Bad : \A y \in Bad : k <= y
    BY <2>1
  <2>3. k \in 0 .. m /\ ~\E f : Blocked(j, cap, k, f)
    BY <2>2
  <2>4. CASE k = 0
    <3>1. Blocked(j, cap, 0, [t \in 0 .. 0 |-> <<>>])
      BY DEF Blocked
    <3> QED BY <3>1, <2>3, <2>4
  <2>5. CASE k # 0
    <3>1. k - 1 \in 0 .. m /\ k - 1 \notin Bad
      BY <2>2, <2>3, <2>5
    <3>2. PICK f : Blocked(j, cap, k - 1, f)
      BY <3>1
    <3> DEFINE e(h, t) == IF t = 0 THEN <<>> ELSE
                             <<<<BlockAt(j - t, j, cap), j - t>>>> \o h[t - Pow(BlockAt(j - t, j, cap))]
               g == [t \in 0 .. k |-> e(f, t)]
    <3>3. f = [t \in 0 .. k - 1 |-> e(f, t)]
      BY <3>2 DEF Blocked
    <3> HIDE DEF e
    <3>9. \A t \in 0 .. k - 1 : f[t] = e(f, t) /\ t \in 0 .. k
      BY <3>3, <2>3
    <3>4. \A t \in 0 .. k - 1 : f[t] = g[t]
      BY <3>9
    <3> USE DEF e
    <3>5. \A t \in 0 .. k : t = 0 \/ t - Pow(BlockAt(j - t, j, cap)) \in 0 .. k - 1
      <4> SUFFICES ASSUME NEW t \in 1 .. k PROVE t - Pow(BlockAt(j - t, j, cap)) \in 0 .. k - 1
        BY <2>3
      <4>1. j - t \in Nat /\ j - t < j /\ j - t + t = j
        BY <2>3
      <4>2. PICK w : w = Pow(BlockAt(j - t, j, cap))
        OBVIOUS
      <4>3. w \in Nat \ {0} /\ j - t + w <= j
        BY <4>1, <4>2, BlockFits
      <4>4. t - w \in 0 .. k - 1
        BY <4>1, <4>3, <2>3
      <4> QED BY <4>2, <4>4
    <3>6. \A t \in 0 .. k : e(f, t) = e(g, t)
      BY <3>4, <3>5
    <3>7. g = [t \in 0 .. k |-> e(g, t)]
      BY <3>6
    <3>8. Blocked(j, cap, k, g)
      BY <3>7 DEF Blocked
    <3> QED BY <3>8, <2>3
  <2> QED BY <2>4, <2>5
<1>2. m \in 0 .. m /\ m \notin Bad
  BY <1>1
<1> QED BY <1>2

LEMMA BlocksIs ==
    ASSUME NEW i \in Nat, NEW j \in Nat, i <= j, NEW cap \in Nat
    PROVE  \E f : Blocked(j, cap, j - i, f) /\ Blocks(i, j, cap) = f[j - i]
<1> DEFINE g == CHOOSE f : f = [n \in 0 .. (j - i) |-> IF n = 0 THEN <<>> ELSE
                LET l == BlockAt(j - n, j, cap) IN <<<<l, j - n>>>> \o f[n - Pow(l)]]
<1>0. j - i \in 0 .. j
  OBVIOUS
<1>4. PICK m \in 0 .. j : m = j - i
  BY <1>0
<1>1. \E f : f = [n \in 0 .. (j - i) |-> IF n = 0 THEN <<>> ELSE
                LET l == BlockAt(j - n, j, cap) IN <<<<l, j - n>>>> \o f[n - Pow(l)]]
  BY <1>4, BlockedExist, Zenon DEF Blocked
<1>2. g = [n \in 0 .. (j - i) |-> IF n = 0 THEN <<>> ELSE
                LET l == BlockAt(j - n, j, cap) IN <<<<l, j - n>>>> \o g[n - Pow(l)]]
  BY <1>1
<1>3. Blocks(i, j, cap) = g[j - i]
  BY DEF Blocks
<1> QED BY <1>2, <1>3 DEF Blocked

\* The blocks bs lead from a to j without a gap, each aligned.
EndOf(b) == b[2] + Pow(b[1])

Chain(bs, a, j, cap) ==
    /\ bs \in Seq(Nat \X Nat)
    /\ \A m \in DOMAIN bs : bs[m][1] \in 0 .. cap /\ bs[m][2] % Pow(bs[m][1]) = 0 /\ EndOf(bs[m]) <= j
    /\ Len(bs) = 0 => a = j
    /\ Len(bs) > 0 => bs[1][2] = a /\ EndOf(bs[Len(bs)]) = j
    /\ \A m \in DOMAIN bs : m > 1 => EndOf(bs[m - 1]) = bs[m][2]

LEMMA Prepended ==
    ASSUME NEW x, NEW S, NEW s \in Seq(S), NEW t, t = <<x>> \o s
    PROVE  t[1] = x /\ \A i \in 1 .. Len(s) : t[i + 1] = s[i]
OBVIOUS

LEMMA ChainStep ==
    ASSUME NEW a \in Nat, NEW j \in Nat, NEW cap \in Nat, NEW l \in 0 .. cap, a % Pow(l) = 0,
           a + Pow(l) <= j, NEW bs, Chain(bs, a + Pow(l), j, cap)
    PROVE  Chain(<<<<l, a>>>> \o bs, a, j, cap)
<1>1. PICK n, cs : n = Len(bs) /\ cs = <<<<l, a>>>> \o bs
  OBVIOUS
<1>2. bs \in Seq(Nat \X Nat) /\ n \in Nat /\ DOMAIN bs = 1 .. n
  BY <1>1 DEF Chain
<1>3. <<<<l, a>>>> \in Seq(Nat \X Nat) /\ Len(<<<<l, a>>>>) = 1
  OBVIOUS
<1>4. cs \in Seq(Nat \X Nat) /\ Len(cs) = n + 1 /\ DOMAIN cs = 1 .. n + 1
  BY <1>1, <1>2, <1>3
<1>5. cs[1] = <<l, a>> /\ \A i \in 1 .. n : cs[i + 1] = bs[i]
  BY <1>1, <1>2, Prepended
<1>6. \A m \in 2 .. n + 1 : m - 1 \in 1 .. n /\ cs[m] = bs[m - 1]
  <2> SUFFICES ASSUME NEW m \in 2 .. n + 1 PROVE m - 1 \in 1 .. n /\ cs[m] = bs[m - 1]
    OBVIOUS
  <2>1. m - 1 \in 1 .. n /\ (m - 1) + 1 = m
    BY <1>2
  <2> QED BY <2>1, <1>5
<1>7. EndOf(cs[1]) = a + Pow(l) /\ cs[1][1] = l /\ cs[1][2] = a
  BY <1>5 DEF EndOf
<1>8. \A m \in 1 .. n + 1 : cs[m][1] \in 0 .. cap /\ cs[m][2] % Pow(cs[m][1]) = 0 /\ EndOf(cs[m]) <= j
  <2> SUFFICES ASSUME NEW m \in 1 .. n + 1
               PROVE  cs[m][1] \in 0 .. cap /\ cs[m][2] % Pow(cs[m][1]) = 0 /\ EndOf(cs[m]) <= j
    OBVIOUS
  <2>1. CASE m = 1
    BY <1>7, <2>1
  <2>2. CASE m # 1
    <3>1. m \in 2 .. n + 1
      BY <1>2, <2>2
    <3> QED BY <3>1, <1>2, <1>6 DEF Chain
  <2> QED BY <2>1, <2>2
<1>9. EndOf(cs[n + 1]) = j
  <2>1. CASE n = 0
    BY <1>1, <1>7, <2>1 DEF Chain
  <2>2. CASE n # 0
    <3>1. n + 1 \in 2 .. n + 1 /\ (n + 1) - 1 = n /\ n > 0
      BY <1>2, <2>2
    <3>2. cs[n + 1] = bs[n]
      BY <3>1, <1>6
    <3> QED BY <3>1, <3>2, <1>1 DEF Chain
  <2> QED BY <2>1, <2>2
<1>10. \A m \in 1 .. n + 1 : m > 1 => EndOf(cs[m - 1]) = cs[m][2]
  <2> SUFFICES ASSUME NEW m \in 1 .. n + 1, m > 1 PROVE EndOf(cs[m - 1]) = cs[m][2]
    OBVIOUS
  <2>3. m \in 2 .. n + 1
    BY <1>2
  <2>1. CASE m = 2
    <3>1. m - 1 = 1 /\ cs[m] = bs[1] /\ n > 0
      BY <2>1, <2>3, <1>2, <1>6
    <3> QED BY <3>1, <1>1, <1>7 DEF Chain
  <2>2. CASE m # 2
    <3>1. m - 1 \in 2 .. n + 1 /\ m - 1 \in 1 .. n /\ m - 1 > 1
      BY <2>2, <2>3, <1>2
    <3>2. PICK k : k = m - 1
      OBVIOUS
    <3>3. cs[k] = bs[k - 1] /\ cs[m] = bs[k] /\ EndOf(bs[k - 1]) = bs[k][2]
      BY <3>1, <3>2, <2>3, <1>2, <1>6 DEF Chain
    <3> QED BY <3>2, <3>3
  <2> QED BY <2>1, <2>2
<1>11. Len(cs) > 0 /\ Len(cs) # 0
  BY <1>2, <1>4
<1> QED BY <1>1, <1>4, <1>7, <1>8, <1>9, <1>10, <1>11 DEF Chain

LEMMA BlocksChain ==
    ASSUME NEW i \in Nat, NEW j \in Nat, i <= j, NEW cap \in Nat
    PROVE  Chain(Blocks(i, j, cap), i, j, cap)
<1>1. PICK f : Blocked(j, cap, j - i, f) /\ Blocks(i, j, cap) = f[j - i]
  BY BlocksIs
<1>2. PICK m \in Nat : m = j - i /\ m <= j /\ j - m = i
  OBVIOUS
<1>3. \A n \in 0 .. m : f[n] = IF n = 0 THEN <<>> ELSE
          <<<<BlockAt(j - n, j, cap), j - n>>>> \o f[n - Pow(BlockAt(j - n, j, cap))]
  BY <1>1, <1>2, Zenon DEF Blocked
<1> DEFINE Bad == {n \in 0 .. m : ~Chain(f[n], j - n, j, cap)}
<1>4. ASSUME Bad # {} PROVE FALSE
  <2>1. Min(Bad) \in Bad /\ \A y \in Bad : Min(Bad) <= y
    <3>1. Bad \subseteq Nat
      OBVIOUS
    <3> QED BY <1>4, <3>1, LeastIn
  <2>2. PICK n \in Bad : \A y \in Bad : n <= y
    BY <2>1
  <2>3. n \in 0 .. m /\ ~Chain(f[n], j - n, j, cap)
    BY <2>2
  <2>4. CASE n = 0
    <3>1. f[0] = <<>>
      <4>1. 0 \in 0 .. m
        OBVIOUS
      <4> QED BY <4>1, <1>3
    <3>2. Chain(<<>>, j, j, cap)
      BY DEF Chain
    <3>3. j - n = j /\ f[n] = <<>>
      BY <3>1, <2>4
    <3> QED BY <3>2, <3>3, <2>3
  <2>5. CASE n # 0
    <3>1. PICK a \in Nat : a = j - n /\ a < j
      BY <1>2, <2>3, <2>5
    <3>2. PICK l : l = BlockAt(a, j, cap)
      OBVIOUS
    <3>3. l \in 0 .. cap /\ a % Pow(l) = 0 /\ Pow(l) \in Nat \ {0} /\ a + Pow(l) <= j
      BY <3>1, <3>2, BlockFits
    <3>4. n - Pow(l) \in 0 .. m /\ n - Pow(l) < n /\ j - (n - Pow(l)) = a + Pow(l)
      BY <3>1, <3>3, <2>3, <2>5, <1>2
    <3>5. Chain(f[n - Pow(l)], a + Pow(l), j, cap)
      BY <3>4, <2>2, <2>3
    <3>6. f[n] = <<<<l, a>>>> \o f[n - Pow(l)]
      BY <1>3, <2>3, <2>5, <3>1, <3>2
    <3>7. Chain(f[n], a, j, cap)
      BY <3>3, <3>5, <3>6, ChainStep
    <3> QED BY <3>1, <3>7, <2>3
  <2> QED BY <2>4, <2>5
<1>5. m \in 0 .. m /\ m \notin Bad
  BY <1>4
<1> QED BY <1>1, <1>2, <1>5
-----------------------------------------------------------------------------
(* The composition over a chain of blocks. *)

Composed(nd, bs, m, g) == g = [n \in 0 .. m |-> IF n = 0 THEN Nothing ELSE Compose(g[n - 1], nd[bs[n]])]

LEMMA ComposedExist ==
    ASSUME NEW nd, NEW bs, NEW m \in Nat
    PROVE  \E g : Composed(nd, bs, m, g)
<1> DEFINE Bad == {k \in 0 .. m : ~\E g : Composed(nd, bs, k, g)}
<1>1. ASSUME Bad # {} PROVE FALSE
  <2>1. Min(Bad) \in Bad /\ \A y \in Bad : Min(Bad) <= y
    <3>1. Bad \subseteq Nat
      OBVIOUS
    <3> QED BY <1>1, <3>1, LeastIn
  <2>2. PICK k \in Bad : \A y \in Bad : k <= y
    BY <2>1
  <2>3. k \in 0 .. m /\ ~\E g : Composed(nd, bs, k, g)
    BY <2>2
  <2>4. CASE k = 0
    <3>1. Composed(nd, bs, 0, [t \in 0 .. 0 |-> Nothing])
      BY DEF Composed
    <3> QED BY <3>1, <2>3, <2>4
  <2>5. CASE k # 0
    <3>1. k - 1 \in 0 .. m /\ k - 1 \notin Bad
      BY <2>2, <2>3, <2>5
    <3>2. PICK f : Composed(nd, bs, k - 1, f)
      BY <3>1
    <3> DEFINE e(h, t) == IF t = 0 THEN Nothing ELSE Compose(h[t - 1], nd[bs[t]])
               g == [t \in 0 .. k |-> e(f, t)]
    <3>3. f = [t \in 0 .. k - 1 |-> e(f, t)]
      BY <3>2 DEF Composed
    <3> HIDE DEF e
    <3>9. \A t \in 0 .. k - 1 : f[t] = e(f, t) /\ t \in 0 .. k
      BY <3>3, <2>3
    <3>4. \A t \in 0 .. k - 1 : f[t] = g[t]
      BY <3>9
    <3>5. \A t \in 0 .. k : t = 0 \/ t - 1 \in 0 .. k - 1
      BY <2>3
    <3> USE DEF e
    <3>6. \A t \in 0 .. k : e(f, t) = e(g, t)
      BY <3>4, <3>5
    <3>7. g = [t \in 0 .. k |-> e(g, t)]
      BY <3>6
    <3>8. Composed(nd, bs, k, g)
      BY <3>7 DEF Composed
    <3> QED BY <3>8, <2>3
  <2> QED BY <2>4, <2>5
<1>2. m \in 0 .. m /\ m \notin Bad
  BY <1>1
<1> QED BY <1>2

LEMMA ForwardIs ==
    ASSUME NEW i, NEW j, NEW bs, bs = Blocks(i, j, levels), Len(bs) \in Nat
    PROVE  \E g : Composed(nodes, bs, Len(bs), g) /\ Forward(i, j) = g[Len(bs)]
<1>1. PICK nd, m : nd = nodes /\ m = Len(bs) /\ m \in Nat
  OBVIOUS
<1> DEFINE g == CHOOSE f : f = [n \in 0 .. m |-> IF n = 0 THEN Nothing ELSE Compose(f[n - 1], nd[bs[n]])]
<1>2. \E f : f = [n \in 0 .. m |-> IF n = 0 THEN Nothing ELSE Compose(f[n - 1], nd[bs[n]])]
  <2>1. \E f : Composed(nd, bs, m, f)
    BY <1>1, ComposedExist
  <2> QED BY <2>1, Zenon DEF Composed
<1>3. g = [n \in 0 .. m |-> IF n = 0 THEN Nothing ELSE Compose(g[n - 1], nd[bs[n]])]
  BY <1>2
<1>4. Forward(i, j) = g[m]
  BY <1>1 DEF Forward
<1> QED BY <1>1, <1>3, <1>4 DEF Composed

\* Blocks that hold the differences of their ends compose to that of the chain's.
Ends(ss, i, j) == Between(ss[i + 1], ss[j + 1])
Differ(nd, ss, bs) == \A m \in DOMAIN bs : nd[bs[m]] = Between(ss[bs[m][2] + 1], ss[EndOf(bs[m]) + 1])

LEMMA ChainComposes ==
    ASSUME NEW nd, NEW ss, NEW i \in Nat, NEW j \in Nat, NEW cap, NEW bs, Chain(bs, i, j, cap),
           Differ(nd, ss, bs), NEW g, Composed(nd, bs, Len(bs), g)
    PROVE  g[Len(bs)] = Ends(ss, i, j)
<1>1. PICK c : c = Len(bs)
  OBVIOUS
<1>2. c \in Nat /\ DOMAIN bs = 1 .. c
  BY <1>1 DEF Chain
<1>3. \A n \in 0 .. c : g[n] = IF n = 0 THEN Nothing ELSE Compose(g[n - 1], nd[bs[n]])
  BY <1>1, Zenon DEF Composed
<1> DEFINE To(n) == IF n = 0 THEN i ELSE EndOf(bs[n])
           Bad   == {n \in 0 .. c : g[n] # Between(ss[i + 1], ss[To(n) + 1])}
<1>4. ASSUME Bad # {} PROVE FALSE
  <2>1. Min(Bad) \in Bad /\ \A y \in Bad : Min(Bad) <= y
    <3>1. Bad \subseteq Nat
      OBVIOUS
    <3> QED BY <1>4, <3>1, LeastIn
  <2>2. PICK n \in Bad : \A y \in Bad : n <= y
    BY <2>1
  <2>3. n \in 0 .. c /\ g[n] # Between(ss[i + 1], ss[To(n) + 1])
    BY <2>2
  <2>4. CASE n = 0
    <3>1. g[n] = Nothing /\ To(n) = i
      BY <1>3, <2>3, <2>4
    <3> QED BY <3>1, <2>3, NothingBetween
  <2>5. CASE n # 0
    <3>1. n - 1 \in 0 .. c /\ n - 1 < n /\ n \in 1 .. c
      BY <1>2, <2>3, <2>5
    <3>2. g[n - 1] = Between(ss[i + 1], ss[To(n - 1) + 1])
      BY <3>1, <2>2, <2>3
    <3>3. To(n - 1) = bs[n][2]
      <4>1. CASE n = 1
        BY <4>1, <3>1, <1>1 DEF Chain
      <4>2. CASE n # 1
        <5>1. n > 1 /\ n - 1 # 0
          BY <4>2, <3>1
        <5> QED BY <5>1, <3>1, <1>2 DEF Chain
      <4> QED BY <4>1, <4>2
    <3>4. nd[bs[n]] = Between(ss[bs[n][2] + 1], ss[EndOf(bs[n]) + 1])
      BY <3>1, <1>2 DEF Differ
    <3>5. g[n] = Compose(g[n - 1], nd[bs[n]])
      BY <1>3, <2>3, <2>5
    <3>6. g[n] = Between(ss[i + 1], ss[EndOf(bs[n]) + 1])
      BY <3>2, <3>3, <3>4, <3>5, ComposeBetween
    <3> QED BY <3>6, <2>3, <2>5
  <2> QED BY <2>4, <2>5
<1>5. c \in 0 .. c /\ c \notin Bad
  BY <1>2, <1>4
<1>6. To(c) = j
  <2>1. CASE c = 0
    BY <1>1, <2>1 DEF Chain
  <2>2. CASE c # 0
    <3>1. c > 0
      BY <1>2, <2>2
    <3> QED BY <3>1, <2>2, <1>1 DEF Chain
  <2> QED BY <2>1, <2>2
<1> QED BY <1>1, <1>5, <1>6 DEF Ends

-----------------------------------------------------------------------------
(* The index: each stored changeset is that of the scans at its block's ends, *)
(* and the blocks that the listed scans need are stored.                      *)

NodesOk(nd, ss, lv) ==
    \A b \in DOMAIN nd :
        /\ b \in (0 .. lv) \X Nat /\ EndOf(b) < Len(ss)
        /\ nd[b] = Between(ss[b[2] + 1], ss[EndOf(b) + 1])

NodesIn(nd, n, lv) ==
    \A l \in 0 .. lv : \A p \in 0 .. n : p % Pow(l) = 0 /\ p + Pow(l) < n => <<l, p>> \in DOMAIN nd

NodesNew(nd, n, lv, d) ==
    \A l \in 0 .. lv : l < d /\ n % Pow(l) = 0 => <<l, n - Pow(l)>> \in DOMAIN nd

IndexInv ==
    /\ shots \in Seq(Shots) /\ Len(shots) <= MaxShots
    /\ levels \in Nat /\ listed \in Nat /\ listed <= Len(shots)
    /\ doing \in {Idle} \cup 1 .. levels + 1
    /\ NodesOk(nodes, shots, levels) /\ NodesIn(nodes, listed, levels)
    /\ doing # Idle => /\ 1 <= listed /\ listed < Len(shots)
                       /\ NodesNew(nodes, listed, levels, doing)

LEMMA IndexDiffs ==
    ASSUME IndexInv, NEW i \in 1 .. listed, NEW j \in 1 .. listed
    PROVE  Diff(i - 1, j - 1) = Between(shots[i], shots[j])
<1>0. PICK nd, ss, lv, n : nd = nodes /\ ss = shots /\ lv = levels /\ n = listed
  OBVIOUS
<1>1. n \in Nat /\ lv \in Nat /\ NodesOk(nd, ss, lv) /\ NodesIn(nd, n, lv)
  BY <1>0 DEF IndexInv
<1>2. ASSUME NEW a \in 1 .. n, NEW b \in 1 .. n, a <= b
      PROVE  Forward(a - 1, b - 1) = Between(ss[a], ss[b])
  <2>1. PICK x \in Nat, y \in Nat : x = a - 1 /\ y = b - 1 /\ x <= y /\ x + 1 = a /\ y + 1 = b /\ y < n
    BY <1>1, <1>2
  <2>2. PICK bs : bs = Blocks(x, y, lv)
    OBVIOUS
  <2>3. Chain(bs, x, y, lv)
    BY <1>1, <2>1, <2>2, BlocksChain
  <2>4. bs \in Seq(Nat \X Nat)
    BY <2>3 DEF Chain
  <2>5. Len(bs) \in Nat /\ DOMAIN bs = 1 .. Len(bs)
    BY <2>4
  <2>6. PICK g : Composed(nd, bs, Len(bs), g) /\ Forward(x, y) = g[Len(bs)]
    BY <1>0, <2>2, <2>5, ForwardIs
  <2>7. ASSUME NEW m \in DOMAIN bs
        PROVE  nd[bs[m]] = Between(ss[bs[m][2] + 1], ss[EndOf(bs[m]) + 1])
    <3>1. bs[m] \in Nat \X Nat
      BY <2>4
    <3>2. PICK l \in Nat, p \in Nat : bs[m] = <<l, p>>
      BY <3>1
    <3>3. l \in 0 .. lv /\ p % Pow(l) = 0 /\ p + Pow(l) <= y
      BY <2>3, <3>2 DEF Chain, EndOf
    <3>4. Pow(l) \in Nat \ {0}
      BY PowPositive
    <3>5. p \in 0 .. n /\ p + Pow(l) < n
      BY <3>3, <3>4, <2>1, <1>1
    <3>6. bs[m] \in DOMAIN nd
      BY <3>2, <3>3, <3>5, <1>1 DEF NodesIn
    <3> QED BY <3>6, <1>1 DEF NodesOk
  <2>8. g[Len(bs)] = Ends(ss, x, y)
    <3>1. Differ(nd, ss, bs)
      BY <2>7 DEF Differ
    <3>2. Composed(nd, bs, Len(bs), g)
      BY <2>6
    <3>3. x \in Nat /\ y \in Nat
      OBVIOUS
    <3> QED BY <2>3, <3>1, <3>2, <3>3, ChainComposes
  <2> QED BY <2>1, <2>6, <2>8 DEF Ends
<1>3. CASE i <= j
  <2>1. i - 1 <= j - 1
    BY <1>0, <1>1, <1>3
  <2> QED BY <1>0, <1>2, <1>3, <2>1 DEF Diff
<1>4. CASE ~(i <= j)
  <2>1. ~(i - 1 <= j - 1) /\ j <= i
    BY <1>0, <1>1, <1>4
  <2>2. Forward(j - 1, i - 1) = Between(ss[j], ss[i])
    BY <1>0, <1>2, <2>1
  <2>3. PICK c, d : c = Between(ss[j], ss[i]) /\ d = Between(ss[i], ss[j])
    OBVIOUS
  <2>4. Diff(i - 1, j - 1) = [k \in DOMAIN c |-> <<c[k][2], c[k][1]>>]
    BY <2>1, <2>2, <2>3 DEF Diff
  <2>5. /\ \A k : k \in DOMAIN c <=> StateOf(ss[j], k) # StateOf(ss[i], k)
        /\ \A k \in DOMAIN c : c[k][1] = StateOf(ss[j], k) /\ c[k][2] = StateOf(ss[i], k)
    BY <2>3, BetweenIs
  <2>6. /\ \A k : k \in DOMAIN d <=> StateOf(ss[i], k) # StateOf(ss[j], k)
        /\ d = [k \in DOMAIN d |-> <<StateOf(ss[i], k), StateOf(ss[j], k)>>]
    BY <2>3, BetweenIs
  <2>7. DOMAIN c = DOMAIN d
    BY <2>5, <2>6
  <2> QED BY <1>0, <2>3, <2>4, <2>5, <2>6, <2>7
<1> QED BY <1>3, <1>4

LEMMA IndexDiffsExact == FoldInv /\ IndexInv => DiffsExact
<1> SUFFICES ASSUME FoldInv, IndexInv PROVE DiffsExact
  OBVIOUS
<1>1. Table = EncodeInterval(shots)
  BY TableIs
<1>2. PICK ss : ss = shots
  OBVIOUS
<1>3. ss \in Seq(Shots)
  BY <1>2 DEF FoldInv
<1>4. Len(ss) \in Nat /\ DOMAIN ss = 1 .. Len(ss)
  BY <1>3
<1>5. \A i, j \in 1 .. Len(ss) : DiffScans(EncodeInterval(ss), i, j) = Between(ss[i], ss[j])
  BY <1>4, DiffScansIs
<1>6. \A i \in 1 .. listed : \A j \in 1 .. listed : Diff(i - 1, j - 1) = Between(shots[i], shots[j])
  BY IndexDiffs
<1> QED BY <1>1, <1>2, <1>4, <1>5, <1>6 DEF DiffsExact

LEMMA InitIndex == InitMulti => IndexInv
<1> SUFFICES ASSUME InitMulti PROVE IndexInv
  OBVIOUS
<1>1. shots = <<>> /\ listed = 0 /\ doing = Idle /\ levels \in Nat /\ DOMAIN nodes = {}
  BY MultiAssumption DEF InitMulti
<1>2. shots \in Seq(Shots) /\ Len(shots) = 0 /\ MaxShots \in Nat
  BY <1>1, MultiAssumption
<1>3. NodesOk(nodes, shots, levels)
  BY <1>1 DEF NodesOk
<1>4. NodesIn(nodes, listed, levels)
  <2> SUFFICES ASSUME NEW l \in 0 .. levels, NEW p \in 0 .. listed, p + Pow(l) < listed PROVE FALSE
    BY DEF NodesIn
  <2>1. l \in Nat /\ p = 0 /\ listed = 0
    BY <1>1
  <2>2. Pow(l) \in Nat \ {0}
    BY <2>1, PowPositive
  <2> QED BY <2>1, <2>2
<1> QED BY <1>1, <1>2, <1>3, <1>4 DEF IndexInv

\* A scan more changes none of the stored changesets' ends.
LEMMA NodesOkMore ==
    ASSUME NEW S, NEW ss \in Seq(S), NEW cur \in S, NEW nd, NEW lv \in Nat, NodesOk(nd, ss, lv)
    PROVE  NodesOk(nd, Append(ss, cur), lv)
<1>1. PICK tt : tt = Append(ss, cur)
  OBVIOUS
<1>2. Len(ss) \in Nat /\ Len(tt) = Len(ss) + 1 /\ \A m \in 1 .. Len(ss) : tt[m] = ss[m]
  BY <1>1
<1>3. ASSUME NEW b \in DOMAIN nd
      PROVE  /\ b \in (0 .. lv) \X Nat /\ EndOf(b) < Len(tt)
             /\ nd[b] = Between(tt[b[2] + 1], tt[EndOf(b) + 1])
  <2>1. b \in (0 .. lv) \X Nat /\ EndOf(b) < Len(ss) /\ nd[b] = Between(ss[b[2] + 1], ss[EndOf(b) + 1])
    BY DEF NodesOk
  <2>2. PICK l \in Nat, p \in Nat : b = <<l, p>> /\ b[1] = l /\ b[2] = p
    BY <2>1
  <2>3. Pow(l) \in Nat \ {0} /\ EndOf(b) = p + Pow(l)
    BY <2>2, PowPositive DEF EndOf
  <2>4. p + 1 \in 1 .. Len(ss) /\ EndOf(b) + 1 \in 1 .. Len(ss) /\ EndOf(b) < Len(tt)
    BY <1>2, <2>1, <2>3
  <2> QED BY <1>2, <2>1, <2>2, <2>4
<1> QED BY <1>1, <1>3 DEF NodesOk

\* One changeset more.
LEMMA NodesOkWith ==
    ASSUME NEW ss, NEW nd, NEW md, NEW lv \in Nat, NodesOk(nd, ss, lv),
           NEW l \in 0 .. lv, NEW p \in Nat, p + Pow(l) < Len(ss), NEW b, b = <<l, p>>,
           DOMAIN md = (DOMAIN nd) \cup {b}, \A x \in (DOMAIN nd) \ {b} : md[x] = nd[x],
           md[b] = Between(ss[p + 1], ss[p + Pow(l) + 1])
    PROVE  NodesOk(md, ss, lv)
<1>1. b \in (0 .. lv) \X Nat /\ b[1] = l /\ b[2] = p /\ EndOf(b) = p + Pow(l)
  BY DEF EndOf
<1> SUFFICES ASSUME NEW x \in DOMAIN md
             PROVE  /\ x \in (0 .. lv) \X Nat /\ EndOf(x) < Len(ss)
                    /\ md[x] = Between(ss[x[2] + 1], ss[EndOf(x) + 1])
  BY DEF NodesOk
<1>2. CASE x = b
  BY <1>1, <1>2
<1>3. CASE x # b
  <2>1. x \in DOMAIN nd /\ md[x] = nd[x]
    BY <1>3
  <2> QED BY <2>1 DEF NodesOk
<1> QED BY <1>2, <1>3

LEMMA AdjacencyIndex == IndexInv /\ Adjacency => IndexInv'
<1> SUFFICES ASSUME IndexInv, Adjacency PROVE IndexInv'
  OBVIOUS
<1>0. PICK ss, nd, md, n, lv : ss = shots /\ nd = nodes /\ md = nodes' /\ n = listed /\ lv = levels
  OBVIOUS
<1>1. /\ n \in Nat /\ lv \in Nat /\ 1 <= n /\ n < Len(ss) /\ ss \in Seq(Shots) /\ Len(ss) \in Nat
      /\ NodesOk(nd, ss, lv) /\ NodesIn(nd, n, lv)
  BY <1>0 DEF IndexInv, Adjacency
<1>2. PICK b : b = <<0, n - 1>>
  OBVIOUS
<1>3. DOMAIN md = (DOMAIN nd) \cup {b} /\ md[b] = Between(ss[n], ss[n + 1])
      /\ \A x \in (DOMAIN nd) \ {b} : md[x] = nd[x]
  <2>1. PICK c : c = Between(ss[n], ss[n + 1])
    OBVIOUS
  <2>2. md = With(b, c)
    BY <1>0, <1>2, <2>1 DEF Adjacency
  <2>4. /\ DOMAIN md = (DOMAIN nodes) \cup {b} /\ md[b] = c
        /\ \A x \in (DOMAIN nodes) \ {b} : md[x] = nodes[x]
    BY <2>2 DEF With
  <2> QED BY <1>0, <2>1, <2>4
<1>4. PICK p \in Nat : p = n - 1 /\ p + 1 = n /\ p + Pow(0) = n
  BY <1>1, PowZero
<1>5. NodesOk(md, ss, lv)
  <2>1. 0 \in 0 .. lv /\ b = <<0, p>> /\ p + Pow(0) < Len(ss)
    BY <1>1, <1>2, <1>4
  <2>2. md[b] = Between(ss[p + 1], ss[p + Pow(0) + 1])
    BY <1>3, <1>4
  <2> QED BY <1>1, <1>3, <2>1, <2>2, NodesOkWith
<1>6. NodesIn(md, n, lv)
  BY <1>1, <1>3 DEF NodesIn
<1>7. NodesNew(md, n, lv, 1)
  <2> SUFFICES ASSUME NEW l \in 0 .. lv, l < 1 PROVE <<l, n - Pow(l)>> \in DOMAIN md
    BY DEF NodesNew
  <2>1. l = 0
    BY <1>1
  <2>2. <<l, n - Pow(l)>> = b
    BY <2>1, <1>1, <1>2, PowZero
  <2> QED BY <2>2, <1>3
<1>8. 1 \in 1 .. lv + 1
  BY <1>1
<1> QED BY <1>0, <1>1, <1>5, <1>6, <1>7, <1>8 DEF IndexInv, Adjacency

\* Halves of an aligned block are aligned.
LEMMA Halves ==
    ASSUME NEW n \in Nat, 1 <= n, NEW d \in Nat, n % Pow(d + 1) = 0
    PROVE  /\ Pow(d) \in Nat \ {0} /\ Pow(d + 1) = Pow(d) + Pow(d) /\ n % Pow(d) = 0
           /\ n - Pow(d + 1) \in Nat /\ (n - Pow(d + 1)) % Pow(d) = 0
<1>1. Pow(d) \in Nat \ {0} /\ Pow(d + 1) = Pow(d) + Pow(d)
  BY PowPositive, PowStep
<1>2. PICK w \in Nat \ {0} : w = Pow(d)
  BY <1>1
<1>3. PICK v \in Nat \ {0} : v = Pow(d + 1) /\ v = w + w
  BY <1>1, <1>2
<1>4. PICK q \in Nat : n = q * v
  BY <1>3, Quotient
<1>5. q # 0
  BY <1>3, <1>4
<1>6. PICK r \in Nat : q = r + 1
  <2>1. q - 1 \in Nat /\ q = (q - 1) + 1
    BY <1>5
  <2> QED BY <2>1
<1>7. n = r * v + v /\ n - v = r * v
  BY <1>3, <1>4, <1>6
<1>8. n = (q + q) * w /\ n - v = (r + r) * w /\ q + q \in Nat /\ r + r \in Nat
  <2>1. \A a \in Nat : a * (w + w) = (a + a) * w /\ a + a \in Nat
    OBVIOUS
  <2> QED BY <1>3, <1>4, <1>7, <2>1
<1>9. \A m \in Nat : (m * w) % w = 0 /\ m * w \in Nat
  OBVIOUS
<1>10. n % w = 0 /\ (n - v) % w = 0 /\ n - v \in Nat
  BY <1>8, <1>9
<1> QED BY <1>1, <1>2, <1>3, <1>10

LEMMA AlignedIndex == IndexInv /\ AlignedBlock => IndexInv'
<1> SUFFICES ASSUME IndexInv, AlignedBlock PROVE IndexInv'
  OBVIOUS
<1>0. PICK ss, nd, md, n, lv : ss = shots /\ nd = nodes /\ md = nodes' /\ n = listed /\ lv = levels
  OBVIOUS
<1>10. doing \in 1 .. levels + 1 /\ doing # Idle /\ doing <= levels /\ listed % Pow(doing) = 0
  BY DEF IndexInv, AlignedBlock, MoreBlocks
<1>1. /\ n \in Nat /\ lv \in Nat /\ 1 <= n /\ n < Len(ss) /\ ss \in Seq(Shots) /\ Len(ss) \in Nat
      /\ NodesOk(nd, ss, lv) /\ NodesIn(nd, n, lv) /\ NodesNew(nd, n, lv, doing)
  BY <1>0, <1>10 DEF IndexInv
<1>2. PICK d \in Nat : doing = d + 1 /\ d + 1 \in 0 .. lv /\ d \in 0 .. lv /\ n % Pow(d + 1) = 0
  <2>1. doing - 1 \in Nat /\ doing = (doing - 1) + 1 /\ doing \in 0 .. lv /\ doing - 1 \in 0 .. lv
    BY <1>0, <1>1, <1>10
  <2> QED BY <2>1, <1>0, <1>10
<1>3. PICK w \in Nat \ {0} : w = Pow(d) /\ Pow(d + 1) = w + w
  BY <1>1, <1>2, Halves
<1>4. n % w = 0 /\ n - (w + w) \in Nat /\ (n - (w + w)) % w = 0
  BY <1>1, <1>2, <1>3, Halves
<1>5. PICK p \in Nat : p = n - (w + w) /\ p + (w + w) = n /\ p % w = 0
  BY <1>1, <1>4
<1>6. PICK b, x, y : b = <<d + 1, p>> /\ x = <<d, p>> /\ y = <<d, p + w>>
  OBVIOUS
<1>7. x \in DOMAIN nd /\ y \in DOMAIN nd
  <2>1. p \in 0 .. n /\ p + w < n
    BY <1>1, <1>5
  <2>2. x \in DOMAIN nd
    BY <1>1, <1>2, <1>3, <1>5, <1>6, <2>1 DEF NodesIn
  <2>3. <<d, n - w>> \in DOMAIN nd
    BY <1>1, <1>2, <1>3, <1>4 DEF NodesNew
  <2>4. n - w = p + w
    BY <1>1, <1>5
  <2> QED BY <2>2, <2>3, <2>4, <1>6
<1>8. /\ nd[x] = Between(ss[p + 1], ss[p + w + 1])
      /\ nd[y] = Between(ss[p + w + 1], ss[n + 1])
  <2>1. x[2] = p /\ EndOf(x) = p + w /\ y[2] = p + w /\ EndOf(y) = p + w + w /\ p + w + w = n
    BY <1>1, <1>3, <1>5, <1>6 DEF EndOf
  <2>2. nd[x] = Between(ss[x[2] + 1], ss[EndOf(x) + 1]) /\ nd[y] = Between(ss[y[2] + 1], ss[EndOf(y) + 1])
    BY <1>1, <1>7 DEF NodesOk
  <2> QED BY <2>1, <2>2
<1>9. /\ DOMAIN md = (DOMAIN nd) \cup {b} /\ md[b] = Compose(nd[x], nd[y])
      /\ \A z \in (DOMAIN nd) \ {b} : md[z] = nd[z]
  <2>1. doing - 1 = d /\ listed - Pow(doing) = p
    BY <1>0, <1>2, <1>3, <1>5
  <2>3. PICK c : c = Compose(nd[x], nd[y])
    OBVIOUS
  <2>2. md = With(b, c)
    BY <1>0, <1>2, <1>3, <1>6, <2>1, <2>3 DEF AlignedBlock
  <2>5. /\ DOMAIN md = (DOMAIN nodes) \cup {b} /\ md[b] = c
        /\ \A u \in (DOMAIN nodes) \ {b} : md[u] = nodes[u]
    BY <2>2 DEF With
  <2> QED BY <1>0, <2>3, <2>5
<1>11. md[b] = Between(ss[p + 1], ss[n + 1])
  BY <1>8, <1>9, ComposeBetween
<1>12. NodesOk(md, ss, lv)
  <2>1. p + Pow(d + 1) = n /\ p + Pow(d + 1) < Len(ss)
    BY <1>1, <1>3, <1>5
  <2>2. md[b] = Between(ss[p + 1], ss[p + Pow(d + 1) + 1])
    BY <1>11, <2>1
  <2> QED BY <1>1, <1>2, <1>6, <1>9, <2>1, <2>2, NodesOkWith
<1>13. NodesIn(md, n, lv)
  BY <1>1, <1>9 DEF NodesIn
<1>14. NodesNew(md, n, lv, d + 2)
  <2> SUFFICES ASSUME NEW l \in 0 .. lv, l < d + 2, n % Pow(l) = 0 PROVE <<l, n - Pow(l)>> \in DOMAIN md
    BY DEF NodesNew
  <2>1. CASE l = d + 1
    <3>1. <<l, n - Pow(l)>> = b
      BY <2>1, <1>3, <1>5, <1>6
    <3> QED BY <3>1, <1>9
  <2>2. CASE l # d + 1
    <3>1. l < doing
      BY <1>1, <1>2, <2>2
    <3> QED BY <3>1, <1>1, <1>9 DEF NodesNew
  <2> QED BY <2>1, <2>2
<1>15. doing' = d + 2 /\ d + 2 \in 1 .. lv + 1
  BY <1>1, <1>2 DEF AlignedBlock
<1> QED BY <1>0, <1>1, <1>12, <1>13, <1>14, <1>15 DEF IndexInv, AlignedBlock

LEMMA ListIndex == IndexInv /\ ListScan => IndexInv'
<1> SUFFICES ASSUME IndexInv, ListScan PROVE IndexInv'
  OBVIOUS
<1>0. PICK ss, nd, n, lv : ss = shots /\ nd = nodes /\ n = listed /\ lv = levels
  OBVIOUS
<1>10. doing \in 1 .. levels + 1 /\ doing # Idle /\ ~(doing <= levels /\ listed % Pow(doing) = 0)
  BY DEF IndexInv, ListScan, MoreBlocks
<1>1. /\ n \in Nat /\ lv \in Nat /\ 1 <= n /\ n < Len(ss) /\ ss \in Seq(Shots) /\ Len(ss) \in Nat
      /\ NodesOk(nd, ss, lv) /\ NodesIn(nd, n, lv) /\ NodesNew(nd, n, lv, doing)
  BY <1>0, <1>10 DEF IndexInv
<1>2. PICK d \in Nat : d = doing
  BY <1>10, <1>0, <1>1
<1>3. NodesIn(nd, n + 1, lv)
  <2> SUFFICES ASSUME NEW l \in 0 .. lv, NEW p \in 0 .. n + 1, p % Pow(l) = 0, p + Pow(l) < n + 1
               PROVE  <<l, p>> \in DOMAIN nd
    BY DEF NodesIn
  <2>1. PICK w \in Nat \ {0} : w = Pow(l)
    BY PowPositive
  <2>2. CASE p + w < n
    <3>1. p \in 0 .. n
      BY <1>1, <2>1, <2>2
    <3> QED BY <3>1, <2>1, <2>2, <1>1 DEF NodesIn
  <2>3. CASE p + w = n
    <3>1. n % w = 0
      <4>4. p \in Nat /\ p % w = 0
        BY <2>1, <1>1
      <4>1. PICK q \in Nat : p = q * w
        BY <4>4, Quotient
      <4>2. n = (q + 1) * w /\ q + 1 \in Nat
        BY <4>1, <2>1, <2>3
      <4>3. \A m \in Nat : (m * w) % w = 0
        OBVIOUS
      <4> QED BY <4>2, <4>3
    <3>2. l < d
      <4> SUFFICES ASSUME d <= l PROVE FALSE
        BY <1>2
      <4>1. w % Pow(d) = 0 /\ Pow(d) \in Nat \ {0}
        BY <2>1, <1>2, PowDivides, PowPositive
      <4>2. n % Pow(d) = 0
        BY <4>1, <3>1, <1>1, ModTrans
      <4> QED BY <4>2, <1>0, <1>1, <1>2, <1>10
    <3>3. <<l, n - w>> \in DOMAIN nd
      BY <3>1, <3>2, <2>1, <1>1, <1>2 DEF NodesNew
    <3>4. n - w = p
      BY <2>1, <2>3
    <3> QED BY <3>3, <3>4
  <2> QED BY <1>1, <2>1, <2>2, <2>3
<1>4. n + 1 \in Nat /\ n + 1 <= Len(ss)
  BY <1>1
<1> QED BY <1>0, <1>1, <1>3, <1>4 DEF IndexInv, ListScan

LEMMA NextIndex == IndexInv /\ [NextMulti]_multiScanVars => IndexInv'
<1> SUFFICES ASSUME IndexInv, [NextMulti]_multiScanVars PROVE IndexInv'
  OBVIOUS
<1>1. CASE UNCHANGED <<shots, nodes, listed, levels, doing>>
  BY <1>1 DEF IndexInv
<1>2. ASSUME NEW cur \in Shots, ScanComes(cur) PROVE IndexInv'
  <2>0. PICK ss, tt : ss = shots /\ tt = Append(ss, cur)
    OBVIOUS
  <2>1. ss \in Seq(Shots) /\ levels \in Nat /\ NodesOk(nodes, ss, levels) /\ Len(ss) < MaxShots
    BY <1>2, <2>0 DEF IndexInv, ScanComes
  <2>2. NodesOk(nodes, tt, levels)
    BY <2>0, <2>1, NodesOkMore
  <2>3. tt \in Seq(Shots) /\ Len(ss) \in Nat /\ Len(tt) = Len(ss) + 1
    BY <2>0, <2>1
  <2>4. Len(tt) <= MaxShots
    BY <2>1, <2>3, MultiAssumption
  <2>5. shots' = tt /\ UNCHANGED <<nodes, listed, levels, doing>>
    BY <1>2, <2>0 DEF ScanComes
  <2>6. listed <= Len(tt) /\ (doing # Idle => listed < Len(tt))
    BY <2>0, <2>3 DEF IndexInv
  <2> QED BY <2>0, <2>2, <2>3, <2>4, <2>5, <2>6 DEF IndexInv
<1>3. CASE InitScan
  <2>0. PICK nd, ss, lv : nd = nodes /\ ss = shots /\ lv = levels
    OBVIOUS
  <2>1. ss \in Seq(Shots) /\ ss # <<>> /\ lv \in Nat
    BY <1>3, <2>0 DEF IndexInv, InitScan
  <2>2. Len(ss) \in Nat /\ 1 <= Len(ss)
    BY <2>1
  <2>3. NodesIn(nd, 1, lv)
    <3> SUFFICES ASSUME NEW l \in 0 .. lv, NEW p \in 0 .. 1, p + Pow(l) < 1 PROVE FALSE
      BY DEF NodesIn
    <3>1. Pow(l) \in Nat \ {0}
      BY PowPositive
    <3> QED BY <3>1
  <2> QED BY <1>3, <2>0, <2>2, <2>3 DEF IndexInv, InitScan
<1>4. CASE Adjacency
  BY <1>4, AdjacencyIndex
<1>5. CASE AlignedBlock
  BY <1>5, AlignedIndex
<1>6. CASE ListScan
  BY <1>6, ListIndex
<1>7. CASE IngestDies
  BY <1>7 DEF IndexInv, IngestDies
<1>8. CASE UNCHANGED multiScanVars
  BY <1>1, <1>8 DEF multiScanVars
<1> QED BY <1>2, <1>3, <1>4, <1>5, <1>6, <1>7, <1>8 DEF NextMulti

-----------------------------------------------------------------------------
\* Encoders and index are exact, for any scans that come and any caps on the levels, and
\* wherever an ingest dies (consolidate_scans, diff_scans, DiffIndexStore).
THEOREM ScansExactHolds == SpecMulti => []ScansExact
<1>1. InitMulti => FoldInv /\ IndexInv
  BY InitFold, InitIndex
<1>2. FoldInv /\ IndexInv /\ [NextMulti]_multiScanVars => (FoldInv /\ IndexInv)'
  BY NextFold, NextIndex
<1>3. FoldInv /\ IndexInv => ScansExact
  BY FoldEncodes, IndexDiffsExact DEF ScansExact
<1> QED BY <1>1, <1>2, <1>3, PTL DEF SpecMulti

\* The listed scans are there, and every stored changeset is of a level and a start that exist.
THEOREM MultiTypes == SpecMulti => []TypeMulti
<1>1. IndexInv => TypeMulti
  <2> SUFFICES ASSUME IndexInv PROVE TypeMulti
    OBVIOUS
  <2>1. shots \in Seq(Shots) /\ Len(shots) <= MaxShots /\ MaxShots \in Nat
    BY MultiAssumption DEF IndexInv
  <2>2. ASSUME NEW b \in DOMAIN nodes PROVE b \in (0 .. levels) \X (0 .. MaxShots)
    <3>1. b \in (0 .. levels) \X Nat /\ EndOf(b) < Len(shots)
      BY DEF IndexInv, NodesOk
    <3>2. PICK l \in Nat, p \in Nat : b = <<l, p>> /\ l \in 0 .. levels
      BY <3>1
    <3>3. p + Pow(l) < Len(shots) /\ Pow(l) \in Nat \ {0}
      BY <3>1, <3>2, PowPositive DEF EndOf
    <3>4. p \in 0 .. MaxShots
      BY <3>3, <2>1
    <3> QED BY <3>2, <3>4
  <2>3. doing \in {Idle} \cup 1 .. (levels + 1)
    BY DEF IndexInv
  <2> QED BY <2>1, <2>2, <2>3 DEF TypeMulti, IndexInv
<1>2. InitMulti => IndexInv
  BY InitIndex
<1>3. IndexInv /\ [NextMulti]_multiScanVars => IndexInv'
  BY NextIndex
<1> QED BY <1>1, <1>2, <1>3, PTL DEF SpecMulti
-----------------------------------------------------------------------------
(***************************************************************************)
(* Intervals.  The key ranges first: each key is in one piece of one range. *)
(***************************************************************************)

\* Keys in order.
LEMMA KeysOrdered ==
    ASSUME NEW a \in Int \X Int, NEW b \in Int \X Int, NEW c \in Int \X Int
    PROVE  /\ KeyLess(a, b) /\ KeyLess(b, c) => KeyLess(a, c)
           /\ KeyLess(a, b) => ~KeyLess(b, a)
           /\ ~KeyLess(a, b) /\ ~KeyLess(b, a) => a = b
           /\ ~KeyLess(b, a) /\ KeyLess(b, c) => KeyLess(a, c)
           /\ KeyLess(a, b) /\ ~KeyLess(c, b) => KeyLess(a, c)
           /\ a # NoBound
<1>1. a[1] \in Int /\ a[2] \in Int /\ b[1] \in Int /\ b[2] \in Int /\ c[1] \in Int /\ c[2] \in Int
      /\ a = <<a[1], a[2]>> /\ b = <<b[1], b[2]>>
  OBVIOUS
<1>2. a # NoBound
  BY <1>1 DEF NoBound
<1>3. ~KeyLess(a, b) /\ ~KeyLess(b, a) => a = b
  BY <1>1 DEF KeyLess
<1> QED BY <1>1, <1>2, <1>3 DEF KeyLess

LEMMA Joins ==
    ASSUME NEW a, NEW b, NEW c
    PROVE  /\ <<>> \o <<a>> \o <<b>> = <<a, b>>
           /\ <<a>> \o <<b>> \o <<>> = <<a, b>>
           /\ <<a>> \o <<b>> \o <<c>> = <<a, b, c>>
<1> DEFINE S == {a, b, c}
<1>1. <<a>> \in Seq(S) /\ <<b>> \in Seq(S) /\ <<c>> \in Seq(S) /\ <<a, b>> \in Seq(S) /\ <<a, b, c>> \in Seq(S)
  OBVIOUS
<1>2. <<>> \o <<a>> = <<a>> /\ <<a, b>> \o <<>> = <<a, b>>
  BY <1>1, ConcatEmptySeq
<1>3. <<a>> \o <<b>> = <<a, b>>
  <2>1. PICK u, v : u = <<a>> \o <<b>> /\ v = <<a, b>>
    OBVIOUS
  <2>2. u \in Seq(S) /\ Len(u) = 2 /\ u[1] = a /\ u[2] = b
    <3>1. Len(<<a>>) = 1 /\ Len(<<b>>) = 1 /\ <<a>>[1] = a /\ <<b>>[1] = b
      OBVIOUS
    <3> QED BY <1>1, <2>1, <3>1, ConcatProperties
  <2>3. v \in Seq(S) /\ Len(v) = 2 /\ v[1] = a /\ v[2] = b
    BY <2>1
  <2>4. \A i \in 1 .. 2 : u[i] = v[i]
    BY <2>2, <2>3
  <2> QED BY <2>1, <2>2, <2>3, <2>4, SeqEqual
<1>4. <<a, b>> \o <<c>> = <<a, b, c>>
  <2>1. PICK u, v : u = <<a, b>> \o <<c>> /\ v = <<a, b, c>>
    OBVIOUS
  <2>2. u \in Seq(S) /\ Len(u) = 3 /\ u[1] = a /\ u[2] = b /\ u[3] = c
    <3>1. Len(<<a, b>>) = 2 /\ Len(<<c>>) = 1 /\ <<a, b>>[1] = a /\ <<a, b>>[2] = b /\ <<c>>[1] = c
      OBVIOUS
    <3> QED BY <1>1, <2>1, <3>1, ConcatProperties
  <2>3. v \in Seq(S) /\ Len(v) = 3 /\ v[1] = a /\ v[2] = b /\ v[3] = c
    BY <2>1
  <2>4. \A i \in 1 .. 3 : u[i] = v[i]
    BY <2>2, <2>3
  <2> QED BY <2>1, <2>2, <2>3, <2>4, SeqEqual
<1> QED BY <1>2, <1>3, <1>4

\* The pieces of a range hold its keys, each once.
Within(k, r) == (r.lo = NoBound \/ ~KeyLess(k, r.lo)) /\ (r.hi = NoBound \/ KeyLess(k, r.hi))
IsRange(r) ==
    /\ r.lo = NoBound \/ r.lo \in Int \X Int
    /\ r.hi = NoBound \/ r.hi \in Int \X Int
    /\ r.lo # NoBound /\ r.hi # NoBound => KeyLess(r.lo, r.hi)

LEMMA PiecesOne ==
    ASSUME NEW k \in Int \X Int, NEW r, IsRange(r)
    PROVE  /\ Within(k, r) => \E p : PiecesOf(k, r) = {p}
           /\ ~Within(k, r) => PiecesOf(k, r) = {}
<1>1. PICK lo, hi : lo = r.lo /\ hi = r.hi
  OBVIOUS
<1>2. k[1] \in Int /\ k[2] \in Int
  OBVIOUS
<1> DEFINE Eq(b) == <<1, "=", b[1]>>
           Ge(b) == <<2, ">=", b[2]>>
           Lt(b) == <<2, "<", b[2]>>
           Gt1(b) == <<1, ">", b[1]>>
           Lt1(b) == <<1, "<", b[1]>>
           Holds(t) == Satisfies(k, t)
<1>3. ASSUME NEW b \in Int \X Int
      PROVE  /\ b[1] \in Int /\ b[2] \in Int
             /\ Satisfies(k, Eq(b)) <=> k[1] = b[1]
             /\ Satisfies(k, Ge(b)) <=> k[2] >= b[2]
             /\ Satisfies(k, Lt(b)) <=> k[2] < b[2]
             /\ Satisfies(k, Gt1(b)) <=> k[1] > b[1]
             /\ Satisfies(k, Lt1(b)) <=> k[1] < b[1]
  <2>1. Satisfies(k, Eq(b)) <=> k[1] = b[1]
    BY DEF Satisfies
  <2>2. Satisfies(k, Ge(b)) <=> k[2] >= b[2]
    BY DEF Satisfies
  <2>3. Satisfies(k, Lt(b)) <=> k[2] < b[2]
    BY DEF Satisfies
  <2>4. Satisfies(k, Gt1(b)) <=> k[1] > b[1]
    BY DEF Satisfies
  <2>5. Satisfies(k, Lt1(b)) <=> k[1] < b[1]
    BY DEF Satisfies
  <2> QED BY <2>1, <2>2, <2>3, <2>4, <2>5
<1>4. PiecesOf(k, r) = {p \in DOMAIN KeyRangeTerms(lo, hi) : \A t \in KeyRangeTerms(lo, hi)[p] : Satisfies(k, t)}
  BY <1>1 DEF PiecesOf
<1>5. lo \in Int \X Int => lo # NoBound
  BY KeysOrdered
<1>6. hi \in Int \X Int => hi # NoBound
  BY KeysOrdered
<1> HIDE DEF Eq, Ge, Lt, Gt1, Lt1
<1>7. CASE lo = NoBound /\ hi = NoBound
  <2>1. KeyRangeTerms(lo, hi) = <<{}>>
    BY <1>7 DEF KeyRangeTerms
  <2>2. PiecesOf(k, r) = {1}
    BY <1>4, <2>1
  <2> QED BY <1>1, <1>7, <2>2 DEF Within
<1>8. CASE lo = NoBound /\ hi \in Int \X Int
  <2>1. KeyRangeTerms(lo, hi) = <<{Lt1(hi)}, {Eq(hi), Lt(hi)}>>
    <3>1. {} \cup {Lt1(hi)} = {Lt1(hi)} /\ {Eq(hi)} \cup Last2(NoBound, hi) = {Eq(hi), Lt(hi)}
      BY <1>6, <1>8 DEF Last2, Lt
    <3>2. KeyRangeTerms(lo, hi) = <<>> \o <<{} \cup {Lt1(hi)}>> \o <<{Eq(hi)} \cup Last2(NoBound, hi)>>
      BY <1>6, <1>8 DEF KeyRangeTerms, Lt1, Eq
    <3> QED BY <3>1, <3>2, Joins
  <2>2. \A p : p \in PiecesOf(k, r) <=> \/ p = 1 /\ k[1] < hi[1]
                                        \/ p = 2 /\ k[1] = hi[1] /\ k[2] < hi[2]
    BY <1>3, <1>4, <1>8, <2>1
  <2>3. Within(k, r) <=> k[1] < hi[1] \/ (k[1] = hi[1] /\ k[2] < hi[2])
    BY <1>1, <1>6, <1>8 DEF Within, KeyLess
  <2>4. k[1] < hi[1] => PiecesOf(k, r) = {1}
    BY <2>2, <1>2, <1>3, <1>8
  <2>5. k[1] = hi[1] /\ k[2] < hi[2] => PiecesOf(k, r) = {2}
    BY <2>2, <1>2, <1>3, <1>8
  <2> QED BY <2>2, <2>3, <2>4, <2>5
<1>9. CASE lo \in Int \X Int /\ hi = NoBound
  <2>1. KeyRangeTerms(lo, hi) = <<{Eq(lo), Ge(lo)}, {Gt1(lo)}>>
    <3>1. {Gt1(lo)} \cup {} = {Gt1(lo)} /\ {Eq(lo)} \cup Last2(lo, NoBound) = {Eq(lo), Ge(lo)}
      BY <1>5, <1>9 DEF Last2, Ge
    <3>2. KeyRangeTerms(lo, hi) = <<{Eq(lo)} \cup Last2(lo, NoBound)>> \o <<{Gt1(lo)} \cup {}>> \o <<>>
      BY <1>5, <1>9 DEF KeyRangeTerms, Gt1, Eq
    <3> QED BY <3>1, <3>2, Joins
  <2>2. \A p : p \in PiecesOf(k, r) <=> \/ p = 1 /\ k[1] = lo[1] /\ k[2] >= lo[2]
                                        \/ p = 2 /\ k[1] > lo[1]
    BY <1>3, <1>4, <1>9, <2>1
  <2>3. Within(k, r) <=> k[1] > lo[1] \/ (k[1] = lo[1] /\ k[2] >= lo[2])
    BY <1>1, <1>2, <1>3, <1>5, <1>9 DEF Within, KeyLess
  <2>4. k[1] > lo[1] => PiecesOf(k, r) = {2}
    BY <2>2, <1>2, <1>3, <1>9
  <2>5. k[1] = lo[1] /\ k[2] >= lo[2] => PiecesOf(k, r) = {1}
    BY <2>2, <1>2, <1>3, <1>9
  <2> QED BY <2>2, <2>3, <2>4, <2>5
<1>10. CASE lo \in Int \X Int /\ hi \in Int \X Int /\ lo[1] = hi[1]
  <2>0. lo[2] < hi[2]
    BY <1>1, <1>3, <1>5, <1>6, <1>10 DEF IsRange, KeyLess
  <2>1. KeyRangeTerms(lo, hi) = <<{Eq(lo), Ge(lo), Lt(hi)}>>
    BY <1>5, <1>6, <1>10 DEF KeyRangeTerms, Last2, Lt, Eq, Ge
  <2>2. \A p : p \in PiecesOf(k, r) <=> p = 1 /\ k[1] = lo[1] /\ k[2] >= lo[2] /\ k[2] < hi[2]
    BY <1>3, <1>4, <1>10, <2>1
  <2>3. Within(k, r) <=> k[1] = lo[1] /\ k[2] >= lo[2] /\ k[2] < hi[2]
    BY <1>1, <1>2, <1>3, <1>5, <1>6, <1>10 DEF Within, KeyLess
  <2>4. Within(k, r) => PiecesOf(k, r) = {1}
    BY <2>2, <2>3
  <2> QED BY <2>2, <2>3, <2>4
<1>11. CASE lo \in Int \X Int /\ hi \in Int \X Int /\ lo[1] # hi[1]
  <2>0. lo[1] < hi[1]
    BY <1>1, <1>3, <1>5, <1>6, <1>11 DEF IsRange, KeyLess
  <2>1. KeyRangeTerms(lo, hi) = <<{Eq(lo), Ge(lo)}, {Gt1(lo), Lt1(hi)}, {Eq(hi), Lt(hi)}>>
    <3>1. /\ {Gt1(lo)} \cup {Lt1(hi)} = {Gt1(lo), Lt1(hi)}
          /\ {Eq(lo)} \cup Last2(lo, NoBound) = {Eq(lo), Ge(lo)}
          /\ {Eq(hi)} \cup Last2(NoBound, hi) = {Eq(hi), Lt(hi)}
      BY <1>5, <1>6, <1>11 DEF Last2, Lt, Ge
    <3>2. KeyRangeTerms(lo, hi) = <<{Eq(lo)} \cup Last2(lo, NoBound)>> \o <<{Gt1(lo)} \cup {Lt1(hi)}>>
                                      \o <<{Eq(hi)} \cup Last2(NoBound, hi)>>
      BY <1>5, <1>6, <1>11 DEF KeyRangeTerms, Gt1, Lt1, Eq
    <3> QED BY <3>1, <3>2, Joins
  <2>2. \A p : p \in PiecesOf(k, r) <=> \/ p = 1 /\ k[1] = lo[1] /\ k[2] >= lo[2]
                                        \/ p = 2 /\ k[1] > lo[1] /\ k[1] < hi[1]
                                        \/ p = 3 /\ k[1] = hi[1] /\ k[2] < hi[2]
    BY <1>3, <1>4, <1>11, <2>1
  <2>3. Within(k, r) <=> \/ k[1] = lo[1] /\ k[2] >= lo[2]
                         \/ k[1] > lo[1] /\ k[1] < hi[1]
                         \/ k[1] = hi[1] /\ k[2] < hi[2]
    BY <1>1, <1>2, <1>3, <1>5, <1>6, <1>11, <2>0 DEF Within, KeyLess
  <2>4. k[1] = lo[1] /\ k[2] >= lo[2] => PiecesOf(k, r) = {1}
    BY <2>0, <2>2, <1>2, <1>3, <1>11
  <2>5. k[1] > lo[1] /\ k[1] < hi[1] => PiecesOf(k, r) = {2}
    BY <2>0, <2>2, <1>2, <1>3, <1>11
  <2>6. k[1] = hi[1] /\ k[2] < hi[2] => PiecesOf(k, r) = {3}
    BY <2>0, <2>2, <1>2, <1>3, <1>11
  <2> QED BY <2>2, <2>3, <2>4, <2>5, <2>6
<1> QED BY <1>1, <1>7, <1>8, <1>9, <1>10, <1>11 DEF IsRange
-----------------------------------------------------------------------------
\* The row groups in order.
IsGroups(g) ==
    /\ Len(g) \in Nat /\ DOMAIN g = 1 .. Len(g)
    /\ \A i \in DOMAIN g : g[i].key \in Int \X Int /\ g[i].rows \in Nat

Prior(g, h) == {i \in KeyedGroups(g) : Earlier(g, i, h)}

LEMMA EarlierOrders ==
    ASSUME NEW g, IsGroups(g), NEW a \in DOMAIN g, NEW b \in DOMAIN g, NEW c \in DOMAIN g
    PROVE  /\ ~Earlier(g, a, a)
           /\ Earlier(g, a, b) /\ Earlier(g, b, c) => Earlier(g, a, c)
           /\ a = b \/ Earlier(g, a, b) \/ Earlier(g, b, a)
<1>1. /\ a \in Int /\ b \in Int /\ c \in Int
      /\ g[a].rows \in Int /\ g[b].rows \in Int /\ g[c].rows \in Int
      /\ g[a].key \in Int \X Int /\ g[b].key \in Int \X Int /\ g[c].key \in Int \X Int
  BY DEF IsGroups
<1>2. PICK k, l, m, x, y, z : /\ k = g[a].key /\ l = g[b].key /\ m = g[c].key
                              /\ x = g[a].rows /\ y = g[b].rows /\ z = g[c].rows
  OBVIOUS
<1>3. /\ ~KeyLess(k, k)
      /\ KeyLess(k, l) /\ KeyLess(l, m) => KeyLess(k, m)
      /\ k = l \/ KeyLess(k, l) \/ KeyLess(l, k)
  BY <1>1, <1>2, KeysOrdered
<1>4. ~Earlier(g, a, a)
  BY <1>1, <1>2, <1>3 DEF Earlier
<1>5. Earlier(g, a, b) /\ Earlier(g, b, c) => Earlier(g, a, c)
  BY <1>1, <1>2, <1>3 DEF Earlier
<1>6. a = b \/ Earlier(g, a, b) \/ Earlier(g, b, a)
  BY <1>1, <1>2, <1>3 DEF Earlier
<1> QED BY <1>4, <1>5, <1>6

LEMMA PriorGrows ==
    ASSUME NEW g, IsGroups(g)
    PROVE  /\ IsFiniteSet(KeyedGroups(g)) /\ Cardinality(KeyedGroups(g)) \in Nat
           /\ KeyedGroups(g) \subseteq DOMAIN g
           /\ \A h \in KeyedGroups(g) : Cardinality(Prior(g, h)) \in 0 .. Cardinality(KeyedGroups(g)) - 1
           /\ \A h, i \in KeyedGroups(g) : Earlier(g, h, i) => Cardinality(Prior(g, h)) < Cardinality(Prior(g, i))
<1> DEFINE S == KeyedGroups(g)
<1>1. S \subseteq DOMAIN g
  BY DEF KeyedGroups
<1>2. IsFiniteSet(S) /\ Cardinality(S) \in Nat
  BY <1>1, SomeFinite DEF IsGroups
<1> HIDE DEF S
<1>3. \A h \in S : /\ IsFiniteSet(Prior(g, h)) /\ Cardinality(Prior(g, h)) \in Nat
                   /\ Cardinality(Prior(g, h)) <= Cardinality(S) - 1
  <2> SUFFICES ASSUME NEW h \in S
               PROVE  /\ IsFiniteSet(Prior(g, h)) /\ Cardinality(Prior(g, h)) \in Nat
                      /\ Cardinality(Prior(g, h)) <= Cardinality(S) - 1
    OBVIOUS
  <2>1. IsFiniteSet(S \ {h}) /\ Cardinality(S \ {h}) = Cardinality(S) - 1
    BY <1>2, FS_RemoveElement
  <2>2. Prior(g, h) \in SUBSET (S \ {h})
    BY <1>1, EarlierOrders DEF Prior, S
  <2>3. IsFiniteSet(Prior(g, h)) /\ Cardinality(Prior(g, h)) <= Cardinality(S \ {h})
    BY <2>1, <2>2, FS_Subset
  <2> QED BY <2>1, <2>3, FS_CardinalityType
<1>4. \A h, i \in S : Earlier(g, h, i) => Cardinality(Prior(g, h)) < Cardinality(Prior(g, i))
  <2> SUFFICES ASSUME NEW h \in S, NEW i \in S, Earlier(g, h, i)
               PROVE  Cardinality(Prior(g, h)) < Cardinality(Prior(g, i))
    OBVIOUS
  <2>1. h \notin Prior(g, h) /\ h \in Prior(g, i)
    BY <1>1, EarlierOrders DEF Prior, S
  <2>2. Prior(g, h) \subseteq Prior(g, i)
    <3> SUFFICES ASSUME NEW x \in S, Earlier(g, x, h) PROVE Earlier(g, x, i)
      BY DEF Prior, S
    <3> QED BY <1>1, EarlierOrders
  <2>3. Cardinality(Prior(g, h) \cup {h}) = Cardinality(Prior(g, h)) + 1
    BY <1>3, <2>1, FS_AddElement
  <2>4. (Prior(g, h) \cup {h}) \in SUBSET Prior(g, i)
    BY <2>1, <2>2
  <2>5. Cardinality(Prior(g, h) \cup {h}) <= Cardinality(Prior(g, i))
    BY <1>3, <2>4, FS_Subset
  <2> QED BY <1>3, <2>3, <2>5
<1>5. \A h \in S : Cardinality(Prior(g, h)) \in 0 .. Cardinality(S) - 1
  BY <1>2, <1>3
<1> QED BY <1>1, <1>2, <1>4, <1>5 DEF S

\* Every place is a group's.
LEMMA PlaceTaken ==
    ASSUME NEW g, IsGroups(g), NEW n \in 1 .. Cardinality(KeyedGroups(g))
    PROVE  \E h \in KeyedGroups(g) : Cardinality(Prior(g, h)) = n - 1
<1> DEFINE m == Cardinality(KeyedGroups(g))
           S == KeyedGroups(g)
           rank == [h \in S |-> Cardinality(Prior(g, h))]
<1>1. IsFiniteSet(S) /\ m \in Nat /\ S \subseteq DOMAIN g
  BY PriorGrows
<1>2. rank \in [S -> 0 .. m - 1]
  BY PriorGrows
<1> HIDE DEF m
<1>3. \A h, i \in S : rank[h] = rank[i] => h = i
  <2> SUFFICES ASSUME NEW h \in S, NEW i \in S, rank[h] = rank[i], h # i PROVE FALSE
    OBVIOUS
  <2>1. Cardinality(Prior(g, h)) \in Nat /\ Cardinality(Prior(g, i)) \in Nat
    BY PriorGrows
  <2>2. Cardinality(Prior(g, h)) = Cardinality(Prior(g, i))
    BY DEF rank
  <2>3. Earlier(g, h, i) \/ Earlier(g, i, h)
    BY <1>1, EarlierOrders
  <2> QED BY <2>1, <2>2, <2>3, PriorGrows
<1>4. rank \in Injection(S, 0 .. m - 1)
  BY <1>2, <1>3 DEF Injection, IsInjective
<1>5. IsFiniteSet(0 .. m - 1) /\ Cardinality(0 .. m - 1) = m
  <2>1. 0 \in Int /\ m - 1 \in Int /\ (0 > m - 1 <=> m = 0)
    BY <1>1
  <2>2. IsFiniteSet(0 .. m - 1) /\ Cardinality(0 .. m - 1) = IF 0 > m - 1 THEN 0 ELSE (m - 1) - 0 + 1
    BY <2>1, FS_Interval
  <2> QED BY <1>1, <2>1, <2>2
<1>6. rank \in Surjection(S, 0 .. m - 1)
  BY <1>4, <1>5, FS_Injection DEF m
<1>7. n - 1 \in 0 .. m - 1
  BY <1>1 DEF m
<1>8. \E h \in S : rank[h] = n - 1
  BY <1>6, <1>7 DEF Surjection
<1> QED BY <1>8 DEF rank

LEMMA PointsTyped ==
    ASSUME NEW g, IsGroups(g)
    PROVE  /\ Len(Points(g)) \in Nat /\ DOMAIN Points(g) = 1 .. Len(Points(g))
           /\ \A n \in DOMAIN Points(g) : Points(g)[n].key \in Int \X Int
<1>1. PICK m \in Nat : m = Cardinality(KeyedGroups(g))
  BY PriorGrows
<1> DEFINE at(n) == CHOOSE h \in KeyedGroups(g) : Cardinality(Prior(g, h)) = n - 1
<1>2. Points(g) = [n \in 1 .. m |-> g[at(n)]]
  BY <1>1 DEF Points, Prior
<1>3. \A n \in 1 .. m : at(n) \in KeyedGroups(g)
  BY <1>1, PlaceTaken
<1> HIDE DEF at
<1>4. \A n \in 1 .. m : Points(g)[n].key \in Int \X Int
  BY <1>2, <1>3, PriorGrows DEF IsGroups
<1>5. Len(Points(g)) = m /\ DOMAIN Points(g) = 1 .. m
  BY <1>2
<1> QED BY <1>4, <1>5

-----------------------------------------------------------------------------
\* The cuts ascend.
Found(ps, k, total, m, f) ==
    f = [n \in 0 .. m |-> IF n = 0 THEN [acc |-> 0, cuts |-> <<>>] ELSE Cut(k, total, f[n - 1], ps[n])]

LEMMA FoundExist ==
    ASSUME NEW ps, NEW k, NEW total, NEW m \in Nat
    PROVE  \E f : Found(ps, k, total, m, f)
<1> DEFINE Bad == {i \in 0 .. m : ~\E f : Found(ps, k, total, i, f)}
<1>1. ASSUME Bad # {} PROVE FALSE
  <2>1. Min(Bad) \in Bad /\ \A y \in Bad : Min(Bad) <= y
    <3>1. Bad \subseteq Nat
      OBVIOUS
    <3> QED BY <1>1, <3>1, LeastIn
  <2>2. PICK i \in Bad : \A y \in Bad : i <= y
    BY <2>1
  <2>3. i \in 0 .. m /\ ~\E f : Found(ps, k, total, i, f)
    BY <2>2
  <2>4. CASE i = 0
    <3>1. Found(ps, k, total, 0, [n \in 0 .. 0 |-> [acc |-> 0, cuts |-> <<>>]])
      BY DEF Found
    <3> QED BY <3>1, <2>3, <2>4
  <2>5. CASE i # 0
    <3>1. i - 1 \in 0 .. m /\ i - 1 \notin Bad
      BY <2>2, <2>3, <2>5
    <3>2. PICK f : Found(ps, k, total, i - 1, f)
      BY <3>1
    <3> DEFINE e(h, n) == IF n = 0 THEN [acc |-> 0, cuts |-> <<>>] ELSE Cut(k, total, h[n - 1], ps[n])
               g == [n \in 0 .. i |-> e(f, n)]
    <3>3. f = [n \in 0 .. i - 1 |-> e(f, n)]
      BY <3>2 DEF Found
    <3> HIDE DEF e
    <3>9. \A n \in 0 .. i - 1 : f[n] = e(f, n) /\ n \in 0 .. i
      BY <3>3, <2>3
    <3>4. \A n \in 0 .. i - 1 : f[n] = g[n]
      BY <3>9
    <3>5. \A n \in 0 .. i : n = 0 \/ n - 1 \in 0 .. i - 1
      BY <2>3
    <3> USE DEF e
    <3>6. \A n \in 0 .. i : e(f, n) = e(g, n)
      BY <3>4, <3>5
    <3>7. g = [n \in 0 .. i |-> e(g, n)]
      BY <3>6
    <3>8. Found(ps, k, total, i, g)
      BY <3>7 DEF Found
    <3> QED BY <3>8, <2>3
  <2> QED BY <2>4, <2>5
<1>2. m \in 0 .. m /\ m \notin Bad
  BY <1>1
<1> QED BY <1>2

Ascends(s) ==
    /\ s \in Seq(Int \X Int)
    /\ \A i, j \in DOMAIN s : i < j => KeyLess(s[i], s[j])

LEMMA AscendsAt ==
    ASSUME NEW s, Ascends(s), NEW i \in 1 .. Len(s), NEW j \in 1 .. Len(s), i < j
    PROVE  KeyLess(s[i], s[j])
<1>1. DOMAIN s = 1 .. Len(s)
  BY DEF Ascends
<1> QED BY <1>1, Zenon DEF Ascends

LEMMA CutAscends ==
    ASSUME NEW k, NEW total, NEW a, NEW p, Ascends(a.cuts), p.key \in Int \X Int
    PROVE  Ascends(Cut(k, total, a, p).cuts)
<1>1. PICK s, q : s = a.cuts /\ q = p.key
  OBVIOUS
<1>2. \/ Cut(k, total, a, p).cuts = s
      \/ Cut(k, total, a, p).cuts = Append(s, q) /\ (s # <<>> => KeyLess(s[Len(s)], q))
  BY <1>1 DEF Cut
<1>3. ASSUME s # <<>> => KeyLess(s[Len(s)], q) PROVE Ascends(Append(s, q))
  <2>1. s \in Seq(Int \X Int) /\ q \in Int \X Int /\ \A i, j \in DOMAIN s : i < j => KeyLess(s[i], s[j])
    BY <1>1 DEF Ascends
  <2>2. PICK n \in Nat : n = Len(s) /\ DOMAIN s = 1 .. n
    BY <2>1
  <2>3. PICK t : t = Append(s, q)
    OBVIOUS
  <2>4. t \in Seq(Int \X Int) /\ DOMAIN t = 1 .. n + 1 /\ t[n + 1] = q /\ \A i \in 1 .. n : t[i] = s[i]
    BY <2>1, <2>2, <2>3
  <2>5. \A i \in 1 .. n : KeyLess(s[i], q)
    <3> SUFFICES ASSUME NEW i \in 1 .. n PROVE KeyLess(s[i], q)
      OBVIOUS
    <3>1. n \in 1 .. n /\ s # <<>>
      BY <2>1, <2>2
    <3>2. s[i] \in Int \X Int /\ s[n] \in Int \X Int
      BY <2>1, <2>2, <3>1
    <3>3. KeyLess(s[n], q)
      BY <1>3, <2>2, <3>1
    <3>4. i = n \/ KeyLess(s[i], s[n])
      <4>1. i = n \/ i < n
        BY <3>1
      <4> QED BY <1>1, <2>2, <3>1, <4>1, AscendsAt
    <3>5. KeyLess(s[i], s[n]) => KeyLess(s[i], q)
      BY <2>1, <3>2, <3>3, KeysOrdered
    <3> QED BY <3>3, <3>4, <3>5
  <2>6. ASSUME NEW i \in 1 .. n + 1, NEW j \in 1 .. n + 1, i < j PROVE KeyLess(t[i], t[j])
    <3>1. i \in 1 .. n /\ (j = n + 1 \/ j \in 1 .. n)
      BY <2>6
    <3> QED BY <2>1, <2>2, <2>4, <2>5, <2>6, <3>1
  <2> QED BY <2>3, <2>4, <2>6 DEF Ascends
<1> QED BY <1>1, <1>2, <1>3

LEMMA CutsAscend ==
    ASSUME NEW g, IsGroups(g), NEW k
    PROVE  Ascends(Cuts(g, k))
<1>1. PICK ps : ps = Points(g)
  OBVIOUS
<1>2. PICK m \in Nat : m = Len(ps) /\ DOMAIN ps = 1 .. m /\ \A n \in 1 .. m : ps[n].key \in Int \X Int
  BY <1>1, PointsTyped
<1>3. PICK total : total = MapThenSumSet(LAMBDA i : g[i].rows, KeyedGroups(g))
  OBVIOUS
<1> DEFINE f == CHOOSE h : h = [n \in 0 .. m |-> IF n = 0 THEN [acc |-> 0, cuts |-> <<>>] ELSE Cut(k, total, h[n - 1], ps[n])]
<1>4. \E h : h = [n \in 0 .. m |-> IF n = 0 THEN [acc |-> 0, cuts |-> <<>>] ELSE Cut(k, total, h[n - 1], ps[n])]
  <2>1. \E h : Found(ps, k, total, m, h)
    BY FoundExist
  <2> QED BY <2>1, Zenon DEF Found
<1>5. f = [n \in 0 .. m |-> IF n = 0 THEN [acc |-> 0, cuts |-> <<>>] ELSE Cut(k, total, f[n - 1], ps[n])]
  BY <1>4
<1>6. Cuts(g, k) = f[m].cuts
  BY <1>1, <1>2, <1>3 DEF Cuts
<1> HIDE DEF f
<1> DEFINE Bad == {n \in 0 .. m : ~Ascends(f[n].cuts)}
<1>7. ASSUME Bad # {} PROVE FALSE
  <2>1. Bad \subseteq Nat
    OBVIOUS
  <2>2. Min(Bad) \in Bad /\ \A y \in Bad : Min(Bad) <= y
    BY <1>7, <2>1, LeastIn
  <2>3. PICK n \in Bad : \A y \in Bad : n <= y
    BY <2>2
  <2>4. f[n] = IF n = 0 THEN [acc |-> 0, cuts |-> <<>>] ELSE Cut(k, total, f[n - 1], ps[n])
    BY <1>5, <2>3
  <2>5. Ascends(<<>>)
    BY DEF Ascends
  <2>6. CASE n = 0
    BY <2>3, <2>4, <2>5, <2>6
  <2>7. CASE n # 0
    <3>1. n - 1 \in 0 .. m /\ n - 1 \notin Bad /\ n \in 1 .. m
      BY <2>3, <2>7
    <3>2. Ascends(f[n - 1].cuts)
      BY <3>1
    <3>3. Ascends(f[n].cuts)
      BY <1>2, <2>4, <2>7, <3>1, <3>2, CutAscends
    <3> QED BY <2>3, <3>3
  <2> QED BY <2>6, <2>7
<1>8. m \in 0 .. m /\ m \notin Bad
  BY <1>7
<1> QED BY <1>6, <1>8
-----------------------------------------------------------------------------
\* The ranges of a plan, from the cuts.
RangeAt(s, i) == [lo |-> IF i = 0 THEN NoBound ELSE s[i], hi |-> IF i = Len(s) THEN NoBound ELSE s[i + 1]]
IsPlan(p) == \E s : Ascends(s) /\ p = {RangeAt(s, i) : i \in 0 .. Len(s)}

LEMMA PlanIs ==
    ASSUME NEW g, IsGroups(g), NEW k
    PROVE  IsPlan(PlanRanges(g, k, NoBound))
<1>1. PICK s : s = Cuts(g, k) /\ Ascends(s)
  BY CutsAscend
<1>2. PICK n \in Nat : n = Len(s) /\ DOMAIN s = 1 .. n
  BY <1>1 DEF Ascends
<1>3. PastFloor(NoBound, s) = s
  BY DEF PastFloor
<1>4. PICK b : b = <<NoBound>> \o s
  OBVIOUS
<1>5. Len(b) = n + 1 /\ DOMAIN b = 1 .. n + 1 /\ b[1] = NoBound /\ \A i \in 1 .. n : b[i + 1] = s[i]
  <2>1. PICK S : S = (Int \X Int) \cup {NoBound}
    OBVIOUS
  <2>2. s \in Seq(S) /\ <<NoBound>> \in Seq(S) /\ Len(<<NoBound>>) = 1 /\ <<NoBound>>[1] = NoBound
    BY <1>1, <2>1 DEF Ascends
  <2>3. b \in Seq(S) /\ Len(b) = 1 + n
        /\ \A i \in 1 .. 1 + n : b[i] = IF i <= 1 THEN <<NoBound>>[i] ELSE s[i - 1]
    BY <1>2, <1>4, <2>2, ConcatProperties
  <2>4. \A i \in 1 .. n : b[i + 1] = s[i]
    <3> SUFFICES ASSUME NEW i \in 1 .. n PROVE b[i + 1] = s[i]
      OBVIOUS
    <3>1. i + 1 \in 1 .. 1 + n /\ ~(i + 1 <= 1) /\ (i + 1) - 1 = i
      BY <1>2
    <3> QED BY <2>3, <3>1
  <2> QED BY <1>2, <2>2, <2>3, <2>4
<1>6. PlanRanges(g, k, NoBound) =
          {[lo |-> b[i], hi |-> IF i = n + 1 THEN NoBound ELSE b[i + 1]] : i \in 1 .. n + 1}
  BY <1>1, <1>3, <1>4, <1>5 DEF PlanRanges
<1>7. \A i \in 0 .. n : [lo |-> b[i + 1], hi |-> IF i + 1 = n + 1 THEN NoBound ELSE b[(i + 1) + 1]] = RangeAt(s, i)
  <2> SUFFICES ASSUME NEW i \in 0 .. n
               PROVE  [lo |-> b[i + 1], hi |-> IF i + 1 = n + 1 THEN NoBound ELSE b[(i + 1) + 1]] = RangeAt(s, i)
    OBVIOUS
  <2>1. b[i + 1] = IF i = 0 THEN NoBound ELSE s[i]
    BY <1>2, <1>5
  <2>2. i + 1 = n + 1 <=> i = n
    BY <1>2
  <2>3. i # n => b[(i + 1) + 1] = s[i + 1]
    BY <1>2, <1>5
  <2> QED BY <1>2, <2>1, <2>2, <2>3 DEF RangeAt
<1>8. PlanRanges(g, k, NoBound) = {RangeAt(s, i) : i \in 0 .. n}
  <2>1. \A j \in 1 .. n + 1 : j - 1 \in 0 .. n /\ (j - 1) + 1 = j
    BY <1>2
  <2>2. \A i \in 0 .. n : i + 1 \in 1 .. n + 1
    BY <1>2
  <2>3. PICK P : P = PlanRanges(g, k, NoBound)
    OBVIOUS
  <2> DEFINE e(i) == [lo |-> b[i], hi |-> IF i = n + 1 THEN NoBound ELSE b[i + 1]]
  <2>4. P = {e(i) : i \in 1 .. n + 1}
    BY <1>6, <2>3
  <2>5. \A i \in 0 .. n : e(i + 1) = RangeAt(s, i)
    BY <1>7
  <2> HIDE DEF e
  <2>6. ASSUME NEW x \in P PROVE x \in {RangeAt(s, i) : i \in 0 .. n}
    <3>1. PICK j \in 1 .. n + 1 : x = e(j)
      BY <2>4
    <3>2. j - 1 \in 0 .. n /\ e((j - 1) + 1) = RangeAt(s, j - 1)
      BY <2>1, <2>5
    <3> QED BY <3>1, <3>2, <2>1
  <2>7. ASSUME NEW i \in 0 .. n PROVE RangeAt(s, i) \in P
    BY <2>2, <2>4, <2>5
  <2> QED BY <2>3, <2>6, <2>7
<1> QED BY <1>1, <1>2, <1>8 DEF IsPlan

LEMMA RangeAtIs ==
    ASSUME NEW s, Ascends(s), NEW i \in 0 .. Len(s)
    PROVE  /\ IsRange(RangeAt(s, i))
           /\ \A k : Within(k, RangeAt(s, i)) <=> /\ i = 0 \/ ~KeyLess(k, s[i])
                                                  /\ i = Len(s) \/ KeyLess(k, s[i + 1])
<1>1. PICK n \in Nat : n = Len(s) /\ DOMAIN s = 1 .. n
  BY DEF Ascends
<1>2. PICK r : r = RangeAt(s, i)
  OBVIOUS
<1>3. r.lo = (IF i = 0 THEN NoBound ELSE s[i]) /\ r.hi = (IF i = n THEN NoBound ELSE s[i + 1])
  BY <1>1, <1>2 DEF RangeAt
<1>4. i # 0 => s[i] \in Int \X Int /\ s[i] # NoBound
  <2>1. i # 0 => s[i] \in Int \X Int
    BY <1>1 DEF Ascends
  <2> QED BY <2>1, KeysOrdered
<1>5. i # n => s[i + 1] \in Int \X Int /\ s[i + 1] # NoBound
  <2>1. i # n => s[i + 1] \in Int \X Int
    BY <1>1 DEF Ascends
  <2> QED BY <2>1, KeysOrdered
<1>6. i # 0 /\ i # n => KeyLess(s[i], s[i + 1])
  <2>1. i # 0 /\ i # n => i \in DOMAIN s /\ i + 1 \in DOMAIN s /\ i < i + 1
    BY <1>1
  <2> QED BY <2>1 DEF Ascends
<1>7. IsRange(r)
  BY <1>3, <1>4, <1>5, <1>6 DEF IsRange
<1>8. \A k : Within(k, r) <=> (i = 0 \/ ~KeyLess(k, s[i])) /\ (i = n \/ KeyLess(k, s[i + 1]))
  BY <1>3, <1>4, <1>5 DEF Within
<1> QED BY <1>1, <1>2, <1>7, <1>8

\* Every key is in one range of a plan.
LEMMA OneRange ==
    ASSUME NEW p, IsPlan(p), NEW k \in Int \X Int
    PROVE  \E r \in p : Within(k, r) /\ \A q \in p : Within(k, q) => q = r
<1>1. PICK s : Ascends(s) /\ p = {RangeAt(s, i) : i \in 0 .. Len(s)}
  BY DEF IsPlan
<1>2. PICK n \in Nat : n = Len(s) /\ DOMAIN s = 1 .. n /\ \A i \in 1 .. n : s[i] \in Int \X Int
  BY <1>1 DEF Ascends
<1>3. \A i \in 0 .. n : Within(k, RangeAt(s, i)) <=> /\ i = 0 \/ ~KeyLess(k, s[i])
                                                     /\ i = n \/ KeyLess(k, s[i + 1])
  BY <1>1, <1>2, RangeAtIs
<1> DEFINE A == {i \in 0 .. n : i = 0 \/ ~KeyLess(k, s[i])}
<1>4. PICK m \in A : \A i \in A : i <= m
  <2>1. 0 \in A /\ A \subseteq 0 .. n
    OBVIOUS
  <2>2. Max(A) \in A /\ \A y \in A : y <= Max(A)
    BY <2>1, MaxIn
  <2> QED BY <2>2
<1>5. m \in 0 .. n /\ (m = 0 \/ ~KeyLess(k, s[m]))
  BY <1>4
<1>6. m = n \/ KeyLess(k, s[m + 1])
  BY <1>4, <1>5
<1>7. Within(k, RangeAt(s, m))
  BY <1>3, <1>5, <1>6
<1>8. ASSUME NEW i \in 0 .. n, NEW j \in 0 .. n, i < j, Within(k, RangeAt(s, i)), Within(k, RangeAt(s, j))
      PROVE  FALSE
  <2>1. i + 1 \in 1 .. n /\ j \in 1 .. n /\ i + 1 <= j /\ i # n /\ j # 0
    BY <1>8
  <2>2. KeyLess(k, s[i + 1]) /\ ~KeyLess(k, s[j])
    BY <1>3, <1>8, <2>1
  <2>3. i + 1 = j \/ KeyLess(s[i + 1], s[j])
    <3>1. i + 1 \in 1 .. n /\ (i + 1 = j \/ i + 1 < j)
      BY <2>1
    <3> QED BY <1>1, <1>2, <2>1, <3>1, AscendsAt
  <2>4. s[i + 1] \in Int \X Int /\ s[j] \in Int \X Int
    BY <1>2, <2>1
  <2>5. KeyLess(s[i + 1], s[j]) => KeyLess(k, s[j])
    BY <2>2, <2>4, KeysOrdered
  <2> QED BY <2>2, <2>3, <2>5
<1>9. \A i \in 0 .. n : Within(k, RangeAt(s, i)) => i = m
  BY <1>5, <1>7, <1>8
<1> QED BY <1>1, <1>2, <1>5, <1>7, <1>9

LEMMA PlanPartitions ==
    ASSUME NEW p, IsPlan(p), NEW k \in Int \X Int
    PROVE  /\ \E r \in p : InRange(k, r)
           /\ Cardinality(UNION {{<<r, x>> : x \in PiecesOf(k, r)} : r \in p}) = 1
<1>1. PICK r \in p : Within(k, r) /\ \A q \in p : Within(k, q) => q = r
  BY OneRange
<1>2. \A q \in p : IsRange(q)
  <2>1. PICK s : Ascends(s) /\ p = {RangeAt(s, i) : i \in 0 .. Len(s)}
    BY DEF IsPlan
  <2> QED BY <2>1, RangeAtIs
<1>3. PICK y : PiecesOf(k, r) = {y}
  BY <1>1, <1>2, PiecesOne
<1>4. \A q \in p : q # r => PiecesOf(k, q) = {}
  BY <1>1, <1>2, PiecesOne
<1>5. UNION {{<<q, x>> : x \in PiecesOf(k, q)} : q \in p} = {<<r, y>>}
  BY <1>1, <1>3, <1>4
<1>6. Cardinality({<<r, y>>}) = 1
  BY FS_Singleton
<1>7. InRange(k, r)
  BY <1>3 DEF InRange
<1> QED BY <1>1, <1>5, <1>6, <1>7
-----------------------------------------------------------------------------
\* The change columns of the scans: runs of equal states as above.
ScanSet    == UNION {[h -> States] : h \in SUBSET ScanKeys}
ChangeOf(scan) == [k \in DOMAIN scan |-> scan[k].c]
ChangeSet  == {ChangeOf(x) : x \in ScanSet}
Changes(ss) == [n \in DOMAIN ss |-> ChangeOf(ss[n])]

\* Scans with their stamps, and the row of a run of theirs.
History(ss, st) ==
    /\ ss \in Seq(ScanSet) /\ st \in Seq(Nat) /\ Len(ss) = Len(st)
    /\ \A i \in DOMAIN st : st[i] < OpenStamp
    /\ \A i, j \in DOMAIN st : i < j => st[i] < st[j]

UntilOf(ss, st, b) == IF b = Len(ss) THEN OpenStamp ELSE st[b + 1]
RowAt(ss, st, k, a, b) ==
    [key |-> k, c |-> ss[a][k].c, f |-> ss[a][k].x, l |-> ss[b][k].x, vf |-> st[a], vt |-> UntilOf(ss, st, b)]
IsRowOf(ss, st, cs, n, r) == \E k : \E a, b \in 1 .. n : WholeRun(cs, k, a, b) /\ r = RowAt(ss, st, k, a, b)

LEMMA HistoryIs ==
    ASSUME NEW ss, NEW st, History(ss, st)
    PROVE  /\ Len(ss) \in Nat /\ DOMAIN ss = 1 .. Len(ss) /\ DOMAIN st = 1 .. Len(ss)
           /\ \A i \in 1 .. Len(ss) : /\ ss[i] \in ScanSet /\ DOMAIN ss[i] \subseteq ScanKeys
                                      /\ st[i] \in Nat /\ st[i] < OpenStamp /\ st[i] # OpenStamp
           /\ Changes(ss) \in Seq(ChangeSet) /\ Len(Changes(ss)) = Len(ss) /\ DOMAIN Changes(ss) = 1 .. Len(ss)
           /\ \A i \in 1 .. Len(ss) : /\ DOMAIN Changes(ss)[i] = DOMAIN ss[i]
                                      /\ \A k \in DOMAIN ss[i] : Changes(ss)[i][k] = ss[i][k].c
<1>1. /\ Len(ss) \in Nat /\ DOMAIN ss = 1 .. Len(ss) /\ DOMAIN st = 1 .. Len(ss)
      /\ \A i \in 1 .. Len(ss) : ss[i] \in ScanSet /\ st[i] \in Nat
  BY DEF History
<1>2. \A x \in ScanSet : DOMAIN x \subseteq ScanKeys
  BY DEF ScanSet
<1>3. OpenStamp \in Nat
  BY DEF OpenStamp
<1>4. \A i \in 1 .. Len(ss) : st[i] < OpenStamp /\ st[i] # OpenStamp
  BY <1>1, <1>3 DEF History
<1>5. PICK n \in Nat : n = Len(ss)
  BY <1>1
<1>6. Changes(ss) = [i \in 1 .. n |-> ChangeOf(ss[i])]
  BY <1>1, <1>5 DEF Changes
<1>7. \A i \in 1 .. n : ChangeOf(ss[i]) \in ChangeSet
  BY <1>1, <1>5 DEF ChangeSet
<1>8. Changes(ss) \in Seq(ChangeSet) /\ Len(Changes(ss)) = n /\ DOMAIN Changes(ss) = 1 .. n
  BY <1>6, <1>7
<1>9. \A i \in 1 .. n : /\ DOMAIN Changes(ss)[i] = DOMAIN ss[i]
                        /\ \A k \in DOMAIN ss[i] : Changes(ss)[i][k] = ss[i][k].c
  BY <1>6 DEF ChangeOf
<1> QED BY <1>1, <1>2, <1>4, <1>5, <1>8, <1>9

LEMMA SameRunIs ==
    ASSUME NEW ss, NEW st, History(ss, st), NEW k, NEW a \in 1 .. Len(ss), NEW b \in 1 .. Len(ss), a <= b
    PROVE  SameRun(ss, k, a, b) <=> SameState(Changes(ss), k, a, b)
<1>1. PICK n, cs : n = Len(ss) /\ cs = Changes(ss)
  OBVIOUS
<1>2. \A i \in 1 .. n : DOMAIN cs[i] = DOMAIN ss[i] /\ \A q \in DOMAIN ss[i] : cs[i][q] = ss[i][q].c
  BY <1>1, HistoryIs
<1>3. a .. b \subseteq 1 .. n /\ a \in a .. b /\ a \in 1 .. n
  <2>1. n \in Nat
    BY <1>1, HistoryIs
  <2> QED BY <1>1, <2>1
<1>4. ASSUME SameRun(ss, k, a, b) PROVE SameState(cs, k, a, b)
  <2>1. k \in DOMAIN ss[a] /\ \A i \in a .. b : k \in DOMAIN ss[i] /\ ss[i][k].c = ss[a][k].c
    BY <1>3, <1>4 DEF SameRun
  <2> QED BY <1>2, <1>3, <2>1 DEF SameState
<1>5. ASSUME SameState(cs, k, a, b) PROVE SameRun(ss, k, a, b)
  <2>1. k \in DOMAIN cs[a] /\ \A i \in a .. b : k \in DOMAIN cs[i] /\ cs[i][k] = cs[a][k]
    BY <1>3, <1>5 DEF SameState
  <2> QED BY <1>2, <1>3, <2>1 DEF SameRun
<1> QED BY <1>1, <1>4, <1>5

LEMMA IsRunIs ==
    ASSUME NEW ss, NEW st, History(ss, st), NEW k, NEW a \in 1 .. Len(ss), NEW b \in 1 .. Len(ss)
    PROVE  IsRun(ss, k, a, b) <=> WholeRun(Changes(ss), k, a, b)
<1>1. Len(Changes(ss)) = Len(ss) /\ Len(ss) \in Nat
  BY HistoryIs
<1>2. CASE a <= b
  <2>1. SameRun(ss, k, a, b) <=> SameState(Changes(ss), k, a, b)
    BY <1>2, SameRunIs
  <2>2. a # 1 => (SameRun(ss, k, a - 1, b) <=> SameState(Changes(ss), k, a - 1, b))
    <3>1. a # 1 => a - 1 \in 1 .. Len(ss) /\ a - 1 <= b
      BY <1>2
    <3> QED BY <3>1, SameRunIs
  <2>3. b # Len(ss) => (SameRun(ss, k, a, b + 1) <=> SameState(Changes(ss), k, a, b + 1))
    <3>1. b # Len(ss) => b + 1 \in 1 .. Len(ss) /\ a <= b + 1
      BY <1>1, <1>2
    <3> QED BY <3>1, SameRunIs
  <2> QED BY <1>1, <2>1, <2>2, <2>3 DEF IsRun, WholeRun
<1>3. CASE ~(a <= b)
  BY <1>3, Zenon DEF IsRun, WholeRun
<1> QED BY <1>2, <1>3

LEMMA StampedIs ==
    ASSUME NEW ss, NEW st, History(ss, st), NEW r
    PROVE  r \in Stamped(Islands(ss), st)
              <=> IsRowOf(ss, st, Changes(ss), Len(ss), r)
<1>1. PICK n \in Nat : n = Len(ss) /\ DOMAIN ss = 1 .. n /\ Len(st) = n /\ st \in Seq(Nat)
  BY HistoryIs DEF History
<1>2. \A b \in 1 .. n : Append(st, OpenStamp)[b + 1] = IF b = n THEN OpenStamp ELSE st[b + 1]
  BY <1>1
<1> DEFINE isle(k, a, b) == [key |-> k, c |-> ss[a][k].c, f |-> ss[a][k].x, l |-> ss[b][k].x, lo |-> a, hi |-> b]
           row(q) == [key |-> q.key, c |-> q.c, f |-> q.f, l |-> q.l, vf |-> st[q.lo], vt |-> Append(st, OpenStamp)[q.hi + 1]]
<1>3. ASSUME NEW k, NEW a \in 1 .. n, NEW b \in 1 .. n PROVE row(isle(k, a, b)) = RowAt(ss, st, k, a, b)
  BY <1>1, <1>2 DEF RowAt, UntilOf
<1>4. Islands(ss) = {isle(t[1], t[2], t[3]) : t \in {u \in ScanKeys \X (1 .. n) \X (1 .. n) : IsRun(ss, u[1], u[2], u[3])}}
  BY <1>1 DEF Islands
<1>5. Stamped(Islands(ss), st) = {row(q) : q \in Islands(ss)}
  BY DEF Stamped
<1> HIDE DEF isle, row
<1>6. ASSUME r \in Stamped(Islands(ss), st)
      PROVE  \E k : \E a, b \in 1 .. n : WholeRun(Changes(ss), k, a, b) /\ r = RowAt(ss, st, k, a, b)
  <2>1. PICK q \in Islands(ss) : r = row(q)
    BY <1>5, <1>6
  <2>2. PICK u \in ScanKeys \X (1 .. n) \X (1 .. n) : IsRun(ss, u[1], u[2], u[3]) /\ q = isle(u[1], u[2], u[3])
    BY <1>4, <2>1
  <2>3. u[2] \in 1 .. n /\ u[3] \in 1 .. n
    OBVIOUS
  <2>4. WholeRun(Changes(ss), u[1], u[2], u[3])
    BY <1>1, <2>2, <2>3, IsRunIs
  <2>5. r = RowAt(ss, st, u[1], u[2], u[3])
    BY <1>3, <2>1, <2>2, <2>3
  <2> QED BY <2>3, <2>4, <2>5
<1>7. ASSUME NEW k, NEW a \in 1 .. n, NEW b \in 1 .. n, WholeRun(Changes(ss), k, a, b), r = RowAt(ss, st, k, a, b)
      PROVE  r \in Stamped(Islands(ss), st)
  <2>1. IsRun(ss, k, a, b)
    BY <1>1, <1>7, IsRunIs
  <2>2. k \in ScanKeys
    <3>1. a <= b
      BY <1>7, Zenon DEF WholeRun
    <3>2. a \in a .. b
      BY <3>1
    <3>3. k \in DOMAIN Changes(ss)[a]
      BY <1>7, <3>2, RowSays
    <3> QED BY <1>1, <3>3, HistoryIs
  <2>3. PICK u : u = <<k, a, b>>
    OBVIOUS
  <2>4. u \in ScanKeys \X (1 .. n) \X (1 .. n) /\ u[1] = k /\ u[2] = a /\ u[3] = b
    BY <2>2, <2>3
  <2>5. isle(k, a, b) \in Islands(ss)
    BY <1>4, <2>1, <2>4
  <2> QED BY <1>3, <1>5, <1>7, <2>5
<1> QED BY <1>1, <1>6, <1>7 DEF IsRowOf

\* A run of the scans, and the two ends of its row.
LEMMA RunSpans ==
    ASSUME NEW ss, NEW st, History(ss, st), NEW k, NEW a \in 1 .. Len(ss), NEW b \in 1 .. Len(ss),
           WholeRun(Changes(ss), k, a, b)
    PROVE  /\ a <= b
           /\ \A i \in a .. b : i \in 1 .. Len(ss) /\ k \in DOMAIN ss[i] /\ ss[i][k].c = ss[a][k].c
<1>1. PICK n \in Nat : n = Len(ss)
  BY HistoryIs
<1>2. a <= b
  BY Zenon DEF WholeRun
<1>3. \A i \in a .. b : i \in 1 .. n /\ a \in a .. b
  BY <1>1, <1>2
<1>4. \A i \in a .. b : k \in DOMAIN Changes(ss)[i] /\ Changes(ss)[i][k] = Changes(ss)[a][k]
  <2>1. a \in Nat /\ b \in Nat
    BY <1>1
  <2> QED BY <2>1, RowSays
<1>5. \A i \in 1 .. n : /\ DOMAIN Changes(ss)[i] = DOMAIN ss[i]
                        /\ \A q \in DOMAIN ss[i] : Changes(ss)[i][q] = ss[i][q].c
  BY <1>1, HistoryIs
<1>6. \A i \in a .. b : k \in DOMAIN ss[i] /\ ss[i][k].c = ss[a][k].c
  BY <1>1, <1>3, <1>4, <1>5
<1> QED BY <1>1, <1>2, <1>3, <1>6

LEMMA UntilIs ==
    ASSUME NEW ss, NEW st, History(ss, st), NEW b \in 1 .. Len(ss)
    PROVE  UntilOf(ss, st, b) = OpenStamp <=> b = Len(ss)
<1>1. PICK n \in Nat : n = Len(ss)
  BY HistoryIs
<1>2. \A i \in 1 .. n : st[i] # OpenStamp
  BY <1>1, HistoryIs
<1>3. b # n => b + 1 \in 1 .. n
  BY <1>1
<1> QED BY <1>1, <1>2, <1>3 DEF UntilOf

\* Where the stamp of a scan lies in the row of a run.
LEMMA RowStamps ==
    ASSUME NEW ss, NEW st, History(ss, st), NEW a \in 1 .. Len(ss), NEW b \in 1 .. Len(ss), NEW i \in 1 .. Len(ss)
    PROVE  /\ st[i] = st[a] <=> i = a
           /\ st[i] = UntilOf(ss, st, b) <=> i = b + 1
           /\ st[a] <= st[i] <=> a <= i
           /\ st[i] < UntilOf(ss, st, b) <=> i <= b
<1>1. PICK n \in Nat : n = Len(ss)
  BY HistoryIs
<1>2. PICK vt : vt = UntilOf(ss, st, b)
  OBVIOUS
<1>3. vt = IF b = n THEN OpenStamp ELSE st[b + 1]
  BY <1>1, <1>2 DEF UntilOf
<1>4. \A j \in 1 .. n : st[j] \in Nat /\ st[j] < OpenStamp /\ st[j] # OpenStamp
  BY <1>1, HistoryIs
<1>5. \A j, m \in 1 .. n : j < m => st[j] < st[m]
  <2>1. DOMAIN st = 1 .. n
    BY <1>1, HistoryIs
  <2> QED BY <2>1, Zenon DEF History
<1>6. ASSUME NEW m \in 1 .. n, NEW j \in 1 .. n
      PROVE  (st[m] = st[j] <=> m = j) /\ (st[j] <= st[m] <=> j <= m) /\ (st[m] < st[j] <=> m < j)
  <2>1. m < j \/ m = j \/ j < m
    OBVIOUS
  <2> QED BY <1>4, <1>5, <2>1
<1>7. (st[i] = vt <=> i = b + 1) /\ (st[i] < vt <=> i <= b)
  <2>1. CASE b = n
    BY <1>1, <1>3, <1>4, <2>1
  <2>2. CASE b # n
    <3>1. b + 1 \in 1 .. n /\ vt = st[b + 1]
      BY <1>1, <1>3, <2>2
    <3>2. (st[i] = vt <=> i = b + 1) /\ (st[i] < vt <=> i < b + 1)
      BY <1>1, <1>6, <3>1
    <3> QED BY <3>2
  <2> QED BY <2>1, <2>2
<1> QED BY <1>1, <1>2, <1>6, <1>7
-----------------------------------------------------------------------------
\* One scan is appended.  The rows of a key are those of its range alone.
IsRow(r) == r = [key |-> r.key, c |-> r.c, f |-> r.f, l |-> r.l, vf |-> r.vf, vt |-> r.vt]

LEMMA OldRowIs ==
    ASSUME NEW prev, NEW new, NEW stamp, NEW r \in prev, IsRow(r)
    PROVE  /\ r.vt # OpenStamp => OldRow(r, prev, new, stamp) = r
           /\ r.vt = OpenStamp /\ Continues(r, new)
                 => OldRow(r, prev, new, stamp) =
                      [key |-> r.key, c |-> r.c, f |-> r.f, l |-> new[r.key].x, vf |-> r.vf, vt |-> r.vt]
           /\ r.vt = OpenStamp /\ ~Continues(r, new)
                 => OldRow(r, prev, new, stamp) =
                      [key |-> r.key, c |-> r.c, f |-> r.f, l |-> r.l, vf |-> r.vf, vt |-> stamp]
           /\ OldRow(r, prev, new, stamp).key = r.key
<1>1. r \in OpenRows(prev) <=> r.vt = OpenStamp
  BY DEF OpenRows
<1>2. r \in Closes(prev, new) <=> r.vt = OpenStamp /\ ~Continues(r, new)
  BY <1>1 DEF Closes
<1>3. [r EXCEPT !.vt = stamp] = [key |-> r.key, c |-> r.c, f |-> r.f, l |-> r.l, vf |-> r.vf, vt |-> stamp]
  BY DEF IsRow
<1>4. [r EXCEPT !.l = new[r.key].x] =
          [key |-> r.key, c |-> r.c, f |-> r.f, l |-> new[r.key].x, vf |-> r.vf, vt |-> r.vt]
  BY DEF IsRow
<1>5. r.vt # OpenStamp => OldRow(r, prev, new, stamp) = r
  BY <1>1, <1>2 DEF OldRow
<1>6. r.vt = OpenStamp /\ Continues(r, new)
         => OldRow(r, prev, new, stamp) =
              [key |-> r.key, c |-> r.c, f |-> r.f, l |-> new[r.key].x, vf |-> r.vf, vt |-> r.vt]
  BY <1>1, <1>2, <1>4 DEF OldRow
<1>7. r.vt = OpenStamp /\ ~Continues(r, new)
         => OldRow(r, prev, new, stamp) =
              [key |-> r.key, c |-> r.c, f |-> r.f, l |-> r.l, vf |-> r.vf, vt |-> stamp]
  BY <1>1, <1>2, <1>3 DEF OldRow
<1>8. OldRow(r, prev, new, stamp).key = r.key
  BY <1>5, <1>6, <1>7
<1> QED BY <1>5, <1>6, <1>7, <1>8

LEMMA AppendLocal ==
    ASSUME NEW prev, NEW new, NEW stamp, NEW K, \A r \in prev : IsRow(r)
    PROVE  AppendIntervals({r \in prev : r.key \in K}, [k \in {q \in DOMAIN new : q \in K} |-> new[k]], stamp)
              = {x \in AppendIntervals(prev, new, stamp) : x.key \in K}
<1> DEFINE P == {r \in prev : r.key \in K}
           N == [k \in {q \in DOMAIN new : q \in K} |-> new[k]]
<1>1. \A r \in P : r \in prev /\ r.key \in K /\ IsRow(r)
  OBVIOUS
<1>2. (\A k \in K : k \in DOMAIN N <=> k \in DOMAIN new) /\ (\A k \in DOMAIN N : N[k] = new[k] /\ k \in K /\ k \in DOMAIN new)
  OBVIOUS
<1>3. \A r \in P : Continues(r, N) <=> Continues(r, new)
  BY <1>1, <1>2 DEF Continues
<1>4. \A r \in P : Continues(r, new) => N[r.key] = new[r.key]
  BY <1>1, <1>2 DEF Continues
<1>5. \A r : r \in P <=> r \in prev /\ r.key \in K
  OBVIOUS
<1> HIDE DEF P, N
<1>6. ASSUME NEW r \in P PROVE OldRow(r, P, N, stamp) = OldRow(r, prev, new, stamp)
  <2>1. r \in prev /\ IsRow(r)
    BY <1>1
  <2>2. CASE r.vt # OpenStamp
    BY <2>1, <2>2, OldRowIs
  <2>3. CASE r.vt = OpenStamp /\ Continues(r, new)
    <3>1. Continues(r, N) /\ N[r.key] = new[r.key]
      BY <1>3, <1>4, <2>3
    <3>2. OldRow(r, P, N, stamp) = [key |-> r.key, c |-> r.c, f |-> r.f, l |-> N[r.key].x, vf |-> r.vf, vt |-> r.vt]
      BY <2>1, <2>3, <3>1, OldRowIs
    <3>3. OldRow(r, prev, new, stamp) = [key |-> r.key, c |-> r.c, f |-> r.f, l |-> new[r.key].x, vf |-> r.vf, vt |-> r.vt]
      BY <2>1, <2>3, OldRowIs
    <3> QED BY <3>1, <3>2, <3>3
  <2>4. CASE r.vt = OpenStamp /\ ~Continues(r, new)
    <3>1. ~Continues(r, N)
      BY <1>3, <2>4
    <3>2. OldRow(r, P, N, stamp) = [key |-> r.key, c |-> r.c, f |-> r.f, l |-> r.l, vf |-> r.vf, vt |-> stamp]
      BY <2>1, <2>4, <3>1, OldRowIs
    <3>3. OldRow(r, prev, new, stamp) = [key |-> r.key, c |-> r.c, f |-> r.f, l |-> r.l, vf |-> r.vf, vt |-> stamp]
      BY <2>1, <2>4, OldRowIs
    <3> QED BY <3>2, <3>3
  <2> QED BY <2>2, <2>3, <2>4
<1>7. \A k : k \in Opens(P, N) <=> k \in Opens(prev, new) /\ k \in K
  <2>1. ASSUME NEW k \in Opens(P, N) PROVE k \in Opens(prev, new) /\ k \in K
    <3>1. k \in DOMAIN N /\ \A r \in P : r.vt = OpenStamp /\ r.key = k => ~Continues(r, N)
      BY DEF Opens, OpenRows
    <3>2. k \in K /\ k \in DOMAIN new
      BY <1>2, <3>1
    <3>3. \A r \in prev : r.vt = OpenStamp /\ r.key = k => ~Continues(r, new)
      BY <1>3, <1>5, <3>1, <3>2
    <3> QED BY <3>2, <3>3 DEF Opens, OpenRows
  <2>2. ASSUME NEW k \in Opens(prev, new), k \in K PROVE k \in Opens(P, N)
    <3>1. k \in DOMAIN new /\ \A r \in prev : r.vt = OpenStamp /\ r.key = k => ~Continues(r, new)
      BY DEF Opens, OpenRows
    <3>2. k \in DOMAIN N
      BY <1>2, <2>2, <3>1
    <3>3. \A r \in P : r.vt = OpenStamp /\ r.key = k => ~Continues(r, N)
      BY <1>1, <1>3, <3>1
    <3> QED BY <3>2, <3>3 DEF Opens, OpenRows
  <2> QED BY <2>1, <2>2
<1>8. \A k \in Opens(P, N) : NewRow(k, N, stamp) = NewRow(k, new, stamp)
  <2>1. \A k \in Opens(P, N) : N[k] = new[k]
    BY <1>2 DEF Opens
  <2> QED BY <2>1 DEF NewRow
<1>9. \A k : NewRow(k, new, stamp).key = k
  BY DEF NewRow
<1>10. ASSUME NEW x \in AppendIntervals(P, N, stamp) PROVE x \in AppendIntervals(prev, new, stamp) /\ x.key \in K
  <2>1. CASE \E r \in P : x = OldRow(r, P, N, stamp)
    <3>1. PICK r \in P : x = OldRow(r, P, N, stamp)
      BY <2>1
    <3>2. x = OldRow(r, prev, new, stamp) /\ r \in prev /\ r.key \in K /\ IsRow(r)
      BY <1>1, <1>6, <3>1
    <3>3. x.key = r.key
      BY <3>2, OldRowIs
    <3> QED BY <3>2, <3>3 DEF AppendIntervals
  <2>2. CASE \E k \in Opens(P, N) : x = NewRow(k, N, stamp)
    <3>1. PICK k \in Opens(P, N) : x = NewRow(k, N, stamp)
      BY <2>2
    <3>2. x = NewRow(k, new, stamp) /\ k \in Opens(prev, new) /\ k \in K /\ x.key = k
      BY <1>7, <1>8, <1>9, <3>1
    <3> QED BY <3>2 DEF AppendIntervals
  <2> QED BY <2>1, <2>2 DEF AppendIntervals
<1>11. ASSUME NEW x \in AppendIntervals(prev, new, stamp), x.key \in K PROVE x \in AppendIntervals(P, N, stamp)
  <2>1. CASE \E r \in prev : x = OldRow(r, prev, new, stamp)
    <3>1. PICK r \in prev : x = OldRow(r, prev, new, stamp)
      BY <2>1
    <3>2. x.key = r.key
      BY <3>1, OldRowIs
    <3>3. r \in P
      BY <1>5, <1>11, <3>2
    <3> QED BY <1>6, <3>1, <3>3 DEF AppendIntervals
  <2>2. CASE \E k \in Opens(prev, new) : x = NewRow(k, new, stamp)
    <3>1. PICK k \in Opens(prev, new) : x = NewRow(k, new, stamp)
      BY <2>2
    <3>2. k \in Opens(P, N)
      BY <1>7, <1>9, <1>11, <3>1
    <3> QED BY <1>8, <3>1, <3>2 DEF AppendIntervals
  <2> QED BY <2>1, <2>2 DEF AppendIntervals
<1>12. AppendIntervals(P, N, stamp) = {x \in AppendIntervals(prev, new, stamp) : x.key \in K}
  BY <1>10, <1>11
<1> QED BY <1>12 DEF P, N

\* A run up to the last scan that goes on in the next one.
LEMMA WholeBack ==
    ASSUME NEW S, NEW ss \in Seq(S), NEW cur \in S, NEW k, NEW a \in 1 .. Len(ss),
           WholeRun(Append(ss, cur), k, a, Len(ss) + 1)
    PROVE  WholeRun(ss, k, a, Len(ss)) /\ k \in DOMAIN cur /\ cur[k] = ss[a][k]
<1> DEFINE tt == Append(ss, cur)
           n  == Len(ss)
<1>0. n \in Nat /\ Len(tt) = n + 1 /\ tt[n + 1] = cur /\ \A m \in 1 .. n : tt[m] = ss[m]
  OBVIOUS
<1>1. a \in Nat /\ 1 <= a /\ a <= n /\ n <= n /\ (a # 1 => a - 1 \in 1 .. n) /\ a \in a .. n + 1 /\ n \in a .. n + 1 /\ n + 1 \in a .. n + 1
  BY <1>0
<1>2. SameState(tt, k, a, n) <=> SameState(ss, k, a, n)
  BY SameBefore, <1>0, <1>1
<1>3. a # 1 => (SameState(tt, k, a - 1, n) <=> SameState(ss, k, a - 1, n))
  BY SameBefore, <1>0, <1>1
<1>9. \A m \in a .. n : m \in a .. n + 1
  BY <1>0
<1>8. a # 1 => (\A m \in a - 1 .. n + 1 : m = n + 1 \/ m \in a - 1 .. n) /\ n \in a - 1 .. n
  BY <1>0, <1>1
<1>10. tt[a] = ss[a]
  BY <1>0, <1>1
<1> HIDE DEF tt, n
<1>4. SameState(tt, k, a, n + 1) /\ (a = 1 \/ ~SameState(tt, k, a - 1, n + 1))
  BY Zenon DEF WholeRun, tt, n
<1>5. SameState(tt, k, a, n) /\ k \in DOMAIN cur /\ cur[k] = ss[a][k]
  BY <1>0, <1>1, <1>4, <1>9, <1>10 DEF SameState
<1>6. a # 1 => ~SameState(tt, k, a - 1, n)
  <2> SUFFICES ASSUME a # 1, SameState(tt, k, a - 1, n) PROVE FALSE
    OBVIOUS
  <2>1. tt[a][k] = tt[a - 1][k]
    <3>1. a \in a - 1 .. n
      BY <1>0, <1>1
    <3> QED BY <3>1 DEF SameState
  <2>2. SameState(tt, k, a - 1, n + 1)
    <3>1. tt[n + 1][k] = tt[a - 1][k] /\ k \in DOMAIN tt[n + 1]
      BY <1>0, <1>5, <1>10, <2>1
    <3> QED BY <1>8, <3>1 DEF SameState
  <2> QED BY <1>4, <2>2
<1>7. WholeRun(ss, k, a, n)
  BY <1>1, <1>2, <1>3, <1>5, <1>6, Zenon DEF WholeRun, n
<1> QED BY <1>5, <1>7 DEF n
-----------------------------------------------------------------------------
\* Appending a scan gives the rows of a rebuild.
LEMMA HistoryNext ==
    ASSUME NEW ss, NEW st, History(ss, st), NEW new \in ScanSet, NEW stamp \in Nat, stamp < OpenStamp,
           \A i \in 1 .. Len(ss) : st[i] < stamp
    PROVE  /\ History(Append(ss, new), Append(st, stamp))
           /\ Changes(Append(ss, new)) = Append(Changes(ss), ChangeOf(new))
           /\ ChangeOf(new) \in ChangeSet /\ DOMAIN ChangeOf(new) = DOMAIN new
           /\ \A k \in DOMAIN new : ChangeOf(new)[k] = new[k].c
<1>1. PICK n \in Nat : n = Len(ss) /\ DOMAIN ss = 1 .. n /\ Len(st) = n /\ DOMAIN st = 1 .. n
  BY HistoryIs DEF History
<1>2. /\ ss \in Seq(ScanSet) /\ st \in Seq(Nat)
      /\ \A i \in 1 .. n : st[i] < OpenStamp
      /\ \A i, j \in 1 .. n : i < j => st[i] < st[j]
  BY <1>1 DEF History
<1>3. PICK tt, su : tt = Append(ss, new) /\ su = Append(st, stamp)
  OBVIOUS
<1>4. /\ tt \in Seq(ScanSet) /\ Len(tt) = n + 1 /\ DOMAIN tt = 1 .. n + 1 /\ tt[n + 1] = new
      /\ \A i \in 1 .. n : tt[i] = ss[i]
  BY <1>1, <1>2, <1>3
<1>5. /\ su \in Seq(Nat) /\ Len(su) = n + 1 /\ DOMAIN su = 1 .. n + 1 /\ su[n + 1] = stamp
      /\ \A i \in 1 .. n : su[i] = st[i]
  BY <1>1, <1>2, <1>3
<1>6. \A i \in 1 .. n + 1 : i = n + 1 \/ i \in 1 .. n
  OBVIOUS
<1>7. \A i \in 1 .. n + 1 : su[i] < OpenStamp
  BY <1>2, <1>5, <1>6
<1>8. ASSUME NEW i \in 1 .. n + 1, NEW j \in 1 .. n + 1, i < j PROVE su[i] < su[j]
  <2>1. i \in 1 .. n
    BY <1>8
  <2>2. CASE j = n + 1
    BY <1>1, <1>5, <2>1, <2>2
  <2>3. CASE j \in 1 .. n
    BY <1>2, <1>5, <1>8, <2>1, <2>3
  <2> QED BY <1>6, <2>2, <2>3
<1>9. History(tt, su)
  BY <1>4, <1>5, <1>7, <1>8 DEF History
<1>10. Changes(tt) = Append(Changes(ss), ChangeOf(new))
  <2>1. Changes(ss) = [i \in 1 .. n |-> ChangeOf(ss[i])] /\ Changes(tt) = [i \in 1 .. n + 1 |-> ChangeOf(tt[i])]
    BY <1>1, <1>4 DEF Changes
  <2>2. PICK u, v : u = Changes(tt) /\ v = Append(Changes(ss), ChangeOf(new))
    OBVIOUS
  <2>3. ChangeOf(new) \in ChangeSet /\ \A i \in 1 .. n : ss[i] \in ScanSet /\ ChangeOf(ss[i]) \in ChangeSet
    BY <1>1, <1>2 DEF ChangeSet
  <2>4. Changes(ss) \in Seq(ChangeSet) /\ Len(Changes(ss)) = n
    BY <1>1, HistoryIs
  <2>5. v \in Seq(ChangeSet) /\ Len(v) = n + 1 /\ v[n + 1] = ChangeOf(new) /\ \A i \in 1 .. n : v[i] = Changes(ss)[i]
    BY <2>2, <2>3, <2>4
  <2>6. u \in Seq(ChangeSet) /\ Len(u) = n + 1
    <3>1. u = [i \in 1 .. n + 1 |-> ChangeOf(tt[i])] /\ \A i \in 1 .. n + 1 : ChangeOf(tt[i]) \in ChangeSet
      BY <1>4, <1>6, <2>1, <2>2, <2>3
    <3> QED BY <3>1
  <2>7. \A i \in 1 .. n + 1 : u[i] = v[i]
    BY <1>4, <1>6, <2>1, <2>2, <2>5
  <2> QED BY <2>2, <2>5, <2>6, <2>7, SeqEqual
<1>11. ChangeOf(new) \in ChangeSet
  BY DEF ChangeSet
<1> QED BY <1>3, <1>9, <1>10, <1>11 DEF ChangeOf

LEMMA RowAtFields ==
    ASSUME NEW ss, NEW st, NEW k, NEW a, NEW b
    PROVE  LET r == RowAt(ss, st, k, a, b)
           IN  /\ r.key = k /\ r.c = ss[a][k].c /\ r.f = ss[a][k].x /\ r.l = ss[b][k].x /\ r.vf = st[a]
               /\ r.vt = UntilOf(ss, st, b)
               /\ IsRow(r)
BY DEF RowAt, IsRow

LEMMA AppendRebuilds ==
    ASSUME NEW ss, NEW st, History(ss, st), NEW new \in ScanSet, NEW stamp \in Nat, stamp < OpenStamp,
           \A i \in 1 .. Len(ss) : st[i] < stamp
    PROVE  AppendIntervals(Stamped(Islands(ss), st), new, stamp)
              = Stamped(Islands(Append(ss, new)), Append(st, stamp))
<1>1. PICK n \in Nat : n = Len(ss) /\ DOMAIN ss = 1 .. n /\ Len(st) = n /\ DOMAIN st = 1 .. n
  BY HistoryIs DEF History
<1>2. PICK tt, su, cs, cur, old, all :
          /\ tt = Append(ss, new) /\ su = Append(st, stamp) /\ cs = Changes(ss) /\ cur = ChangeOf(new)
          /\ old = Stamped(Islands(ss), st) /\ all = AppendIntervals(old, new, stamp)
  OBVIOUS
<1>3. /\ History(tt, su) /\ Changes(tt) = Append(cs, cur) /\ cur \in ChangeSet /\ DOMAIN cur = DOMAIN new
      /\ \A k \in DOMAIN new : cur[k] = new[k].c
  BY <1>2, HistoryNext
<1>4. /\ cs \in Seq(ChangeSet) /\ Len(cs) = n /\ DOMAIN cs = 1 .. n
      /\ \A i \in 1 .. n : DOMAIN cs[i] = DOMAIN ss[i] /\ \A k \in DOMAIN ss[i] : cs[i][k] = ss[i][k].c
  BY <1>1, <1>2, HistoryIs
<1>5. /\ Len(tt) = n + 1 /\ tt[n + 1] = new /\ \A i \in 1 .. n : tt[i] = ss[i]
      /\ Len(su) = n + 1 /\ su[n + 1] = stamp /\ \A i \in 1 .. n : su[i] = st[i]
  BY <1>1, <1>2 DEF History
<1>6. \A r : r \in old <=> IsRowOf(ss, st, cs, n, r)
  BY <1>1, <1>2, StampedIs
<1>7. \A r : r \in Stamped(Islands(tt), su) <=> IsRowOf(tt, su, Append(cs, cur), n + 1, r)
  <2>1. \A r : r \in Stamped(Islands(tt), su) <=> IsRowOf(tt, su, Changes(tt), Len(tt), r)
    BY <1>3, StampedIs
  <2>2. Changes(tt) = Append(cs, cur) /\ Len(tt) = n + 1
    BY <1>3, <1>5
  <2> QED BY <2>1, <2>2
<1>8. ASSUME NEW k, NEW a \in 1 .. n, NEW b \in 1 .. n, WholeRun(cs, k, a, b)
      PROVE  /\ a <= b /\ RowAt(ss, st, k, a, b) \in old
             /\ RowAt(ss, st, k, a, b).vt = OpenStamp <=> b = n
             /\ b < n => OldRow(RowAt(ss, st, k, a, b), old, new, stamp) = RowAt(tt, su, k, a, b)
             /\ b = n /\ k \in DOMAIN cur /\ cur[k] = cs[a][k]
                   => OldRow(RowAt(ss, st, k, a, b), old, new, stamp) = RowAt(tt, su, k, a, n + 1)
             /\ b = n /\ ~(k \in DOMAIN cur /\ cur[k] = cs[a][k])
                   => OldRow(RowAt(ss, st, k, a, b), old, new, stamp) = RowAt(tt, su, k, a, n)
  <2>1. PICK r : r = RowAt(ss, st, k, a, b)
    OBVIOUS
  <2>2. /\ r.key = k /\ r.c = ss[a][k].c /\ r.f = ss[a][k].x /\ r.l = ss[b][k].x /\ r.vf = st[a] /\ IsRow(r)
        /\ r.vt = UntilOf(ss, st, b)
    BY <1>1, <2>1, RowAtFields
  <2>3. r \in old
    BY <1>6, <1>8, <2>1 DEF IsRowOf
  <2>4. a <= b /\ (r.vt = OpenStamp <=> b = n) /\ \A i \in a .. b : k \in DOMAIN ss[i]
    <3>1. a \in 1 .. Len(ss) /\ b \in 1 .. Len(ss) /\ WholeRun(Changes(ss), k, a, b)
      BY <1>1, <1>2, <1>8
    <3>2. a <= b /\ (UntilOf(ss, st, b) = OpenStamp <=> b = Len(ss)) /\ \A i \in a .. b : k \in DOMAIN ss[i]
      <4>1. a <= b /\ \A i \in a .. b : k \in DOMAIN ss[i]
        BY <3>1, RunSpans
      <4>2. UntilOf(ss, st, b) = OpenStamp <=> b = Len(ss)
        BY <3>1, UntilIs
      <4> QED BY <4>1, <4>2
    <3> QED BY <1>1, <2>2, <3>2
  <2>5. k \in DOMAIN ss[a] /\ cs[a][k] = ss[a][k].c
    <3>1. a \in a .. b
      BY <2>4
    <3> QED BY <1>4, <2>4, <3>1
  <2>6. Continues(r, new) <=> k \in DOMAIN cur /\ cur[k] = cs[a][k]
    BY <1>3, <2>2, <2>5 DEF Continues
  <2>7. CASE b < n
    <3>1. OldRow(r, old, new, stamp) = r
      <4>1. r.vt # OpenStamp
        BY <2>4, <2>7
      <4> QED BY <2>2, <2>3, <4>1, OldRowIs
    <3>2. /\ tt[a] = ss[a] /\ tt[b] = ss[b] /\ su[a] = st[a] /\ su[b + 1] = st[b + 1]
          /\ b # Len(tt) /\ b # Len(ss) /\ b # n
      BY <1>1, <1>5, <2>7
    <3>3. RowAt(tt, su, k, a, b) = r
      BY <2>1, <3>2 DEF RowAt, UntilOf
    <3> QED BY <2>1, <2>3, <2>4, <2>7, <3>1, <3>2, <3>3
  <2>8. CASE b = n /\ Continues(r, new)
    <3>1. OldRow(r, old, new, stamp) = [key |-> r.key, c |-> r.c, f |-> r.f, l |-> new[r.key].x, vf |-> r.vf, vt |-> r.vt]
      <4>1. r.vt = OpenStamp
        BY <2>4, <2>8
      <4> QED BY <2>2, <2>3, <2>8, <4>1, OldRowIs
    <3>2. tt[a] = ss[a] /\ tt[n + 1] = new /\ su[a] = st[a] /\ n + 1 = Len(tt) /\ r.vt = OpenStamp /\ ~(b < n)
      BY <1>1, <1>5, <2>4, <2>8
    <3>3. RowAt(tt, su, k, a, n + 1) = [key |-> k, c |-> ss[a][k].c, f |-> ss[a][k].x, l |-> new[k].x, vf |-> st[a], vt |-> OpenStamp]
      BY <3>2 DEF RowAt, UntilOf
    <3> QED BY <2>1, <2>2, <2>3, <2>4, <2>6, <2>8, <3>1, <3>2, <3>3
  <2>9. CASE b = n /\ ~Continues(r, new)
    <3>1. OldRow(r, old, new, stamp) = [key |-> r.key, c |-> r.c, f |-> r.f, l |-> r.l, vf |-> r.vf, vt |-> stamp]
      <4>1. r.vt = OpenStamp
        BY <2>4, <2>9
      <4> QED BY <2>2, <2>3, <2>9, <4>1, OldRowIs
    <3>2. tt[a] = ss[a] /\ tt[n] = ss[n] /\ su[n + 1] = stamp /\ su[a] = st[a] /\ n # Len(tt) /\ ~(b < n)
      BY <1>1, <1>5, <2>9
    <3>3. RowAt(tt, su, k, a, n) = [key |-> k, c |-> ss[a][k].c, f |-> ss[a][k].x, l |-> ss[n][k].x, vf |-> st[a], vt |-> stamp]
      BY <3>2 DEF RowAt, UntilOf
    <3> QED BY <2>1, <2>2, <2>3, <2>4, <2>6, <2>9, <3>1, <3>2, <3>3
  <2> QED BY <1>1, <2>7, <2>8, <2>9
<1>9. ASSUME NEW r \in old PROVE OldRow(r, old, new, stamp) \in Stamped(Islands(tt), su)
  <2>1. PICK k : \E a, b \in 1 .. n : WholeRun(cs, k, a, b) /\ r = RowAt(ss, st, k, a, b)
    BY <1>6 DEF IsRowOf
  <2>2. PICK a \in 1 .. n, b \in 1 .. n : WholeRun(cs, k, a, b) /\ r = RowAt(ss, st, k, a, b)
    BY <2>1
  <2>3. a \in Nat /\ b \in Nat /\ 1 <= a /\ a <= b /\ a \in 1 .. n + 1 /\ b \in 1 .. n + 1 /\ n + 1 \in 1 .. n + 1
    <3>1. a <= b
      BY <1>8, <2>2
    <3> QED BY <3>1
  <2>4. CASE b < n
    <3>1. WholeRun(Append(cs, cur), k, a, b)
      BY <1>3, <1>4, <2>2, <2>3, <2>4, WholeBefore
    <3>2. OldRow(r, old, new, stamp) = RowAt(tt, su, k, a, b)
      BY <1>8, <2>2, <2>4
    <3> QED BY <1>7, <2>3, <3>1, <3>2 DEF IsRowOf
  <2>5. CASE b = n /\ k \in DOMAIN cur /\ cur[k] = cs[a][k]
    <3>1. WholeRun(Append(cs, cur), k, a, n + 1)
      BY <1>3, <1>4, <2>2, <2>5, WholeNext
    <3>2. OldRow(r, old, new, stamp) = RowAt(tt, su, k, a, n + 1)
      BY <1>8, <2>2, <2>5
    <3> QED BY <1>7, <2>3, <3>1, <3>2 DEF IsRowOf
  <2>6. CASE b = n /\ ~(k \in DOMAIN cur /\ cur[k] = cs[a][k])
    <3>1. WholeRun(Append(cs, cur), k, a, n)
      BY <1>3, <1>4, <2>2, <2>6, WholeLast
    <3>2. OldRow(r, old, new, stamp) = RowAt(tt, su, k, a, n)
      BY <1>8, <2>2, <2>6
    <3> QED BY <1>7, <2>3, <2>6, <3>1, <3>2 DEF IsRowOf
  <2> QED BY <2>4, <2>5, <2>6
<1>10. ASSUME NEW k \in DOMAIN new
       PROVE  NewRow(k, new, stamp) = RowAt(tt, su, k, n + 1, n + 1)
  BY <1>5 DEF NewRow, RowAt, UntilOf
<1>11. ASSUME NEW k \in Opens(old, new) PROVE NewRow(k, new, stamp) \in Stamped(Islands(tt), su)
  <2>1. k \in DOMAIN new /\ \A r \in old : r.vt = OpenStamp /\ r.key = k => ~Continues(r, new)
    BY DEF Opens, OpenRows
  <2>2. n = 0 \/ k \notin DOMAIN cs[n] \/ cs[n][k] # cur[k]
    <3> SUFFICES ASSUME n # 0, k \in DOMAIN cs[n], cs[n][k] = cur[k] PROVE FALSE
      OBVIOUS
    <3>1. n \in 1 .. Len(cs) /\ Len(cs) \in Nat /\ Len(cs) = n
      BY <1>4
    <3>2. PICK a \in 1 .. n, b \in n .. n : WholeRun(cs, k, a, b)
      BY <3>1, RunAround
    <3>3. b = n /\ a \in 1 .. n /\ b \in 1 .. n
      BY <3>1
    <3>4. PICK r : r = RowAt(ss, st, k, a, n)
      OBVIOUS
    <3>5. r \in old /\ r.vt = OpenStamp
      BY <1>8, <3>2, <3>3, <3>4
    <3>6. r.key = k /\ r.c = ss[a][k].c
      BY <3>4, RowAtFields
    <3>7. k \in DOMAIN cs[a] /\ cs[n][k] = cs[a][k]
      <4>1. a \in Nat /\ n \in a .. n /\ a \in a .. n
        BY <3>3
      <4> QED BY <3>2, <3>3, <4>1, RowSays
    <3>8. cs[a][k] = ss[a][k].c /\ cur[k] = new[k].c
      BY <1>3, <1>4, <2>1, <3>3, <3>7
    <3>9. Continues(r, new)
      BY <2>1, <3>6, <3>7, <3>8 DEF Continues
    <3> QED BY <2>1, <3>5, <3>6, <3>9
  <2>3. WholeRun(Append(cs, cur), k, n + 1, n + 1)
    BY <1>3, <1>4, <2>1, <2>2, WholeNext
  <2>4. n + 1 \in 1 .. n + 1
    OBVIOUS
  <2> QED BY <1>7, <1>10, <2>1, <2>3, <2>4 DEF IsRowOf
<1>12. ASSUME NEW x \in Stamped(Islands(tt), su) PROVE x \in all
  <2>1. PICK k : \E a, b \in 1 .. n + 1 : WholeRun(Append(cs, cur), k, a, b) /\ x = RowAt(tt, su, k, a, b)
    BY <1>7 DEF IsRowOf
  <2>2. PICK a \in 1 .. n + 1, b \in 1 .. n + 1 : WholeRun(Append(cs, cur), k, a, b) /\ x = RowAt(tt, su, k, a, b)
    BY <2>1
  <2>3. a <= b /\ a \in Nat /\ b \in Nat /\ 1 <= a
    <3>1. a <= b
      BY <2>2, Zenon DEF WholeRun
    <3> QED BY <3>1
  <2>4. \A r \in old : OldRow(r, old, new, stamp) \in all
    BY <1>2 DEF AppendIntervals
  <2>5. CASE b < n
    <3>1. WholeRun(cs, k, a, b) /\ a \in 1 .. n /\ b \in 1 .. n
      BY <1>3, <1>4, <2>2, <2>3, <2>5, WholeBefore
    <3>2. RowAt(ss, st, k, a, b) \in old /\ OldRow(RowAt(ss, st, k, a, b), old, new, stamp) = x
      BY <1>8, <2>2, <2>5, <3>1
    <3> QED BY <2>4, <3>2
  <2>6. CASE b = n
    <3>1. a \in 1 .. n /\ n \in 1 .. n
      BY <2>3, <2>6
    <3>2. WholeRun(cs, k, a, n) /\ ~(k \in DOMAIN cur /\ cur[k] = cs[a][k])
      BY <1>3, <1>4, <2>2, <2>6, <3>1, WholeLast
    <3>3. RowAt(ss, st, k, a, n) \in old /\ OldRow(RowAt(ss, st, k, a, n), old, new, stamp) = x
      BY <1>8, <2>2, <2>6, <3>1, <3>2
    <3> QED BY <2>4, <3>3
  <2>7. CASE b = n + 1 /\ a \in 1 .. n
    <3>1. WholeRun(cs, k, a, n) /\ k \in DOMAIN cur /\ cur[k] = cs[a][k] /\ n \in 1 .. n
      <4>1. WholeRun(Append(cs, cur), k, a, n + 1) /\ a \in 1 .. n
        BY <2>2, <2>7
      <4>2. n \in 1 .. n
        BY <4>1
      <4> QED BY <1>3, <1>4, <4>1, <4>2, WholeBack
    <3>2. RowAt(ss, st, k, a, n) \in old /\ OldRow(RowAt(ss, st, k, a, n), old, new, stamp) = x
      BY <1>8, <2>2, <2>7, <3>1
    <3> QED BY <2>4, <3>2
  <2>8. CASE b = n + 1 /\ a = n + 1
    <3>1. k \in DOMAIN cur /\ (n # 0 => ~SameState(Append(cs, cur), k, n, n + 1))
      <4>1. SameState(Append(cs, cur), k, n + 1, n + 1) /\ (n + 1 = 1 \/ ~SameState(Append(cs, cur), k, (n + 1) - 1, n + 1))
        BY <2>2, <2>8, Zenon DEF WholeRun
      <4>2. n + 1 \in n + 1 .. n + 1 /\ Append(cs, cur)[n + 1] = cur /\ (n + 1) - 1 = n /\ (n + 1 = 1 <=> n = 0)
        BY <1>4
      <4>3. k \in DOMAIN cur
        BY <4>1, <4>2 DEF SameState
      <4> QED BY <4>1, <4>2, <4>3
    <3>2. k \in Opens(old, new)
      <4> SUFFICES ASSUME NEW r \in old, r.vt = OpenStamp, r.key = k, Continues(r, new) PROVE FALSE
        BY <1>3, <3>1 DEF Opens, OpenRows
      <4>1. PICK q : \E i, j \in 1 .. n : WholeRun(cs, q, i, j) /\ r = RowAt(ss, st, q, i, j)
        BY <1>6 DEF IsRowOf
      <4>2. PICK i \in 1 .. n, j \in 1 .. n : WholeRun(cs, q, i, j) /\ r = RowAt(ss, st, q, i, j)
        BY <4>1
      <4>3. q = k /\ r.c = ss[i][k].c
        BY <4>2, RowAtFields
      <4>4. j = n /\ i <= j
        BY <1>8, <4>2
      <4>5. i \in Nat /\ n \in i .. n /\ i \in i .. n /\ n \in 1 .. n
        BY <4>4
      <4>6. k \in DOMAIN cs[n] /\ cs[n][k] = cs[i][k] /\ k \in DOMAIN cs[i]
        BY <4>2, <4>3, <4>4, <4>5, RowSays
      <4>7. cur[k] = cs[i][k]
        BY <1>3, <1>4, <3>1, <4>3, <4>6 DEF Continues
      <4>8. SameState(Append(cs, cur), k, n, n + 1)
        <5>1. \A m \in n .. n + 1 : m = n \/ m = n + 1
          OBVIOUS
        <5>2. Append(cs, cur)[n] = cs[n] /\ Append(cs, cur)[n + 1] = cur
          BY <1>4, <4>5
        <5> QED BY <3>1, <4>6, <4>7, <5>1, <5>2 DEF SameState
      <4> QED BY <3>1, <4>5, <4>8
    <3>3. x = NewRow(k, new, stamp)
      BY <1>3, <1>10, <2>2, <2>8, <3>1
    <3> QED BY <1>2, <3>2, <3>3 DEF AppendIntervals
  <2> QED BY <2>3, <2>5, <2>6, <2>7, <2>8
<1>13. ASSUME NEW x \in all PROVE x \in Stamped(Islands(tt), su)
  <2>1. (\E r \in old : x = OldRow(r, old, new, stamp)) \/ (\E k \in Opens(old, new) : x = NewRow(k, new, stamp))
    BY <1>2 DEF AppendIntervals
  <2> QED BY <1>9, <1>11, <2>1
<1> QED BY <1>2, <1>12, <1>13
-----------------------------------------------------------------------------
\* What the rows of a table say of the scans it was built from.

\* Two runs of a key that share a scan are one.
LEMMA OneRun ==
    ASSUME NEW ss, Len(ss) \in Nat, NEW k, NEW a \in 1 .. Len(ss), NEW b \in 1 .. Len(ss),
           NEW c \in 1 .. Len(ss), NEW d \in 1 .. Len(ss), WholeRun(ss, k, a, b), WholeRun(ss, k, c, d),
           NEW i \in 1 .. Len(ss), a <= i, i <= b, c <= i, i <= d
    PROVE  a = c /\ b = d
<1>1. ASSUME NEW x \in 1 .. Len(ss), NEW y \in 1 .. Len(ss), NEW u \in 1 .. Len(ss), NEW v \in 1 .. Len(ss),
             WholeRun(ss, k, x, y), WholeRun(ss, k, u, v), x <= i, i <= y, u <= i, i <= v
      PROVE  ~(x < u) /\ ~(y < v)
  <2>1. \A m \in x .. y : k \in DOMAIN ss[m] /\ ss[m][k] = ss[x][k]
    BY <1>1, RowSays
  <2>2. \A m \in u .. v : k \in DOMAIN ss[m] /\ ss[m][k] = ss[u][k]
    BY <1>1, RowSays
  <2>3. ss[u][k] = ss[x][k]
    <3>1. i \in x .. y /\ i \in u .. v
      BY <1>1
    <3> QED BY <2>1, <2>2, <3>1
  <2>4. (u = 1 \/ ~SameState(ss, k, u - 1, v)) /\ (y = Len(ss) \/ ~SameState(ss, k, x, y + 1))
    BY <1>1, Zenon DEF WholeRun
  <2>5. ASSUME x < u PROVE FALSE
    <3>1. u # 1 /\ u - 1 \in x .. y /\ \A m \in u - 1 .. v : m \in u .. v \/ m = u - 1
      BY <1>1, <2>5
    <3>2. SameState(ss, k, u - 1, v)
      BY <2>1, <2>2, <2>3, <3>1 DEF SameState
    <3> QED BY <2>4, <3>1, <3>2
  <2>6. ASSUME y < v PROVE FALSE
    <3>1. y # Len(ss) /\ y + 1 \in u .. v /\ \A m \in x .. y + 1 : m \in x .. y \/ m = y + 1
      BY <1>1, <2>6
    <3>2. SameState(ss, k, x, y + 1)
      BY <2>1, <2>2, <2>3, <3>1 DEF SameState
    <3> QED BY <2>4, <3>1, <3>2
  <2> QED BY <2>5, <2>6
<1>2. ~(a < c) /\ ~(b < d)
  BY <1>1
<1>3. ~(c < a) /\ ~(d < b)
  BY <1>1
<1> QED BY <1>2, <1>3

\* The run of a row.
LEMMA RunOf ==
    ASSUME NEW ss, NEW st, History(ss, st), NEW r \in Stamped(Islands(ss), st)
    PROVE  \E a, b \in 1 .. Len(ss) :
              /\ WholeRun(Changes(ss), r.key, a, b) /\ a <= b /\ r = RowAt(ss, st, r.key, a, b)
              /\ r.vf = st[a] /\ r.vt = UntilOf(ss, st, b) /\ IsRow(r)
              /\ \A i \in a .. b : i \in 1 .. Len(ss) /\ r.key \in DOMAIN ss[i] /\ ss[i][r.key].c = r.c
<1>1. PICK k : \E a, b \in 1 .. Len(ss) : WholeRun(Changes(ss), k, a, b) /\ r = RowAt(ss, st, k, a, b)
  BY StampedIs DEF IsRowOf
<1>2. PICK a \in 1 .. Len(ss), b \in 1 .. Len(ss) : WholeRun(Changes(ss), k, a, b) /\ r = RowAt(ss, st, k, a, b)
  BY <1>1
<1>3. /\ r.key = k /\ r.c = ss[a][k].c /\ r.vf = st[a] /\ r.vt = UntilOf(ss, st, b) /\ IsRow(r)
  BY <1>2, RowAtFields
<1>4. a <= b /\ \A i \in a .. b : i \in 1 .. Len(ss) /\ k \in DOMAIN ss[i] /\ ss[i][k].c = ss[a][k].c
  <2>1. WholeRun(Changes(ss), k, a, b)
    BY <1>2
  <2> QED BY <2>1, RunSpans, SMTT(30)
<1>5. WholeRun(Changes(ss), r.key, a, b) /\ r = RowAt(ss, st, r.key, a, b)
  BY <1>2, <1>3
<1>6. \A i \in a .. b : i \in 1 .. Len(ss) /\ r.key \in DOMAIN ss[i] /\ ss[i][r.key].c = r.c
  BY <1>3, <1>4
<1> QED BY <1>3, <1>4, <1>5, <1>6, Zenon

\* The row of a state.
LEMMA RowOf ==
    ASSUME NEW ss, NEW st, History(ss, st), NEW i \in 1 .. Len(ss), NEW k \in DOMAIN ss[i]
    PROVE  \E r \in Stamped(Islands(ss), st) : \E a \in 1 .. i, b \in i .. Len(ss) :
              /\ WholeRun(Changes(ss), k, a, b) /\ r.key = k /\ r.c = ss[i][k].c
              /\ r.vf = st[a] /\ r.vt = UntilOf(ss, st, b)
<1>1. PICK n \in Nat : n = Len(ss) /\ Len(Changes(ss)) = n
  BY HistoryIs
<1>2. k \in DOMAIN Changes(ss)[i]
  BY HistoryIs
<1>3. PICK a \in 1 .. i, b \in i .. n : WholeRun(Changes(ss), k, a, b)
  <2>1. i \in 1 .. Len(Changes(ss)) /\ Len(Changes(ss)) \in Nat
    BY <1>1
  <2> QED BY <1>1, <1>2, <2>1, RunAround
<1>4. a \in 1 .. n /\ b \in 1 .. n /\ i \in a .. b
  BY <1>1
<1>5. PICK r : r = RowAt(ss, st, k, a, b)
  OBVIOUS
<1>6. r.key = k /\ r.c = ss[a][k].c /\ r.vf = st[a] /\ r.vt = UntilOf(ss, st, b)
  BY <1>5, RowAtFields
<1>7. ss[i][k].c = ss[a][k].c
  BY <1>1, <1>3, <1>4, RunSpans
<1>8. r \in Stamped(Islands(ss), st)
  BY <1>1, <1>3, <1>4, <1>5, StampedIs DEF IsRowOf
<1> QED BY <1>1, <1>3, <1>6, <1>7, <1>8

\* The rows at the stamp of a scan are its states, each once.
StatesOf(at, scan) ==
    /\ {<<r.key, r.c>> : r \in at} = {<<k, scan[k].c>> : k \in DOMAIN scan}
    /\ Cardinality(at) = Cardinality(DOMAIN scan)

LEMMA RowsRead ==
    ASSUME NEW ss, NEW st, History(ss, st), NEW i \in 1 .. Len(ss), IsFiniteSet(ScanKeys),
           NEW at, \A r : r \in at <=> r \in Stamped(Islands(ss), st) /\ r.vf <= st[i] /\ st[i] < r.vt
    PROVE  StatesOf(at, ss[i])
<1>1. PICK n \in Nat : n = Len(ss) /\ Len(Changes(ss)) = n /\ DOMAIN ss[i] \subseteq ScanKeys
  BY HistoryIs
<1>2. ASSUME NEW r \in at
      PROVE  \E a, b \in 1 .. n : /\ WholeRun(Changes(ss), r.key, a, b) /\ r = RowAt(ss, st, r.key, a, b)
                                  /\ a <= i /\ i <= b /\ r.key \in DOMAIN ss[i] /\ r.c = ss[i][r.key].c
  <2>1. r \in Stamped(Islands(ss), st) /\ r.vf <= st[i] /\ st[i] < r.vt
    OBVIOUS
  <2>2. PICK a \in 1 .. n, b \in 1 .. n :
            /\ WholeRun(Changes(ss), r.key, a, b) /\ a <= b /\ r = RowAt(ss, st, r.key, a, b)
            /\ r.vf = st[a] /\ r.vt = UntilOf(ss, st, b)
            /\ \A m \in a .. b : r.key \in DOMAIN ss[m] /\ ss[m][r.key].c = r.c
    BY <1>1, <2>1, RunOf
  <2>3. (st[a] <= st[i] <=> a <= i) /\ (st[i] < UntilOf(ss, st, b) <=> i <= b)
    BY <1>1, RowStamps
  <2>4. a <= i /\ i <= b /\ i \in a .. b
    BY <1>1, <2>1, <2>2, <2>3
  <2> QED BY <2>2, <2>4
<1>3. ASSUME NEW k \in DOMAIN ss[i] PROVE \E r \in at : r.key = k /\ r.c = ss[i][k].c
  <2>1. PICK r \in Stamped(Islands(ss), st) : \E a \in 1 .. i, b \in i .. n :
            r.key = k /\ r.c = ss[i][k].c /\ r.vf = st[a] /\ r.vt = UntilOf(ss, st, b)
    BY <1>1, RowOf
  <2>2. PICK a \in 1 .. i, b \in i .. n :
            r.key = k /\ r.c = ss[i][k].c /\ r.vf = st[a] /\ r.vt = UntilOf(ss, st, b)
    BY <2>1
  <2>3. a \in 1 .. n /\ b \in 1 .. n /\ a <= i /\ i <= b
    BY <1>1
  <2>4. (st[a] <= st[i] <=> a <= i) /\ (st[i] < UntilOf(ss, st, b) <=> i <= b)
    BY <1>1, <2>3, RowStamps
  <2>5. r \in at
    BY <2>2, <2>3, <2>4
  <2> QED BY <2>2, <2>5
<1>4. ASSUME NEW r \in at, NEW q \in at, r.key = q.key PROVE r = q
  <2>1. PICK k : k = r.key /\ k = q.key
    BY <1>4
  <2>2. PICK a \in 1 .. n, b \in 1 .. n : WholeRun(Changes(ss), k, a, b) /\ r = RowAt(ss, st, k, a, b) /\ a <= i /\ i <= b
    BY <1>2, <2>1
  <2>3. PICK c \in 1 .. n, d \in 1 .. n : WholeRun(Changes(ss), k, c, d) /\ q = RowAt(ss, st, k, c, d) /\ c <= i /\ i <= d
    BY <1>2, <2>1
  <2>4. a = c /\ b = d
    BY <1>1, <2>2, <2>3, OneRun
  <2> QED BY <2>2, <2>3, <2>4
<1>5. {<<r.key, r.c>> : r \in at} = {<<k, ss[i][k].c>> : k \in DOMAIN ss[i]}
  <2>1. \A r \in at : <<r.key, r.c>> \in {<<k, ss[i][k].c>> : k \in DOMAIN ss[i]}
    BY <1>2
  <2>2. \A k \in DOMAIN ss[i] : <<k, ss[i][k].c>> \in {<<r.key, r.c>> : r \in at}
    BY <1>3
  <2> QED BY <2>1, <2>2
<1>6. Cardinality(at) = Cardinality(DOMAIN ss[i])
  <2> DEFINE f == [k \in DOMAIN ss[i] |-> CHOOSE r \in at : r.key = k]
  <2>1. \A k \in DOMAIN ss[i] : f[k] \in at /\ f[k].key = k
    BY <1>3
  <2>2. IsFiniteSet(DOMAIN ss[i])
    BY <1>1, FS_Subset
  <2>3. \A r \in at : r.key \in DOMAIN ss[i] /\ f[r.key] = r
    BY <1>2, <1>4, <2>1
  <2>4. f \in Bijection(DOMAIN ss[i], at)
    <3>1. f \in [DOMAIN ss[i] -> at]
      BY <2>1
    <3>2. \A k, q \in DOMAIN ss[i] : f[k] = f[q] => k = q
      BY <2>1
    <3>3. \A r \in at : \E k \in DOMAIN ss[i] : f[k] = r
      BY <2>3
    <3> HIDE DEF f
    <3> QED BY <3>1, <3>2, <3>3 DEF Bijection, Injection, IsInjective, Surjection
  <2> HIDE DEF f
  <2> QED BY <2>2, <2>4, FS_Bijection DEF ExistsBijection
<1> QED BY <1>5, <1>6 DEF StatesOf

\* The rows that a scan closes and opens turn the scan before it into it.
LEMMA RowsReplay ==
    ASSUME NEW ss, NEW st, History(ss, st), Len(ss) > 1
    PROVE  LET n      == Len(ss)
               T      == Stamped(Islands(ss), st)
               pairs(m) == {<<k, ss[m][k].c>> : k \in DOMAIN ss[m]}
               closed == {<<r.key, r.c>> : r \in RowsClosed(T, st[n])}
               opened == {<<r.key, r.c>> : r \in RowsOpened(T, st[n])}
           IN  (pairs(n - 1) \ closed) \union opened = pairs(n)
<1>1. PICK n \in Nat : n = Len(ss) /\ Len(Changes(ss)) = n /\ n > 1 /\ n - 1 \in 1 .. n /\ n \in 1 .. n
  BY HistoryIs
<1>2. PICK T, m : T = Stamped(Islands(ss), st) /\ m = n - 1
  OBVIOUS
<1>3. m \in 1 .. n /\ n = m + 1 /\ m < n /\ m \in Nat
  BY <1>1, <1>2
<1> DEFINE closed == {<<r.key, r.c>> : r \in RowsClosed(T, st[n])}
           opened == {<<r.key, r.c>> : r \in RowsOpened(T, st[n])}
<1>4. ASSUME NEW r \in T
      PROVE  \E a, b \in 1 .. n : /\ WholeRun(Changes(ss), r.key, a, b) /\ a <= b
                                  /\ r.vf = st[n] <=> a = n
                                  /\ r.vt = st[n] <=> b = m
                                  /\ \A i \in a .. b : r.key \in DOMAIN ss[i] /\ ss[i][r.key].c = r.c
  <2>1. PICK a \in 1 .. n, b \in 1 .. n :
            /\ WholeRun(Changes(ss), r.key, a, b) /\ a <= b
            /\ r.vf = st[a] /\ r.vt = UntilOf(ss, st, b)
            /\ \A i \in a .. b : r.key \in DOMAIN ss[i] /\ ss[i][r.key].c = r.c
    BY <1>1, <1>2, RunOf
  <2>2. (st[n] = st[a] <=> n = a) /\ (st[n] = UntilOf(ss, st, b) <=> n = b + 1)
    BY <1>1, RowStamps
  <2>3. (r.vf = st[n] <=> a = n) /\ (r.vt = st[n] <=> b = m)
    BY <1>3, <2>1, <2>2
  <2> QED BY <2>1, <2>3
<1>5. ASSUME NEW r \in RowsOpened(T, st[n]) PROVE r.key \in DOMAIN ss[n] /\ r.c = ss[n][r.key].c
  <2>1. r \in T /\ r.vf = st[n]
    BY DEF RowsOpened
  <2>2. PICK b \in 1 .. n : n <= b /\ \A i \in n .. b : r.key \in DOMAIN ss[i] /\ ss[i][r.key].c = r.c
    BY <1>4, <2>1
  <2>3. n \in n .. b
    BY <2>2
  <2> QED BY <2>2, <2>3
<1>6. ASSUME NEW i \in 1 .. n, NEW k \in DOMAIN ss[i]
      PROVE  \E r \in T : \E a \in 1 .. i, b \in i .. n :
                /\ WholeRun(Changes(ss), k, a, b) /\ r.key = k /\ r.c = ss[i][k].c
                /\ r.vf = st[n] <=> a = n
                /\ r.vt = st[n] <=> b = m
                /\ \A j \in a .. b : k \in DOMAIN ss[j] /\ ss[j][k].c = r.c
  <2>1. PICK r \in T : \E a \in 1 .. i, b \in i .. n :
            /\ WholeRun(Changes(ss), k, a, b) /\ r.key = k /\ r.c = ss[i][k].c
            /\ r.vf = st[a] /\ r.vt = UntilOf(ss, st, b)
    BY <1>1, <1>2, RowOf
  <2>2. PICK a \in 1 .. i, b \in i .. n :
            /\ WholeRun(Changes(ss), k, a, b) /\ r.key = k /\ r.c = ss[i][k].c
            /\ r.vf = st[a] /\ r.vt = UntilOf(ss, st, b)
    BY <2>1
  <2>3. a \in 1 .. n /\ b \in 1 .. n /\ i \in a .. b
    OBVIOUS
  <2>4. (st[n] = st[a] <=> n = a) /\ (st[n] = UntilOf(ss, st, b) <=> n = b + 1)
    BY <1>1, <2>3, RowStamps
  <2>5. \A j \in a .. b : k \in DOMAIN ss[j] /\ ss[j][k].c = ss[a][k].c
    BY <1>1, <2>2, <2>3, RunSpans
  <2>6. ss[i][k].c = ss[a][k].c
    BY <2>3, <2>5
  <2>7. (r.vf = st[n] <=> a = n) /\ (r.vt = st[n] <=> b = m)
    BY <1>3, <2>2, <2>4
  <2> QED BY <2>2, <2>5, <2>6, <2>7
<1>7. ASSUME NEW k \in DOMAIN ss[m], <<k, ss[m][k].c>> \notin closed
      PROVE  k \in DOMAIN ss[n] /\ ss[n][k].c = ss[m][k].c
  <2>0. PICK i : i = m /\ i \in 1 .. n
    BY <1>3
  <2>1. PICK r \in T, a \in 1 .. i, b \in i .. n :
            /\ r.key = k /\ r.c = ss[m][k].c /\ (r.vt = st[n] <=> b = m)
            /\ \A j \in a .. b : k \in DOMAIN ss[j] /\ ss[j][k].c = r.c
    <3>1. k \in DOMAIN ss[i] /\ ss[i][k].c = ss[m][k].c
      BY <2>0
    <3>2. PICK r \in T, a \in 1 .. i, b \in i .. n :
              /\ WholeRun(Changes(ss), k, a, b) /\ r.key = k /\ r.c = ss[i][k].c
              /\ r.vf = st[n] <=> a = n
              /\ r.vt = st[n] <=> b = m
              /\ \A j \in a .. b : k \in DOMAIN ss[j] /\ ss[j][k].c = r.c
      <4>1. i \in 1 .. n
        BY <2>0
      <4> HIDE DEF closed, opened
      <4> QED BY <1>6, <3>1, <4>1, Zenon
    <3> QED BY <3>1, <3>2
  <2>2. b = m \/ b = n
    BY <1>3, <2>0
  <2>3. b # m
    <3> SUFFICES ASSUME b = m PROVE FALSE
      OBVIOUS
    <3>1. r \in RowsClosed(T, st[n])
      BY <2>1 DEF RowsClosed
    <3> QED BY <1>7, <2>1, <3>1
  <2>4. n \in a .. b
    BY <1>3, <2>0, <2>2, <2>3
  <2> QED BY <2>1, <2>4
<1>8. ASSUME NEW k \in DOMAIN ss[n], <<k, ss[n][k].c>> \notin opened
      PROVE  k \in DOMAIN ss[m] /\ ss[n][k].c = ss[m][k].c /\ <<k, ss[m][k].c>> \notin closed
  <2>1. PICK r \in T, a \in 1 .. n, b \in n .. n :
            /\ WholeRun(Changes(ss), k, a, b) /\ r.key = k /\ r.c = ss[n][k].c /\ (r.vf = st[n] <=> a = n)
            /\ \A j \in a .. b : k \in DOMAIN ss[j] /\ ss[j][k].c = r.c
    BY <1>1, <1>6
  <2>2. a # n
    <3> SUFFICES ASSUME a = n PROVE FALSE
      OBVIOUS
    <3>1. r \in RowsOpened(T, st[n])
      BY <2>1 DEF RowsOpened
    <3> QED BY <1>8, <2>1, <3>1
  <2>3. m \in a .. b /\ b = n /\ b \in 1 .. n /\ a <= m /\ m <= b
    BY <1>1, <1>3, <2>2
  <2>4. k \in DOMAIN ss[m] /\ ss[n][k].c = ss[m][k].c
    BY <2>1, <2>3
  <2>5. ASSUME NEW q \in RowsClosed(T, st[n]), q.key = k PROVE FALSE
    <3>1. q \in T /\ q.vt = st[n]
      BY DEF RowsClosed
    <3>2. PICK c \in 1 .. n, d \in 1 .. n : WholeRun(Changes(ss), k, c, d) /\ c <= d /\ d = m
      BY <1>4, <2>5, <3>1
    <3>3. b = d
      BY <1>1, <1>3, <2>1, <2>3, <3>2, OneRun
    <3> QED BY <1>3, <2>3, <3>2, <3>3
  <2> QED BY <2>4, <2>5
<1> DEFINE pairs(i) == {<<k, ss[i][k].c>> : k \in DOMAIN ss[i]}
<1>9. ASSUME NEW x \in (pairs(m) \ closed) \union opened PROVE x \in pairs(n)
  <2>1. CASE x \in opened
    BY <1>5, <2>1
  <2>2. CASE x \in pairs(m) \ closed
    <3>1. PICK k \in DOMAIN ss[m] : x = <<k, ss[m][k].c>>
      BY <2>2
    <3>2. k \in DOMAIN ss[n] /\ ss[n][k].c = ss[m][k].c
      BY <1>7, <2>2, <3>1
    <3> QED BY <3>1, <3>2
  <2> QED BY <2>1, <2>2
<1>10. ASSUME NEW x \in pairs(n) PROVE x \in (pairs(m) \ closed) \union opened
  <2>1. PICK k \in DOMAIN ss[n] : x = <<k, ss[n][k].c>>
    OBVIOUS
  <2>2. CASE <<k, ss[n][k].c>> \in opened
    BY <2>1, <2>2
  <2>3. CASE <<k, ss[n][k].c>> \notin opened
    <3>1. k \in DOMAIN ss[m] /\ ss[n][k].c = ss[m][k].c /\ <<k, ss[m][k].c>> \notin closed
      BY <1>8, <2>3
    <3> QED BY <2>1, <3>1
  <2> QED BY <2>2, <2>3
<1>11. (pairs(m) \ closed) \union opened = pairs(n)
  BY <1>9, <1>10
<1> QED BY <1>1, <1>2, <1>11
-----------------------------------------------------------------------------
\* Scan by scan, the table is that of a rebuild.

\* What the ranges of a plan give together is what the whole table would.
Appended(p, prev, new, stamp) ==
    UNION {AppendIntervals({r \in prev : InRange(r.key, g)},
                           [k \in {q \in DOMAIN new : InRange(q, g)} |-> new[k]], stamp) : g \in p}

LEMMA RangesAppend ==
    ASSUME NEW p, IsPlan(p), NEW prev, NEW new, NEW stamp,
           \A r \in prev : IsRow(r) /\ r.key \in Int \X Int, DOMAIN new \subseteq Int \X Int
    PROVE  Appended(p, prev, new, stamp) = AppendIntervals(prev, new, stamp)
<1> DEFINE K(g) == {k \in Int \X Int : InRange(k, g)}
           part(g) == AppendIntervals({r \in prev : InRange(r.key, g)},
                                      [k \in {q \in DOMAIN new : InRange(q, g)} |-> new[k]], stamp)
<1>1. ASSUME NEW g PROVE part(g) = {x \in AppendIntervals(prev, new, stamp) : x.key \in K(g)}
  <2>1. {r \in prev : InRange(r.key, g)} = {r \in prev : r.key \in K(g)}
    OBVIOUS
  <2>2. {q \in DOMAIN new : InRange(q, g)} = {q \in DOMAIN new : q \in K(g)}
    OBVIOUS
  <2>3. AppendIntervals({r \in prev : r.key \in K(g)}, [k \in {q \in DOMAIN new : q \in K(g)} |-> new[k]], stamp)
           = {x \in AppendIntervals(prev, new, stamp) : x.key \in K(g)}
    <3> HIDE DEF K
    <3> QED BY AppendLocal
  <2> HIDE DEF K
  <2> QED BY <2>1, <2>2, <2>3
<1>2. ASSUME NEW x \in AppendIntervals(prev, new, stamp) PROVE x.key \in Int \X Int
  <2>1. CASE \E r \in prev : x = OldRow(r, prev, new, stamp)
    BY <2>1, OldRowIs
  <2>2. CASE \E k \in Opens(prev, new) : x = NewRow(k, new, stamp)
    BY <2>2 DEF Opens, NewRow
  <2> QED BY <2>1, <2>2 DEF AppendIntervals
<1>3. \A k \in Int \X Int : \E g \in p : k \in K(g)
  BY PlanPartitions
<1> HIDE DEF part, K
<1>4. UNION {part(g) : g \in p} = AppendIntervals(prev, new, stamp)
  BY <1>1, <1>2, <1>3
<1> QED BY <1>4 DEF part, Appended

IntervalsInv ==
    /\ IsPlan(plan) /\ History(scans, stamps) /\ Len(scans) <= MaxScans
    /\ \E d \in 1 .. OpenStamp : /\ Strides \subseteq 1 .. d /\ d * MaxScans < OpenStamp
                                 /\ \A i \in DOMAIN stamps : stamps[i] <= d * i
    /\ table = Stamped(Islands(scans), stamps)

LEMMA StridesFit ==
    /\ OpenStamp \in Nat /\ MaxScans \in Nat
    /\ \A d \in 1 .. OpenStamp : \A e \in 1 .. d : d \in Nat /\ e \in Nat /\ 1 <= e /\ e <= d
<1>1. MaxScans \in Nat
  BY IntervalsAssumption, Zenon
<1> QED BY <1>1 DEF OpenStamp

LEMMA PlansAre == \A p \in Plans : IsPlan(p)
<1>1. \A g \in Footers : IsGroups(g)
  BY IntervalsAssumption DEF IsGroups
<1>2. \A p \in Plans : \E a \in Footers \X (1 .. MaxRanges) : p = PlanRanges(a[1], a[2], NoBound)
  BY DEF Plans
<1>3. \A a \in Footers \X (1 .. MaxRanges) : IsPlan(PlanRanges(a[1], a[2], NoBound))
  BY <1>1, PlanIs
<1> QED BY <1>2, <1>3

LEMMA IntervalsStart == InitIntervals => IntervalsInv
<1> SUFFICES ASSUME InitIntervals PROVE IntervalsInv
  OBVIOUS
<1>1. scans = <<>> /\ stamps = <<>> /\ table = {} /\ IsPlan(plan)
  BY PlansAre DEF InitIntervals
<1>2. PICK ss, st : ss = scans /\ st = stamps
  OBVIOUS
<1>3. ss \in Seq(ScanSet) /\ st \in Seq(Nat) /\ Len(ss) = 0 /\ Len(st) = 0 /\ DOMAIN st = {} /\ DOMAIN ss = {}
  BY <1>1, <1>2
<1>4. History(ss, st)
  BY <1>3 DEF History
<1>5. Stamped(Islands(ss), st) = {}
  BY <1>3 DEF Islands, Stamped
<1>6. Len(ss) <= MaxScans
  BY <1>3, IntervalsAssumption
<1>7. \E d \in 1 .. OpenStamp : /\ Strides \subseteq 1 .. d /\ d * MaxScans < OpenStamp
                                /\ \A i \in DOMAIN st : st[i] <= d * i
  BY <1>3, IntervalsAssumption
<1> QED BY <1>1, <1>2, <1>4, <1>5, <1>6, <1>7 DEF IntervalsInv

\* The rows of a table are rows of keys.
LEMMA RowKeys ==
    ASSUME NEW ss, NEW st, History(ss, st), NEW r \in Stamped(Islands(ss), st)
    PROVE  IsRow(r) /\ r.key \in ScanKeys
<1>1. PICK a \in 1 .. Len(ss), b \in 1 .. Len(ss) :
          a <= b /\ IsRow(r) /\ \A i \in a .. b : i \in 1 .. Len(ss) /\ r.key \in DOMAIN ss[i]
  BY RunOf
<1>2. a \in a .. b
  BY <1>1
<1> QED BY <1>1, <1>2, HistoryIs

LEMMA StampFits ==
    ASSUME NEW d \in Nat, NEW m \in Nat, NEW n \in Nat, n < m
    PROVE  d * n + d = d * (n + 1) /\ d * (n + 1) <= d * m
<1>1. PICK j \in Nat : m = n + 1 + j
  <2>1. m - (n + 1) \in Nat
    OBVIOUS
  <2> QED BY <2>1
<1>2. d * m = d * (n + 1) + d * j /\ d * n + d = d * (n + 1)
  BY <1>1
<1>3. d * j \in Nat /\ d * (n + 1) \in Nat /\ d * n \in Nat
  OBVIOUS
<1> QED BY <1>2, <1>3

LEMMA IntervalsNext == IntervalsInv /\ [NextIntervals]_intervalsVars => IntervalsInv'
<1> SUFFICES ASSUME IntervalsInv, [NextIntervals]_intervalsVars PROVE IntervalsInv'
  OBVIOUS
<1>1. CASE NextIntervals
  <2>1. PICK held \in SUBSET ScanKeys :
            \E new \in [held -> States], d \in Strides :
                AppendScan(new, (IF stamps = <<>> THEN 0 ELSE stamps[Len(stamps)]) + d)
    BY <1>1 DEF NextIntervals
  <2>2. PICK new \in [held -> States], e \in Strides :
            AppendScan(new, (IF stamps = <<>> THEN 0 ELSE stamps[Len(stamps)]) + e)
    BY <2>1
  <2>3. PICK ss, st, old, stamp :
            /\ ss = scans /\ st = stamps /\ old = table
            /\ stamp = (IF stamps = <<>> THEN 0 ELSE stamps[Len(stamps)]) + e
    OBVIOUS
  <2>4. PICK d \in 1 .. OpenStamp : /\ Strides \subseteq 1 .. d /\ d * MaxScans < OpenStamp
                                    /\ \A i \in DOMAIN st : st[i] <= d * i
    BY <2>3 DEF IntervalsInv
  <2>5. History(ss, st) /\ old = Stamped(Islands(ss), st) /\ IsPlan(plan)
    BY <2>3 DEF IntervalsInv
  <2>6. PICK n \in Nat : n = Len(ss) /\ n = Len(st) /\ DOMAIN st = 1 .. n /\ st \in Seq(Nat)
    BY <2>5, HistoryIs DEF History
  <2>7. /\ n < MaxScans /\ scans' = Append(ss, new) /\ stamps' = Append(st, stamp) /\ plan' = plan
        /\ table' = Appended(plan, old, new, stamp)
    <3>1. AppendScan(new, stamp)
      BY <2>2, <2>3
    <3>2. Len(ss) < MaxScans /\ scans' = Append(ss, new) /\ stamps' = Append(st, stamp) /\ plan' = plan
      BY <2>3, <3>1 DEF AppendScan
    <3>3. table' = Appended(plan, old, new, stamp)
      BY <2>3, <3>1, Zenon DEF AppendScan, Appended
    <3> QED BY <2>6, <3>2, <3>3, Zenon
  <2>8. e \in 1 .. d /\ e \in Nat /\ d \in Nat /\ MaxScans \in Nat /\ 1 <= e /\ e <= d
    <3>1. e \in 1 .. d
      BY <2>4
    <3> QED BY <3>1, StridesFit
  <2>9. d * n \in Nat /\ d * n + d = d * (n + 1) /\ d * (n + 1) <= d * MaxScans
    <3>1. n < MaxScans
      BY <2>7
    <3>2. d * n \in Nat
      BY <2>8
    <3> QED BY <2>8, <3>1, <3>2, StampFits
  <2>10. stamp \in Nat /\ stamp <= d * (n + 1) /\ \A i \in 1 .. n : st[i] < stamp
    <3>1. CASE n = 0
      <4>1. st = <<>>
        BY <2>6, <3>1
      <4>2. stamp = e
        BY <2>3, <2>8, <4>1
      <4> QED BY <2>8, <2>9, <3>1, <4>2
    <3>2. CASE n # 0
      <4>1. st # <<>> /\ n \in 1 .. n
        BY <2>6, <3>2
      <4>2. stamp = st[n] + e /\ st[n] \in Nat /\ st[n] <= d * n
        BY <2>3, <2>4, <2>6, <4>1
      <4>3. \A i \in 1 .. n : st[i] \in Nat /\ st[i] <= st[n]
        <5>1. \A i \in 1 .. n : i = n \/ i < n
          OBVIOUS
        <5>2. \A i \in 1 .. n : st[i] \in Nat
          BY <2>6
        <5>3. \A i \in 1 .. n : i < n => st[i] < st[n]
          BY <2>5, <2>6, <4>1 DEF History
        <5> QED BY <4>2, <5>1, <5>2, <5>3
      <4> QED BY <2>8, <2>9, <4>2, <4>3
    <3> QED BY <3>1, <3>2
  <2>11. stamp < OpenStamp
    <3>1. d * MaxScans \in Nat /\ OpenStamp \in Nat /\ d * (n + 1) \in Nat
      BY <2>8 DEF OpenStamp
    <3> QED BY <2>4, <2>9, <2>10, <3>1
  <2>12. new \in ScanSet /\ DOMAIN new \subseteq ScanKeys
    BY DEF ScanSet
  <2>13. History(scans', stamps')
    BY <2>5, <2>6, <2>7, <2>10, <2>11, <2>12, HistoryNext
  <2>14. table' = Stamped(Islands(scans'), stamps')
    <3>1. ScanKeys \subseteq Int \X Int
      BY IntervalsAssumption
    <3>2. \A r \in old : IsRow(r) /\ r.key \in Int \X Int
      BY <2>5, <3>1, RowKeys
    <3>3. table' = AppendIntervals(old, new, stamp)
      <4>1. DOMAIN new \subseteq Int \X Int /\ IsPlan(plan)
        BY <2>5, <2>12, <3>1
      <4> QED BY <2>7, <3>2, <4>1, RangesAppend
    <3>4. AppendIntervals(old, new, stamp) = Stamped(Islands(Append(ss, new)), Append(st, stamp))
      BY <2>5, <2>6, <2>10, <2>11, <2>12, AppendRebuilds
    <3> QED BY <2>7, <3>3, <3>4
  <2>15. Len(scans') <= MaxScans
    <3>1. Len(Append(ss, new)) = n + 1
      BY <2>5, <2>6, <2>12 DEF History
    <3> QED BY <2>7, <2>8, <3>1
  <2>16. \A i \in DOMAIN stamps' : stamps'[i] <= d * i
    <3>1. PICK su : su = Append(st, stamp)
      OBVIOUS
    <3>2. DOMAIN su = 1 .. n + 1 /\ su[n + 1] = stamp /\ \A i \in 1 .. n : su[i] = st[i]
      BY <2>6, <3>1
    <3>3. \A i \in 1 .. n + 1 : i = n + 1 \/ i \in 1 .. n
      OBVIOUS
    <3>4. \A i \in 1 .. n + 1 : su[i] <= d * i
      BY <2>4, <2>6, <2>10, <3>2, <3>3
    <3> QED BY <2>7, <3>1, <3>2, <3>4
  <2> QED BY <2>4, <2>5, <2>7, <2>13, <2>14, <2>15, <2>16 DEF IntervalsInv
<1>2. CASE UNCHANGED intervalsVars
  BY <1>2 DEF IntervalsInv, intervalsVars
<1> QED BY <1>1, <1>2

LEMMA IntervalsRead == IntervalsInv => IntervalsExact
<1> SUFFICES ASSUME IntervalsInv PROVE IntervalsExact
  OBVIOUS
<1>1. PICK ss, st : ss = scans /\ st = stamps /\ History(ss, st)
  BY DEF IntervalsInv
<1>2. table = Stamped(Islands(ss), st) /\ DOMAIN ss = 1 .. Len(ss) /\ Len(ss) \in Nat
  BY <1>1, HistoryIs DEF IntervalsInv
<1>3. RangesPartition
  <2>1. KeyGrid \subseteq Int \X Int /\ IsPlan(plan)
    BY IntervalsAssumption DEF IntervalsInv
  <2> QED BY <2>1, PlanPartitions DEF RangesPartition
<1>4. ReadsTheScan
  <2> SUFFICES ASSUME NEW i \in 1 .. Len(ss)
               PROVE  /\ {<<r.key, r.c>> : r \in RowsAt(st[i])} = {<<k, ss[i][k].c>> : k \in DOMAIN ss[i]}
                      /\ Cardinality(RowsAt(st[i])) = Cardinality(DOMAIN ss[i])
    BY <1>1, <1>2 DEF ReadsTheScan
  <2>1. \A r : r \in RowsAt(st[i]) <=> r \in Stamped(Islands(ss), st) /\ r.vf <= st[i] /\ st[i] < r.vt
    BY <1>2 DEF RowsAt
  <2>2. IsFiniteSet(ScanKeys)
    BY IntervalsAssumption
  <2>3. StatesOf(RowsAt(st[i]), ss[i])
    BY <1>1, <2>1, <2>2, RowsRead
  <2> QED BY <2>3 DEF StatesOf
<1>5. DeltaReplays
  <2> SUFFICES ASSUME Len(ss) > 1
               PROVE  LET n == Len(ss)
                          before == {<<k, ss[n - 1][k].c>> : k \in DOMAIN ss[n - 1]}
                          project(rs) == {<<r.key, r.c>> : r \in rs}
                      IN  (before \ project(RowsClosed(table, st[n]))) \union project(RowsOpened(table, st[n]))
                            = {<<k, ss[n][k].c>> : k \in DOMAIN ss[n]}
    BY <1>1 DEF DeltaReplays
  <2> QED BY <1>1, <1>2, RowsReplay
<1> QED BY <1>1, <1>2, <1>3, <1>4, <1>5 DEF IntervalsExact

\* Appended scan by scan and range by range, the table is that of a rebuild from all the scans,
\* for any footers the ranges are planned from, and it reads back every scan
\* (append_intervals, islands_sql, stamped_sql, plan_ranges, delta_sql).
THEOREM IntervalsExactHolds == SpecIntervals => []IntervalsExact
BY IntervalsStart, IntervalsNext, IntervalsRead, PTL DEF SpecIntervals

\* Every scan has its stamp, and no row closes before it opens.
THEOREM IntervalsTypes == SpecIntervals => []TypeIntervals
<1>1. IntervalsInv => TypeIntervals
  <2> SUFFICES ASSUME IntervalsInv PROVE TypeIntervals
    OBVIOUS
  <2>1. PICK ss, st : ss = scans /\ st = stamps /\ History(ss, st)
    BY DEF IntervalsInv
  <2>2. Len(ss) = Len(st) /\ Len(scans) <= MaxScans /\ table = Stamped(Islands(ss), st)
    BY <2>1 DEF IntervalsInv, History
  <2>3. ASSUME NEW r \in Stamped(Islands(ss), st) PROVE r.key \in ScanKeys /\ r.vf < r.vt
    <3>1. PICK a \in 1 .. Len(ss), b \in 1 .. Len(ss) : a <= b /\ r.vf = st[a] /\ r.vt = UntilOf(ss, st, b)
      BY <2>1, RunOf
    <3>2. st[a] < UntilOf(ss, st, b) <=> a <= b
      BY <2>1, RowStamps
    <3> QED BY <2>1, <3>1, <3>2, RowKeys
  <2> QED BY <2>1, <2>2, <2>3 DEF TypeIntervals
<1> QED BY <1>1, IntervalsStart, IntervalsNext, PTL DEF SpecIntervals
=============================================================================
