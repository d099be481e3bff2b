---------------------------- MODULE QueryPlanProofs ----------------------------
(***************************************************************************)
(* Proofs about the query planner, for every ladder, every query, every     *)
(* watermark and every inventory of registered shards: the walk moves on,   *)
(* the plan is well formed, an output bin of a fixed width is packed with   *)
(* as few bins as possible; on a nested ladder no unit of time is answered  *)
(* twice; and when the marks, the gates and the registered shards nest as   *)
(* well, nothing that the tiers have is missing from the answer, which      *)
(* ends where the hot path takes over.                                      *)
(***************************************************************************)
EXTENDS QueryPlan, FiniteSetTheorems, TLAPS

-----------------------------------------------------------------------------
(* Least and greatest elements. *)

LEMMA LeastIn ==
    ASSUME NEW S, S \subseteq Nat, S # {}
    PROVE  Min(S) \in S /\ \A y \in S : Min(S) <= y
<1>1. PICK x \in S : \A y \in S : ~(<<y, x>> \in OpToRel(<, Nat))
  BY NatLessThanWellFounded, WFMin
<1>2. \A y \in S : ~(y < x)
  BY <1>1, Zenon DEF OpToRel
<1>3. \A y \in S : x <= y
  BY <1>2
<1> QED BY <1>3 DEF Min

LEMMA GreatestIn ==
    ASSUME NEW S, NEW n \in Nat, S \subseteq 0 .. n, S # {}
    PROVE  Max(S) \in S /\ \A y \in S : y <= Max(S)
<1> DEFINE T == {n - x : x \in S}
<1>1. T \subseteq Nat /\ T # {}
  <2>1. T \subseteq Nat
    <3> SUFFICES ASSUME NEW x \in S PROVE n - x \in Nat
      OBVIOUS
    <3>1. x \in 0 .. n
      OBVIOUS
    <3> QED BY <3>1
  <2>2. PICK x \in S : TRUE
    OBVIOUS
  <2>3. n - x \in T
    OBVIOUS
  <2> HIDE DEF T
  <2> QED BY <2>1, <2>3
<1>2. Min(T) \in T /\ \A y \in T : Min(T) <= y
  BY <1>1, LeastIn
<1>3. PICK x \in S : Min(T) = n - x
  BY <1>2
<1>4. \A y \in S : y <= x
  <2> SUFFICES ASSUME NEW y \in S PROVE y <= x
    OBVIOUS
  <2>1. n - x <= n - y
    BY <1>2, <1>3
  <2> QED BY <2>1
<1> QED BY <1>4 DEF Max

-----------------------------------------------------------------------------
(* The axis. *)

\* The boundaries of bins or of shards.
IsGrid(g) == g \subseteq Times /\ {0, Horizon} \subseteq g

LEMMA TimesNat ==
    /\ Horizon \in Nat /\ Horizon > 0 /\ 0 \in Times /\ Horizon \in Times /\ Far \in Nat /\ Far > Horizon
    /\ \A x \in Times : x \in Nat /\ x <= Horizon
    /\ \A x \in Nat : x <= Horizon => x \in Times
BY LadderAssumption DEF Times, Far

LEMMA GridFacts ==
    ASSUME NEW g, IsGrid(g)
    PROVE  0 \in g /\ Horizon \in g /\ \A b \in g : b \in Times /\ b \in Nat /\ b <= Horizon
BY TimesNat DEF IsGrid

LEMMA FloorOf ==
    ASSUME NEW g, IsGrid(g), NEW x \in Times
    PROVE  Floor(g, x) \in g /\ Floor(g, x) <= x /\ \A b \in g : b <= x => b <= Floor(g, x)
<1> DEFINE S == {b \in g : b <= x}
<1>0. x \in Nat
  BY TimesNat
<1>1. S \subseteq 0 .. Horizon /\ 0 \in S
  BY <1>0, TimesNat, GridFacts
<1>2. Max(S) \in S /\ \A y \in S : y <= Max(S)
  BY <1>1, GreatestIn, TimesNat
<1> QED BY <1>2 DEF Floor

LEMMA AfterOf ==
    ASSUME NEW g, IsGrid(g), NEW x \in Times, x < Horizon
    PROVE  After(g, x) \in g /\ x < After(g, x) /\ \A b \in g : b > x => After(g, x) <= b
<1> DEFINE S == {b \in g : b > x}
<1>0. x \in Nat /\ x <= Horizon
  BY TimesNat
<1>1. S \subseteq Nat /\ Horizon \in S
  BY <1>0, TimesNat, GridFacts
<1>2. Min(S) \in S /\ \A y \in S : Min(S) <= y
  BY <1>1, LeastIn
<1> QED BY <1>2 DEF After

LEMMA CeilOf ==
    ASSUME NEW g, IsGrid(g), NEW x \in Times
    PROVE  Ceil(g, x) \in g /\ x <= Ceil(g, x) /\ \A b \in g : b >= x => Ceil(g, x) <= b
<1> DEFINE S == {b \in g : b >= x}
<1>0. x \in Nat /\ x <= Horizon
  BY TimesNat
<1>1. S \subseteq Nat /\ Horizon \in S
  BY <1>0, TimesNat, GridFacts
<1>2. Min(S) \in S /\ \A y \in S : Min(S) <= y
  BY <1>1, LeastIn
<1> QED BY <1>2 DEF Ceil

\* A time lies in the one bin that begins at its floor.
LEMMA InBin ==
    ASSUME NEW g, IsGrid(g), NEW a \in g, a < Horizon, NEW u \in Times, a <= u, u < After(g, a)
    PROVE  Floor(g, u) = a
<1>1. a \in Times /\ a \in Nat /\ u \in Nat
  BY TimesNat, GridFacts
<1>2. Floor(g, u) \in g /\ Floor(g, u) <= u /\ a <= Floor(g, u)
  BY <1>1, FloorOf
<1>3. After(g, a) \in g /\ \A b \in g : b > a => After(g, a) <= b
  BY <1>1, AfterOf
<1>4. Floor(g, u) \in Nat /\ After(g, a) \in Nat
  BY <1>2, <1>3, GridFacts
<1>5. ~(Floor(g, u) > a)
  BY <1>1, <1>2, <1>3, <1>4
<1> QED BY <1>1, <1>2, <1>4, <1>5

-----------------------------------------------------------------------------
(* Tiers, cells and shards. *)

LEMMA TierFacts ==
    ASSUME NEW t \in Tiers
    PROVE  /\ t \in 1 .. Len(Grid) /\ Len(Grid) \in Nat /\ IsGrid(Grid[t])
           /\ Width[t] \in Nat \ {0}
           /\ LargestCell(t) \in Cells /\ TierOf(LargestCell(t)) = t
<1>1. Len(RungGrid[t]) \in DOMAIN RungGrid[t]
  BY LadderAssumption
<1> QED BY <1>1, LadderAssumption DEF IsGrid, LargestCell, Cells, TierOf

LEMMA CellFacts ==
    ASSUME NEW c \in Cells
    PROVE  /\ TierOf(c) \in Tiers /\ c[1] = TierOf(c) /\ c = <<c[1], c[2]>>
           /\ c[2] \in 1 .. Len(RungGrid[c[1]]) /\ Len(RungGrid[c[1]]) \in Nat
           /\ IsGrid(Edges(c)) /\ Edges(c) \subseteq Grid[TierOf(c)]
<1>1. PICK t \in Tiers : c \in {t} \X DOMAIN RungGrid[t]
  BY DEF Cells
<1>2. Edges(c) \subseteq Times
  BY <1>1, LadderAssumption DEF TierOf
<1> QED BY <1>1, <1>2, LadderAssumption DEF IsGrid, TierOf

LEMMA ShardFacts ==
    ASSUME NEW s \in Shards
    PROVE  /\ CellOf(s) \in Cells /\ s = <<CellOf(s), StartOf(s)>>
           /\ StartOf(s) \in Edges(CellOf(s)) /\ StartOf(s) \in Times /\ StartOf(s) < Horizon
           /\ EndOf(s) \in Edges(CellOf(s)) /\ EndOf(s) \in Times /\ StartOf(s) < EndOf(s)
           /\ \A b \in Edges(CellOf(s)) : b > StartOf(s) => EndOf(s) <= b
<1>1. /\ s \in Cells \X Times /\ CellOf(s) \in Cells /\ StartOf(s) \in Times
      /\ StartOf(s) \in Edges(CellOf(s)) /\ StartOf(s) # Horizon
  BY DEF Shards, CellOf, StartOf
<1>2. StartOf(s) < Horizon
  BY <1>1, TimesNat DEF Times
<1>3. IsGrid(Edges(CellOf(s)))
  BY <1>1, CellFacts
<1>4. EndOf(s) = After(Edges(CellOf(s)), StartOf(s))
  BY DEF EndOf, CellOf, StartOf
<1>5. s = <<CellOf(s), StartOf(s)>>
  BY <1>1 DEF CellOf, StartOf
<1> QED BY <1>1, <1>2, <1>3, <1>4, <1>5, AfterOf DEF IsGrid

\* A time lies in one shard of a cell.
LEMMA ShardAt ==
    ASSUME NEW c \in Cells, NEW x \in Times, x < Horizon
    PROVE  /\ <<c, Floor(Edges(c), x)>> \in Shards
           /\ StartOf(<<c, Floor(Edges(c), x)>>) <= x /\ x < EndOf(<<c, Floor(Edges(c), x)>>)
<1> DEFINE f == Floor(Edges(c), x)
           e == After(Edges(c), f)
<1>1. IsGrid(Edges(c)) /\ x \in Nat
  BY CellFacts, TimesNat
<1>2. f \in Edges(c) /\ f <= x /\ \A b \in Edges(c) : b <= x => b <= f
  BY <1>1, FloorOf
<1>3. f \in Times /\ f \in Nat /\ f < Horizon
  BY <1>1, <1>2, GridFacts, TimesNat
<1>4. e \in Edges(c) /\ f < e
  BY <1>1, <1>3, AfterOf
<1>5. e \in Nat
  BY <1>1, <1>4, GridFacts
<1>6. x < e
  BY <1>1, <1>2, <1>3, <1>4, <1>5
<1>7. <<c, f>> \in Cells \X Times /\ f # Horizon
  BY <1>3, TimesNat
<1>8. <<c, f>>[1] = c /\ <<c, f>>[2] = f
  OBVIOUS
<1> HIDE DEF f, e
<1>9. <<c, f>> \in Shards
  BY <1>2, <1>7, <1>8, Zenon DEF Shards
<1>10. StartOf(<<c, f>>) = f /\ EndOf(<<c, f>>) = e
  BY <1>8, Zenon DEF StartOf, EndOf, e
<1> QED BY <1>2, <1>6, <1>9, <1>10 DEF f

LEMMA OneShard ==
    ASSUME NEW s \in Shards, NEW r \in Shards, CellOf(s) = CellOf(r), NEW x \in Times,
           StartOf(s) <= x, x < EndOf(s), StartOf(r) <= x, x < EndOf(r)
    PROVE  s = r
<1>1. x \in Nat /\ StartOf(s) \in Nat /\ StartOf(r) \in Nat /\ EndOf(s) \in Nat /\ EndOf(r) \in Nat
  BY ShardFacts, TimesNat
<1>2. StartOf(s) < StartOf(r) => EndOf(s) <= StartOf(r)
  BY ShardFacts
<1>3. StartOf(r) < StartOf(s) => EndOf(r) <= StartOf(s)
  BY ShardFacts
<1>4. StartOf(s) = StartOf(r)
  BY <1>1, <1>2, <1>3
<1> QED BY <1>4, ShardFacts

-----------------------------------------------------------------------------
(* Watermarks. *)

LEMMA WithinType ==
    ASSUME NEW d \in [Cells -> 0 .. Far], NEW c \in Cells
    PROVE  Within(d, c) \in 0 .. Far /\ Within(d, c) <= d[c]
<1> DEFINE S == {d[x] : x \in {x \in Cells : TierOf(x) = TierOf(c) /\ x[2] <= c[2]}}
<1>1. S \subseteq Nat /\ S \subseteq 0 .. Far
  BY TimesNat
<1>2. d[c] \in S
  BY CellFacts
<1>3. Min(S) \in S /\ \A y \in S : Min(S) <= y
  BY <1>1, <1>2, LeastIn
<1> QED BY <1>1, <1>2, <1>3 DEF Within

\* The bound of a tier from that of the next finer one.
NextBound(d, t, finer) == Max({Min({Within(d, c), finer}) : c \in {c \in Cells : TierOf(c) = t}})

LEMMA NextBoundType ==
    ASSUME NEW d \in [Cells -> 0 .. Far], NEW t \in Tiers, NEW finer \in 0 .. Far
    PROVE  /\ NextBound(d, t, finer) \in 0 .. Far
           /\ NextBound(d, t, finer) <= finer
           /\ \A c \in Cells : TierOf(c) = t =>
                 /\ Min({Within(d, c), finer}) \in 0 .. Far
                 /\ Min({Within(d, c), finer}) <= NextBound(d, t, finer)
                 /\ Min({Within(d, c), finer}) <= Within(d, c)
<1> DEFINE S == {Min({Within(d, c), finer}) : c \in {c \in Cells : TierOf(c) = t}}
<1>1. \A c \in Cells :
          /\ Min({Within(d, c), finer}) \in 0 .. Far /\ Min({Within(d, c), finer}) <= finer
          /\ Min({Within(d, c), finer}) <= Within(d, c)
  <2> SUFFICES ASSUME NEW c \in Cells
               PROVE  /\ Min({Within(d, c), finer}) \in 0 .. Far /\ Min({Within(d, c), finer}) <= finer
                      /\ Min({Within(d, c), finer}) <= Within(d, c)
    OBVIOUS
  <2>1. Within(d, c) \in 0 .. Far /\ {Within(d, c), finer} \subseteq Nat
    BY WithinType, TimesNat
  <2> QED BY <2>1, LeastIn
<1>2. S \subseteq 0 .. Far /\ S # {}
  <2>1. LargestCell(t) \in Cells /\ TierOf(LargestCell(t)) = t
    BY TierFacts
  <2>2. Min({Within(d, LargestCell(t)), finer}) \in S
    BY <2>1
  <2> QED BY <1>1, <2>2
<1>3. Max(S) \in S /\ \A y \in S : y <= Max(S)
  BY <1>2, GreatestIn, TimesNat
<1>4. Max(S) = NextBound(d, t, finer)
  BY DEF NextBound
<1> QED BY <1>1, <1>2, <1>3, <1>4

\* The recursion over the tiers has a solution.
LEMMA BoundsExist ==
    ASSUME NEW d, NEW n \in Nat
    PROVE  \E f : f = [t \in 0 .. n |-> IF t = 0 THEN Far ELSE NextBound(d, t, f[t - 1])]
<1> DEFINE Solves(f, k) == f = [t \in 0 .. k |-> IF t = 0 THEN Far ELSE NextBound(d, t, f[t - 1])]
           Bad == {k \in Nat : ~\E f : Solves(f, k)}
<1>1. ASSUME Bad # {} PROVE FALSE
  <2>1. Min(Bad) \in Bad /\ \A y \in Bad : Min(Bad) <= y
    BY <1>1, LeastIn
  <2>2. PICK k \in Bad : \A y \in Bad : k <= y
    BY <2>1
  <2>3. k \in Nat /\ ~\E f : Solves(f, k)
    BY <2>2
  <2>4. CASE k = 0
    <3>1. Solves([t \in 0 .. 0 |-> Far], 0)
      OBVIOUS
    <3> QED BY <3>1, <2>3, <2>4
  <2>5. CASE k # 0
    <3>1. k - 1 \in Nat /\ k - 1 \notin Bad
      <4> HIDE DEF Bad
      <4>1. k - 1 \in Nat /\ ~(k <= k - 1)
        BY <2>3, <2>5
      <4> QED BY <4>1, <2>2
    <3>2. PICK f : Solves(f, k - 1)
      BY <3>1
    <3> DEFINE g == [t \in 0 .. k |-> IF t = 0 THEN Far ELSE NextBound(d, t, f[t - 1])]
    <3>3. \A t \in 0 .. k - 1 : f[t] = g[t]
      BY <3>2, <2>3
    <3>4. \A t \in 0 .. k : t = 0 \/ t - 1 \in 0 .. k - 1
      BY <2>3
    <3>5. \A t \in 0 .. k : g[t] = IF t = 0 THEN Far ELSE NextBound(d, t, g[t - 1])
      BY <3>3, <3>4
    <3>6. Solves(g, k)
      BY <3>5
    <3> QED BY <3>6, <2>3
  <2> QED BY <2>4, <2>5
<1> QED BY <1>1

LEMMA BoundIs ==
    ASSUME NEW d \in [Cells -> 0 .. Far]
    PROVE  /\ TierBound(d)[0] = Far
           /\ \A t \in Tiers : TierBound(d)[t] = NextBound(d, t, TierBound(d)[t - 1])
<1>1. Len(Grid) \in Nat /\ {0} \cup Tiers = 0 .. Len(Grid)
  BY LadderAssumption
<1>2. \E f : f = [t \in 0 .. Len(Grid) |-> IF t = 0 THEN Far ELSE NextBound(d, t, f[t - 1])]
  BY <1>1, BoundsExist
<1>3. PICK f : f = [t \in {0} \cup Tiers |-> IF t = 0 THEN Far ELSE NextBound(d, t, f[t - 1])]
  BY <1>1, <1>2, Zenon
<1>4. f = [t \in {0} \cup Tiers |->
             IF t = 0 THEN Far
             ELSE Max({Min({Within(d, c), f[t - 1]}) : c \in {c \in Cells : TierOf(c) = t}})]
  BY <1>3, Zenon DEF NextBound
<1>5. TierBound(d) = [t \in {0} \cup Tiers |->
             IF t = 0 THEN Far
             ELSE Max({Min({Within(d, c), TierBound(d)[t - 1]}) : c \in {c \in Cells : TierOf(c) = t}})]
  BY <1>4 DEF TierBound
<1>6. TierBound(d) = [t \in {0} \cup Tiers |->
             IF t = 0 THEN Far ELSE NextBound(d, t, TierBound(d)[t - 1])]
  BY <1>5, Zenon DEF NextBound
<1>7. \A t \in Tiers : t # 0
  BY TierFacts
<1> QED BY <1>6, <1>7

LEMMA BoundType ==
    ASSUME NEW d \in [Cells -> 0 .. Far], NEW n \in 0 .. Len(Grid)
    PROVE  TierBound(d)[n] \in 0 .. Far
<1> DEFINE Bad == {k \in 0 .. Len(Grid) : TierBound(d)[k] \notin 0 .. Far}
<1>1. ASSUME Bad # {} PROVE FALSE
  <2>1. Len(Grid) \in Nat /\ Tiers = 1 .. Len(Grid)
    BY LadderAssumption
  <2>2. Bad \subseteq Nat
    BY <2>1
  <2>3. PICK k \in Bad : \A y \in Bad : k <= y
    BY <1>1, <2>2, LeastIn
  <2>4. k # 0
    BY <2>3, BoundIs, TimesNat
  <2>5. k \in Tiers /\ k - 1 \in 0 .. Len(Grid) /\ k - 1 \notin Bad
    BY <2>1, <2>3, <2>4
  <2>6. TierBound(d)[k - 1] \in 0 .. Far
    BY <2>5
  <2>7. TierBound(d)[k] \in 0 .. Far
    BY <2>5, <2>6, BoundIs, NextBoundType
  <2> QED BY <2>3, <2>7
<1> QED BY <1>1

LEMMA EffectiveType ==
    ASSUME NEW d \in [Cells -> 0 .. Far], NEW c \in Cells
    PROVE  /\ Effective(d, c) \in 0 .. Far
           /\ Effective(d, c) <= Within(d, c) /\ Effective(d, c) <= TierBound(d)[TierOf(c) - 1]
           /\ Effective(d, c) \in {Within(d, c), TierBound(d)[TierOf(c) - 1]}
<1>1. TierOf(c) - 1 \in 0 .. Len(Grid)
  BY CellFacts, TierFacts
<1>2. Within(d, c) \in 0 .. Far /\ TierBound(d)[TierOf(c) - 1] \in 0 .. Far
  BY <1>1, WithinType, BoundType
<1>3. {Within(d, c), TierBound(d)[TierOf(c) - 1]} \subseteq Nat
  BY <1>2, TimesNat
<1> QED BY <1>2, <1>3, LeastIn DEF Effective

LEMMA LargestType ==
    ASSUME NEW d \in [Cells -> 0 .. Far], NEW t \in Tiers, NEW upto \in Times
    PROVE  /\ Largest(d, t, upto) \in Times /\ Largest(d, t, upto) <= upto
           /\ \A c \in Cells : TierOf(c) <= t => Largest(d, t, upto) <= d[c]
<1> DEFINE S == {upto} \cup {d[c] : c \in {c \in Cells : TierOf(c) <= t}}
<1>1. S \subseteq Nat /\ S # {}
  BY TimesNat
<1>2. Min(S) \in S /\ \A y \in S : Min(S) <= y
  BY <1>1, LeastIn
<1>3. Min(S) \in Nat /\ Min(S) <= upto /\ upto \in Nat /\ upto <= Horizon
  BY <1>1, <1>2, TimesNat
<1>4. Min(S) <= Horizon
  BY <1>3, TimesNat
<1> QED BY <1>2, <1>3, <1>4, TimesNat DEF Largest

LEMMA EarliestType ==
    ASSUME NEW e \in [Tiers -> Times], NEW t \in Tiers
    PROVE  Earliest(e, t) \in Times /\ e[t] <= Earliest(e, t)
<1> DEFINE S == {e[x] : x \in 1 .. t}
<1>1. t \in Nat /\ 1 .. t \subseteq Tiers /\ t \in 1 .. t
  BY TierFacts, LadderAssumption
<1>2. S \subseteq Times /\ e[t] \in S
  BY <1>1
<1>3. S \subseteq 0 .. Horizon
  BY <1>2 DEF Times
<1>4. Max(S) \in S /\ \A y \in S : y <= Max(S)
  BY <1>2, <1>3, GreatestIn, TimesNat
<1> QED BY <1>2, <1>4 DEF Earliest

-----------------------------------------------------------------------------
(* The packing of a fixed width. *)

\* Atoms between a and b.
Between(atomSet, a, b) ==
    /\ a \in Nat /\ b \in Nat
    /\ \A x \in atomSet :
          /\ x.tier \in Tiers /\ x.from \in Nat /\ x.to \in Nat
          /\ a <= x.from /\ x.from < x.to /\ x.to <= b

\* Atoms that follow each other from c to b.
Chain(p, atomSet, c, b) ==
    /\ p \in Seq(atomSet)
    /\ p = <<>> => c = b
    /\ p # <<>> => p[1].from = c /\ p[Len(p)].to = b
    /\ \A i \in 1 .. Len(p) : i + 1 \in 1 .. Len(p) => p[i].to = p[i + 1].from

LEMMA BestWayIn ==
    ASSUME NEW ways, ways # {},
           \A w \in ways : Len(w[2]) \in Nat /\ Width[w[1].tier] \in Nat
    PROVE  BestWay(ways) \in ways /\ \A v \in ways : Len(BestWay(ways)[2]) <= Len(v[2])
<1> DEFINE lengths == {Len(w[2]) : w \in ways}
<1>1. lengths \subseteq Nat /\ lengths # {}
  OBVIOUS
<1>2. PICK n \in lengths : \A m \in lengths : n <= m
  BY <1>1, LeastIn
<1> DEFINE short == {w \in ways : Len(w[2]) = n}
           widths == {Width[w[1].tier] : w \in short}
<1>3. widths \subseteq Nat /\ widths # {}
  BY <1>2
<1>4. PICK m \in widths : \A k \in widths : m <= k
  BY <1>3, LeastIn
<1>5. PICK w \in short : Width[w[1].tier] = m
  BY <1>4
<1>6. \A v \in ways : Better(w, v)
  <2> SUFFICES ASSUME NEW v \in ways PROVE Better(w, v)
    OBVIOUS
  <2>1. Len(w[2]) = n /\ n <= Len(v[2]) /\ n \in Nat /\ Len(v[2]) \in Nat
    BY <1>1, <1>2, <1>5
  <2>2. Len(v[2]) = n => Width[w[1].tier] <= Width[v[1].tier]
    BY <1>4, <1>5
  <2> QED BY <2>1, <2>2 DEF Better
<1>7. BestWay(ways) \in ways /\ \A v \in ways : Better(BestWay(ways), v)
  BY <1>5, <1>6 DEF BestWay
<1>8. \A v \in ways : Better(BestWay(ways), v) => Len(BestWay(ways)[2]) <= Len(v[2])
  BY <1>7 DEF Better
<1> QED BY <1>7, <1>8

\* What is solved at c depends on what is solved beyond it.
LEMMA SolveDepends ==
    ASSUME NEW f, NEW g, NEW atomSet, NEW c,
           \A x \in atomSet : x.from = c => f[x.to] = g[x.to]
    PROVE  Solve(f, atomSet, c) = Solve(g, atomSet, c)
<1>1. {<<x, f[x.to]>> : x \in {x \in atomSet : x.from = c}} = {<<x, g[x.to]>> : x \in {x \in atomSet : x.from = c}}
  OBVIOUS
<1>2. Ways(f, atomSet, c) = Ways(g, atomSet, c)
  BY <1>1, Zenon DEF Ways
<1> QED BY <1>2, Zenon DEF Solve

LEMMA PathsExist ==
    ASSUME NEW atomSet, NEW a, NEW b, a <= b, Between(atomSet, a, b)
    PROVE  \E f : f = [c \in a .. b |-> IF c = b THEN <<>> ELSE Solve(f, atomSet, c)]
<1> DEFINE Solves(f, k) == f = [c \in b - k .. b |-> IF c = b THEN <<>> ELSE Solve(f, atomSet, c)]
           Bad == {k \in Nat : k <= b - a /\ ~\E f : Solves(f, k)}
<1>0. a \in Nat /\ b \in Nat
  BY DEF Between
<1>1. ASSUME Bad # {} PROVE FALSE
  <2>1. PICK k \in Bad : \A y \in Bad : k <= y
    BY <1>1, LeastIn
  <2>2. k \in Nat /\ k <= b - a /\ ~\E f : Solves(f, k)
    BY <2>1
  <2>3. CASE k = 0
    <3>1. Solves([c \in b .. b |-> <<>>], 0)
      BY <1>0
    <3> QED BY <3>1, <2>2, <2>3
  <2>4. CASE k # 0
    <3>1. k - 1 \in Nat /\ k - 1 <= b - a /\ k - 1 \notin Bad
      BY <1>0, <2>1, <2>2, <2>4
    <3>2. PICK f : Solves(f, k - 1)
      BY <3>1
    <3> DEFINE g == [c \in b - k .. b |-> IF c = b THEN <<>> ELSE Solve(f, atomSet, c)]
    <3>3. \A c \in b - (k - 1) .. b : f[c] = g[c]
      BY <1>0, <3>2, <2>2
    <3>4. \A c \in b - k .. b : c # b => \A x \in atomSet : x.from = c => f[x.to] = g[x.to]
      <4> SUFFICES ASSUME NEW c \in b - k .. b, c # b, NEW x \in atomSet, x.from = c
                   PROVE  f[x.to] = g[x.to]
        OBVIOUS
      <4>1. x.to \in Nat /\ x.from \in Nat /\ x.from < x.to /\ x.to <= b
        BY DEF Between
      <4>2. x.to \in b - (k - 1) .. b
        BY <1>0, <2>2, <4>1
      <4> QED BY <3>3, <4>2
    <3> HIDE DEF g
    <3>5. \A c \in b - k .. b : c # b => Solve(f, atomSet, c) = Solve(g, atomSet, c)
      BY <3>4, SolveDepends
    <3>6. Solves(g, k)
      BY <3>5 DEF g
    <3> QED BY <3>6, <2>2
  <2> QED BY <2>3, <2>4
<1>2. b - a \in Nat /\ b - (b - a) = a
  BY <1>0
<1>3. \E f : Solves(f, b - a)
  BY <1>1, <1>2
<1> QED BY <1>2, <1>3

LEMMA PathIs ==
    ASSUME NEW atomSet, NEW a, NEW b, a <= b, Between(atomSet, a, b)
    PROVE  \E f : /\ Decompose(atomSet, a, b) = f[a]
                  /\ \A c \in a .. b : f[c] = IF c = b THEN <<>> ELSE Solve(f, atomSet, c)
<1> DEFINE path[c \in a .. b] == IF c = b THEN <<>> ELSE Solve(path, atomSet, c)
<1>1. PICK f : f = [c \in a .. b |-> IF c = b THEN <<>> ELSE Solve(f, atomSet, c)]
  BY PathsExist
<1>2. path = [c \in a .. b |-> IF c = b THEN <<>> ELSE Solve(path, atomSet, c)]
  BY <1>1
<1>3. Decompose(atomSet, a, b) = path[a]
  BY DEF Decompose
<1> HIDE DEF path
<1>4. \A c \in a .. b : path[c] = IF c = b THEN <<>> ELSE Solve(path, atomSet, c)
  BY <1>2
<1> QED BY <1>3, <1>4

LEMMA ChainCons ==
    ASSUME NEW atomSet, NEW a, NEW b, Between(atomSet, a, b), NEW x \in atomSet,
           NEW q, Chain(q, atomSet, x.to, b)
    PROVE  /\ Chain(<<x>> \o q, atomSet, x.from, b)
           /\ Len(<<x>> \o q) = Len(q) + 1 /\ Len(q) \in Nat
<1> DEFINE p == <<x>> \o q
<1>1. q \in Seq(atomSet) /\ Len(q) \in Nat
  BY DEF Chain
<1>2. p \in Seq(atomSet) /\ Len(p) = Len(q) + 1
  BY <1>1
<1>3. p[1] = x /\ \A i \in 1 .. Len(q) : p[i + 1] = q[i]
  BY <1>1
<1> HIDE DEF p
<1>4. p # <<>>
  BY <1>1, <1>2
<1>5. p[Len(p)].to = b
  <2>1. CASE q = <<>>
    BY <2>1, <1>2, <1>3 DEF Chain
  <2>2. CASE q # <<>>
    <3>1. Len(q) \in 1 .. Len(q) /\ q[Len(q)].to = b
      BY <1>1, <2>2 DEF Chain
    <3> QED BY <3>1, <1>2, <1>3
  <2> QED BY <2>1, <2>2
<1>6. ASSUME NEW i \in 1 .. Len(p), i + 1 \in 1 .. Len(p)
      PROVE  p[i].to = p[i + 1].from
  <2>1. i \in 1 .. Len(q)
    BY <1>1, <1>2, <1>6
  <2>2. p[i + 1] = q[i]
    BY <1>3, <2>1
  <2>3. CASE i = 1
    <3>1. q # <<>>
      BY <1>1, <2>1
    <3> QED BY <2>2, <2>3, <1>3, <3>1 DEF Chain
  <2>4. CASE i # 1
    <3>1. i - 1 \in 1 .. Len(q) /\ (i - 1) + 1 = i
      BY <1>1, <2>1, <2>4
    <3>2. p[i] = q[i - 1]
      BY <1>3, <3>1
    <3>3. q[i - 1].to = q[i].from
      BY <3>1, <2>1 DEF Chain
    <3> QED BY <2>2, <3>2, <3>3
  <2> QED BY <2>3, <2>4
<1>7. Chain(p, atomSet, x.from, b)
  BY <1>2, <1>3, <1>4, <1>5, <1>6 DEF Chain
<1> QED BY <1>1, <1>2, <1>7 DEF p

LEMMA ChainTail ==
    ASSUME NEW atomSet, NEW c, NEW b, NEW p, Chain(p, atomSet, c, b), p # <<>>
    PROVE  /\ p[1] \in atomSet /\ p[1].from = c
           /\ Chain(Tail(p), atomSet, p[1].to, b)
           /\ Len(p) \in Nat /\ Len(p) >= 1 /\ Len(Tail(p)) = Len(p) - 1
<1>1. p \in Seq(atomSet) /\ Len(p) \in Nat /\ Len(p) >= 1
  BY DEF Chain
<1>2. Tail(p) \in Seq(atomSet) /\ Len(Tail(p)) = Len(p) - 1 /\ \A i \in 1 .. Len(p) - 1 : Tail(p)[i] = p[i + 1]
  BY <1>1
<1> DEFINE q == Tail(p)
<1>3. q \in Seq(atomSet) /\ Len(q) = Len(p) - 1 /\ \A i \in 1 .. Len(q) : q[i] = p[i + 1]
  BY <1>2
<1> HIDE DEF q
<1>4. p[1] \in atomSet /\ p[1].from = c /\ p[Len(p)].to = b
  BY <1>1 DEF Chain
<1>5. ASSUME q = <<>> PROVE p[1].to = b
  <2>1. Len(q) = 0
    BY <1>5
  <2>2. Len(p) = 1
    BY <1>1, <1>3, <2>1
  <2> QED BY <1>4, <2>2
<1>6. ASSUME q # <<>> PROVE q[1].from = p[1].to /\ q[Len(q)].to = b
  <2>1. Len(q) \in Nat /\ Len(q) >= 1
    BY <1>3, <1>6
  <2>2. q[1] = p[2] /\ q[Len(q)] = p[Len(p)]
    BY <1>1, <1>3, <2>1
  <2>3. p[1].to = p[2].from
    <3>1. 1 \in 1 .. Len(p) /\ 1 + 1 \in 1 .. Len(p)
      BY <1>1, <1>3, <2>1
    <3> QED BY <3>1 DEF Chain
  <2> QED BY <1>4, <2>2, <2>3
<1>7. \A i \in 1 .. Len(q) : i + 1 \in 1 .. Len(q) => q[i].to = q[i + 1].from
  <2> SUFFICES ASSUME NEW i \in 1 .. Len(q), i + 1 \in 1 .. Len(q) PROVE q[i].to = q[i + 1].from
    OBVIOUS
  <2>1. i + 1 \in 1 .. Len(p) /\ (i + 1) + 1 \in 1 .. Len(p)
    BY <1>1, <1>3
  <2>2. p[i + 1].to = p[(i + 1) + 1].from
    BY <2>1 DEF Chain
  <2> QED BY <1>3, <2>2
<1>8. Chain(q, atomSet, p[1].to, b)
  BY <1>3, <1>5, <1>6, <1>7 DEF Chain
<1> QED BY <1>1, <1>3, <1>4, <1>8 DEF q

LEMMA ChainIsPath ==
    ASSUME NEW atomSet, NEW a, NEW b, Between(atomSet, a, b), NEW c, NEW p, Chain(p, atomSet, c, b)
    PROVE  p # NoPath
<1> SUFFICES ASSUME p = NoPath PROVE FALSE
  OBVIOUS
<1>1. p # <<>> /\ p[1] = Atom(0, 0, 0)
  BY DEF NoPath
<1>2. p[1] \in atomSet
  BY <1>1, ChainTail
<1>3. p[1].tier \in Tiers
  BY <1>2 DEF Between
<1> QED BY <1>1, <1>3, TierFacts DEF Atom

\* What is solved at every position is a chain to the end, and no other chain is
\* shorter; without a solution there is none.
LEMMA PathsShortest ==
    ASSUME NEW atomSet, NEW a, NEW b, a <= b, Between(atomSet, a, b), NEW f,
           \A c \in a .. b : f[c] = IF c = b THEN <<>> ELSE Solve(f, atomSet, c)
    PROVE  \A c \in a .. b :
              /\ f[c] = NoPath \/ Chain(f[c], atomSet, c, b)
              /\ \A q : Chain(q, atomSet, c, b) => f[c] # NoPath /\ Len(f[c]) <= Len(q)
<1> DEFINE Good(c) ==
               /\ f[c] = NoPath \/ Chain(f[c], atomSet, c, b)
               /\ \A q : Chain(q, atomSet, c, b) => f[c] # NoPath /\ Len(f[c]) <= Len(q)
           Bad == {k \in Nat : k <= b - a /\ ~Good(b - k)}
<1>0. a \in Nat /\ b \in Nat
  BY DEF Between
<1>1. ASSUME Bad # {} PROVE FALSE
  <2>1. PICK k \in Bad : \A y \in Bad : k <= y
    BY <1>1, LeastIn
  <2> DEFINE c == b - k
  <2>2. k \in Nat /\ k <= b - a /\ c \in a .. b /\ ~Good(c)
    BY <1>0, <2>1
  <2>3. \A d \in a .. b : d > c => Good(d)
    <3> SUFFICES ASSUME NEW d \in a .. b, d > c, ~Good(d) PROVE FALSE
      OBVIOUS
    <3>1. b - d \in Nat /\ b - d <= b - a /\ b - (b - d) = d /\ b - d < k
      BY <1>0, <2>2
    <3>2. b - d \in Bad
      BY <3>1
    <3> QED BY <2>1, <2>2, <3>1, <3>2
  <2> HIDE DEF c
  <2>4. CASE c = b
    <3>1. f[c] = <<>>
      BY <2>2, <2>4
    <3>2. Chain(f[c], atomSet, c, b)
      BY <3>1, <2>4 DEF Chain
    <3>3. f[c] # NoPath
      BY <3>2, ChainIsPath
    <3>4. \A q : Chain(q, atomSet, c, b) => Len(q) \in Nat
      BY DEF Chain
    <3>5. Len(f[c]) = 0
      BY <3>1
    <3> QED BY <2>2, <3>2, <3>3, <3>4, <3>5
  <2>5. CASE c # b
    <3> DEFINE ways == Ways(f, atomSet, c)
    <3>1. f[c] = IF ways = {} THEN NoPath ELSE <<BestWay(ways)[1]>> \o BestWay(ways)[2]
      BY <2>2, <2>5 DEF Solve
    <3>2. \A w : w \in ways <=> \E x \in atomSet : x.from = c /\ w = <<x, f[x.to]>> /\ f[x.to] # NoPath
      BY DEF Ways
    <3> HIDE DEF ways
    <3>3. \A x \in atomSet : x.from = c => x.to \in a .. b /\ x.to > c /\ Good(x.to)
      <4> SUFFICES ASSUME NEW x \in atomSet, x.from = c PROVE x.to \in a .. b /\ x.to > c /\ Good(x.to)
        OBVIOUS
      <4>1. x.from \in Nat /\ x.to \in Nat /\ a <= x.from /\ x.from < x.to /\ x.to <= b
        BY DEF Between
      <4>2. x.to \in a .. b /\ x.to > c
        BY <1>0, <4>1
      <4> QED BY <2>3, <4>2
    <3>4. \A w \in ways : /\ w[1] \in atomSet /\ w[1].from = c /\ w[2] = f[w[1].to]
                          /\ Chain(w[2], atomSet, w[1].to, b)
      <4> SUFFICES ASSUME NEW w \in ways
                   PROVE  /\ w[1] \in atomSet /\ w[1].from = c /\ w[2] = f[w[1].to]
                          /\ Chain(w[2], atomSet, w[1].to, b)
        OBVIOUS
      <4>1. PICK x \in atomSet : x.from = c /\ w = <<x, f[x.to]>> /\ f[x.to] # NoPath
        BY <3>2
      <4>2. w[1] = x /\ w[2] = f[x.to]
        BY <4>1
      <4>3. Chain(f[x.to], atomSet, x.to, b)
        BY <3>3, <4>1
      <4> QED BY <4>1, <4>2, <4>3
    <3>5. \A w \in ways : Len(w[2]) \in Nat /\ Width[w[1].tier] \in Nat
      <4> SUFFICES ASSUME NEW w \in ways PROVE Len(w[2]) \in Nat /\ Width[w[1].tier] \in Nat
        OBVIOUS
      <4>1. w[1].tier \in Tiers /\ w[2] \in Seq(atomSet)
        BY <3>4 DEF Between, Chain
      <4> QED BY <4>1, TierFacts
    <3> DEFINE best == BestWay(ways)
    <3>6. ways # {} => best \in ways /\ \A v \in ways : Len(best[2]) <= Len(v[2])
      BY <3>5, BestWayIn
    <3> HIDE DEF best
    <3>7. ways # {} =>
             /\ Chain(f[c], atomSet, c, b)
             /\ Len(f[c]) = Len(best[2]) + 1 /\ Len(best[2]) \in Nat
      <4> SUFFICES ASSUME ways # {}
                   PROVE  /\ Chain(f[c], atomSet, c, b)
                          /\ Len(f[c]) = Len(best[2]) + 1 /\ Len(best[2]) \in Nat
        OBVIOUS
      <4>1. f[c] = <<best[1]>> \o best[2]
        BY <3>1 DEF best
      <4>2. best[1] \in atomSet /\ best[1].from = c /\ Chain(best[2], atomSet, best[1].to, b)
        BY <3>4, <3>6
      <4> QED BY <4>1, <4>2, ChainCons
    <3>8. f[c] = NoPath \/ Chain(f[c], atomSet, c, b)
      BY <3>1, <3>7
    <3>9. ASSUME NEW q, Chain(q, atomSet, c, b) PROVE f[c] # NoPath /\ Len(f[c]) <= Len(q)
      <4>1. q # <<>>
        BY <2>5, <3>9 DEF Chain
      <4> DEFINE x == q[1]
      <4>2. /\ x \in atomSet /\ x.from = c /\ Chain(Tail(q), atomSet, x.to, b)
            /\ Len(q) \in Nat /\ Len(Tail(q)) = Len(q) - 1
        BY <3>9, <4>1, ChainTail
      <4> HIDE DEF x
      <4>3. f[x.to] # NoPath /\ Len(f[x.to]) <= Len(Tail(q))
        BY <3>3, <4>2
      <4>4. <<x, f[x.to]>> \in ways
        BY <3>2, <4>2, <4>3
      <4>5. Len(best[2]) <= Len(f[x.to]) /\ Len(f[x.to]) \in Nat
        BY <3>5, <3>6, <4>4
      <4>6. f[c] # NoPath
        BY <3>7, <4>4, ChainIsPath
      <4>7. Len(f[c]) = Len(best[2]) + 1 /\ Len(best[2]) \in Nat
        BY <3>7, <4>4
      <4>8. Len(f[c]) <= Len(q)
        <5> DEFINE u == Len(f[c])
                   v == Len(best[2])
                   w == Len(f[x.to])
                   y == Len(q)
                   z == Len(Tail(q))
        <5>1. u = v + 1 /\ v \in Nat /\ v <= w /\ w \in Nat /\ w <= z /\ z = y - 1 /\ y \in Nat
          BY <4>2, <4>3, <4>5, <4>7
        <5> HIDE DEF u, v, w, y, z
        <5>2. u <= y
          BY <5>1
        <5> QED BY <5>2 DEF u, y
      <4> QED BY <4>6, <4>8
    <3> QED BY <2>2, <3>8, <3>9
  <2> QED BY <2>4, <2>5
<1>2. \A c \in a .. b : b - c \in Nat /\ b - c <= b - a /\ b - (b - c) = c
  BY <1>0
<1>3. \A c \in a .. b : Good(c)
  <2> SUFFICES ASSUME NEW c \in a .. b, ~Good(c) PROVE FALSE
    OBVIOUS
  <2>1. b - c \in Bad
    BY <1>2
  <2> QED BY <1>1, <2>1
<1> QED BY <1>3

-----------------------------------------------------------------------------
(* The packing of months and years: the tiers in the order of their rank.    *)

LEMMA OutranksOrder ==
    ASSUME NEW x \in Tiers, NEW y \in Tiers, NEW z \in Tiers
    PROVE  /\ ~Outranks(x, x)
           /\ x # y => Outranks(x, y) \/ Outranks(y, x)
           /\ Outranks(x, y) /\ Outranks(y, z) => Outranks(x, z)
<1>1. /\ Width[x] \in Nat /\ Width[y] \in Nat /\ Width[z] \in Nat
      /\ x \in Nat /\ y \in Nat /\ z \in Nat
  BY TierFacts
<1> QED BY <1>1 DEF Outranks

LEMMA AheadFewer ==
    ASSUME NEW S, S \subseteq Tiers
    PROVE  /\ IsFiniteSet(S) /\ Cardinality(S) \in Nat
           /\ \A t \in S : Cardinality(Ahead(S, t)) \in 0 .. Cardinality(S) - 1
           /\ \A t \in S, r \in S : Outranks(r, t) => Cardinality(Ahead(S, r)) < Cardinality(Ahead(S, t))
<1>1. IsFiniteSet(Tiers)
  <2>1. Len(Grid) \in Int /\ Tiers = 1 .. Len(Grid)
    BY LadderAssumption
  <2> QED BY <2>1, FS_Interval
<1>2. IsFiniteSet(S) /\ Cardinality(S) \in Nat
  BY <1>1, FS_Subset, FS_CardinalityType
<1>3. \A t \in S : /\ IsFiniteSet(Ahead(S, t)) /\ Cardinality(Ahead(S, t)) \in Nat
                   /\ Cardinality(Ahead(S, t)) <= Cardinality(S) - 1
  <2> SUFFICES ASSUME NEW t \in S
               PROVE  /\ IsFiniteSet(Ahead(S, t)) /\ Cardinality(Ahead(S, t)) \in Nat
                      /\ Cardinality(Ahead(S, t)) <= Cardinality(S) - 1
    OBVIOUS
  <2>1. IsFiniteSet(S \ {t}) /\ Cardinality(S \ {t}) = Cardinality(S) - 1
    BY <1>2, FS_RemoveElement
  <2>2. Ahead(S, t) \in SUBSET (S \ {t})
    BY DEF Ahead
  <2>3. IsFiniteSet(Ahead(S, t)) /\ Cardinality(Ahead(S, t)) <= Cardinality(S \ {t})
    BY <2>1, <2>2, FS_Subset
  <2> QED BY <2>1, <2>3, FS_CardinalityType
<1>4. \A t \in S, r \in S : Outranks(r, t) => Cardinality(Ahead(S, r)) < Cardinality(Ahead(S, t))
  <2> SUFFICES ASSUME NEW t \in S, NEW r \in S, Outranks(r, t)
               PROVE  Cardinality(Ahead(S, r)) < Cardinality(Ahead(S, t))
    OBVIOUS
  <2>1. r \notin Ahead(S, r)
    BY DEF Ahead
  <2>2. r \in Ahead(S, t)
    BY OutranksOrder DEF Ahead
  <2>3. Ahead(S, r) \subseteq Ahead(S, t)
    <3> SUFFICES ASSUME NEW x \in Ahead(S, r) PROVE x \in Ahead(S, t)
      OBVIOUS
    <3>1. x \in Tiers /\ r \in Tiers /\ t \in Tiers /\ Outranks(x, r)
      BY DEF Ahead
    <3>2. Outranks(x, t) /\ ~Outranks(t, t)
      BY <3>1, OutranksOrder
    <3> QED BY <3>2 DEF Ahead
  <2>4. Cardinality(Ahead(S, r) \cup {r}) = Cardinality(Ahead(S, r)) + 1
    BY <1>3, <2>1, FS_AddElement
  <2>5. (Ahead(S, r) \cup {r}) \in SUBSET Ahead(S, t)
    BY <2>2, <2>3
  <2>6. Cardinality(Ahead(S, r) \cup {r}) <= Cardinality(Ahead(S, t))
    BY <1>3, <2>5, FS_Subset
  <2> QED BY <1>3, <2>4, <2>6
<1>5. \A t \in S : Cardinality(Ahead(S, t)) \in 0 .. Cardinality(S) - 1
  BY <1>2, <1>3
<1> QED BY <1>2, <1>4, <1>5

\* Every rank is taken: a tier is found for every position of the packing.
LEMMA RankOnto ==
    ASSUME NEW S, S \subseteq Tiers, NEW i \in 1 .. Cardinality(S)
    PROVE  \E t \in S : Cardinality(Ahead(S, t)) = i - 1
<1> DEFINE n == Cardinality(S)
           rank == [t \in S |-> Cardinality(Ahead(S, t))]
<1>1. IsFiniteSet(S) /\ n \in Nat
  BY AheadFewer
<1> HIDE DEF n
<1>2. rank \in [S -> 0 .. n - 1]
  BY AheadFewer DEF n
<1>3. \A t \in S, r \in S : rank[t] = rank[r] => t = r
  <2> SUFFICES ASSUME NEW t \in S, NEW r \in S, rank[t] = rank[r], t # r PROVE FALSE
    OBVIOUS
  <2>1. Cardinality(Ahead(S, t)) \in Nat /\ Cardinality(Ahead(S, r)) \in Nat
    BY AheadFewer
  <2>2. Cardinality(Ahead(S, t)) = Cardinality(Ahead(S, r))
    BY DEF rank
  <2>3. Outranks(t, r) \/ Outranks(r, t)
    BY OutranksOrder
  <2> QED BY <2>1, <2>2, <2>3, AheadFewer
<1>4. rank \in Injection(S, 0 .. n - 1)
  BY <1>2, <1>3 DEF Injection, IsInjective
<1>5. IsFiniteSet(0 .. n - 1) /\ Cardinality(0 .. n - 1) = n
  <2>1. 0 \in Int /\ n - 1 \in Int /\ (0 > n - 1 <=> n = 0)
    BY <1>1
  <2>2. IsFiniteSet(0 .. n - 1) /\ Cardinality(0 .. n - 1) = IF 0 > n - 1 THEN 0 ELSE (n - 1) - 0 + 1
    BY <2>1, FS_Interval
  <2> QED BY <1>1, <2>1, <2>2
<1>6. rank \in Surjection(S, 0 .. n - 1)
  BY <1>4, <1>5, FS_Injection DEF n
<1>7. i - 1 \in 0 .. n - 1
  BY <1>1 DEF n
<1>8. \E t \in S : rank[t] = i - 1
  BY <1>6, <1>7 DEF Surjection
<1> QED BY <1>8 DEF rank

LEMMA PackTiersType ==
    ASSUME NEW w
    PROVE  /\ Len(PackTiers(w)) \in Nat /\ DOMAIN PackTiers(w) = 1 .. Len(PackTiers(w))
           /\ \A i \in DOMAIN PackTiers(w) : PackTiers(w)[i] \in Tiers
           /\ \A i, j \in DOMAIN PackTiers(w) : i < j => Outranks(PackTiers(w)[i], PackTiers(w)[j])
<1> DEFINE S == Usable(w)
           n == Cardinality(S)
           p == PackTiers(w)
<1>1. S \subseteq Tiers
  BY DEF Usable
<1>2. CASE ~\E t \in S : Base(t)
  BY <1>2 DEF PackTiers
<1>3. CASE \E t \in S : Base(t)
  <2>1. n \in Nat
    BY <1>1, AheadFewer
  <2>2. p = [i \in 1 .. n |-> CHOOSE t \in S : Cardinality(Ahead(S, t)) = i - 1]
    BY <1>3 DEF PackTiers
  <2> HIDE DEF S, n, p
  <2>3. \A i \in 1 .. n : p[i] \in S /\ Cardinality(Ahead(S, p[i])) = i - 1
    BY <1>1, <2>2, RankOnto DEF n
  <2>4. DOMAIN p = 1 .. n /\ p \in Seq(S)
    BY <2>1, <2>2, <2>3
  <2>5. Len(p) = n
    BY <2>1, <2>4
  <2>6. ASSUME NEW i \in 1 .. n, NEW j \in 1 .. n, i < j PROVE Outranks(p[i], p[j])
    <3>1. p[i] \in S /\ p[j] \in S /\ Cardinality(Ahead(S, p[i])) = i - 1 /\ Cardinality(Ahead(S, p[j])) = j - 1
      BY <2>3
    <3>2. p[i] # p[j]
      BY <2>1, <2>6, <3>1
    <3>3. Outranks(p[j], p[i]) => Cardinality(Ahead(S, p[j])) < Cardinality(Ahead(S, p[i]))
      BY <1>1, <3>1, AheadFewer
    <3>4. ~Outranks(p[j], p[i])
      BY <2>1, <2>6, <3>1, <3>3
    <3> QED BY <1>1, <3>1, <3>2, <3>4, OutranksOrder
  <2> QED BY <1>1, <2>1, <2>3, <2>4, <2>5, <2>6 DEF p
<1> QED BY <1>2, <1>3

-----------------------------------------------------------------------------
(* The descent from tier to tier. *)

Apart(x, y) == x.to <= y.from \/ y.to <= x.from

\* What is taken of [s, e): atoms of the tier that lie in it and do not overlap.
TakenOf(t, taken, s, e) ==
    /\ \A x \in taken : /\ x.tier = t /\ x.from \in Grid[t] /\ x.from \in Times /\ x.to \in Times
                        /\ s <= x.from /\ x.from < x.to /\ x.to <= e
    /\ \A x, y \in taken : x = y \/ Apart(x, y)
Takes(take) == \A t \in Tiers, s, e \in Times : s < e => TakenOf(t, take[t][<<s, e>>], s, e)

LEMMA ResiduesApart ==
    ASSUME NEW t, NEW taken, NEW s \in Times, NEW e \in Times, TakenOf(t, taken, s, e)
    PROVE  /\ \A g \in Residues(taken, s, e) :
                 /\ g \in Times \X Times /\ g = <<g[1], g[2]>> /\ g[1] \in Nat /\ g[2] \in Nat
                 /\ s <= g[1] /\ g[1] < g[2] /\ g[2] <= e
                 /\ g[2] = e \/ \E x \in taken : g[2] = x.from
                 /\ \A x \in taken : x.to <= g[1] \/ x.from >= g[2]
           /\ \A g, h \in Residues(taken, s, e) : g = h \/ g[2] <= h[1] \/ h[2] <= g[1]
<1>1. /\ s \in Nat /\ e \in Nat
      /\ \A x \in taken : x.from \in Times /\ x.to \in Times /\ x.from \in Nat /\ x.to \in Nat
                          /\ s <= x.from /\ x.from < x.to /\ x.to <= e
  BY TimesNat DEF TakenOf
<1>2. ASSUME NEW g \in Residues(taken, s, e)
      PROVE  /\ g = <<g[1], g[2]>>
             /\ g[1] = s \/ \E x \in taken : g[1] = x.to
             /\ g[2] = e \/ \E x \in taken : g[2] = x.from
             /\ g[1] < g[2]
             /\ \A x \in taken : x.to <= g[1] \/ x.from >= g[2]
  BY <1>2 DEF Residues
<1>3. ASSUME NEW g \in Residues(taken, s, e)
      PROVE  /\ g[1] \in Times /\ g[2] \in Times /\ g[1] \in Nat /\ g[2] \in Nat
             /\ s <= g[1] /\ g[1] < g[2] /\ g[2] <= e
  <2>1. g[1] \in Times /\ g[1] \in Nat /\ s <= g[1]
    BY <1>1, <1>2
  <2>2. g[2] \in Times /\ g[2] \in Nat /\ g[2] <= e
    BY <1>1, <1>2
  <2> QED BY <1>2, <2>1, <2>2
<1>4. \A g \in Residues(taken, s, e) : g \in Times \X Times
  BY <1>2, <1>3
<1>5. ASSUME NEW g \in Residues(taken, s, e), NEW h \in Residues(taken, s, e), g[1] < h[1]
      PROVE  g[2] <= h[1]
  <2>1. PICK x \in taken : h[1] = x.to
    BY <1>1, <1>2, <1>3, <1>5
  <2>2. x.from >= g[2]
    BY <1>1, <1>2, <1>3, <1>5, <2>1
  <2> QED BY <1>1, <1>3, <2>1, <2>2
<1>6. ASSUME NEW g \in Residues(taken, s, e), NEW h \in Residues(taken, s, e), g[1] = h[1], g[2] < h[2]
      PROVE  FALSE
  <2>1. PICK x \in taken : g[2] = x.from
    BY <1>1, <1>2, <1>3, <1>6
  <2>2. x.to <= h[1]
    BY <1>1, <1>2, <1>3, <1>6, <2>1
  <2> QED BY <1>1, <1>3, <1>6, <2>1, <2>2
<1>7. ASSUME NEW g \in Residues(taken, s, e), NEW h \in Residues(taken, s, e)
      PROVE  g = h \/ g[2] <= h[1] \/ h[2] <= g[1]
  <2>1. g[1] \in Nat /\ g[2] \in Nat /\ h[1] \in Nat /\ h[2] \in Nat
    BY <1>3
  <2>2. g[1] = h[1] => g[2] = h[2]
    BY <1>6, <2>1
  <2>3. g[1] # h[1] => g[1] < h[1] \/ h[1] < g[1]
    BY <2>1
  <2> QED BY <1>2, <1>5, <2>2, <2>3
<1> QED BY <1>2, <1>3, <1>4, <1>7

\* One step of the recursion over the tiers.
Packed(f, tiers, take) ==
    [i \in 1 .. Len(tiers) + 1 |->
        [g \in Times \X Times |->
            IF i > Len(tiers) THEN {} ELSE Descend(f[i + 1], take[tiers[i]][g], g[1], g[2])]]

LEMMA LeftApart ==
    ASSUME NEW x, NEW y, NEW a \in Nat, NEW b \in Nat, x.from \in Nat, x.to \in Nat, y.from \in Nat, y.to \in Nat,
           x.to <= a \/ x.from >= b, a <= y.from, y.from < y.to, y.to <= b
    PROVE  Apart(x, y) /\ Apart(y, x)
BY DEF Apart

LEMMA SidesApart ==
    ASSUME NEW x, NEW y, NEW g, NEW h, x.from \in Nat, x.to \in Nat, y.from \in Nat, y.to \in Nat,
           g[1] \in Nat, g[2] \in Nat, h[1] \in Nat, h[2] \in Nat, g[2] <= h[1] \/ h[2] <= g[1],
           g[1] <= x.from, x.to <= g[2], h[1] <= y.from, y.to <= h[2]
    PROVE  Apart(x, y)
BY DEF Apart

LEMMA PacksExist ==
    ASSUME NEW tiers, NEW take, Len(tiers) \in Nat
    PROVE  \E f : f = Packed(f, tiers, take)
<1> DEFINE n == Len(tiers)
           Level(f, i) == [g \in Times \X Times |->
                             IF i > n THEN {} ELSE Descend(f[i + 1], take[tiers[i]][g], g[1], g[2])]
           Solves(f, k) == f = [i \in n + 1 - k .. n + 1 |-> Level(f, i)]
           Bad == {k \in Nat : k <= n /\ ~\E f : Solves(f, k)}
<1>0. n \in Nat
  OBVIOUS
<1> HIDE DEF n
<1>1. ASSUME Bad # {} PROVE FALSE
  <2>1. PICK k \in Bad : \A y \in Bad : k <= y
    BY <1>1, LeastIn
  <2>2. k \in Nat /\ k <= n /\ ~\E f : Solves(f, k)
    BY <2>1
  <2>3. CASE k = 0
    <3> DEFINE f == [i \in n + 1 .. n + 1 |-> [g \in Times \X Times |-> {}]]
    <3>1. \A i \in n + 1 .. n + 1 : i > n
      BY <1>0
    <3>2. f = [i \in n + 1 .. n + 1 |-> Level(f, i)]
      BY <3>1
    <3>3. n + 1 - 0 = n + 1
      BY <1>0
    <3> QED BY <2>2, <2>3, <3>2, <3>3
  <2>4. CASE k # 0
    <3>1. k - 1 \in Nat /\ k - 1 <= n /\ k - 1 \notin Bad
      <4> HIDE DEF Bad
      <4> QED BY <1>0, <2>1, <2>2, <2>4
    <3>2. PICK f : Solves(f, k - 1)
      BY <3>1
    <3> DEFINE h == [i \in n + 1 - k .. n + 1 |-> Level(f, i)]
    <3>3. \A i \in n + 1 - (k - 1) .. n + 1 : f[i] = h[i]
      <4>1. \A i \in n + 1 - (k - 1) .. n + 1 : i \in n + 1 - k .. n + 1
        BY <1>0, <2>2
      <4>2. \A i \in n + 1 - (k - 1) .. n + 1 : f[i] = Level(f, i)
        BY <3>2
      <4> QED BY <4>1, <4>2
    <3>4. \A i \in n + 1 - k .. n + 1 : i > n \/ i + 1 \in n + 1 - (k - 1) .. n + 1
      BY <1>0, <2>2
    <3>5. \A i \in n + 1 - k .. n + 1 : i > n \/ f[i + 1] = h[i + 1]
      BY <3>3, <3>4
    <3>6. \A i \in n + 1 - k .. n + 1 : Level(f, i) = Level(h, i)
      <4> SUFFICES ASSUME NEW i \in n + 1 - k .. n + 1 PROVE Level(f, i) = Level(h, i)
        OBVIOUS
      <4> HIDE DEF h
      <4>1. CASE i > n
        BY <4>1
      <4>2. CASE f[i + 1] = h[i + 1]
        BY <4>2
      <4> QED BY <3>5, <4>1, <4>2
    <3>7. h = [i \in n + 1 - k .. n + 1 |-> Level(h, i)]
      <4> HIDE DEF Level
      <4> QED BY <3>6
    <3> QED BY <2>2, <3>7
  <2> QED BY <2>3, <2>4
<1>2. n <= n /\ n + 1 - n = 1
  BY <1>0
<1>3. \E f : Solves(f, n)
  BY <1>0, <1>1, <1>2
<1>4. PICK f : f = [i \in 1 .. n + 1 |-> Level(f, i)]
  <2> HIDE DEF Level
  <2> QED BY <1>2, <1>3
<1> QED BY <1>4, Zenon DEF n, Packed

PackRun(f, tiers, take) ==
    \A i \in 1 .. Len(tiers) + 1 : \A s, e \in Times :
        f[i][<<s, e>>] = IF i > Len(tiers) THEN {}
                         ELSE Descend(f[i + 1], take[tiers[i]][<<s, e>>], s, e)

LEMMA PackIs ==
    ASSUME NEW tiers, NEW take, Len(tiers) \in Nat, NEW a, NEW b
    PROVE  \E f : Pack(tiers, take, a, b) = f[1][<<a, b>>] /\ PackRun(f, tiers, take)
<1>1. \E f : f = Packed(f, tiers, take)
  BY PacksExist
<1> DEFINE pack[i \in 1 .. Len(tiers) + 1] ==
               [g \in Times \X Times |->
                  IF i > Len(tiers) THEN {} ELSE Descend(pack[i + 1], take[tiers[i]][g], g[1], g[2])]
<1>2. pack = Packed(pack, tiers, take)
  BY <1>1, Zenon DEF Packed
<1>3. Pack(tiers, take, a, b) = pack[1][<<a, b>>]
  BY DEF Pack
<1> HIDE DEF pack
<1>4. \A i \in 1 .. Len(tiers) + 1 : \A g \in Times \X Times :
         pack[i][g] = IF i > Len(tiers) THEN {} ELSE Descend(pack[i + 1], take[tiers[i]][g], g[1], g[2])
  <2>1. \A i \in 1 .. Len(tiers) + 1 :
           pack[i] = [g \in Times \X Times |->
                        IF i > Len(tiers) THEN {} ELSE Descend(pack[i + 1], take[tiers[i]][g], g[1], g[2])]
    BY <1>2, Zenon DEF Packed
  <2> QED BY <2>1, Zenon
<1>5. \A s, e \in Times : <<s, e>> \in Times \X Times /\ <<s, e>>[1] = s /\ <<s, e>>[2] = e
  OBVIOUS
<1>6. \A i \in 1 .. Len(tiers) + 1 : \A s, e \in Times :
         pack[i][<<s, e>>] = IF i > Len(tiers) THEN {}
                             ELSE Descend(pack[i + 1], take[tiers[i]][<<s, e>>], s, e)
  <2> SUFFICES ASSUME NEW i \in 1 .. Len(tiers) + 1, NEW s \in Times, NEW e \in Times
               PROVE  pack[i][<<s, e>>] = IF i > Len(tiers) THEN {}
                                          ELSE Descend(pack[i + 1], take[tiers[i]][<<s, e>>], s, e)
    OBVIOUS
  <2>1. PICK g : g = <<s, e>>
    OBVIOUS
  <2>2. g \in Times \X Times /\ g[1] = s /\ g[2] = e
    BY <2>1
  <2>3. pack[i][g] = IF i > Len(tiers) THEN {} ELSE Descend(pack[i + 1], take[tiers[i]][g], g[1], g[2])
    BY <1>4, <2>2
  <2> QED BY <2>1, <2>2, <2>3, Zenon
<1>7. PackRun(pack, tiers, take)
  BY <1>6, Zenon DEF PackRun
<1> QED BY <1>3, <1>7

\* Tiers in the order of a packing.
IsOrder(tiers) == Len(tiers) \in Nat /\ \A i \in 1 .. Len(tiers) : tiers[i] \in Tiers

\* The atom is taken of a part of [s, e) that ends with it or on a boundary of a
\* tier that had its turn before.
TakenAt(x, tiers, take, i, s, e) ==
    \E j \in i .. Len(tiers) : \E p, q \in Times :
        /\ s <= p /\ p < q /\ q <= e /\ x \in take[tiers[j]][<<p, q>>]
        /\ q = e \/ \E l \in i .. j - 1 : q \in Grid[tiers[l]]

LEMMA TakenBounds ==
    ASSUME NEW tiers, IsOrder(tiers), NEW take, Takes(take), NEW i \in Nat, i >= 1,
           NEW s \in Times, NEW e \in Times, NEW x, TakenAt(x, tiers, take, i, s, e)
    PROVE  /\ x.tier \in Tiers /\ x.from \in Grid[x.tier] /\ x.from \in Times /\ x.to \in Times
           /\ x.from \in Nat /\ x.to \in Nat
           /\ s <= x.from /\ x.from < x.to /\ x.to <= e
<1>1. PICK j \in i .. Len(tiers), p \in Times, q \in Times :
         s <= p /\ p < q /\ q <= e /\ x \in take[tiers[j]][<<p, q>>]
  BY DEF TakenAt
<1>2. tiers[j] \in Tiers
  BY DEF IsOrder
<1>3. TakenOf(tiers[j], take[tiers[j]][<<p, q>>], p, q)
  BY <1>1, <1>2 DEF Takes
<1>4. /\ x.tier = tiers[j] /\ x.from \in Grid[tiers[j]] /\ x.from \in Times /\ x.to \in Times
      /\ p <= x.from /\ x.from < x.to /\ x.to <= q
  BY <1>1, <1>3 DEF TakenOf
<1>5. p \in Nat /\ q \in Nat /\ s \in Nat /\ e \in Nat /\ x.from \in Nat /\ x.to \in Nat
  BY <1>4, TimesNat
<1> QED BY <1>1, <1>2, <1>4, <1>5

\* What a level of the packing makes of every interval.
PackedLevel(level, tiers, take, i) ==
    \A s, e \in Times : s < e =>
        /\ \A x \in level[<<s, e>>] : TakenAt(x, tiers, take, i, s, e)
        /\ \A x, y \in level[<<s, e>>] : x = y \/ Apart(x, y)

LEMMA DescendLevel ==
    ASSUME NEW tiers, IsOrder(tiers), NEW take, Takes(take), NEW i \in 1 .. Len(tiers),
           NEW finer, PackedLevel(finer, tiers, take, i + 1), NEW s \in Times, NEW e \in Times, s < e
    PROVE  /\ \A x \in Descend(finer, take[tiers[i]][<<s, e>>], s, e) : TakenAt(x, tiers, take, i, s, e)
           /\ \A x, y \in Descend(finer, take[tiers[i]][<<s, e>>], s, e) : x = y \/ Apart(x, y)
<1> DEFINE taken == take[tiers[i]][<<s, e>>]
           gaps  == Residues(taken, s, e)
           found == Descend(finer, taken, s, e)
<1>0. i \in Nat /\ i >= 1 /\ i <= Len(tiers) /\ Len(tiers) \in Nat /\ i + 1 \in Nat /\ i + 1 >= 1 /\ tiers[i] \in Tiers
  BY DEF IsOrder
<1>1. TakenOf(tiers[i], taken, s, e)
  BY <1>0 DEF Takes
<1>2. /\ \A g \in gaps : /\ g = <<g[1], g[2]>> /\ g[1] \in Times /\ g[2] \in Times
                         /\ g[1] \in Nat /\ g[2] \in Nat
                         /\ s <= g[1] /\ g[1] < g[2] /\ g[2] <= e
                         /\ g[2] = e \/ \E x \in taken : g[2] = x.from
                         /\ \A x \in taken : x.to <= g[1] \/ x.from >= g[2]
      /\ \A g, h \in gaps : g = h \/ g[2] <= h[1] \/ h[2] <= g[1]
  <2> HIDE DEF taken
  <2>1. \A g \in Times \X Times : g[1] \in Times /\ g[2] \in Times
    OBVIOUS
  <2> QED BY <1>1, <2>1, ResiduesApart
<1>3. \A x : x \in found <=> x \in taken \/ \E g \in gaps : x \in finer[g]
  BY DEF Descend
<1> HIDE DEF taken, gaps, found
<1>4. \A x \in taken : x.from \in Grid[tiers[i]] /\ x.from \in Nat /\ x.to \in Nat /\ x.from < x.to
  BY <1>1, TimesNat DEF TakenOf
<1>5. s \in Nat /\ e \in Nat
  BY TimesNat
<1>6. ASSUME NEW x \in taken PROVE TakenAt(x, tiers, take, i, s, e)
  <2>1. i \in i .. Len(tiers) /\ s <= s /\ e <= e
    BY <1>0, <1>5
  <2>2. x \in take[tiers[i]][<<s, e>>]
    BY <1>6 DEF taken
  <2> QED BY <2>1, <2>2 DEF TakenAt
<1>7. ASSUME NEW g \in gaps, NEW x \in finer[g]
      PROVE  /\ TakenAt(x, tiers, take, i, s, e)
             /\ g[1] <= x.from /\ x.from < x.to /\ x.to <= g[2] /\ x.from \in Nat /\ x.to \in Nat
  <2>1. /\ g = <<g[1], g[2]>> /\ g[1] \in Times /\ g[2] \in Times /\ g[1] \in Nat /\ g[2] \in Nat
        /\ s <= g[1] /\ g[1] < g[2] /\ g[2] <= e
        /\ g[2] = e \/ \E y \in taken : g[2] = y.from
    BY <1>2
  <2>2. TakenAt(x, tiers, take, i + 1, g[1], g[2])
    BY <1>7, <2>1 DEF PackedLevel
  <2>3. PICK j \in i + 1 .. Len(tiers), p \in Times, q \in Times :
           /\ g[1] <= p /\ p < q /\ q <= g[2] /\ x \in take[tiers[j]][<<p, q>>]
           /\ q = g[2] \/ \E l \in i + 1 .. j - 1 : q \in Grid[tiers[l]]
    BY <2>2 DEF TakenAt
  <2>4. j \in i .. Len(tiers) /\ i \in i .. j - 1 /\ \A l \in i + 1 .. j - 1 : l \in i .. j - 1
    BY <1>0
  <2>5. p \in Nat /\ q \in Nat
    BY TimesNat
  <2>6. s <= p /\ p < q /\ q <= e
    BY <1>5, <2>1, <2>3, <2>5
  <2>7. q = e \/ \E l \in i .. j - 1 : q \in Grid[tiers[l]]
    <3>1. CASE q = g[2]
      BY <1>4, <2>1, <2>4, <3>1
    <3>2. CASE \E l \in i + 1 .. j - 1 : q \in Grid[tiers[l]]
      BY <2>4, <3>2
    <3> QED BY <2>3, <3>1, <3>2
  <2>8. TakenAt(x, tiers, take, i, s, e)
    BY <2>3, <2>4, <2>6, <2>7 DEF TakenAt
  <2>9. g[1] <= x.from /\ x.from < x.to /\ x.to <= g[2] /\ x.from \in Nat /\ x.to \in Nat
    BY <1>0, <2>1, <2>2, TakenBounds
  <2> QED BY <2>8, <2>9
<1>8. \A x \in found : TakenAt(x, tiers, take, i, s, e)
  BY <1>3, <1>6, <1>7
<1>9. ASSUME NEW x \in taken, NEW g \in gaps, NEW y \in finer[g] PROVE Apart(x, y) /\ Apart(y, x)
  <2>1. x.to <= g[1] \/ x.from >= g[2]
    BY <1>2
  <2>2. g[1] <= y.from /\ y.from < y.to /\ y.to <= g[2] /\ y.from \in Nat /\ y.to \in Nat
    BY <1>7
  <2>3. x.from \in Nat /\ x.to \in Nat /\ g[1] \in Nat /\ g[2] \in Nat
    BY <1>2, <1>4
  <2> QED BY <2>1, <2>2, <2>3, LeftApart
<1>10. ASSUME NEW g \in gaps, NEW h \in gaps, NEW x \in finer[g], NEW y \in finer[h]
       PROVE  x = y \/ Apart(x, y)
  <2>1. CASE g = h
    <3>1. g = <<g[1], g[2]>> /\ g[1] \in Times /\ g[2] \in Times /\ g[1] < g[2]
      BY <1>2
    <3>2. \A u, v \in finer[<<g[1], g[2]>>] : u = v \/ Apart(u, v)
      BY <3>1 DEF PackedLevel
    <3> QED BY <1>10, <2>1, <3>1, <3>2
  <2>2. CASE g # h
    <3>1. g[2] <= h[1] \/ h[2] <= g[1]
      BY <1>2, <2>2
    <3>2. g[1] <= x.from /\ x.from < x.to /\ x.to <= g[2] /\ x.from \in Nat /\ x.to \in Nat
      BY <1>7
    <3>3. h[1] <= y.from /\ y.from < y.to /\ y.to <= h[2] /\ y.from \in Nat /\ y.to \in Nat
      BY <1>7
    <3>4. g[1] \in Nat /\ g[2] \in Nat /\ h[1] \in Nat /\ h[2] \in Nat
      BY <1>2
    <3> QED BY <3>1, <3>2, <3>3, <3>4, SidesApart
  <2> QED BY <2>1, <2>2
<1>11. \A x, y \in taken : x = y \/ Apart(x, y)
  BY <1>1 DEF TakenOf
<1>12. ASSUME NEW x \in found, NEW y \in found PROVE x = y \/ Apart(x, y)
  <2>1. CASE x \in taken /\ y \in taken
    BY <1>11, <2>1
  <2>2. CASE x \in taken /\ \E g \in gaps : y \in finer[g]
    BY <1>9, <2>2
  <2>3. CASE y \in taken /\ \E g \in gaps : x \in finer[g]
    BY <1>9, <2>3
  <2>4. CASE (\E g \in gaps : x \in finer[g]) /\ (\E g \in gaps : y \in finer[g])
    BY <1>10, <2>4
  <2> QED BY <1>3, <2>1, <2>2, <2>3, <2>4
<1> QED BY <1>8, <1>12 DEF found, taken

LEMMA PackSound ==
    ASSUME NEW tiers, IsOrder(tiers), NEW take, Takes(take), NEW a \in Times, NEW b \in Times, a < b
    PROVE  /\ \A x \in Pack(tiers, take, a, b) : TakenAt(x, tiers, take, 1, a, b)
           /\ \A x, y \in Pack(tiers, take, a, b) : x = y \/ Apart(x, y)
<1> DEFINE n == Len(tiers)
<1>0. n \in Nat
  BY DEF IsOrder
<1>1. PICK f : Pack(tiers, take, a, b) = f[1][<<a, b>>] /\ PackRun(f, tiers, take)
  BY <1>0, PackIs
<1> DEFINE Bad == {k \in Nat : k <= n /\ ~PackedLevel(f[n + 1 - k], tiers, take, n + 1 - k)}
<1> HIDE DEF n
<1>2. ASSUME Bad # {} PROVE FALSE
  <2>1. PICK k \in Bad : \A y \in Bad : k <= y
    BY <1>2, LeastIn
  <2>2. k \in Nat /\ k <= n /\ ~PackedLevel(f[n + 1 - k], tiers, take, n + 1 - k)
    BY <2>1
  <2>3. k # 0
    <3> SUFFICES ASSUME k = 0 PROVE FALSE
      OBVIOUS
    <3>1. n + 1 - k = n + 1 /\ n + 1 \in 1 .. n + 1 /\ n + 1 > n
      BY <1>0
    <3>2. \A s, e \in Times : f[n + 1][<<s, e>>] = {}
      BY <1>1, <3>1 DEF PackRun, n
    <3> QED BY <2>2, <3>1, <3>2 DEF PackedLevel
  <2> DEFINE i == n + 1 - k
  <2>4. k - 1 \in Nat /\ k - 1 <= n /\ n + 1 - (k - 1) = i + 1 /\ i \in 1 .. n /\ i \in 1 .. n + 1 /\ ~(i > n)
    BY <1>0, <2>2, <2>3
  <2>5. k - 1 \notin Bad
    <3> HIDE DEF Bad
    <3> QED BY <2>1, <2>2, <2>4
  <2>6. PackedLevel(f[i + 1], tiers, take, i + 1)
    BY <2>4, <2>5
  <2> HIDE DEF i
  <2>7. \A s, e \in Times : f[i][<<s, e>>] = Descend(f[i + 1], take[tiers[i]][<<s, e>>], s, e)
    BY <1>1, <2>4 DEF PackRun, n
  <2>8. i \in 1 .. Len(tiers)
    BY <2>4 DEF n
  <2>9. \A s, e \in Times : s < e =>
           /\ \A x \in f[i][<<s, e>>] : TakenAt(x, tiers, take, i, s, e)
           /\ \A x, y \in f[i][<<s, e>>] : x = y \/ Apart(x, y)
    <3> SUFFICES ASSUME NEW s \in Times, NEW e \in Times, s < e
                 PROVE  /\ \A x \in f[i][<<s, e>>] : TakenAt(x, tiers, take, i, s, e)
                        /\ \A x, y \in f[i][<<s, e>>] : x = y \/ Apart(x, y)
      OBVIOUS
    <3> DEFINE found == Descend(f[i + 1], take[tiers[i]][<<s, e>>], s, e)
    <3>1. /\ \A x \in found : TakenAt(x, tiers, take, i, s, e)
          /\ \A x, y \in found : x = y \/ Apart(x, y)
      BY <2>6, <2>8, DescendLevel
    <3>2. f[i][<<s, e>>] = found
      BY <2>7
    <3> HIDE DEF found
    <3> QED BY <3>1, <3>2
  <2>10. PackedLevel(f[i], tiers, take, i)
    BY <2>9 DEF PackedLevel
  <2> QED BY <2>2, <2>10 DEF i
<1>3. n \in Nat /\ n <= n /\ n + 1 - n = 1
  BY <1>0
<1>4. PackedLevel(f[1], tiers, take, 1)
  BY <1>2, <1>3
<1>5. f[1][<<a, b>>] = Pack(tiers, take, a, b)
  BY <1>1
<1> QED BY <1>4, <1>5 DEF PackedLevel

-----------------------------------------------------------------------------
(* What the two packings take. *)

LEMMA MinMaxOf ==
    ASSUME NEW x \in Times, NEW y \in Times
    PROVE  /\ Min({x, y}) \in {x, y} /\ Min({x, y}) \in Times /\ Min({x, y}) <= x /\ Min({x, y}) <= y
           /\ Max({x, y}) \in {x, y} /\ Max({x, y}) \in Times /\ x <= Max({x, y}) /\ y <= Max({x, y})
<1>1. {x, y} \subseteq Nat /\ {x, y} \subseteq 0 .. Horizon /\ {x, y} # {} /\ Horizon \in Nat
  BY TimesNat DEF Times
<1>2. Min({x, y}) \in {x, y} /\ \A z \in {x, y} : Min({x, y}) <= z
  BY <1>1, LeastIn
<1>3. Max({x, y}) \in {x, y} /\ \A z \in {x, y} : z <= Max({x, y})
  BY <1>1, GreatestIn
<1> QED BY <1>2, <1>3

LEMMA SealedTaken ==
    ASSUME NEW lg \in [Tiers -> Times], NEW er \in [Tiers -> Times], NEW t \in Tiers,
           NEW s \in Times, NEW e \in Times, s < e
    PROVE  /\ TakenOf(t, TakeSealed(t, lg, er, s, e), s, e)
           /\ \A x \in TakeSealed(t, lg, er, s, e) :
                 x.to \in Grid[t] \/ (Base(t) /\ (x.to = e \/ x.to = lg[t]))
<1> DEFINE upto  == Min({e, lg[t]})
           from  == Max({s, er[t]})
           first == Ceil(Grid[t], from)
           last  == Floor(Grid[t], upto)
           taken == TakeSealed(t, lg, er, s, e)
<1>1. IsGrid(Grid[t])
  BY TierFacts
<1>2. upto \in {e, lg[t]} /\ upto \in Times /\ upto <= e /\ from \in Times /\ s <= from
  BY MinMaxOf
<1>3. first \in Grid[t] /\ from <= first /\ last \in Grid[t] /\ last <= upto
  BY <1>1, <1>2, CeilOf, FloorOf
<1>4. first \in Times /\ last \in Times
  BY <1>1, <1>3, GridFacts
<1>5. /\ upto \in Nat /\ from \in Nat /\ first \in Nat /\ last \in Nat /\ s \in Nat /\ e \in Nat
  BY <1>2, <1>4, TimesNat
<1>6. \A x \in taken :
         \/ first < last /\ x = Atom(t, first, last)
         \/ Base(t) /\ last < upto /\ last >= s /\ x = Atom(t, last, upto)
  BY DEF TakeSealed
<1> HIDE DEF upto, from, first, last, taken
<1>7. ASSUME NEW x \in taken
      PROVE  /\ x.tier = t /\ x.from \in Grid[t] /\ x.from \in Times /\ x.to \in Times
             /\ s <= x.from /\ x.from < x.to /\ x.to <= e
             /\ x.to \in Grid[t] \/ (Base(t) /\ (x.to = e \/ x.to = lg[t]))
  <2>1. CASE first < last /\ x = Atom(t, first, last)
    BY <1>2, <1>3, <1>4, <1>5, <2>1 DEF Atom
  <2>2. CASE Base(t) /\ last < upto /\ last >= s /\ x = Atom(t, last, upto)
    BY <1>2, <1>3, <1>4, <1>5, <2>2 DEF Atom
  <2> QED BY <1>6, <2>1, <2>2
<1>8. Atom(t, first, last).to = last /\ Atom(t, last, upto).from = last
  BY DEF Atom
<1>9. \A x, y \in taken : x = y \/ Apart(x, y)
  BY <1>5, <1>6, <1>8 DEF Apart
<1> QED BY <1>7, <1>9 DEF TakenOf, taken

LEMMA RegisteredTaken ==
    ASSUME NEW held, NEW t \in Tiers, NEW s \in Times, NEW e \in Times
    PROVE  /\ TakenOf(t, BinsInside(t, s, e), s, e)
           /\ TakenOf(t, TakeRegistered(t, held, s, e), s, e)
           /\ \A x \in BinsInside(t, s, e) :
                 x = Atom(t, x.from, x.to) /\ x.from < Horizon /\ x.to = After(Grid[t], x.from) /\ x.to \in Grid[t]
           /\ \A x \in TakeRegistered(t, held, s, e) : x \in BinsInside(t, s, e) /\ Held(x, held)
<1> DEFINE bins == BinsInside(t, s, e)
<1>1. IsGrid(Grid[t])
  BY TierFacts
<1>2. \A z \in bins : \E x \in Grid[t] : /\ x # Horizon /\ z = Atom(t, x, After(Grid[t], x))
                                         /\ s <= x /\ After(Grid[t], x) <= e
  BY DEF BinsInside
<1>3. \A x \in Grid[t] : x # Horizon =>
         /\ x \in Times /\ x \in Nat /\ x < Horizon /\ After(Grid[t], x) \in Grid[t] /\ x < After(Grid[t], x)
         /\ After(Grid[t], x) \in Times /\ After(Grid[t], x) \in Nat
         /\ \A y \in Grid[t] : y > x => After(Grid[t], x) <= y
  BY <1>1, TimesNat, GridFacts, AfterOf
<1> HIDE DEF bins
<1>4. \A z \in bins :
         /\ z = Atom(t, z.from, z.to) /\ z.tier = t /\ z.from \in Grid[t] /\ z.from # Horizon
         /\ z.to = After(Grid[t], z.from) /\ s <= z.from /\ z.to <= e
  BY <1>2 DEF Atom
<1>5. \A z \in bins : /\ z.from \in Times /\ z.to \in Times /\ z.from < z.to /\ z.to \in Grid[t]
                      /\ z.from < Horizon
  BY <1>3, <1>4
<1>6. ASSUME NEW y \in bins, NEW z \in bins PROVE y = z \/ Apart(y, z)
  <2>1. CASE y.from = z.from
    BY <1>4, <2>1
  <2>2. CASE y.from # z.from
    <3>1. y.from \in Nat /\ z.from \in Nat
      BY <1>3, <1>4
    <3>2. y.from < z.from => y.to <= z.from
      BY <1>3, <1>4
    <3>3. z.from < y.from => z.to <= y.from
      BY <1>3, <1>4
    <3> QED BY <2>2, <3>1, <3>2, <3>3 DEF Apart
  <2> QED BY <2>1, <2>2
<1>7. TakenOf(t, bins, s, e)
  BY <1>4, <1>5, <1>6 DEF TakenOf
<1>8. \A x \in TakeRegistered(t, held, s, e) : x \in bins /\ Held(x, held)
  BY DEF TakeRegistered, bins
<1>9. TakenOf(t, TakeRegistered(t, held, s, e), s, e)
  BY <1>7, <1>8 DEF TakenOf
<1> QED BY <1>4, <1>5, <1>7, <1>8, <1>9 DEF bins

LEMMA OrderOfPack ==
    ASSUME NEW w
    PROVE  IsOrder(PackTiers(w))
BY PackTiersType DEF IsOrder

\* The atoms of a month that is packed by watermarks: they do not overlap, begin
\* on boundaries of their tier, and end on one unless they are cut.
LEMMA SealedPack ==
    ASSUME NEW lg \in [Tiers -> Times], NEW er \in [Tiers -> Times], NEW w,
           NEW a \in Times, NEW b \in Times, a < b
    PROVE  /\ \A x \in PackSealed(PackTiers(w), lg, er, a, b) :
                 /\ x.tier \in Tiers /\ x.from \in Grid[x.tier] /\ x.from \in Times /\ x.to \in Times
                 /\ a <= x.from /\ x.from < x.to /\ x.to <= b
                 /\ \/ x.to \in Grid[x.tier]
                    \/ /\ Base(x.tier)
                       /\ \/ x.to = lg[x.tier]
                          \/ x.to = b
                          \/ \E y \in Tiers : Outranks(y, x.tier) /\ x.to \in Grid[y]
           /\ \A x, y \in PackSealed(PackTiers(w), lg, er, a, b) : x = y \/ Apart(x, y)
<1> DEFINE tiers == PackTiers(w)
           take == [t \in Tiers |-> [g \in Times \X Times |-> TakeSealed(t, lg, er, g[1], g[2])]]
           packed == PackSealed(tiers, lg, er, a, b)
<1>1. packed = Pack(tiers, take, a, b)
  BY DEF PackSealed
<1>2. \A t \in Tiers, s, e \in Times : take[t][<<s, e>>] = TakeSealed(t, lg, er, s, e)
  OBVIOUS
<1> HIDE DEF take, packed
<1>3. Takes(take)
  BY <1>2, SealedTaken DEF Takes
<1> HIDE DEF tiers
<1>4. IsOrder(tiers)
  BY OrderOfPack DEF tiers
<1>5. /\ \A x \in packed : TakenAt(x, tiers, take, 1, a, b)
      /\ \A x, y \in packed : x = y \/ Apart(x, y)
  BY <1>1, <1>3, <1>4, PackSound
<1>6. ASSUME NEW x \in packed
      PROVE  \/ x.to \in Grid[x.tier]
             \/ /\ Base(x.tier)
                /\ \/ x.to = lg[x.tier]
                   \/ x.to = b
                   \/ \E y \in Tiers : Outranks(y, x.tier) /\ x.to \in Grid[y]
  <2>1. PICK j \in 1 .. Len(tiers), p \in Times, q \in Times :
           /\ a <= p /\ p < q /\ q <= b /\ x \in take[tiers[j]][<<p, q>>]
           /\ q = b \/ \E l \in 1 .. j - 1 : q \in Grid[tiers[l]]
    BY <1>5 DEF TakenAt
  <2>2. tiers[j] \in Tiers
    BY <1>4 DEF IsOrder
  <2>3. x \in TakeSealed(tiers[j], lg, er, p, q)
    BY <1>2, <2>1, <2>2
  <2>4. /\ x.tier = tiers[j]
        /\ x.to \in Grid[tiers[j]] \/ (Base(tiers[j]) /\ (x.to = q \/ x.to = lg[tiers[j]]))
    <3>1. PICK t \in Tiers : t = tiers[j]
      BY <2>2
    <3>2. /\ TakenOf(t, TakeSealed(t, lg, er, p, q), p, q)
          /\ \A y \in TakeSealed(t, lg, er, p, q) : y.to \in Grid[t] \/ (Base(t) /\ (y.to = q \/ y.to = lg[t]))
      BY <2>1, SealedTaken
    <3> QED BY <2>3, <3>1, <3>2 DEF TakenOf
  <2>5. ASSUME NEW l \in 1 .. j - 1 PROVE tiers[l] \in Tiers /\ Outranks(tiers[l], tiers[j])
    <3>1. l \in 1 .. Len(tiers) /\ l < j
      BY <1>4 DEF IsOrder
    <3>2. l \in DOMAIN tiers /\ j \in DOMAIN tiers
      BY <3>1, PackTiersType DEF tiers
    <3> QED BY <3>1, <3>2, PackTiersType DEF tiers
  <2> QED BY <2>1, <2>4, <2>5
<1>7. \A x \in packed :
         /\ x.tier \in Tiers /\ x.from \in Grid[x.tier] /\ x.from \in Times /\ x.to \in Times
         /\ a <= x.from /\ x.from < x.to /\ x.to <= b
  BY <1>3, <1>4, <1>5, TakenBounds
<1> QED BY <1>5, <1>6, <1>7 DEF packed, tiers

\* The atoms of a month that is packed from registered shards are whole bins.
LEMMA RegisteredPack ==
    ASSUME NEW held, NEW w, NEW a \in Times, NEW b \in Times, a < b
    PROVE  /\ \A x \in PackRegistered(PackTiers(w), held, a, b) :
                 /\ x.tier \in Tiers /\ x.from \in Grid[x.tier] /\ x.from \in Times /\ x.to \in Times
                 /\ a <= x.from /\ x.from < x.to /\ x.to <= b
                 /\ x.to \in Grid[x.tier] /\ Held(x, held)
           /\ \A x, y \in PackRegistered(PackTiers(w), held, a, b) : x = y \/ Apart(x, y)
<1> DEFINE tiers == PackTiers(w)
           take == [t \in Tiers |-> [g \in Times \X Times |-> TakeRegistered(t, held, g[1], g[2])]]
           packed == PackRegistered(tiers, held, a, b)
<1>1. packed = Pack(tiers, take, a, b)
  BY DEF PackRegistered
<1>2. \A t \in Tiers, s, e \in Times : take[t][<<s, e>>] = TakeRegistered(t, held, s, e)
  OBVIOUS
<1> HIDE DEF take, packed
<1>3. Takes(take)
  BY <1>2, RegisteredTaken DEF Takes
<1> HIDE DEF tiers
<1>4. IsOrder(tiers)
  BY OrderOfPack DEF tiers
<1>5. /\ \A x \in packed : TakenAt(x, tiers, take, 1, a, b)
      /\ \A x, y \in packed : x = y \/ Apart(x, y)
  BY <1>1, <1>3, <1>4, PackSound
<1>6. ASSUME NEW x \in packed
      PROVE  x.to \in Grid[x.tier] /\ Held(x, held)
  <2>1. PICK j \in 1 .. Len(tiers), p \in Times, q \in Times : x \in take[tiers[j]][<<p, q>>]
    BY <1>5 DEF TakenAt
  <2>2. tiers[j] \in Tiers
    BY <1>4 DEF IsOrder
  <2>3. x \in TakeRegistered(tiers[j], held, p, q)
    BY <1>2, <2>1, <2>2
  <2>4. TakenOf(tiers[j], TakeRegistered(tiers[j], held, p, q), p, q) /\ x \in BinsInside(tiers[j], p, q) /\ Held(x, held)
    BY <2>2, <2>3, RegisteredTaken
  <2>5. x.tier = tiers[j]
    BY <2>3, <2>4 DEF TakenOf
  <2> QED BY <2>2, <2>4, <2>5, RegisteredTaken
<1>7. \A x \in packed :
         /\ x.tier \in Tiers /\ x.from \in Grid[x.tier] /\ x.from \in Times /\ x.to \in Times
         /\ a <= x.from /\ x.from < x.to /\ x.to <= b
  BY <1>3, <1>4, <1>5, TakenBounds
<1> QED BY <1>5, <1>6, <1>7 DEF packed, tiers

-----------------------------------------------------------------------------
(* The inputs of a query, which no step changes. *)

QueryInv ==
    /\ query \in Queries
    /\ query.from < query.to /\ query.target \in {0} \cup DOMAIN Targets /\ query.budget \in Nat
    /\ query.smooth[1] \in Nat /\ query.smooth[2] \in Nat

GivenInv ==
    /\ PlannedFrom \in Times /\ PlannedTo \in Times
    /\ declared \in [Cells -> 0 .. Far] /\ early \in [Tiers -> Times] /\ gate \in [Cells -> Times]
    /\ inventory \subseteq Shards /\ (FromWm => inventory = {})
    /\ sealed = [c \in Cells |-> Effective(declared, c)]
    /\ largest = [t \in Tiers |-> Largest(declared, t, PlannedTo)]
    /\ earliest = [t \in Tiers |-> Earliest(early, t)]

InputsInv == QueryInv /\ GivenInv

LEMMA PickTierType ==
    ASSUME NEW from, NEW to, NEW budget
    PROVE  PickTier(from, to, budget) \in Tiers
<1> DEFINE fits == {t \in Tiers : BinsInRange(from, to, Grid[t]) <= budget}
<1>1. Len(Grid) \in Nat /\ Tiers \subseteq 0 .. Len(Grid) /\ Tiers # {} /\ Tiers \subseteq Nat
  BY LadderAssumption
<1>2. Max(Tiers) \in Tiers
  BY <1>1, GreatestIn
<1>3. fits # {} => Min(fits) \in fits
  <2>1. fits \subseteq Nat
    BY <1>1
  <2> HIDE DEF fits
  <2> QED BY <2>1, LeastIn
<1> QED BY <1>2, <1>3 DEF PickTier

LEMMA QueryFacts ==
    ASSUME QueryInv
    PROVE  /\ query.flavor \in {"watermarks", "inventory"}
           /\ query.from \in Times /\ query.to \in Times /\ query.from \in Nat /\ query.to \in Nat
           /\ OutTier \in Tiers /\ IsGrid(OutGrid) /\ OutWidth \in Nat
           /\ Ragged => /\ OutGrid = Target.grid /\ Target.width \in Nat /\ Target.calendar \in BOOLEAN
                        /\ Target.calendar => OutGrid \subseteq Day
           /\ ~Ragged => OutGrid = Grid[OutTier]
<1>1. /\ query.flavor \in {"watermarks", "inventory"} /\ query.from \in Times /\ query.to \in Times
  BY DEF QueryInv, Queries
<1>2. OutTier \in Tiers
  BY PickTierType DEF OutTier
<1>3. IsGrid(Grid[OutTier]) /\ Width[OutTier] \in Nat
  BY <1>2, TierFacts
<1>4. Ragged => query.target \in DOMAIN Targets
  BY DEF QueryInv, Ragged
<1>5. Ragged => /\ IsGrid(Target.grid) /\ Target.width \in Nat /\ Target.calendar \in BOOLEAN
                /\ Target.calendar => Target.grid \subseteq Day
  BY <1>4, QueryAssumption DEF Target, IsGrid
<1> QED BY <1>1, <1>2, <1>3, <1>5, TimesNat DEF OutGrid, OutWidth

LEMMA InitInputs == Init => InputsInv
<1> SUFFICES ASSUME Init PROVE InputsInv
  OBVIOUS
<1>1. /\ query \in Queries /\ <<query.from, query.to>> \in Ranges /\ <<query.target, query.budget>> \in Asked
  BY DEF Init
<1>2. query.from < query.to
  BY <1>1, QueryAssumption
<1>3. query.target \in {0} \cup DOMAIN Targets /\ query.budget \in Nat
  BY <1>1, QueryAssumption
<1>4. query.smooth \in Smoothings
  BY <1>1 DEF Queries
<1>5. QueryInv
  BY <1>1, <1>2, <1>3, <1>4, QueryAssumption DEF QueryInv
<1>6. PlannedFrom >= 0 /\ PlannedTo <= Horizon
  BY DEF Init
<1>7. PlannedFrom \in Times /\ PlannedTo \in Times
  <2>1. /\ query.from \in Nat /\ query.to \in Nat /\ query.from <= Horizon /\ OutWidth \in Nat
        /\ query.smooth[1] \in Nat /\ query.smooth[2] \in Nat
    BY <1>5, QueryFacts, TimesNat DEF QueryInv
  <2> DEFINE m == query.smooth[1] * OutWidth
             n == query.smooth[2] * OutWidth
  <2>2. m \in Nat /\ n \in Nat
    BY <2>1
  <2>3. PlannedFrom = query.from - m /\ PlannedTo = query.to + n
    BY DEF PlannedFrom, PlannedTo
  <2> HIDE DEF m, n
  <2>4. PlannedFrom \in Nat /\ PlannedFrom <= Horizon /\ PlannedTo \in Nat
    BY <1>6, <2>1, <2>2, <2>3, TimesNat
  <2> QED BY <1>6, <2>4, TimesNat
<1>8. FromWm \/ ~FromWm
  OBVIOUS
<1>9. declared \in [Cells -> 0 .. Far]
  BY QueryAssumption DEF Init
<1>10. inventory \subseteq Shards /\ (FromWm => inventory = {})
  <2>1. FromWm => inventory = {}
    BY DEF Init
  <2>2. ~FromWm => \E i \in Inventories : inventory = {s \in i : EndOf(s) > query.from /\ StartOf(s) < query.to}
    BY DEF Init
  <2>3. ~FromWm => inventory \subseteq Shards
    BY <2>2, QueryAssumption
  <2> QED BY <2>1, <2>3
<1>11. early \in [Tiers -> Times] /\ gate \in [Cells -> Times]
  BY QueryAssumption DEF Init
<1>12. /\ sealed = [c \in Cells |-> Effective(declared, c)]
       /\ largest = [t \in Tiers |-> Largest(declared, t, PlannedTo)]
       /\ earliest = [t \in Tiers |-> Earliest(early, t)]
  BY DEF Init
<1> QED BY <1>5, <1>7, <1>9, <1>10, <1>11, <1>12 DEF InputsInv, GivenInv

LEMMA InputsKept == InputsInv /\ UNCHANGED inputs => InputsInv'
BY DEF InputsInv, QueryInv, GivenInv, inputs, Queries, PlannedFrom, PlannedTo, OutWidth, OutTier, Ragged, Target, FromWm

LEMMA GivenFacts ==
    ASSUME InputsInv
    PROVE  /\ PlannedFrom \in Times /\ PlannedTo \in Times /\ PlannedFrom \in Nat /\ PlannedTo \in Nat
           /\ PlannedFrom <= query.from /\ query.to <= PlannedTo /\ PlannedFrom < PlannedTo
           /\ PlannedTo <= Horizon
           /\ sealed \in [Cells -> 0 .. Far]
           /\ largest \in [Tiers -> Times] /\ \A t \in Tiers : largest[t] <= PlannedTo
           /\ earliest \in [Tiers -> Times]
<1>1. /\ query.from \in Nat /\ query.to \in Nat /\ query.from < query.to /\ OutWidth \in Nat
      /\ query.smooth[1] \in Nat /\ query.smooth[2] \in Nat
  BY QueryFacts DEF InputsInv, QueryInv
<1>2. PlannedFrom <= query.from /\ query.to <= PlannedTo
  <2> DEFINE m == query.smooth[1] * OutWidth
             n == query.smooth[2] * OutWidth
  <2>1. m \in Nat /\ n \in Nat
    BY <1>1
  <2>2. PlannedFrom = query.from - m /\ PlannedTo = query.to + n
    BY DEF PlannedFrom, PlannedTo
  <2> HIDE DEF m, n
  <2> QED BY <1>1, <2>1, <2>2
<1>3. PlannedFrom \in Times /\ PlannedTo \in Times /\ PlannedFrom \in Nat /\ PlannedTo \in Nat /\ PlannedTo <= Horizon
  BY TimesNat DEF InputsInv, GivenInv
<1>4. sealed \in [Cells -> 0 .. Far]
  BY EffectiveType DEF InputsInv, GivenInv
<1>5. largest \in [Tiers -> Times] /\ \A t \in Tiers : largest[t] <= PlannedTo
  BY LargestType DEF InputsInv, GivenInv
<1>6. earliest \in [Tiers -> Times]
  BY EarliestType DEF InputsInv, GivenInv
<1> QED BY <1>1, <1>2, <1>3, <1>4, <1>5, <1>6

-----------------------------------------------------------------------------
(* The sources of the walk. *)

LEMMA SourceFacts ==
    ASSUME InputsInv, NEW x \in Times, x < Horizon, NEW s \in Sources(x)
    PROVE  /\ s.cell \in Cells /\ TierOf(s.cell) <= OutTier
           /\ s.upto \in Times /\ x < s.upto /\ s.upto <= After(Edges(s.cell), x)
           /\ FromWm => s.upto <= sealed[s.cell] /\ s.upto \in {sealed[s.cell], After(Edges(s.cell), x)}
           /\ ~FromWm => /\ <<s.cell, Floor(Edges(s.cell), x)>> \in inventory
                         /\ s.upto = EndOf(<<s.cell, Floor(Edges(s.cell), x)>>)
<1>1. x \in Nat /\ x <= Horizon
  BY TimesNat
<1>2. \A c \in Cells : After(Edges(c), x) \in Times /\ After(Edges(c), x) \in Nat /\ x < After(Edges(c), x)
  BY CellFacts, AfterOf, TimesNat DEF IsGrid
<1>3. CASE \E c \in Cells : /\ FromWm /\ TierOf(c) <= OutTier /\ sealed[c] > x
                            /\ s = [cell |-> c, upto |-> Min({sealed[c], After(Edges(c), x)})]
  <2>1. PICK c \in Cells : /\ FromWm /\ TierOf(c) <= OutTier /\ sealed[c] > x
                           /\ s = [cell |-> c, upto |-> Min({sealed[c], After(Edges(c), x)})]
    BY <1>3
  <2> DEFINE m == Min({sealed[c], After(Edges(c), x)})
  <2>2. sealed[c] \in Nat
    BY GivenFacts, TimesNat
  <2>3. {sealed[c], After(Edges(c), x)} \subseteq Nat /\ {sealed[c], After(Edges(c), x)} # {}
    BY <1>2, <2>2
  <2>4. m \in {sealed[c], After(Edges(c), x)} /\ m <= sealed[c] /\ m <= After(Edges(c), x)
    BY <2>3, LeastIn
  <2>5. m \in Nat /\ m <= Horizon /\ x < m
    BY <1>1, <1>2, <2>1, <2>2, <2>4, TimesNat
  <2>6. s.cell = c /\ s.upto = m
    BY <2>1
  <2> HIDE DEF m
  <2> QED BY <2>1, <2>4, <2>5, <2>6, TimesNat
<1>4. CASE \E r \in inventory : /\ TierOf(CellOf(r)) <= OutTier /\ StartOf(r) <= x /\ x < EndOf(r)
                                /\ s = [cell |-> CellOf(r), upto |-> EndOf(r)]
  <2>1. PICK r \in inventory : /\ TierOf(CellOf(r)) <= OutTier /\ StartOf(r) <= x /\ x < EndOf(r)
                               /\ s = [cell |-> CellOf(r), upto |-> EndOf(r)]
    BY <1>4
  <2>2. r \in Shards /\ ~FromWm
    BY <2>1 DEF InputsInv, GivenInv
  <2> DEFINE c == CellOf(r)
             d == <<c, Floor(Edges(c), x)>>
  <2>3. c \in Cells /\ StartOf(r) \in Nat /\ EndOf(r) \in Times /\ EndOf(r) \in Edges(c)
    BY <2>2, ShardFacts, TimesNat
  <2>4. d \in Shards /\ StartOf(d) <= x /\ x < EndOf(d) /\ CellOf(d) = c
    BY <1>1, <2>3, ShardAt DEF CellOf
  <2> HIDE DEF d
  <2>5. r = d
    BY <2>1, <2>2, <2>4, OneShard
  <2>6. EndOf(r) <= After(Edges(c), x)
    <3>1. After(Edges(c), x) \in Edges(c) /\ x < After(Edges(c), x) /\ After(Edges(c), x) \in Nat
      BY <1>2, <2>3, CellFacts, AfterOf
    <3>2. StartOf(r) < After(Edges(c), x)
      BY <1>1, <2>1, <2>3, <3>1
    <3> QED BY <2>2, <3>1, <3>2, ShardFacts
  <2> QED BY <2>1, <2>2, <2>3, <2>5, <2>6 DEF d
<1> QED BY <1>3, <1>4 DEF Sources

LEMMA BestIn ==
    ASSUME InputsInv, NEW x \in Times, x < Horizon, Sources(x) # {}
    PROVE  Best(Sources(x)) \in Sources(x)
           /\ \A o \in Sources(x) : Prefers(Best(Sources(x)).cell, o.cell)
<1> DEFINE sources == Sources(x)
           tiers == {TierOf(s.cell) : s \in sources}
<1>1. \A s \in sources : s.cell \in Cells /\ TierOf(s.cell) \in Tiers
  BY SourceFacts, CellFacts
<1>2. Len(Grid) \in Nat /\ tiers \subseteq 0 .. Len(Grid) /\ tiers # {}
  BY <1>1, TierFacts, LadderAssumption
<1> HIDE DEF sources
<1>3. Max(tiers) \in tiers /\ \A y \in tiers : y <= Max(tiers)
  BY <1>2, GreatestIn
<1>4. PICK p \in sources : \A s \in sources : TierOf(s.cell) <= TierOf(p.cell)
  BY <1>3
<1> DEFINE t == TierOf(p.cell)
           rungs == {s.cell[2] : s \in {s \in sources : TierOf(s.cell) = t}}
<1>5. t \in Tiers
  BY <1>1
<1>6. \A s \in sources : TierOf(s.cell) = t => s.cell[2] \in 1 .. Len(RungGrid[t]) /\ Len(RungGrid[t]) \in Nat
  BY <1>1, CellFacts
<1>7. rungs \subseteq 0 .. Len(RungGrid[t]) /\ rungs # {} /\ Len(RungGrid[t]) \in Nat
  BY <1>6
<1>8. Max(rungs) \in rungs /\ \A y \in rungs : y <= Max(rungs)
  BY <1>7, GreatestIn
<1>9. PICK b \in sources : TierOf(b.cell) = t /\ \A s \in sources : TierOf(s.cell) = t => s.cell[2] <= b.cell[2]
  BY <1>8
<1> HIDE DEF rungs, tiers
<1>10. \A o \in sources : Prefers(b.cell, o.cell)
  <2> SUFFICES ASSUME NEW o \in sources PROVE Prefers(b.cell, o.cell)
    OBVIOUS
  <2>1. TierOf(o.cell) <= t /\ t \in Nat /\ TierOf(o.cell) \in Nat
    BY <1>1, <1>4, <1>5, TierFacts
  <2>2. TierOf(o.cell) = t => o.cell[2] \in Nat /\ b.cell[2] \in Nat /\ o.cell[2] <= b.cell[2]
    BY <1>6, <1>9
  <2> QED BY <1>9, <2>1, <2>2 DEF Prefers
<1> QED BY <1>9, <1>10 DEF Best, sources

\* What the walk reads next.
LEMMA SegmentFacts ==
    ASSUME InputsInv, cursor \in Times, cursor < PlannedTo, Sources(cursor) # {},
           NEW s, s = Best(Sources(cursor))
    PROVE  /\ s \in Sources(cursor) /\ cursor < Horizon
           /\ SegFrom(s) \in Times /\ cursor <= SegFrom(s)
           /\ SegTo(s) \in Times /\ cursor < SegTo(s) /\ SegTo(s) <= PlannedTo /\ SegTo(s) <= s.upto
           /\ SegTo(s) \in {PlannedTo, s.upto}
           /\ SegFrom(s) \in {cursor, earliest[TierOf(s.cell)]}
<1>1. cursor \in Nat /\ cursor < Horizon /\ PlannedTo \in Times /\ PlannedTo \in Nat
  BY GivenFacts, TimesNat
<1>2. s \in Sources(cursor)
  BY <1>1, BestIn
<1>3. s.cell \in Cells /\ s.upto \in Times /\ cursor < s.upto /\ TierOf(s.cell) \in Tiers
  BY <1>1, <1>2, SourceFacts, CellFacts
<1>4. earliest[TierOf(s.cell)] \in Times
  BY <1>3, GivenFacts
<1> QED BY <1>1, <1>2, <1>3, <1>4, MinMaxOf DEF SegFrom, SegTo

-----------------------------------------------------------------------------
(* The atoms of one output bin. *)

\* Atoms of one chain follow each other.
LEMMA ChainOrdered ==
    ASSUME NEW atomSet, NEW a, NEW b, Between(atomSet, a, b), NEW c, NEW p, Chain(p, atomSet, c, b)
    PROVE  /\ Len(p) \in Nat /\ DOMAIN p = 1 .. Len(p) /\ \A i \in 1 .. Len(p) : p[i] \in atomSet
           /\ \A i, j \in 1 .. Len(p) : i < j => p[i].to <= p[j].from
<1>1. Len(p) \in Nat /\ DOMAIN p = 1 .. Len(p) /\ \A i \in 1 .. Len(p) : p[i] \in atomSet
  BY DEF Chain
<1>2. \A i \in 1 .. Len(p) : p[i].from \in Nat /\ p[i].to \in Nat /\ p[i].from < p[i].to
  BY <1>1 DEF Between
<1>3. ASSUME NEW i \in 1 .. Len(p)
      PROVE  \A j \in 1 .. Len(p) : i < j => p[i].to <= p[j].from
  <2> DEFINE Bad == {j \in 1 .. Len(p) : i < j /\ ~(p[i].to <= p[j].from)}
  <2>1. ASSUME Bad # {} PROVE FALSE
    <3>1. Bad \subseteq Nat
      BY <1>1
    <3>2. PICK j \in Bad : \A k \in Bad : j <= k
      BY <2>1, <3>1, LeastIn
    <3>3. /\ j \in 1 .. Len(p) /\ i < j /\ ~(p[i].to <= p[j].from)
          /\ j - 1 \in 1 .. Len(p) /\ (j - 1) + 1 = j /\ j - 1 \notin Bad
      <4>1. j \in 1 .. Len(p) /\ i < j /\ ~(p[i].to <= p[j].from)
        BY <3>2
      <4> HIDE DEF Bad
      <4> QED BY <1>1, <3>2, <4>1
    <3>4. p[j - 1].to = p[j].from
      BY <3>3 DEF Chain
    <3>5. CASE j - 1 = i
      BY <1>2, <3>3, <3>4, <3>5
    <3>6. CASE j - 1 # i
      <4>1. i < j - 1
        BY <1>1, <3>3, <3>6
      <4>2. p[i].to <= p[j - 1].from
        BY <3>3, <4>1
      <4> QED BY <1>2, <3>3, <3>4, <4>2
    <3> QED BY <3>5, <3>6
  <2> QED BY <2>1
<1> QED BY <1>1, <1>3

LEMMA FixedFacts ==
    ASSUME InputsInv, NEW a \in Times, NEW b \in Times, a < b
    PROVE  /\ Between(FixedAtoms(a, b), a, b)
           /\ \A x \in FixedAtoms(a, b) :
                 /\ x.tier \in Tiers /\ x = Atom(x.tier, x.from, x.to)
                 /\ x.from \in Grid[x.tier] /\ x.to \in Grid[x.tier]
                 /\ x.from \in Times /\ x.to \in Times /\ a <= x.from /\ x.from < x.to /\ x.to <= b
                 /\ ~FromWm => Held(x, inventory)
<1>1. \A x \in FixedAtoms(a, b) : /\ \E t \in Tiers : x \in BinsInside(t, a, b)
                                  /\ ~FromWm => Held(x, inventory)
  BY DEF FixedAtoms
<1>2. ASSUME NEW x \in FixedAtoms(a, b)
      PROVE  /\ x.tier \in Tiers /\ x = Atom(x.tier, x.from, x.to)
             /\ x.from \in Grid[x.tier] /\ x.to \in Grid[x.tier]
             /\ x.from \in Times /\ x.to \in Times /\ a <= x.from /\ x.from < x.to /\ x.to <= b
  <2>1. PICK t \in Tiers : x \in BinsInside(t, a, b)
    BY <1>1
  <2>2. TakenOf(t, BinsInside(t, a, b), a, b) /\ x = Atom(t, x.from, x.to) /\ x.to \in Grid[t]
    BY <2>1, RegisteredTaken
  <2> QED BY <2>1, <2>2 DEF TakenOf
<1>3. Between(FixedAtoms(a, b), a, b)
  BY <1>2, TimesNat DEF Between
<1> QED BY <1>1, <1>2, <1>3

LEMMA FixedPath ==
    ASSUME InputsInv, NEW a \in Times, NEW b \in Times, a < b
    PROVE  LET path == Decompose(FixedAtoms(a, b), a, b)
           IN path = NoPath \/ Chain(path, FixedAtoms(a, b), a, b)
<1>1. Between(FixedAtoms(a, b), a, b) /\ a <= b /\ a \in Nat /\ b \in Nat
  <2>1. Between(FixedAtoms(a, b), a, b)
    BY FixedFacts
  <2> QED BY <2>1 DEF Between
<1>2. PICK f : /\ Decompose(FixedAtoms(a, b), a, b) = f[a]
               /\ \A c \in a .. b : f[c] = IF c = b THEN <<>> ELSE Solve(f, FixedAtoms(a, b), c)
  BY <1>1, PathIs
<1>3. a \in a .. b
  BY <1>1
<1> QED BY <1>1, <1>2, <1>3, PathsShortest

\* An atom of a tier that was packed into the output bin [a, b).
PackedAtom(x, a, b) ==
    /\ x.tier \in Tiers /\ x.from \in Grid[x.tier] /\ x.from \in Times /\ x.to \in Times
    /\ a <= x.from /\ x.from < x.to /\ x.to <= b
    /\ ~FromWm => Held(x, inventory)
    /\ FromWm /\ Target.calendar => x.from < PlannedTo
    /\ \/ x.to \in Grid[x.tier]
       \/ /\ FromWm /\ Target.calendar /\ Base(x.tier)
          /\ \/ x.to = largest[x.tier]
             \/ x.to = PlannedTo
             \/ x.to = b
             \/ \E y \in Tiers : Outranks(y, x.tier) /\ x.to \in Grid[y]

LEMMA FixedPacked ==
    ASSUME InputsInv, ~Target.calendar, NEW a \in Times, NEW b \in Times, a < b,
           NEW path, path = Decompose(FixedAtoms(a, b), a, b), path # NoPath
    PROVE  /\ Len(path) \in Nat /\ DOMAIN path = 1 .. Len(path)
           /\ \A i \in DOMAIN path : path[i] \in FixedAtoms(a, b) /\ PackedAtom(path[i], a, b)
           /\ \A i, j \in DOMAIN path : i = j \/ Apart(path[i], path[j])
<1>1. Chain(path, FixedAtoms(a, b), a, b) /\ Between(FixedAtoms(a, b), a, b)
  BY FixedPath, FixedFacts
<1>2. /\ Len(path) \in Nat /\ DOMAIN path = 1 .. Len(path) /\ \A i \in 1 .. Len(path) : path[i] \in FixedAtoms(a, b)
      /\ \A i, j \in 1 .. Len(path) : i < j => path[i].to <= path[j].from
  BY <1>1, ChainOrdered
<1>3. \A i \in 1 .. Len(path) : PackedAtom(path[i], a, b)
  BY <1>2, FixedFacts DEF PackedAtom
<1>4. \A i, j \in 1 .. Len(path) : i = j \/ i < j \/ j < i
  BY <1>2
<1> QED BY <1>2, <1>3, <1>4 DEF Apart

LEMMA CalendarPacked ==
    ASSUME InputsInv, Ragged, Target.calendar, NEW a \in OutGrid, NEW b \in OutGrid, a < b, a < PlannedTo
    PROVE  /\ \A x \in CalendarAtoms(a, b) : PackedAtom(x, a, b)
           /\ \A x, y \in CalendarAtoms(a, b) : x = y \/ Apart(x, y)
<1>1. IsGrid(OutGrid) /\ OutGrid = Target.grid
  BY QueryFacts DEF InputsInv
<1>2. a \in Times /\ b \in Times /\ a \in Nat /\ b \in Nat
  BY <1>1, GridFacts
<1>3. CASE Exact(a, b) # {}
  <2>1. CalendarAtoms(a, b) = {Atom(t, a, b) : t \in Exact(a, b)}
    BY <1>3 DEF CalendarAtoms
  <2>2. \A t \in Exact(a, b) : /\ t \in Tiers /\ Grid[t] = OutGrid
                               /\ ~FromWm => Held(Atom(t, a, b), inventory)
    BY <1>1, LadderAssumption DEF Exact, ExactTiers
  <2>3. \A t, r \in Exact(a, b) : t = r
    <3> SUFFICES ASSUME NEW t \in Exact(a, b), NEW r \in Exact(a, b) PROVE t = r
      OBVIOUS
    <3>1. t <= r /\ r <= t /\ t \in Tiers /\ r \in Tiers
      BY LadderAssumption DEF Exact, ExactTiers
    <3>2. t \in Nat /\ r \in Nat
      BY <3>1, TierFacts
    <3> QED BY <3>1, <3>2
  <2>4. \A t \in Exact(a, b) : PackedAtom(Atom(t, a, b), a, b)
    BY <1>2, <2>2 DEF PackedAtom, Atom
  <2> QED BY <2>1, <2>3, <2>4
<1>4. CASE Exact(a, b) = {} /\ FromWm
  <2> DEFINE e == Min({b, PlannedTo})
             packed == PackSealed(PackTiers(Target.width), largest, earliest, a, e)
  <2>1. CalendarAtoms(a, b) = packed
    BY <1>4 DEF CalendarAtoms
  <2>2. e \in Times /\ e \in {b, PlannedTo} /\ e <= b /\ e \in Nat
    BY <1>2, GivenFacts, MinMaxOf, TimesNat
  <2>3. a < e
    BY <2>2
  <2> HIDE DEF e
  <2>4. largest \in [Tiers -> Times] /\ earliest \in [Tiers -> Times]
    BY GivenFacts
  <2>5. /\ \A x \in packed :
              /\ x.tier \in Tiers /\ x.from \in Grid[x.tier] /\ x.from \in Times /\ x.to \in Times
              /\ a <= x.from /\ x.from < x.to /\ x.to <= e
              /\ \/ x.to \in Grid[x.tier]
                 \/ /\ Base(x.tier)
                    /\ \/ x.to = largest[x.tier]
                       \/ x.to = e
                       \/ \E y \in Tiers : Outranks(y, x.tier) /\ x.to \in Grid[y]
        /\ \A x, y \in packed : x = y \/ Apart(x, y)
    BY <1>2, <2>2, <2>3, <2>4, SealedPack
  <2> HIDE DEF packed
  <2>6. \A x \in packed : PackedAtom(x, a, b)
    <3> SUFFICES ASSUME NEW x \in packed PROVE PackedAtom(x, a, b)
      OBVIOUS
    <3>1. x.to <= b /\ x.from < PlannedTo
      <4>1. x.from \in Nat /\ x.to \in Nat /\ x.from < x.to /\ x.to <= e
        BY <2>5, TimesNat
      <4>2. e <= PlannedTo /\ PlannedTo \in Nat
        BY <1>2, GivenFacts, MinMaxOf DEF e
      <4> QED BY <1>2, <2>2, <4>1, <4>2
    <3> QED BY <1>4, <2>2, <2>5, <3>1 DEF PackedAtom
  <2> QED BY <2>1, <2>5, <2>6
<1>5. CASE Exact(a, b) = {} /\ ~FromWm
  <2> DEFINE packed == PackRegistered(PackTiers(Target.width), inventory, a, b)
  <2>1. CalendarAtoms(a, b) = packed
    BY <1>5 DEF CalendarAtoms
  <2>2. /\ \A x \in packed :
              /\ x.tier \in Tiers /\ x.from \in Grid[x.tier] /\ x.from \in Times /\ x.to \in Times
              /\ a <= x.from /\ x.from < x.to /\ x.to <= b
              /\ x.to \in Grid[x.tier] /\ Held(x, inventory)
        /\ \A x, y \in packed : x = y \/ Apart(x, y)
    BY <1>2, RegisteredPack
  <2> HIDE DEF packed
  <2> QED BY <1>5, <2>1, <2>2 DEF PackedAtom
<1> QED BY <1>3, <1>4, <1>5

-----------------------------------------------------------------------------
(* The shards of a packed run, from an inventory. *)

LEMMA CoveringFacts ==
    ASSUME InputsInv, NEW t \in Tiers, NEW x \in Times, Covering(t, x) # {}
    PROVE  LET s == LargestCovering(t, x)
           IN /\ s \in Covering(t, x) /\ \A o \in Covering(t, x) : Prefers(CellOf(s), CellOf(o))
              /\ s \in Shards /\ TierOf(CellOf(s)) = t /\ StartOf(s) <= x
              /\ EndOf(s) \in Nat /\ x < EndOf(s) /\ EndOf(s) <= Horizon
<1> DEFINE found == Covering(t, x)
           rungs == {CellOf(s)[2] : s \in found}
<1>1. \A s \in found : /\ s \in Shards /\ TierOf(CellOf(s)) = t /\ StartOf(s) <= x /\ x < EndOf(s)
  BY DEF Covering, InputsInv, GivenInv
<1> HIDE DEF found
<1>2. \A s \in found : CellOf(s)[2] \in 1 .. Len(RungGrid[t]) /\ Len(RungGrid[t]) \in Nat
  BY <1>1, ShardFacts, CellFacts
<1>3. rungs \subseteq 0 .. Len(RungGrid[t]) /\ rungs # {} /\ Len(RungGrid[t]) \in Nat
  BY <1>2 DEF found
<1>4. Max(rungs) \in rungs /\ \A y \in rungs : y <= Max(rungs)
  BY <1>3, GreatestIn
<1>5. PICK s \in found : \A o \in found : CellOf(o)[2] <= CellOf(s)[2]
  BY <1>4
<1>6. \A o \in found : Prefers(CellOf(s), CellOf(o))
  BY <1>1, <1>2, <1>5 DEF Prefers
<1>7. /\ LargestCovering(t, x) \in found
      /\ \A o \in found : Prefers(CellOf(LargestCovering(t, x)), CellOf(o))
  BY <1>6 DEF LargestCovering, found
<1>8. /\ LargestCovering(t, x) \in Shards
      /\ EndOf(LargestCovering(t, x)) \in Nat /\ EndOf(LargestCovering(t, x)) <= Horizon
  BY <1>1, <1>7, ShardFacts, TimesNat
<1> QED BY <1>1, <1>7, <1>8 DEF found

\* One step of the recursion over the instants.
KeysStep(f, t, to, x) ==
    IF x >= to \/ Covering(t, x) = {} THEN {}
    ELSE {LargestCovering(t, x)} \cup f[EndOf(LargestCovering(t, x))]

LEMMA KeysDepend ==
    ASSUME InputsInv, NEW t \in Tiers, NEW x \in Times, NEW to, NEW f, NEW g,
           \A y \in Nat : x < y /\ y <= Horizon => f[y] = g[y]
    PROVE  KeysStep(f, t, to, x) = KeysStep(g, t, to, x)
<1>1. CASE Covering(t, x) = {}
  BY <1>1 DEF KeysStep
<1>2. CASE Covering(t, x) # {}
  <2>1. EndOf(LargestCovering(t, x)) \in Nat /\ x < EndOf(LargestCovering(t, x)) /\ EndOf(LargestCovering(t, x)) <= Horizon
    BY <1>2, CoveringFacts
  <2> QED BY <2>1 DEF KeysStep
<1> QED BY <1>1, <1>2

LEMMA KeysExist ==
    ASSUME InputsInv, NEW t \in Tiers, NEW from \in Times, NEW to
    PROVE  \E f : f = [x \in from .. Horizon |-> KeysStep(f, t, to, x)]
<1> DEFINE Solves(f, k) == f = [x \in Horizon - k .. Horizon |-> KeysStep(f, t, to, x)]
           Bad == {k \in Nat : k <= Horizon /\ ~\E f : Solves(f, k)}
<1>0. from \in Nat /\ from <= Horizon /\ Horizon \in Nat
  BY TimesNat
<1>1. ASSUME Bad # {} PROVE FALSE
  <2>1. PICK k \in Bad : \A y \in Bad : k <= y
    BY <1>1, LeastIn
  <2>2. k \in Nat /\ k <= Horizon /\ ~\E f : Solves(f, k)
    BY <2>1
  <2>3. PICK f : \A x \in Horizon - k .. Horizon : x > Horizon - k => f[x] = KeysStep(f, t, to, x)
    <3>1. CASE k = 0
      BY <1>0, <3>1
    <3>2. CASE k # 0
      <4>1. k - 1 \in Nat /\ k - 1 <= Horizon /\ k - 1 \notin Bad
        <5> HIDE DEF Bad
        <5> QED BY <1>0, <2>1, <2>2, <3>2
      <4>2. PICK f : Solves(f, k - 1)
        BY <4>1
      <4>3. \A x \in Horizon - k .. Horizon : x > Horizon - k => x \in Horizon - (k - 1) .. Horizon
        BY <1>0, <2>2
      <4> QED BY <4>2, <4>3
    <3> QED BY <3>1, <3>2
  <2> DEFINE g == [x \in Horizon - k .. Horizon |-> KeysStep(f, t, to, x)]
  <2>4. \A x \in Horizon - k .. Horizon : x \in Times /\ \A y \in Nat : x < y /\ y <= Horizon => f[y] = g[y]
    <3>1. \A x \in Horizon - k .. Horizon : x \in Nat /\ x <= Horizon /\ x >= Horizon - k
      BY <1>0, <2>2
    <3>2. \A x \in Horizon - k .. Horizon, y \in Nat : x < y /\ y <= Horizon =>
             y \in Horizon - k .. Horizon /\ y > Horizon - k
      BY <1>0, <2>2, <3>1
    <3> QED BY <2>3, <3>1, <3>2, TimesNat
  <2>5. \A x \in Horizon - k .. Horizon : KeysStep(f, t, to, x) = KeysStep(g, t, to, x)
    <3> HIDE DEF g
    <3> QED BY <2>4, KeysDepend
  <2>6. Solves(g, k)
    BY <2>5
  <2> QED BY <2>2, <2>6
<1>2. Horizon - from \in Nat /\ Horizon - from <= Horizon /\ Horizon - (Horizon - from) = from
  BY <1>0
<1>3. \E f : Solves(f, Horizon - from)
  BY <1>1, <1>2
<1> QED BY <1>2, <1>3

LEMMA KeysAre ==
    ASSUME InputsInv, NEW t \in Tiers, NEW from \in Times, NEW to
    PROVE  \E f : /\ RegisteredKeys(t, from, to) = f[from]
                  /\ \A x \in from .. Horizon : f[x] = KeysStep(f, t, to, x)
<1>1. \E f : f = [x \in from .. Horizon |-> KeysStep(f, t, to, x)]
  BY KeysExist
<1> DEFINE keys[x \in from .. Horizon] ==
               IF x >= to \/ Covering(t, x) = {} THEN {}
               ELSE {LargestCovering(t, x)} \cup keys[EndOf(LargestCovering(t, x))]
<1>2. keys = [x \in from .. Horizon |-> KeysStep(keys, t, to, x)]
  BY <1>1, Zenon DEF KeysStep
<1>3. RegisteredKeys(t, from, to) = keys[from]
  BY DEF RegisteredKeys
<1> HIDE DEF keys
<1>4. \A x \in from .. Horizon : keys[x] = KeysStep(keys, t, to, x)
  BY <1>2
<1> QED BY <1>3, <1>4

\* The next shard begins where the last one ends, or later.
LEMMA NextCovering ==
    ASSUME InputsInv, NestedRungs, NEW t \in Tiers, NEW x \in Times, Covering(t, x) # {},
           NEW y, y = EndOf(LargestCovering(t, x)), y \in Times, Covering(t, y) # {}
    PROVE  StartOf(LargestCovering(t, y)) >= y
<1> DEFINE s == LargestCovering(t, x)
           r == LargestCovering(t, y)
           c == CellOf(s)
           d == CellOf(r)
<1>1. /\ s \in Shards /\ TierOf(c) = t /\ StartOf(s) <= x /\ x < y
      /\ \A o \in Covering(t, x) : Prefers(c, CellOf(o))
  BY CoveringFacts
<1>2. r \in Shards /\ TierOf(d) = t /\ StartOf(r) <= y /\ y < EndOf(r) /\ r \in Covering(t, y)
  BY CoveringFacts
<1> HIDE DEF s, r
<1>3. c \in Cells /\ d \in Cells /\ c[2] \in Nat /\ d[2] \in Nat
  BY <1>1, <1>2, ShardFacts, CellFacts
<1>4. x \in Nat /\ y \in Nat /\ StartOf(s) \in Nat /\ StartOf(r) \in Nat /\ EndOf(r) \in Nat /\ y = EndOf(s)
  BY <1>1, <1>2, ShardFacts, TimesNat DEF s
<1> SUFFICES ASSUME StartOf(r) < y PROVE FALSE
  BY <1>4 DEF r
<1>5. CASE c[2] <= d[2]
  <2>1. Edges(d) \subseteq Edges(c)
    BY <1>1, <1>2, <1>3, <1>5 DEF NestedRungs
  <2>2. StartOf(r) \in Edges(c)
    BY <1>2, <2>1, ShardFacts
  <2>3. ~(StartOf(r) > StartOf(s))
    BY <1>1, <1>4, <2>2, ShardFacts
  <2>4. StartOf(r) <= x /\ x < EndOf(r)
    BY <1>1, <1>2, <1>4, <2>3
  <2>5. r \in Covering(t, x)
    BY <1>2, <2>4 DEF Covering
  <2>6. Prefers(c, d)
    BY <1>1, <2>5
  <2>7. c[2] = d[2]
    BY <1>1, <1>2, <1>3, <1>5, <2>6, TierFacts DEF Prefers
  <2>8. c = d
    BY <1>1, <1>2, <1>3, <2>7, CellFacts
  <2>9. s = r
    BY <1>1, <1>2, <1>4, <2>4, <2>8, OneShard
  <2> QED BY <1>2, <1>4, <2>9
<1>6. CASE ~(c[2] <= d[2])
  <2>1. Edges(c) \subseteq Edges(d)
    BY <1>1, <1>2, <1>3, <1>6 DEF NestedRungs
  <2>2. y \in Edges(d)
    BY <1>1, <1>4, <2>1, ShardFacts
  <2>3. EndOf(r) <= y
    BY <1>2, <2>2, ShardFacts
  <2> QED BY <1>2, <1>4, <2>3
<1> QED BY <1>5, <1>6

LEMMA RegisteredKeysSound ==
    ASSUME InputsInv, NEW t \in Tiers, NEW from \in Times, NEW to \in Times
    PROVE  /\ RegisteredKeys(t, from, to) \subseteq inventory
           /\ \A s \in RegisteredKeys(t, from, to) : TierOf(CellOf(s)) = t
           /\ from < to /\ Covering(t, from) # {} => RegisteredKeys(t, from, to) # {}
           /\ NestedRungs => \A s, r \in RegisteredKeys(t, from, to) :
                                s = r \/ EndOf(s) <= StartOf(r) \/ EndOf(r) <= StartOf(s)
<1>1. PICK f : /\ RegisteredKeys(t, from, to) = f[from]
               /\ \A x \in from .. Horizon : f[x] = KeysStep(f, t, to, x)
  BY KeysAre
<1>2. from \in Nat /\ from <= Horizon /\ Horizon \in Nat /\ from \in from .. Horizon
  BY TimesNat
<1> DEFINE Good(x) ==
               /\ \A s \in f[x] : s \in inventory /\ s \in Shards /\ TierOf(CellOf(s)) = t
               /\ NestedRungs =>
                     /\ \A s \in f[x] : s = LargestCovering(t, x) \/ StartOf(s) >= EndOf(LargestCovering(t, x))
                     /\ \A s, r \in f[x] : s = r \/ EndOf(s) <= StartOf(r) \/ EndOf(r) <= StartOf(s)
           Bad == {k \in Nat : k <= Horizon - from /\ ~Good(Horizon - k)}
<1>3. ASSUME Bad # {} PROVE FALSE
  <2>1. PICK k \in Bad : \A y \in Bad : k <= y
    BY <1>3, LeastIn
  <2> DEFINE x == Horizon - k
  <2>2. k \in Nat /\ k <= Horizon - from /\ x \in from .. Horizon /\ x \in Nat /\ ~Good(x)
    BY <1>2, <2>1
  <2>3. \A y \in from .. Horizon : y > x => Good(y)
    <3> SUFFICES ASSUME NEW y \in from .. Horizon, y > x, ~Good(y) PROVE FALSE
      OBVIOUS
    <3>1. Horizon - y \in Nat /\ Horizon - y <= Horizon - from /\ Horizon - (Horizon - y) = y /\ Horizon - y < k
      BY <1>2, <2>2
    <3>2. Horizon - y \in Bad
      BY <3>1
    <3> HIDE DEF Bad
    <3> QED BY <1>2, <2>1, <2>2, <3>1, <3>2
  <2> HIDE DEF x, Bad
  <2>4. f[x] = KeysStep(f, t, to, x) /\ x \in Times
    BY <1>1, <1>2, <2>2, TimesNat
  <2>5. f[x] # {}
    BY <2>2
  <2> DEFINE s == LargestCovering(t, x)
             y == EndOf(s)
  <2>6. Covering(t, x) # {} /\ f[x] = {s} \cup f[y]
    BY <2>4, <2>5 DEF KeysStep
  <2>7. s \in Covering(t, x) /\ s \in Shards /\ TierOf(CellOf(s)) = t /\ y \in Nat /\ x < y /\ y <= Horizon
    BY <2>4, <2>6, CoveringFacts
  <2>8. s \in inventory
    BY <2>7 DEF Covering
  <2> HIDE DEF s
  <2>9. y \in from .. Horizon /\ y \in Times /\ Good(y)
    BY <1>2, <2>2, <2>3, <2>7, TimesNat
  <2>10. \A r \in f[x] : r \in inventory /\ r \in Shards /\ TierOf(CellOf(r)) = t
    BY <2>6, <2>7, <2>8, <2>9
  <2>11. ASSUME NestedRungs, NEW r \in f[y] PROVE StartOf(r) >= y
    <3> DEFINE q == LargestCovering(t, y)
    <3>1. f[y] = KeysStep(f, t, to, y)
      BY <1>1, <2>9
    <3>2. Covering(t, y) # {}
      BY <2>11, <3>1 DEF KeysStep
    <3>3. StartOf(q) >= y
      BY <2>4, <2>6, <2>9, <2>11, <3>2, NextCovering DEF s
    <3>4. EndOf(q) \in Nat /\ y < EndOf(q)
      BY <2>9, <3>2, CoveringFacts
    <3>5. r = q \/ StartOf(r) >= EndOf(q)
      BY <2>9, <2>11
    <3>6. StartOf(r) \in Nat
      BY <2>9, ShardFacts, TimesNat
    <3> HIDE DEF q
    <3> QED BY <2>7, <3>3, <3>4, <3>5, <3>6
  <2>12. NestedRungs => \A r \in f[x] : r = s \/ StartOf(r) >= y
    BY <2>6, <2>11
  <2>13. NestedRungs => \A r, q \in f[x] : r = q \/ EndOf(r) <= StartOf(q) \/ EndOf(q) <= StartOf(r)
    BY <2>6, <2>9, <2>11
  <2> QED BY <2>2, <2>10, <2>12, <2>13 DEF s
<1>4. Good(from)
  <2>1. Horizon - from \in Nat /\ Horizon - from <= Horizon - from /\ Horizon - (Horizon - from) = from
    BY <1>2
  <2> QED BY <1>3, <2>1
<1>5. ASSUME from < to, Covering(t, from) # {} PROVE f[from] # {}
  <2>1. f[from] = KeysStep(f, t, to, from)
    BY <1>1, <1>2
  <2>2. ~(from >= to)
    BY <1>2, <1>5, TimesNat
  <2> QED BY <1>5, <2>1, <2>2 DEF KeysStep
<1> QED BY <1>1, <1>4, <1>5

-----------------------------------------------------------------------------
(* The types of the planner. *)

AtomTyped(x) ==
    /\ x.cell \in Cells /\ x.from \in Times /\ x.to \in Times /\ x.from < x.to
    /\ Ragged /\ ~FromWm => Covering(TierOf(x.cell), x.from) # {}
AtomsTyped == \A x \in atoms : AtomTyped(x)

TypeInv ==
    /\ InputsInv
    /\ phase \in {"walk", "assemble", "done", "refused"} /\ cursor \in Times
    /\ Ragged => cursor \in OutGrid
    /\ AtomsTyped
    /\ plan = {} \/ (plan = Coalesced /\ phase \in {"done", "refused"})

LEMMA RunEndOf ==
    ASSUME AtomsTyped, NEW x \in atoms
    PROVE  /\ RunEnd(x) \in Times /\ x.to <= RunEnd(x) /\ x.from < RunEnd(x)
           /\ \E y \in atoms : x.from <= y.from /\ Linked(x, y) /\ RunEnd(x) = y.to
           /\ \A y \in atoms : x.from <= y.from /\ Linked(x, y) => y.to <= RunEnd(x)
<1> DEFINE ends == {y.to : y \in {y \in atoms : x.from <= y.from /\ Linked(x, y)}}
<1>1. \A y \in atoms : /\ y.from \in Times /\ y.to \in Times /\ y.from \in Nat /\ y.to \in Nat /\ y.from < y.to
  BY TimesNat DEF AtomsTyped, AtomTyped
<1>2. Linked(x, x)
  BY <1>1 DEF Linked
<1>3. ends \subseteq 0 .. Horizon /\ x.to \in ends /\ Horizon \in Nat
  <2>1. x.from <= x.from
    BY <1>1
  <2>2. x.to \in ends
    BY <1>2, <2>1
  <2>3. ends \subseteq Times
    BY <1>1
  <2> QED BY <2>2, <2>3, TimesNat DEF Times
<1>4. Max(ends) \in ends /\ \A y \in ends : y <= Max(ends)
  BY <1>3, GreatestIn
<1>5. Max(ends) = RunEnd(x)
  BY DEF RunEnd
<1>6. RunEnd(x) \in Times /\ RunEnd(x) \in Nat
  BY <1>3, <1>4, <1>5, TimesNat DEF Times
<1> QED BY <1>1, <1>3, <1>4, <1>5, <1>6

LEMMA PlanTyped ==
    ASSUME InputsInv, AtomsTyped
    PROVE  \A g \in Coalesced : g.cell \in Cells /\ g.keys \subseteq Shards /\ g.keys # {} /\ g.from < g.to
<1> SUFFICES ASSUME NEW x \in atoms
             PROVE  LET to == RunEnd(x)
                        keys == Keys(x.cell, x.from, to)
                    IN x.cell \in Cells /\ keys \subseteq Shards /\ keys # {} /\ x.from < to
  BY DEF Coalesced
<1> DEFINE to == RunEnd(x)
           keys == Keys(x.cell, x.from, to)
           s == <<x.cell, Floor(Edges(x.cell), x.from)>>
<1>1. to \in Times /\ x.from < to
  BY RunEndOf
<1> HIDE DEF to
<1>2. /\ x.cell \in Cells /\ x.from \in Times
      /\ Ragged /\ ~FromWm => Covering(TierOf(x.cell), x.from) # {}
  BY DEF AtomsTyped, AtomTyped
<1>3. x.from \in Nat /\ to \in Nat /\ to <= Horizon /\ x.from < Horizon
  <2>1. x.from \in Nat /\ to \in Nat /\ to <= Horizon /\ Horizon \in Nat
    BY <1>1, <1>2, TimesNat
  <2> QED BY <1>1, <2>1
<1>4. s \in Shards /\ StartOf(s) <= x.from /\ x.from < EndOf(s) /\ CellOf(s) = x.cell /\ StartOf(s) \in Nat
  <2>1. s \in Shards /\ StartOf(s) <= x.from /\ x.from < EndOf(s)
    BY <1>2, <1>3, ShardAt
  <2>2. CellOf(s) = x.cell
    BY DEF CellOf
  <2> QED BY <2>1, <2>2, ShardFacts, TimesNat
<1> HIDE DEF s
<1>5. CASE FromWm
  <2>1. keys = PeriodsCovering(x.cell, x.from, to)
    BY <1>5 DEF Keys
  <2>2. StartOf(s) < to
    BY <1>1, <1>3, <1>4
  <2>3. s \in keys
    BY <1>4, <2>1, <2>2 DEF PeriodsCovering
  <2>4. keys \subseteq Shards
    BY <2>1 DEF PeriodsCovering
  <2> QED BY <1>1, <1>2, <2>3, <2>4 DEF to
<1>6. CASE ~FromWm /\ Ragged
  <2>1. keys = RegisteredKeys(TierOf(x.cell), x.from, to)
    BY <1>6 DEF Keys
  <2>2. TierOf(x.cell) \in Tiers
    BY <1>2, CellFacts
  <2>3. keys \subseteq inventory /\ keys # {}
    BY <1>1, <1>2, <1>6, <2>1, <2>2, RegisteredKeysSound
  <2>4. inventory \subseteq Shards
    BY DEF InputsInv, GivenInv
  <2> QED BY <1>1, <1>2, <2>3, <2>4 DEF to
<1>7. CASE ~FromWm /\ ~Ragged
  <2>1. keys = {r \in Shards : CellOf(r) = x.cell /\ StartOf(r) <= x.from /\ x.from < EndOf(r)}
    BY <1>7 DEF Keys
  <2>2. s \in keys /\ keys \subseteq Shards
    BY <1>4, <2>1
  <2> QED BY <1>1, <1>2, <2>2 DEF to
<1> QED BY <1>5, <1>6, <1>7

LEMMA TypeInvGivesTypeOK == TypeInv => TypeOK
<1> SUFFICES ASSUME TypeInv PROVE TypeOK
  OBVIOUS
<1>1. InputsInv /\ AtomsTyped
  BY DEF TypeInv
<1>2. /\ query \in Queries
      /\ declared \in [Cells -> 0 .. Far] /\ early \in [Tiers -> Times] /\ gate \in [Cells -> Times]
      /\ inventory \subseteq Shards
  BY <1>1 DEF InputsInv, QueryInv, GivenInv
<1>3. sealed \in [Cells -> 0 .. Far] /\ largest \in [Tiers -> Times] /\ earliest \in [Tiers -> Times]
  BY <1>1, GivenFacts
<1>4. phase \in {"walk", "assemble", "done", "refused"} /\ cursor \in Times
  BY DEF TypeInv
<1>5. \A x \in atoms : x.cell \in Cells /\ {x.from, x.to} \subseteq Times /\ x.from < x.to
  BY <1>1 DEF AtomsTyped, AtomTyped
<1>6. \A g \in plan : g.cell \in Cells /\ g.keys \subseteq Shards /\ g.keys # {} /\ g.from < g.to
  BY <1>1, PlanTyped DEF TypeInv
<1> QED BY <1>2, <1>3, <1>4, <1>5, <1>6 DEF TypeOK

\* A packed atom as the plan has it.
LEMMA PackedTyped ==
    ASSUME InputsInv, NEW x, NEW a, NEW b, PackedAtom(x, a, b)
    PROVE  AtomTyped(InCell(x))
<1>1. x.tier \in Tiers /\ x.from \in Times /\ x.to \in Times /\ x.from < x.to /\ (~FromWm => Held(x, inventory))
  BY DEF PackedAtom
<1>2. InCell(x).cell = LargestCell(x.tier) /\ InCell(x).from = x.from /\ InCell(x).to = x.to
  BY DEF InCell
<1>3. InCell(x).cell \in Cells /\ TierOf(InCell(x).cell) = x.tier
  BY <1>1, <1>2, TierFacts
<1>4. ASSUME Held(x, inventory) PROVE Covering(x.tier, x.from) # {}
  <2>1. PICK s \in inventory : TierOf(CellOf(s)) = x.tier /\ StartOf(s) <= x.from /\ EndOf(s) >= x.to
    BY <1>4 DEF Held
  <2>2. s \in Shards
    BY DEF InputsInv, GivenInv
  <2>3. x.from < EndOf(s)
    <3>1. EndOf(s) \in Times
      BY <2>2, ShardFacts
    <3>2. x.from \in Nat /\ x.to \in Nat /\ EndOf(s) \in Nat
      BY <1>1, <3>1, TimesNat
    <3> QED BY <1>1, <2>1, <3>2
  <2>4. s \in Covering(x.tier, x.from)
    BY <2>1, <2>3 DEF Covering
  <2> QED BY <2>4
<1> QED BY <1>1, <1>2, <1>3, <1>4 DEF AtomTyped

LEMMA BinEndFacts ==
    ASSUME InputsInv, Ragged, cursor \in OutGrid, cursor < PlannedTo
    PROVE  /\ BinEnd \in OutGrid /\ cursor < BinEnd /\ cursor \in Times /\ BinEnd \in Times
           /\ cursor \in Nat /\ BinEnd \in Nat /\ cursor < Horizon
<1>1. IsGrid(OutGrid)
  BY QueryFacts DEF InputsInv
<1>2. cursor \in Times /\ cursor \in Nat /\ cursor < Horizon
  BY <1>1, GridFacts, GivenFacts
<1>3. BinEnd \in OutGrid /\ cursor < BinEnd
  BY <1>1, <1>2, AfterOf DEF BinEnd
<1> QED BY <1>1, <1>2, <1>3, GridFacts

LEMMA TypesInit == Init => TypeInv
<1> SUFFICES ASSUME Init PROVE TypeInv
  OBVIOUS
<1>1. InputsInv
  BY InitInputs
<1>2. IsGrid(OutGrid) /\ PlannedFrom \in Times
  BY <1>1, QueryFacts, GivenFacts DEF InputsInv
<1>3. Ragged => cursor \in OutGrid
  BY <1>2, FloorOf DEF Init
<1>4. cursor \in Times
  BY <1>2, <1>3, GridFacts DEF Init
<1> QED BY <1>1, <1>3, <1>4 DEF Init, TypeInv, AtomsTyped

\* What is kept when the inputs are.
LEMMA TypedKept ==
    ASSUME UNCHANGED inputs
    PROVE  /\ Ragged' = Ragged /\ OutGrid' = OutGrid /\ FromWm' = FromWm
           /\ \A x \in atoms' : AtomTyped(x)' <=> AtomTyped(x)
BY DEF inputs, Ragged, OutGrid, FromWm, AtomTyped, Covering, Target, OutTier

LEMMA CoalescedKept == UNCHANGED <<inputs, atoms>> => Coalesced' = Coalesced
BY DEF Coalesced, RunEnd, Linked, Joins, Keys, RegisteredKeys, LargestCovering, Covering, PeriodsCovering,
       inputs, Ragged, FromWm

LEMMA TypesStep == TypeInv /\ [Next]_vars => TypeInv'
<1> SUFFICES ASSUME TypeInv, [Next]_vars PROVE TypeInv'
  OBVIOUS
<1>0. /\ InputsInv /\ cursor \in Times /\ (Ragged => cursor \in OutGrid) /\ AtomsTyped
      /\ plan = {} \/ (plan = Coalesced /\ phase \in {"done", "refused"})
      /\ phase \in {"walk", "assemble", "done", "refused"}
  BY DEF TypeInv
<1>1. UNCHANGED inputs
  BY DEF Next, Emit, SkipGated, Stop, RefuseBins, PackFixed, PackCalendar, Assemble, Over, vars
<1>2. InputsInv'
  BY <1>0, <1>1, InputsKept
\* The rest of the invariant, of what a step makes of the variables.
<1> DEFINE Rest ==
        /\ phase' \in {"walk", "assemble", "done", "refused"} /\ cursor' \in Times
        /\ Ragged => cursor' \in OutGrid
        /\ \A x \in atoms' : AtomTyped(x)
        /\ plan' = {} \/ (plan' = Coalesced' /\ phase' \in {"done", "refused"})
<1>3. ASSUME Rest PROVE TypeInv'
  <2>1. /\ phase' \in {"walk", "assemble", "done", "refused"} /\ cursor' \in Times
        /\ Ragged => cursor' \in OutGrid
        /\ \A x \in atoms' : AtomTyped(x)
        /\ plan' = {} \/ (plan' = Coalesced' /\ phase' \in {"done", "refused"})
    BY <1>3
  <2>2. (Ragged => cursor \in OutGrid)' /\ AtomsTyped'
    BY <1>1, <2>1, TypedKept DEF AtomsTyped
  <2> QED BY <1>2, <2>1, <2>2 DEF TypeInv
<1>4. \A x \in atoms : AtomTyped(x)
  BY <1>0 DEF AtomsTyped
<1>5. CASE Emit
  <2> DEFINE s == Best(Sources(cursor))
             x == [cell |-> s.cell, from |-> SegFrom(s), to |-> SegTo(s)]
  <2>1. /\ phase = "walk" /\ ~Ragged /\ cursor < PlannedTo /\ Sources(cursor) # {} /\ SegFrom(s) < SegTo(s)
        /\ atoms' = atoms \cup {x} /\ cursor' = SegTo(s) /\ phase' = phase /\ plan' = plan
    BY <1>5 DEF Emit, Walking
  <2> HIDE DEF s
  <2>2. s \in Sources(cursor) /\ cursor < Horizon /\ SegFrom(s) \in Times /\ SegTo(s) \in Times
    BY <1>0, <2>1, SegmentFacts DEF s
  <2>3. s.cell \in Cells
    BY <1>0, <2>2, SourceFacts
  <2>4. AtomTyped(x)
    BY <2>1, <2>2, <2>3 DEF AtomTyped
  <2> HIDE DEF x
  <2>5. \A y \in atoms' : AtomTyped(y)
    BY <1>4, <2>1, <2>4
  <2> QED BY <1>0, <1>3, <2>1, <2>2, <2>5
<1>6. CASE SkipGated
  <2> DEFINE s == Best(Sources(cursor))
  <2>1. /\ phase = "walk" /\ ~Ragged /\ cursor < PlannedTo /\ Sources(cursor) # {}
        /\ atoms' = atoms /\ cursor' = SegTo(s) /\ phase' = phase /\ plan' = plan
    BY <1>6 DEF SkipGated, Walking
  <2> HIDE DEF s
  <2>2. SegTo(s) \in Times
    BY <1>0, <2>1, SegmentFacts DEF s
  <2> QED BY <1>0, <1>3, <1>4, <2>1, <2>2
<1>7. CASE Stop
  <2>1. phase = "walk" /\ phase' = "assemble" /\ cursor' = cursor /\ atoms' = atoms /\ plan' = plan
    BY <1>7 DEF Stop, Walking
  <2> QED BY <1>0, <1>3, <1>4, <2>1
<1>8. CASE RefuseBins
  <2>1. phase = "walk" /\ phase' = "refused" /\ cursor' = cursor /\ atoms' = atoms /\ plan' = plan
    BY <1>8 DEF RefuseBins
  <2> QED BY <1>0, <1>3, <1>4, <2>1
<1>9. CASE PackFixed
  <2> DEFINE path == Decompose(FixedAtoms(cursor, BinEnd), cursor, BinEnd)
  <2>1. phase = "walk" /\ Ragged /\ cursor < PlannedTo /\ plan' = plan
    BY <1>9 DEF PackFixed, Packing
  <2>2. /\ BinEnd \in OutGrid /\ cursor < BinEnd /\ BinEnd \in Times
    BY <1>0, <2>1, BinEndFacts
  <2>3. /\ phase' \in {"walk", "refused"} /\ cursor' \in {cursor, BinEnd}
        /\ \/ atoms' = atoms
           \/ path # NoPath /\ atoms' = atoms \cup {InCell(path[i]) : i \in DOMAIN path}
    BY <1>9, <2>1 DEF PackFixed
  <2>4. ~Target.calendar
    BY <1>9 DEF PackFixed
  <2> HIDE DEF path
  <2>5. path # NoPath => \A i \in DOMAIN path : AtomTyped(InCell(path[i]))
    BY <1>0, <2>2, <2>4, FixedPacked, PackedTyped DEF path
  <2>6. \A y \in atoms' : AtomTyped(y)
    BY <1>4, <2>3, <2>5
  <2> QED BY <1>0, <1>3, <2>1, <2>2, <2>3, <2>6
<1>10. CASE PackCalendar
  <2>1. /\ phase = "walk" /\ Ragged /\ cursor < PlannedTo /\ Target.calendar
        /\ plan' = plan /\ phase' = phase /\ cursor' = BinEnd
        /\ atoms' = atoms \cup {InCell(x) : x \in CalendarAtoms(cursor, BinEnd)}
    BY <1>10 DEF PackCalendar, Packing
  <2>2. /\ BinEnd \in OutGrid /\ cursor < BinEnd /\ BinEnd \in Times
    BY <1>0, <2>1, BinEndFacts
  <2>3. \A x \in CalendarAtoms(cursor, BinEnd) : AtomTyped(InCell(x))
    BY <1>0, <2>1, <2>2, CalendarPacked, PackedTyped
  <2>4. \A y \in atoms' : AtomTyped(y)
    BY <1>4, <2>1, <2>3
  <2> QED BY <1>0, <1>3, <2>1, <2>2, <2>4
<1>11. CASE Assemble
  <2>1. plan' = Coalesced /\ phase' \in {"done", "refused"} /\ cursor' = cursor /\ atoms' = atoms
    BY <1>11 DEF Assemble
  <2>2. Coalesced' = Coalesced
    BY <1>1, <2>1, CoalescedKept
  <2> QED BY <1>0, <1>3, <1>4, <2>1, <2>2
<1>12. CASE UNCHANGED vars
  <2>1. phase' = phase /\ cursor' = cursor /\ atoms' = atoms /\ plan' = plan
    BY <1>12 DEF vars
  <2>2. Coalesced' = Coalesced
    BY <1>1, <2>1, CoalescedKept
  <2> QED BY <1>0, <1>3, <1>4, <2>1, <2>2
<1> QED BY <1>5, <1>6, <1>7, <1>8, <1>9, <1>10, <1>11, <1>12 DEF Next, Over

LEMMA TypesAlways == Spec => []TypeInv
BY TypesInit, TypesStep, PTL DEF Spec

(* Whatever the ladder, the query and its inputs: watermarks and periods are   *)
(* in range, the walk stays on the time axis, a packed target on its own      *)
(* boundaries, and every segment of the plan is nonempty and has a shard to   *)
(* read (planQuery, planQueryFromInventory).                                  *)
THEOREM PlanTypes == Spec => []TypeOK
BY TypesAlways, TypeInvGivesTypeOK, PTL

(* The walk moves on with every tier it chooses, so that it comes to an end:   *)
(* a shard reaches beyond every instant it covers, a watermark beyond every   *)
(* instant it seals (the loop over the cursor in planQuery).                  *)
THEOREM WalkAdvancesHolds == Spec => []WalkAdvances
<1>1. TypeInv => WalkAdvances
  <2> SUFFICES ASSUME TypeInv, Walking, Sources(cursor) # {} PROVE SegTo(Best(Sources(cursor))) > cursor
    BY DEF WalkAdvances
  <2>1. InputsInv /\ cursor \in Times /\ cursor < PlannedTo
    BY DEF TypeInv, Walking
  <2>2. SegTo(Best(Sources(cursor))) \in Times /\ cursor < SegTo(Best(Sources(cursor)))
    BY <2>1, SegmentFacts
  <2> QED BY <2>1, <2>2, TimesNat
<1> QED BY <1>1, TypesAlways, PTL

-----------------------------------------------------------------------------
(* Coalescing: atoms that do not overlap become segments that do not.        *)

AtomsApart == AtomsTyped /\ \A x, y \in atoms : x = y \/ Apart(x, y)
Heads == {x \in atoms : ~\E p \in atoms : Joins(p, x)}

LEMMA AtomTimes ==
    ASSUME AtomsTyped
    PROVE  \A x \in atoms : /\ x.cell \in Cells /\ TierOf(x.cell) \in Tiers
                            /\ x.from \in Times /\ x.to \in Times
                            /\ x.from \in Nat /\ x.to \in Nat /\ x.from < x.to
BY TimesNat, CellFacts DEF AtomsTyped, AtomTyped

\* An atom of the run that begins with x, but for x, joins another one of it.
LEMMA LinkedPrev ==
    ASSUME AtomsApart, NEW x \in atoms, NEW y \in atoms, x.from < y.from, Linked(x, y)
    PROVE  \E p \in atoms : /\ Joins(p, y) /\ x.from <= p.from /\ p.from < y.from /\ Linked(x, p)
<1>1. \A z \in atoms : z.from \in Nat /\ z.to \in Nat /\ z.from < z.to
  BY AtomTimes DEF AtomsApart
<1>2. PICK p \in atoms : Joins(p, y)
  BY <1>1 DEF Linked
<1>3. p.to = y.from
  BY <1>2 DEF Joins
<1>4. p.from < y.from
  BY <1>1, <1>3
<1>5. x.from <= p.from
  <2>1. x = p \/ x.to <= p.from \/ p.to <= x.from
    BY DEF AtomsApart, Apart
  <2> QED BY <1>1, <1>3, <2>1
<1>6. Linked(x, p)
  <2>1. \A b \in atoms : b.from <= p.from => b.from <= y.from
    BY <1>1, <1>4
  <2> QED BY <2>1 DEF Linked
<1> QED BY <1>2, <1>4, <1>5, <1>6

LEMMA LinkedCell ==
    ASSUME AtomsApart, NEW x \in atoms, NEW y \in atoms, x.from <= y.from, Linked(x, y)
    PROVE  y.cell = x.cell
<1> DEFINE Odd(z) == z \in atoms /\ x.from <= z.from /\ Linked(x, z) /\ z.cell # x.cell
           Bad == {z.from : z \in {z \in atoms : Odd(z)}}
<1>1. \A z \in atoms : z.from \in Nat /\ z.to \in Nat /\ z.from < z.to
  BY AtomTimes DEF AtomsApart
<1>2. ASSUME Bad # {} PROVE FALSE
  <2>1. Bad \subseteq Nat
    BY <1>1
  <2>2. PICK n \in Bad : \A m \in Bad : n <= m
    BY <1>2, <2>1, LeastIn
  <2>3. PICK z \in atoms : Odd(z) /\ n = z.from
    BY <2>2
  <2>4. z # x
    BY <2>3
  <2>5. x.from < z.from
    <3>1. x.to <= z.from \/ z.to <= x.from
      BY <2>4 DEF AtomsApart, Apart
    <3> QED BY <1>1, <2>3, <3>1
  <2>6. PICK p \in atoms : Joins(p, z) /\ x.from <= p.from /\ p.from < z.from /\ Linked(x, p)
    BY <2>3, <2>5, LinkedPrev
  <2>7. p.cell = z.cell
    BY <2>6 DEF Joins
  <2>8. Odd(p)
    BY <2>3, <2>6, <2>7
  <2>9. p.from \in Bad
    BY <2>8
  <2> HIDE DEF Bad
  <2>10. n <= p.from
    BY <2>2, <2>9
  <2> QED BY <1>1, <2>3, <2>6, <2>10
<1> QED BY <1>2

\* Every instant of a run lies in one of its atoms.
LEMMA HomeAtom ==
    ASSUME AtomsApart, NEW x \in atoms, NEW u \in Nat, x.from <= u, u < RunEnd(x)
    PROVE  \E y \in atoms : y.cell = x.cell /\ y.from <= u /\ u < y.to
<1>1. \A z \in atoms : z.from \in Nat /\ z.to \in Nat /\ z.from < z.to
  BY AtomTimes DEF AtomsApart
<1>2. PICK z \in atoms : x.from <= z.from /\ Linked(x, z) /\ RunEnd(x) = z.to
  BY RunEndOf DEF AtomsApart
<1>3. CASE z.from <= u
  BY <1>2, <1>3, LinkedCell
<1>4. CASE ~(z.from <= u)
  <2> DEFINE Later(y) == y \in atoms /\ x.from <= y.from /\ Linked(x, y) /\ y.from > u
             later == {y.from : y \in {y \in atoms : Later(y)}}
  <2>1. later \subseteq Nat /\ later # {}
    <3>1. Later(z)
      BY <1>1, <1>2, <1>4
    <3> QED BY <1>1, <3>1
  <2>2. PICK n \in later : \A m \in later : n <= m
    BY <2>1, LeastIn
  <2>3. PICK y \in atoms : Later(y) /\ n = y.from
    BY <2>2
  <2>4. x.from < y.from
    BY <1>1, <2>3
  <2>5. PICK p \in atoms : Joins(p, y) /\ x.from <= p.from /\ p.from < y.from /\ Linked(x, p)
    BY <2>3, <2>4, LinkedPrev
  <2>6. p.from <= u
    <3> SUFFICES ASSUME ~(p.from <= u) PROVE FALSE
      OBVIOUS
    <3>1. Later(p)
      BY <1>1, <2>5
    <3>2. p.from \in later
      BY <3>1
    <3> HIDE DEF later
    <3>3. n <= p.from
      BY <2>2, <3>2
    <3> QED BY <1>1, <2>3, <2>5, <3>3
  <2>7. p.to = y.from /\ u < y.from
    BY <2>3, <2>5 DEF Joins
  <2> QED BY <2>5, <2>6, <2>7, LinkedCell
<1> QED BY <1>3, <1>4

\* A run ends where the next one begins, or before.
LEMMA HeadsOrdered ==
    ASSUME AtomsApart, NEW x \in atoms, NEW z \in Heads, x.from < z.from
    PROVE  RunEnd(x) <= z.from
<1>1. \A y \in atoms : y.from \in Nat /\ y.to \in Nat /\ y.from < y.to
  BY AtomTimes DEF AtomsApart
<1>2. PICK y \in atoms : x.from <= y.from /\ Linked(x, y) /\ RunEnd(x) = y.to
  BY RunEndOf DEF AtomsApart
<1>3. z \in atoms /\ ~\E p \in atoms : Joins(p, z)
  BY DEF Heads
<1>4. y.from < z.from
  BY <1>1, <1>2, <1>3 DEF Linked
<1>5. y.to <= z.from \/ z.to <= y.from
  BY <1>1, <1>3, <1>4 DEF AtomsApart, Apart
<1> QED BY <1>1, <1>2, <1>3, <1>4, <1>5

-----------------------------------------------------------------------------
(* What keeps the units of an atom's rows in the atom, or in no atom's reach. *)

CutsFine == CutsCalendar => CutsExact
\* The range is planned to PlannedTo, and an atom that meets it is the last one.
CutAtEnd == ~Ragged \/ CutsCalendar

\* The bins of the atom lie in one output bin each, and their units before its
\* end, the one that is cut at the end of the plan excepted.
InOneBin(x) ==
    \/ OutGrid \subseteq Grid[TierOf(x.cell)]
    \/ /\ x.to \in Grid[TierOf(x.cell)]
       /\ \E b \in OutGrid : b < Horizon /\ b <= x.from /\ x.to <= After(OutGrid, b)
EndsSound(x) ==
    \/ x.to \in Grid[TierOf(x.cell)]
    \/ x.to = PlannedTo /\ CutAtEnd
    \/ FromWm /\ (CutsFine => sealed[x.cell] <= x.to)
StaysSound(x) == InOneBin(x) /\ EndsSound(x) /\ (CutAtEnd => x.from < PlannedTo)

AtomSound(x) == StaysSound(x) /\ x.to <= cursor
NewSound(x, upto) == StaysSound(x) /\ cursor <= x.from /\ x.to <= upto

AtomsSound == (\A x \in atoms : AtomSound(x)) /\ \A x, y \in atoms : x = y \/ Apart(x, y)

LEMMA NestedGrid ==
    ASSUME NestedTiers, NEW s \in Tiers, NEW t \in Tiers, s <= t
    PROVE  Grid[t] \subseteq Grid[s]
<1>1. s \in Nat /\ t \in Nat
  BY TierFacts
<1> QED BY <1>1 DEF NestedTiers

LEMMA OutrankedGrid ==
    ASSUME NestedTiers, NEW y \in Tiers, NEW t \in Tiers, Outranks(y, t)
    PROVE  Grid[y] \subseteq Grid[t]
<1>1. y \in Nat /\ t \in Nat /\ Width[y] \in Nat /\ Width[t] \in Nat
  BY TierFacts
<1>2. Width[y] > Width[t] \/ (Width[y] = Width[t] /\ y = t) \/ (Width[y] = Width[t] /\ y # t)
  BY <1>1 DEF Outranks
<1>3. CASE Width[y] > Width[t]
  <2>1. ~(y < t)
    BY <1>1, <1>3 DEF NestedTiers
  <2> QED BY <1>1, <2>1, NestedGrid
<1>4. CASE Width[y] = Width[t] /\ y = t
  BY <1>4
<1>5. CASE Width[y] = Width[t] /\ y # t
  <2>1. y < t \/ t < y
    BY <1>1, <1>5
  <2> QED BY <1>1, <1>5, <2>1 DEF NestedTiers
<1> QED BY <1>2, <1>3, <1>4, <1>5

\* What the walk emits.
LEMMA WalkSound ==
    ASSUME InputsInv, NestedTiers, ~Ragged, cursor \in Times, cursor < PlannedTo, Sources(cursor) # {},
           NEW s, s = Best(Sources(cursor)), SegFrom(s) < SegTo(s),
           NEW x, x = [cell |-> s.cell, from |-> SegFrom(s), to |-> SegTo(s)]
    PROVE  NewSound(x, SegTo(s))
<1>1. /\ s \in Sources(cursor) /\ cursor < Horizon
      /\ SegFrom(s) \in Times /\ cursor <= SegFrom(s)
      /\ SegTo(s) \in Times /\ cursor < SegTo(s) /\ SegTo(s) <= PlannedTo
      /\ SegTo(s) \in {PlannedTo, s.upto}
  BY SegmentFacts
<1>2. /\ s.cell \in Cells /\ TierOf(s.cell) <= OutTier
      /\ FromWm => s.upto \in {sealed[s.cell], After(Edges(s.cell), cursor)}
      /\ ~FromWm => /\ <<s.cell, Floor(Edges(s.cell), cursor)>> \in inventory
                    /\ s.upto = EndOf(<<s.cell, Floor(Edges(s.cell), cursor)>>)
  BY <1>1, SourceFacts
<1> DEFINE t == TierOf(s.cell)
           d == <<s.cell, Floor(Edges(s.cell), cursor)>>
<1>3. x.cell = s.cell /\ x.from = SegFrom(s) /\ x.to = SegTo(s)
  OBVIOUS
<1>4. t \in Tiers /\ Edges(s.cell) \subseteq Grid[t] /\ IsGrid(Edges(s.cell))
  BY <1>2, CellFacts
<1>5. OutGrid \subseteq Grid[t]
  <2>1. OutGrid = Grid[OutTier] /\ OutTier \in Tiers
    BY QueryFacts DEF InputsInv
  <2> QED BY <1>2, <1>4, <2>1, NestedGrid
<1>6. After(Edges(s.cell), cursor) \in Grid[t]
  BY <1>1, <1>4, AfterOf
<1>7. ~FromWm => s.upto \in Grid[t]
  <2> SUFFICES ASSUME ~FromWm PROVE s.upto \in Grid[t]
    OBVIOUS
  <2>1. d \in Shards /\ s.upto = EndOf(d)
    BY <1>2 DEF InputsInv, GivenInv
  <2>2. CellOf(d) = s.cell
    BY DEF CellOf
  <2> HIDE DEF d
  <2> QED BY <1>4, <2>1, <2>2, ShardFacts
<1>8. SegFrom(s) < PlannedTo
  <2>1. SegFrom(s) \in Nat /\ SegTo(s) \in Nat /\ PlannedTo \in Nat
    BY <1>1, GivenFacts, TimesNat
  <2> QED BY <1>1, <2>1
<1>9. CutAtEnd
  BY DEF CutAtEnd
<1>10. SegTo(s) \in Nat
  BY <1>1, TimesNat
<1>11. InOneBin(x)
  BY <1>3, <1>5 DEF InOneBin
<1>12. EndsSound(x)
  <2>1. \/ SegTo(s) \in Grid[t] \/ SegTo(s) = PlannedTo
        \/ FromWm /\ SegTo(s) = sealed[s.cell]
    BY <1>1, <1>2, <1>6, <1>7
  <2>2. SegTo(s) = sealed[s.cell] => sealed[s.cell] <= SegTo(s)
    BY <1>10
  <2> QED BY <1>3, <1>9, <2>1, <2>2 DEF EndsSound
<1> QED BY <1>1, <1>3, <1>8, <1>10, <1>11, <1>12 DEF NewSound, StaysSound

\* What a packing emits of the output bin at the cursor.
LEMMA PackSoundAtom ==
    ASSUME InputsInv, NestedTiers, Ragged, cursor \in OutGrid, cursor < PlannedTo,
           NEW p, PackedAtom(p, cursor, BinEnd), NEW x, x = InCell(p)
    PROVE  NewSound(x, BinEnd)
<1> DEFINE t == p.tier
<1>1. /\ t \in Tiers /\ p.from \in Times /\ p.to \in Times
      /\ cursor <= p.from /\ p.from < p.to /\ p.to <= BinEnd
      /\ FromWm /\ Target.calendar => p.from < PlannedTo
      /\ \/ p.to \in Grid[t]
         \/ /\ FromWm /\ Target.calendar /\ Base(t)
            /\ \/ p.to = largest[t]
               \/ p.to = PlannedTo
               \/ p.to = BinEnd
               \/ \E y \in Tiers : Outranks(y, t) /\ p.to \in Grid[y]
  BY DEF PackedAtom
<1>2. x.cell = LargestCell(t) /\ x.from = p.from /\ x.to = p.to /\ TierOf(x.cell) = t
  BY <1>1, TierFacts DEF InCell
<1>3. /\ BinEnd \in OutGrid /\ cursor < Horizon /\ BinEnd = After(OutGrid, cursor)
  BY BinEndFacts DEF BinEnd
<1>4. CutAtEnd => p.from < PlannedTo
  BY <1>1 DEF CutAtEnd, CutsCalendar
<1>5. CASE p.to \in Grid[t]
  <2>1. InOneBin(x)
    BY <1>1, <1>2, <1>3, <1>5 DEF InOneBin
  <2>2. EndsSound(x)
    BY <1>2, <1>5 DEF EndsSound
  <2> QED BY <1>1, <1>2, <1>4, <2>1, <2>2 DEF NewSound, StaysSound
<1>6. CASE /\ FromWm /\ Target.calendar /\ Base(t)
           /\ \/ p.to = largest[t]
              \/ p.to = PlannedTo
              \/ p.to = BinEnd
              \/ \E y \in Tiers : Outranks(y, t) /\ p.to \in Grid[y]
  <2>1. CutsCalendar /\ CutAtEnd
    BY <1>6 DEF CutsCalendar, CutAtEnd
  <2>2. OutGrid \subseteq Grid[t]
    <3>1. OutGrid \subseteq Day
      BY <1>6, QueryFacts DEF InputsInv
    <3>2. Day \subseteq Grid[t]
      BY <1>6 DEF Base
    <3> QED BY <3>1, <3>2
  <2>3. InOneBin(x)
    BY <1>2, <2>2 DEF InOneBin
  <2>4. ASSUME p.to = largest[t] PROVE EndsSound(x)
    <3>1. \/ largest[t] = PlannedTo \/ largest[t] \in Grid[t]
          \/ CutsFine => sealed[LargestCell(t)] <= largest[t]
      BY <1>1, <1>6, <2>1 DEF CutsFine, CutsExact
    <3> QED BY <1>2, <1>6, <2>1, <2>4, <3>1 DEF EndsSound
  <2>5. ASSUME p.to = PlannedTo PROVE EndsSound(x)
    BY <1>2, <2>1, <2>5 DEF EndsSound
  <2>6. ASSUME p.to = BinEnd PROVE EndsSound(x)
    BY <1>2, <1>3, <2>2, <2>6 DEF EndsSound
  <2>7. ASSUME \E y \in Tiers : Outranks(y, t) /\ p.to \in Grid[y] PROVE EndsSound(x)
    <3>1. p.to \in Grid[t]
      BY <1>1, <2>7, OutrankedGrid
    <3> QED BY <1>2, <3>1 DEF EndsSound
  <2>8. EndsSound(x)
    BY <1>6, <2>4, <2>5, <2>6, <2>7
  <2> QED BY <1>1, <1>2, <1>4, <2>3, <2>8 DEF NewSound, StaysSound
<1> QED BY <1>1, <1>5, <1>6

LEMMA SoundKept ==
    ASSUME UNCHANGED inputs
    PROVE  /\ PlannedTo' = PlannedTo /\ OutGrid' = OutGrid /\ Ragged' = Ragged /\ FromWm' = FromWm
           /\ (CutAtEnd' <=> CutAtEnd) /\ (CutsFine' <=> CutsFine) /\ sealed' = sealed
BY DEF inputs, PlannedTo, OutWidth, OutGrid, OutTier, Ragged, FromWm, Target, CutAtEnd, CutsFine, CutsCalendar, CutsExact

LEMMA SoundInit == Init => AtomsSound
BY DEF Init, AtomsSound

\* Atoms from the cursor on are added; the cursor moves to their end.
LEMMA SoundGrows ==
    ASSUME TypeInv, AtomsTyped', AtomsSound, UNCHANGED inputs,
           cursor' \in Times, cursor <= cursor', NEW new, atoms' = atoms \cup new,
           \A x \in new : NewSound(x, cursor'),
           \A x, y \in new : x = y \/ Apart(x, y)
    PROVE  AtomsSound'
<1>1. cursor \in Nat /\ cursor' \in Nat
  BY TimesNat DEF TypeInv
<1>2. \A x \in atoms' : x.from \in Nat /\ x.to \in Nat /\ x.from < x.to
  <2>1. \A x \in atoms' : x.from \in Times /\ x.to \in Times /\ x.from < x.to
    BY DEF AtomsTyped, AtomTyped
  <2> QED BY <2>1, TimesNat
<1>3. \A x \in atoms : x.to <= cursor
  BY DEF AtomsSound, AtomSound
<1>4. ASSUME NEW x \in atoms' PROVE AtomSound(x)'
  <2>1. StaysSound(x)
    BY DEF AtomsSound, AtomSound, NewSound
  <2>2. x.to <= cursor'
    <3>1. CASE x \in atoms
      BY <1>1, <1>2, <1>3, <3>1
    <3>2. CASE x \in new
      BY <3>2 DEF NewSound
    <3> QED BY <3>1, <3>2
  <2> QED BY <2>1, <2>2, SoundKept DEF AtomSound, StaysSound, InOneBin, EndsSound
<1>5. \A x \in atoms, y \in new : Apart(x, y) /\ Apart(y, x)
  <2>1. \A y \in new : cursor <= y.from
    BY DEF NewSound
  <2> QED BY <1>1, <1>2, <1>3, <2>1 DEF Apart
<1>6. \A x, y \in atoms' : x = y \/ Apart(x, y)
  BY <1>5 DEF AtomsSound
<1> QED BY <1>4, <1>6 DEF AtomsSound

LEMMA SoundStep == NestedTiers /\ TypeInv /\ TypeInv' /\ AtomsSound /\ [Next]_vars => AtomsSound'
<1> SUFFICES ASSUME NestedTiers, TypeInv, TypeInv', AtomsSound, [Next]_vars PROVE AtomsSound'
  OBVIOUS
<1>0. /\ InputsInv /\ cursor \in Times /\ (Ragged => cursor \in OutGrid) /\ cursor' \in Times /\ AtomsTyped'
      /\ cursor \in Nat
  BY TimesNat DEF TypeInv
<1>1. UNCHANGED inputs
  BY DEF Next, Emit, SkipGated, Stop, RefuseBins, PackFixed, PackCalendar, Assemble, Over, vars
<1>2. ASSUME atoms' = atoms, cursor <= cursor' PROVE AtomsSound'
  <2> DEFINE none == {}
  <2>1. atoms' = atoms \cup none
    BY <1>2
  <2>2. (\A x \in none : NewSound(x, cursor')) /\ \A x, y \in none : x = y \/ Apart(x, y)
    OBVIOUS
  <2> HIDE DEF none
  <2> QED BY <1>0, <1>1, <1>2, <2>1, <2>2, SoundGrows
<1>3. CASE Emit
  <2> DEFINE s == Best(Sources(cursor))
             x == [cell |-> s.cell, from |-> SegFrom(s), to |-> SegTo(s)]
             new == {x}
  <2>1. /\ ~Ragged /\ cursor < PlannedTo /\ Sources(cursor) # {} /\ SegFrom(s) < SegTo(s)
        /\ atoms' = atoms \cup new /\ cursor' = SegTo(s)
    BY <1>3 DEF Emit, Walking
  <2> HIDE DEF s
  <2>2. NewSound(x, cursor')
    BY <1>0, <2>1, WalkSound DEF s
  <2>3. cursor <= cursor'
    <3>1. cursor < SegTo(s) /\ SegTo(s) \in Times
      BY <1>0, <2>1, SegmentFacts DEF s
    <3>2. SegTo(s) \in Nat
      BY <3>1, TimesNat
    <3> QED BY <1>0, <2>1, <3>1, <3>2
  <2> HIDE DEF x
  <2>4. \A y \in new : NewSound(y, cursor')
    BY <2>2
  <2>5. \A y, z \in new : y = z \/ Apart(y, z)
    OBVIOUS
  <2> HIDE DEF new
  <2> QED BY <1>0, <1>1, <2>1, <2>3, <2>4, <2>5, SoundGrows
<1>4. CASE SkipGated
  <2> DEFINE s == Best(Sources(cursor))
  <2>1. cursor < PlannedTo /\ Sources(cursor) # {} /\ atoms' = atoms /\ cursor' = SegTo(s)
    BY <1>4 DEF SkipGated, Walking
  <2>2. cursor < SegTo(s) /\ SegTo(s) \in Times
    BY <1>0, <2>1, SegmentFacts
  <2>3. cursor <= cursor'
    BY <1>0, <2>1, <2>2, TimesNat
  <2> QED BY <1>2, <2>1, <2>3
<1>5. CASE Stop \/ RefuseBins \/ Assemble \/ UNCHANGED vars
  <2>1. atoms' = atoms /\ cursor' = cursor
    BY <1>5 DEF Stop, RefuseBins, Assemble, vars
  <2> QED BY <1>0, <1>2, <2>1
<1>6. CASE PackFixed
  <2> DEFINE path == Decompose(FixedAtoms(cursor, BinEnd), cursor, BinEnd)
             new == {InCell(path[i]) : i \in DOMAIN path}
  <2>1. Ragged /\ cursor < PlannedTo /\ ~Target.calendar
    BY <1>6 DEF PackFixed, Packing
  <2>2. /\ BinEnd \in OutGrid /\ cursor < BinEnd /\ BinEnd \in Times /\ BinEnd \in Nat
    BY <1>0, <2>1, BinEndFacts
  <2>3. \/ atoms' = atoms /\ cursor' \in {cursor, BinEnd}
        \/ path # NoPath /\ atoms' = atoms \cup new /\ cursor' = BinEnd
    BY <1>6 DEF PackFixed
  <2>4. CASE atoms' = atoms /\ cursor' \in {cursor, BinEnd}
    BY <1>0, <1>2, <2>2, <2>4
  <2>5. CASE path # NoPath /\ atoms' = atoms \cup new /\ cursor' = BinEnd
    <3> HIDE DEF path
    <3>1. /\ \A i \in DOMAIN path : PackedAtom(path[i], cursor, BinEnd)
          /\ \A i, j \in DOMAIN path : i = j \/ Apart(path[i], path[j])
      BY <1>0, <2>1, <2>2, <2>5, FixedPacked DEF path
    <3>2. \A i \in DOMAIN path : NewSound(InCell(path[i]), BinEnd)
      BY <1>0, <2>1, <3>1, PackSoundAtom
    <3>3. \A i, j \in DOMAIN path : InCell(path[i]) = InCell(path[j]) \/ Apart(InCell(path[i]), InCell(path[j]))
      BY <3>1 DEF InCell, Apart
    <3>4. (\A x \in new : NewSound(x, cursor')) /\ \A x, y \in new : x = y \/ Apart(x, y)
      BY <2>5, <3>2, <3>3
    <3>5. cursor <= cursor'
      BY <1>0, <2>2, <2>5
    <3> HIDE DEF new
    <3> QED BY <1>0, <1>1, <2>5, <3>4, <3>5, SoundGrows
  <2> QED BY <2>3, <2>4, <2>5
<1>7. CASE PackCalendar
  <2> DEFINE packed == CalendarAtoms(cursor, BinEnd)
             new == {InCell(p) : p \in packed}
  <2>1. /\ Ragged /\ cursor < PlannedTo /\ Target.calendar
        /\ atoms' = atoms \cup new /\ cursor' = BinEnd
    BY <1>7 DEF PackCalendar, Packing
  <2>2. /\ BinEnd \in OutGrid /\ cursor < BinEnd /\ BinEnd \in Times /\ BinEnd \in Nat
    BY <1>0, <2>1, BinEndFacts
  <2>3. /\ \A p \in packed : PackedAtom(p, cursor, BinEnd)
        /\ \A p, q \in packed : p = q \/ Apart(p, q)
    BY <1>0, <2>1, <2>2, CalendarPacked
  <2> HIDE DEF packed
  <2>4. \A p \in packed : NewSound(InCell(p), BinEnd)
    BY <1>0, <2>1, <2>3, PackSoundAtom
  <2>5. \A p, q \in packed : InCell(p) = InCell(q) \/ Apart(InCell(p), InCell(q))
    BY <2>3 DEF InCell, Apart
  <2>6. (\A x \in new : NewSound(x, cursor')) /\ \A x, y \in new : x = y \/ Apart(x, y)
    BY <2>1, <2>4, <2>5
  <2>7. cursor <= cursor'
    BY <1>0, <2>1, <2>2
  <2> HIDE DEF new
  <2> QED BY <1>0, <1>1, <2>1, <2>6, <2>7, SoundGrows
<1> QED BY <1>3, <1>4, <1>5, <1>6, <1>7 DEF Next, Over

-----------------------------------------------------------------------------
(* The rows of the answer. *)

\* A segment is the run of one head.
SegmentOf(g, x) ==
    /\ g.cell = x.cell /\ g.from = x.from /\ g.to = RunEnd(x)
    /\ g.keys = Keys(x.cell, x.from, RunEnd(x))

LEMMA ReadFacts ==
    ASSUME TypeInv, NEW r \in Reads
    PROVE  /\ \E x \in Heads : r.seg = [cell |-> x.cell, from |-> x.from, to |-> RunEnd(x),
                                        keys |-> Keys(x.cell, x.from, RunEnd(x))]
           /\ r = [seg |-> r.seg, shard |-> r.shard, bin |-> r.bin]
           /\ r.shard \in r.seg.keys /\ r.bin \in Grid[TierOf(r.seg.cell)]
           /\ StartOf(r.shard) <= r.bin /\ r.bin < EndOf(r.shard) /\ r.seg.from <= r.bin /\ r.bin < r.seg.to
<1>0. PICK g \in plan : r \in UNION {RowsOf(g, s) : s \in g.keys}
  BY DEF Reads
<1>1. PICK s \in g.keys : r \in RowsOf(g, s)
  BY <1>0
<1>2. g \in Coalesced
  BY DEF TypeInv
<1>3. PICK x \in Heads : g = [cell |-> x.cell, from |-> x.from, to |-> RunEnd(x),
                              keys |-> Keys(x.cell, x.from, RunEnd(x))]
  BY <1>2 DEF Coalesced, Heads
<1>4. PICK b \in Grid[TierOf(g.cell)] : /\ r = [seg |-> g, shard |-> s, bin |-> b]
                                        /\ StartOf(s) <= b /\ b < EndOf(s) /\ g.from <= b /\ b < g.to
  BY <1>1 DEF RowsOf
<1>5. r.seg = g /\ r.shard = s /\ r.bin = b
  BY <1>4
<1> QED BY <1>1, <1>3, <1>4, <1>5

\* What the rest needs of a row.
RowOf(r, x) ==
    /\ x \in Heads /\ x \in atoms /\ SegmentOf(r.seg, x)
    /\ r.shard \in Keys(x.cell, x.from, RunEnd(x)) /\ r.shard \in Shards
    /\ FromWm \/ ~Ragged => CellOf(r.shard) = x.cell
    /\ TierOf(x.cell) \in Tiers /\ r.bin \in Grid[TierOf(x.cell)] /\ r.bin \in Times /\ r.bin \in Nat /\ r.bin < Horizon
    /\ StartOf(r.shard) <= r.bin /\ r.bin < EndOf(r.shard)
    /\ x.from <= r.bin /\ r.bin < RunEnd(x)
    /\ \A u \in Units(r) : /\ u \in Times /\ u \in Nat /\ r.bin <= u /\ u < After(Grid[TierOf(x.cell)], r.bin)
                           /\ u < sealed[CellOf(r.shard)]

LEMMA RowFacts ==
    ASSUME TypeInv, NEW r \in Reads
    PROVE  \E x : /\ RowOf(r, x)
                  /\ r.seg = [cell |-> x.cell, from |-> x.from, to |-> RunEnd(x),
                              keys |-> Keys(x.cell, x.from, RunEnd(x))]
<1>1. PICK x \in Heads : r.seg = [cell |-> x.cell, from |-> x.from, to |-> RunEnd(x),
                                  keys |-> Keys(x.cell, x.from, RunEnd(x))]
  BY ReadFacts
<1>2. SegmentOf(r.seg, x)
  BY <1>1 DEF SegmentOf
<1>3. x \in atoms /\ InputsInv /\ AtomsTyped
  BY DEF Heads, TypeInv
<1> DEFINE t == TierOf(x.cell)
<1>4. /\ x.cell \in Cells /\ t \in Tiers /\ x.from \in Times
      /\ RunEnd(x) \in Times /\ IsGrid(Grid[t])
  BY <1>3, AtomTimes, RunEndOf, TierFacts
<1>5. /\ r.shard \in Keys(x.cell, x.from, RunEnd(x)) /\ r.bin \in Grid[t]
      /\ StartOf(r.shard) <= r.bin /\ r.bin < EndOf(r.shard) /\ x.from <= r.bin /\ r.bin < RunEnd(x)
  BY <1>2, ReadFacts DEF SegmentOf
<1>6. r.bin \in Times /\ r.bin \in Nat /\ r.bin < Horizon
  <2>1. r.bin \in Times /\ r.bin \in Nat /\ RunEnd(x) \in Nat /\ RunEnd(x) <= Horizon /\ Horizon \in Nat
    BY <1>4, <1>5, GridFacts, TimesNat
  <2> QED BY <1>5, <2>1
<1>7. After(Grid[t], r.bin) \in Times /\ After(Grid[t], r.bin) \in Nat /\ After(Grid[t], r.bin) <= Horizon
  BY <1>4, <1>6, AfterOf, GridFacts
<1>8. Keys(x.cell, x.from, RunEnd(x)) \subseteq Shards
  <2>1. CASE FromWm
    BY <2>1 DEF Keys, PeriodsCovering
  <2>2. CASE ~FromWm /\ Ragged
    <3>1. Keys(x.cell, x.from, RunEnd(x)) \subseteq inventory
      BY <1>3, <1>4, <2>2, RegisteredKeysSound DEF Keys
    <3> QED BY <1>3, <3>1 DEF InputsInv, GivenInv
  <2>3. CASE ~FromWm /\ ~Ragged
    BY <2>3 DEF Keys
  <2> QED BY <2>1, <2>2, <2>3
<1>9. FromWm \/ ~Ragged => CellOf(r.shard) = x.cell
  BY <1>5 DEF Keys, PeriodsCovering
<1>10. ASSUME NEW u \in Units(r)
       PROVE  /\ u \in Times /\ u \in Nat /\ r.bin <= u /\ u < After(Grid[t], r.bin) /\ u < sealed[CellOf(r.shard)]
  <2>1. u \in r.bin .. After(Grid[t], r.bin) - 1 /\ u < sealed[CellOf(r.shard)]
    BY <1>2 DEF Units, SegmentOf
  <2>2. u \in Nat /\ u <= Horizon /\ r.bin <= u /\ u < After(Grid[t], r.bin)
    BY <1>6, <1>7, <2>1, TimesNat
  <2> QED BY <2>1, <2>2, TimesNat
<1>11. RowOf(r, x)
  BY <1>2, <1>3, <1>4, <1>5, <1>6, <1>8, <1>9, <1>10 DEF RowOf
<1> QED BY <1>1, <1>11

LEMMA BothInv ==
    ASSUME TypeInv, AtomsSound
    PROVE  InputsInv /\ AtomsTyped /\ AtomsApart
BY DEF TypeInv, AtomsSound, AtomsApart

\* The units of a row lie in its segment, unless the plan ends with it.
LEMMA RowInSegment ==
    ASSUME TypeInv, AtomsSound, CutsFine, NEW r \in Reads, NEW x, RowOf(r, x), NEW u \in Units(r)
    PROVE  u < RunEnd(x) \/ (RunEnd(x) = PlannedTo /\ CutAtEnd)
<1> DEFINE t == TierOf(x.cell)
           bin == r.bin
<1>1. /\ x \in atoms /\ t \in Tiers /\ bin \in Grid[t] /\ bin \in Times /\ bin \in Nat /\ bin < Horizon
      /\ bin < RunEnd(x) /\ u \in Nat /\ u < After(Grid[t], bin) /\ u < sealed[CellOf(r.shard)]
      /\ FromWm => CellOf(r.shard) = x.cell
  BY DEF RowOf
<1>2. PICK y \in atoms : x.from <= y.from /\ Linked(x, y) /\ RunEnd(x) = y.to
  BY <1>1, BothInv, RunEndOf
<1>3. y.cell = x.cell
  BY <1>1, <1>2, BothInv, LinkedCell
<1>4. EndsSound(y) /\ y.to \in Nat
  BY BothInv, AtomTimes DEF AtomsSound, AtomSound, StaysSound
<1>5. CASE y.to \in Grid[t]
  <2>1. After(Grid[t], bin) \in Grid[t] /\ \A b \in Grid[t] : b > bin => After(Grid[t], bin) <= b
    BY <1>1, AfterOf, TierFacts
  <2>2. After(Grid[t], bin) \in Nat
    BY <1>1, <2>1, TierFacts, GridFacts
  <2>3. After(Grid[t], bin) <= y.to
    BY <1>1, <1>2, <1>4, <1>5, <2>1
  <2> QED BY <1>1, <1>2, <1>4, <2>2, <2>3
<1>6. CASE y.to = PlannedTo /\ CutAtEnd
  BY <1>2, <1>6
<1>7. CASE FromWm /\ sealed[x.cell] <= y.to
  <2>1. x.cell \in Cells /\ sealed[x.cell] \in Nat
    <3>1. x.cell \in Cells
      BY <1>1, BothInv, AtomTimes
    <3>2. sealed[x.cell] \in 0 .. Far /\ Far \in Nat
      BY <3>1, BothInv, GivenFacts, TimesNat
    <3> QED BY <3>1, <3>2
  <2> QED BY <1>1, <1>2, <1>4, <1>7, <2>1
<1> QED BY <1>3, <1>4, <1>5, <1>6, <1>7 DEF EndsSound

\* The units of a row lie in the output bin that its bin begins in.
LEMMA RowInOutBin ==
    ASSUME TypeInv, AtomsSound, NEW r \in Reads, NEW x, RowOf(r, x), NEW u \in Units(r)
    PROVE  Floor(OutGrid, u) = OutBin(r)
<1> DEFINE t == TierOf(x.cell)
           bin == r.bin
<1>1. /\ x \in atoms /\ t \in Tiers /\ bin \in Grid[t] /\ bin \in Times /\ bin \in Nat /\ bin < Horizon
      /\ x.from <= bin /\ bin < RunEnd(x)
      /\ u \in Times /\ u \in Nat /\ bin <= u /\ u < After(Grid[t], bin)
  BY DEF RowOf
<1>2. IsGrid(OutGrid) /\ IsGrid(Grid[t])
  BY <1>1, BothInv, QueryFacts, TierFacts DEF InputsInv
<1>3. PICK y \in atoms : y.cell = x.cell /\ y.from <= bin /\ bin < y.to
  BY <1>1, BothInv, HomeAtom
<1>4. /\ y.from \in Nat /\ y.to \in Nat /\ InOneBin(y)
  BY BothInv, AtomTimes DEF AtomsSound, AtomSound, StaysSound
<1>5. /\ After(Grid[t], bin) \in Nat /\ \A b \in Grid[t] : b > bin => After(Grid[t], bin) <= b
  BY <1>1, <1>2, AfterOf, GridFacts
\* Both lie in one bin of the output.
<1>6. ASSUME NEW b \in OutGrid, b < Horizon, b <= bin, u < After(OutGrid, b)
      PROVE  Floor(OutGrid, u) = OutBin(r)
  <2>1. b \in Times /\ b \in Nat /\ After(OutGrid, b) \in Nat
    BY <1>2, <1>6, AfterOf, GridFacts
  <2>2. b <= u /\ bin < After(OutGrid, b)
    BY <1>1, <1>6, <2>1
  <2>3. Floor(OutGrid, u) = b /\ Floor(OutGrid, bin) = b
    BY <1>1, <1>2, <1>6, <2>2, InBin
  <2> QED BY <2>3 DEF OutBin
<1>7. CASE OutGrid \subseteq Grid[t]
  <2> DEFINE b == Floor(OutGrid, bin)
             e == After(OutGrid, b)
  <2>1. b \in OutGrid /\ b <= bin /\ \A z \in OutGrid : z <= bin => z <= b
    BY <1>1, <1>2, FloorOf
  <2>2. b \in Times /\ b \in Nat /\ b < Horizon
    BY <1>1, <1>2, <2>1, GridFacts, TimesNat
  <2>3. e \in OutGrid /\ b < e /\ e \in Nat
    BY <1>2, <2>2, AfterOf, GridFacts
  <2> HIDE DEF b
  <2>4. bin < e
    BY <1>1, <2>1, <2>2, <2>3
  <2>5. After(Grid[t], bin) <= e
    BY <1>1, <1>5, <1>7, <2>3, <2>4
  <2>6. u < e
    BY <1>1, <1>5, <2>3, <2>5
  <2> QED BY <1>6, <2>1, <2>2, <2>6
<1>8. CASE /\ y.to \in Grid[t]
           /\ \E b \in OutGrid : b < Horizon /\ b <= y.from /\ y.to <= After(OutGrid, b)
  <2>1. PICK b \in OutGrid : b < Horizon /\ b <= y.from /\ y.to <= After(OutGrid, b)
    BY <1>8
  <2>2. b \in Nat /\ b \in Times /\ After(OutGrid, b) \in Nat
    BY <1>2, <2>1, AfterOf, GridFacts
  <2>3. After(Grid[t], bin) <= y.to
    BY <1>1, <1>3, <1>4, <1>5, <1>8
  <2>4. b <= bin /\ u < After(OutGrid, b)
    BY <1>1, <1>3, <1>4, <1>5, <2>1, <2>2, <2>3
  <2> QED BY <1>6, <2>1, <2>4
<1> QED BY <1>3, <1>4, <1>7, <1>8 DEF InOneBin

\* Rows with a unit in common are one row.
LEMMA OneRow ==
    ASSUME TypeInv, AtomsSound, CutsFine, NestedRungs,
           NEW r \in Reads, NEW o \in Reads, NEW u \in Units(r), u \in Units(o)
    PROVE  r = o
<1>1. PICK x : /\ RowOf(r, x)
               /\ r.seg = [cell |-> x.cell, from |-> x.from, to |-> RunEnd(x),
                           keys |-> Keys(x.cell, x.from, RunEnd(x))]
  BY RowFacts
<1>2. PICK z : /\ RowOf(o, z)
               /\ o.seg = [cell |-> z.cell, from |-> z.from, to |-> RunEnd(z),
                           keys |-> Keys(z.cell, z.from, RunEnd(z))]
  BY RowFacts
<1>3. /\ x \in Heads /\ x \in atoms /\ z \in Heads /\ z \in atoms
      /\ x.from <= r.bin /\ r.bin <= u /\ z.from <= o.bin /\ o.bin <= u
      /\ r.bin \in Nat /\ o.bin \in Nat /\ u \in Nat
  BY <1>1, <1>2 DEF RowOf
<1>4. \A y \in atoms : /\ y.from \in Nat /\ y.to \in Nat /\ y.from < y.to /\ RunEnd(y) \in Nat
                       /\ y.from < RunEnd(y) /\ (CutAtEnd => y.from < PlannedTo)
  <2>1. \A y \in atoms : y.from \in Nat /\ y.to \in Nat /\ y.from < y.to
    BY BothInv, AtomTimes
  <2>2. \A y \in atoms : RunEnd(y) \in Times /\ y.from < RunEnd(y)
    BY BothInv, RunEndOf
  <2>3. \A y \in atoms : CutAtEnd => y.from < PlannedTo
    BY DEF AtomsSound, AtomSound, StaysSound
  <2> QED BY <2>1, <2>2, <2>3, TimesNat
<1>5. PlannedTo \in Nat
  BY BothInv, GivenFacts
<1>6. ~(x.from < z.from)
  <2> SUFFICES ASSUME x.from < z.from PROVE FALSE
    OBVIOUS
  <2>1. RunEnd(x) <= z.from
    BY <1>3, BothInv, HeadsOrdered
  <2>2. u < RunEnd(x) \/ (RunEnd(x) = PlannedTo /\ CutAtEnd)
    BY <1>1, RowInSegment
  <2> QED BY <1>3, <1>4, <1>5, <2>1, <2>2
<1>7. ~(z.from < x.from)
  <2> SUFFICES ASSUME z.from < x.from PROVE FALSE
    OBVIOUS
  <2>1. RunEnd(z) <= x.from
    BY <1>3, BothInv, HeadsOrdered
  <2>2. u < RunEnd(z) \/ (RunEnd(z) = PlannedTo /\ CutAtEnd)
    BY <1>2, RowInSegment
  <2> QED BY <1>3, <1>4, <1>5, <2>1, <2>2
<1>8. x = z
  <2>1. x = z \/ x.to <= z.from \/ z.to <= x.from
    BY <1>3 DEF AtomsSound, Apart
  <2> QED BY <1>3, <1>4, <1>6, <1>7, <2>1
<1>9. r.seg = o.seg
  BY <1>1, <1>2, <1>8
<1> DEFINE t == TierOf(x.cell)
<1>10. /\ t \in Tiers /\ r.bin \in Grid[t] /\ o.bin \in Grid[t] /\ r.bin \in Times /\ o.bin \in Times
       /\ r.bin < Horizon /\ o.bin < Horizon
       /\ u < After(Grid[t], r.bin) /\ u < After(Grid[t], o.bin)
  BY <1>1, <1>2, <1>8 DEF RowOf
<1>11. r.bin = o.bin
  <2>1. Floor(Grid[t], u) = r.bin /\ Floor(Grid[t], u) = o.bin
    <3>1. u \in Times
      BY <1>1 DEF RowOf
    <3> QED BY <1>3, <1>10, <3>1, InBin, TierFacts
  <2> QED BY <2>1
<1>12. r.shard = o.shard
  <2>1. /\ r.shard \in Shards /\ o.shard \in Shards
        /\ StartOf(r.shard) <= r.bin /\ r.bin < EndOf(r.shard)
        /\ StartOf(o.shard) <= r.bin /\ r.bin < EndOf(o.shard)
        /\ r.shard \in Keys(x.cell, x.from, RunEnd(x)) /\ o.shard \in Keys(x.cell, x.from, RunEnd(x))
        /\ FromWm \/ ~Ragged => CellOf(r.shard) = x.cell /\ CellOf(o.shard) = x.cell
    BY <1>1, <1>2, <1>8, <1>11 DEF RowOf
  <2>2. CASE FromWm \/ ~Ragged
    BY <1>10, <2>1, <2>2, OneShard
  <2>3. CASE ~FromWm /\ Ragged
    <3> DEFINE keys == RegisteredKeys(t, x.from, RunEnd(x))
    <3>1. r.shard \in keys /\ o.shard \in keys
      BY <2>1, <2>3 DEF Keys
    <3>2. x.from \in Times /\ RunEnd(x) \in Times
      BY <1>3, BothInv, AtomTimes, RunEndOf
    <3>3. \/ r.shard = o.shard
          \/ EndOf(r.shard) <= StartOf(o.shard) \/ EndOf(o.shard) <= StartOf(r.shard)
      BY <1>10, <3>1, <3>2, BothInv, RegisteredKeysSound
    <3>4. /\ StartOf(r.shard) \in Nat /\ EndOf(r.shard) \in Nat
          /\ StartOf(o.shard) \in Nat /\ EndOf(o.shard) \in Nat
      BY <2>1, ShardFacts, TimesNat
    <3> QED BY <1>3, <2>1, <3>3, <3>4
  <2> QED BY <2>2, <2>3
<1>13. /\ r = [seg |-> r.seg, shard |-> r.shard, bin |-> r.bin]
       /\ o = [seg |-> o.seg, shard |-> o.shard, bin |-> o.bin]
  BY ReadFacts
<1> QED BY <1>9, <1>11, <1>12, <1>13

LEMMA SoundCountsOnce == NestedLadder /\ TypeInv /\ AtomsSound => CountedOnce
<1> SUFFICES ASSUME NestedLadder, TypeInv, AtomsSound, CutsFine, NEW r \in Reads
             PROVE  /\ \A u \in Units(r) : Floor(OutGrid, u) = OutBin(r)
                    /\ \A o \in Reads \ {r} : Units(r) \cap Units(o) = {}
  BY DEF CountedOnce, CutsFine
<1>1. \A u \in Units(r) : Floor(OutGrid, u) = OutBin(r)
  BY RowFacts, RowInOutBin
<1>2. \A o \in Reads \ {r} : Units(r) \cap Units(o) = {}
  BY OneRow DEF NestedLadder
<1> QED BY <1>1, <1>2

(* On a nested ladder no unit of time is added to the answer twice, and none  *)
(* to an output bin it does not lie in: for every set of tiers and shard      *)
(* durations, all watermarks and registered shards, a budget of bins, a fixed *)
(* target width or a calendar one (planQuery, planQueryFromInventory and      *)
(* stitch).                                                                   *)
THEOREM CountedOnceHolds ==
    ASSUME NestedLadder
    PROVE  Spec => []CountedOnce
<1>1. NestedTiers
  BY DEF NestedLadder
<1>2. Init => AtomsSound
  BY SoundInit
<1>3. TypeInv /\ TypeInv' /\ AtomsSound /\ [Next]_vars => AtomsSound'
  BY <1>1, SoundStep
<1>4. TypeInv /\ AtomsSound => CountedOnce
  BY SoundCountsOnce
<1> QED BY <1>2, <1>3, <1>4, TypesAlways, PTL DEF Spec

-----------------------------------------------------------------------------
(* The fewest bins.  The positions that n of the usable bins lead to are the  *)
(* ends of the chains of n of them.                                          *)

\* One step of the recursion.
ReachStep(f, usable, a, m) == IF m = 0 THEN {a} ELSE Onward(usable, f[m - 1])

LEMMA ReachedAre ==
    ASSUME NEW usable, NEW a, NEW limit \in Nat
    PROVE  /\ Reached(usable, a, limit)[0] = {a}
           /\ \A m \in 1 .. limit : Reached(usable, a, limit)[m] = Onward(usable, Reached(usable, a, limit)[m - 1])
<1> DEFINE Solves(f, k) == f = [m \in 0 .. k |-> ReachStep(f, usable, a, m)]
           Bad == {k \in Nat : ~\E f : Solves(f, k)}
<1>1. ASSUME Bad # {} PROVE FALSE
  <2>1. PICK k \in Bad : \A y \in Bad : k <= y
    BY <1>1, LeastIn
  <2>2. k \in Nat /\ ~\E f : Solves(f, k)
    BY <2>1
  <2>3. CASE k = 0
    <3>1. Solves([m \in 0 .. 0 |-> {a}], 0)
      BY DEF ReachStep
    <3> QED BY <3>1, <2>2, <2>3
  <2>4. CASE k # 0
    <3>1. k - 1 \in Nat /\ k - 1 \notin Bad
      <4> HIDE DEF Bad
      <4> QED BY <2>1, <2>2, <2>4
    <3>2. PICK f : Solves(f, k - 1)
      BY <3>1
    <3> DEFINE g == [m \in 0 .. k |-> ReachStep(f, usable, a, m)]
    <3>3. \A m \in 0 .. k : m # 0 => f[m - 1] = g[m - 1]
      <4>1. \A m \in 0 .. k : m # 0 => m - 1 \in 0 .. k - 1 /\ m - 1 \in 0 .. k
        BY <2>2
      <4> QED BY <3>2, <4>1
    <3> HIDE DEF g
    <3>4. Solves(g, k)
      BY <3>3 DEF g, ReachStep
    <3> QED BY <3>4, <2>2
  <2> QED BY <2>3, <2>4
<1>2. \E f : f = [m \in 0 .. limit |-> ReachStep(f, usable, a, m)]
  BY <1>1
<1> HIDE DEF Solves, Bad
<1> DEFINE after[n \in 0 .. limit] == IF n = 0 THEN {a} ELSE Onward(usable, after[n - 1])
<1>3. after = [n \in 0 .. limit |-> ReachStep(after, usable, a, n)]
  BY <1>2, Zenon DEF ReachStep
<1>4. Reached(usable, a, limit) = after
  BY DEF Reached
<1> HIDE DEF after
<1>5. \A n \in 0 .. limit : after[n] = ReachStep(after, usable, a, n)
  BY <1>3
<1>6. after[0] = {a}
  <2>1. 0 \in 0 .. limit
    OBVIOUS
  <2> QED BY <1>5, <2>1 DEF ReachStep
<1>7. ASSUME NEW m \in 1 .. limit PROVE after[m] = Onward(usable, after[m - 1])
  <2>1. m \in 0 .. limit /\ m # 0
    OBVIOUS
  <2> QED BY <1>5, <2>1 DEF ReachStep
<1> QED BY <1>4, <1>6, <1>7

\* After m of n bins the rest is a chain to the end, however many m are.
LEMMA ReachedChains ==
    ASSUME NEW usable, NEW a, NEW b, Between(usable, a, b), a <= b, NEW n \in 0 .. b - a
    PROVE  b \in Reached(usable, a, b - a)[n] <=> \E q : Chain(q, usable, a, b) /\ Len(q) = n
<1> DEFINE reached == Reached(usable, a, b - a)
           Rest(m) == \E c \in reached[m] : \E q : Chain(q, usable, c, b) /\ Len(q) = n - m
           Bad == {m \in Nat : m <= n /\ ~(Rest(m) <=> Rest(0))}
<1>0. a \in Nat /\ b \in Nat /\ b - a \in Nat /\ n \in Nat /\ n <= b - a
  BY DEF Between
<1>1. reached[0] = {a} /\ \A m \in 1 .. b - a : reached[m] = Onward(usable, reached[m - 1])
  BY <1>0, ReachedAre
<1> HIDE DEF reached
<1>2. ASSUME Bad # {} PROVE FALSE
  <2>1. PICK m \in Bad : \A y \in Bad : m <= y
    BY <1>2, LeastIn
  <2>2. m \in Nat /\ m <= n /\ ~(Rest(m) <=> Rest(0))
    BY <2>1
  <2>3. m # 0
    BY <2>2
  <2>4. m - 1 \in Nat /\ m - 1 <= n /\ m - 1 \notin Bad /\ m \in 1 .. b - a
    <3> HIDE DEF Bad
    <3> QED BY <1>0, <2>1, <2>2, <2>3
  <2>5. Rest(m - 1) <=> Rest(0)
    BY <2>4
  <2>6. reached[m] = {x.to : x \in {x \in usable : x.from \in reached[m - 1]}}
    BY <1>1, <2>4 DEF Onward
  <2>7. ASSUME Rest(m) PROVE Rest(m - 1)
    <3>1. PICK c \in reached[m] : \E q : Chain(q, usable, c, b) /\ Len(q) = n - m
      BY <2>7
    <3>2. PICK q : Chain(q, usable, c, b) /\ Len(q) = n - m
      BY <3>1
    <3>3. PICK x \in usable : x.from \in reached[m - 1] /\ x.to = c
      BY <2>6, <3>1
    <3>4. Chain(<<x>> \o q, usable, x.from, b) /\ Len(<<x>> \o q) = Len(q) + 1
      BY <3>2, <3>3, ChainCons
    <3>5. Len(<<x>> \o q) = n - (m - 1)
      BY <1>0, <2>2, <3>2, <3>4
    <3> QED BY <3>3, <3>4, <3>5
  <2>8. ASSUME Rest(m - 1) PROVE Rest(m)
    <3>1. PICK c \in reached[m - 1] : \E q : Chain(q, usable, c, b) /\ Len(q) = n - (m - 1)
      BY <2>8
    <3>2. PICK q : Chain(q, usable, c, b) /\ Len(q) = n - (m - 1)
      BY <3>1
    <3>3. q # <<>>
      BY <1>0, <2>2, <3>2
    <3> DEFINE x == q[1]
               r == Tail(q)
    <3>4. x \in usable /\ x.from = c /\ Chain(r, usable, x.to, b) /\ Len(q) \in Nat /\ Len(r) = Len(q) - 1
      <4> HIDE DEF Rest, Bad
      <4>1. Chain(q, usable, c, b)
        BY <3>2
      <4> QED BY <4>1, <3>3, ChainTail
    <3> HIDE DEF x, r
    <3>5. x.to \in reached[m]
      BY <2>6, <3>1, <3>4
    <3>6. Len(r) = n - m
      BY <1>0, <2>2, <3>2, <3>4
    <3> QED BY <3>4, <3>5, <3>6
  <2> QED BY <2>2, <2>5, <2>7, <2>8
<1>3. Rest(n) <=> Rest(0)
  <2>1. n \notin Bad
    BY <1>2
  <2> HIDE DEF Rest
  <2> QED BY <1>0, <2>1
<1>4. Rest(0) <=> \E q : Chain(q, usable, a, b) /\ Len(q) = n
  BY <1>0, <1>1
<1>5. Rest(n) <=> b \in reached[n]
  <2>1. ASSUME b \in reached[n] PROVE Rest(n)
    <3>1. Chain(<<>>, usable, b, b) /\ Len(<<>>) = n - n
      BY <1>0 DEF Chain
    <3> QED BY <2>1, <3>1, Zenon
  <2>2. ASSUME Rest(n) PROVE b \in reached[n]
    <3>1. PICK c \in reached[n] : \E q : Chain(q, usable, c, b) /\ Len(q) = n - n
      BY <2>2
    <3>2. PICK q : Chain(q, usable, c, b) /\ Len(q) = n - n
      BY <3>1
    <3>3. q = <<>>
      BY <1>0, <3>2 DEF Chain
    <3>4. c = b
      BY <3>2, <3>3 DEF Chain
    <3> QED BY <3>1, <3>4
  <2> QED BY <2>1, <2>2
<1> QED BY <1>3, <1>4, <1>5 DEF reached

\* Every bin is one unit at least.
LEMMA ChainShort ==
    ASSUME NEW usable, NEW a, NEW b, Between(usable, a, b), NEW c \in Nat, c <= b, NEW p, Chain(p, usable, c, b)
    PROVE  Len(p) \in Nat /\ Len(p) <= b - c
<1> DEFINE Bad == {k \in Nat : \E q : \E d \in Nat : d <= b /\ Chain(q, usable, d, b) /\ Len(q) = k /\ ~(k <= b - d)}
<1>0. b \in Nat
  BY DEF Between
<1>1. ASSUME Bad # {} PROVE FALSE
  <2>1. PICK k \in Bad : \A y \in Bad : k <= y
    BY <1>1, LeastIn
  <2>2. k \in Nat /\ \E q : \E d \in Nat : d <= b /\ Chain(q, usable, d, b) /\ Len(q) = k /\ ~(k <= b - d)
    BY <2>1
  <2>3. PICK q, d : d \in Nat /\ d <= b /\ Chain(q, usable, d, b) /\ Len(q) = k /\ ~(k <= b - d)
    BY <2>2
  <2>4. q # <<>>
    <3>1. q = <<>> => Len(q) = 0 /\ d = b
      BY <2>3 DEF Chain
    <3> QED BY <1>0, <2>3, <3>1
  <2> DEFINE x == q[1]
             r == Tail(q)
  <2>5. x \in usable /\ x.from = d /\ Chain(r, usable, x.to, b) /\ Len(r) = Len(q) - 1 /\ Len(q) >= 1
    BY <2>3, <2>4, ChainTail
  <2> HIDE DEF x, r
  <2>6. x.to \in Nat /\ x.to <= b /\ d < x.to
    BY <2>5 DEF Between
  <2>7. k - 1 \in Nat /\ Len(r) = k - 1 /\ ~(k - 1 <= b - x.to)
    <3>1. k \in Nat /\ k >= 1 /\ Len(r) = k - 1
      BY <2>2, <2>3, <2>5
    <3>2. d \in Nat /\ ~(k <= b - d)
      BY <2>3
    <3>3. x.to \in Nat /\ d < x.to
      BY <2>6
    <3> QED BY <1>0, <3>1, <3>2, <3>3
  <2>8. k - 1 \in Bad
    <3>1. \E q2 : \E d2 \in Nat : d2 <= b /\ Chain(q2, usable, d2, b) /\ Len(q2) = k - 1 /\ ~(k - 1 <= b - d2)
      BY <2>5, <2>6, <2>7
    <3> QED BY <2>7, <3>1
  <2> HIDE DEF Bad
  <2> QED BY <2>1, <2>2, <2>7, <2>8
<1>2. Len(p) \in Nat
  BY DEF Chain
<1> QED BY <1>1, <1>2

\* The bins of the tiers that one output bin is packed with.
BinAtoms(a, b) ==
    LET path == Decompose(FixedAtoms(a, b), a, b)
    IN IF path = NoPath THEN {} ELSE {InCell(path[i]) : i \in DOMAIN path}

LEMMA FewestPacked ==
    ASSUME InputsInv, ~Target.calendar, NEW a \in Times, NEW b \in Times, a < b,
           NEW ways, ways = {n \in 1 .. b - a : b \in Reached(FixedAtoms(a, b), a, b - a)[n]}
    PROVE  Cardinality(BinAtoms(a, b)) = IF ways = {} THEN 0 ELSE Min(ways)
<1> DEFINE usable == FixedAtoms(a, b)
           path == Decompose(usable, a, b)
<1>1. Between(usable, a, b) /\ a <= b /\ a \in Nat /\ b \in Nat
  <2>1. Between(usable, a, b)
    BY FixedFacts
  <2> QED BY <2>1 DEF Between
<1>2. PICK f : path = f[a] /\ \A c \in a .. b : f[c] = IF c = b THEN <<>> ELSE Solve(f, usable, c)
  BY <1>1, PathIs
<1>3. /\ path = NoPath \/ Chain(path, usable, a, b)
      /\ \A q : Chain(q, usable, a, b) => path # NoPath /\ Len(path) <= Len(q)
  <2>1. a \in a .. b
    BY <1>1
  <2> HIDE DEF usable, path
  <2> QED BY <1>1, <1>2, <2>1, PathsShortest
<1>5. \A n \in 1 .. b - a : n \in ways <=> \E q : Chain(q, usable, a, b) /\ Len(q) = n
  <2> SUFFICES ASSUME NEW n \in 1 .. b - a
               PROVE  b \in Reached(usable, a, b - a)[n] <=> \E q : Chain(q, usable, a, b) /\ Len(q) = n
    OBVIOUS
  <2>1. n \in 0 .. b - a
    OBVIOUS
  <2> HIDE DEF usable
  <2> QED BY <1>1, <2>1, ReachedChains
<1>6. \A q : Chain(q, usable, a, b) => Len(q) \in 1 .. b - a
  <2> SUFFICES ASSUME NEW q, Chain(q, usable, a, b) PROVE Len(q) \in 1 .. b - a
    OBVIOUS
  <2> HIDE DEF usable
  <2>1. Len(q) \in Nat /\ Len(q) <= b - a
    BY <1>1, ChainShort
  <2>2. q # <<>>
    BY <1>1 DEF Chain
  <2>3. Len(q) # 0
    BY <2>2 DEF Chain
  <2> QED BY <1>1, <2>1, <2>3
<1>7. ways \subseteq Nat
  OBVIOUS
<1>8. CASE path = NoPath
  <2>1. ways = {}
    BY <1>3, <1>5, <1>8
  <2>2. BinAtoms(a, b) = {}
    BY <1>8 DEF BinAtoms
  <2> QED BY <2>1, <2>2, FS_EmptySet
<1>9. CASE path # NoPath
  <2> DEFINE n == Len(path)
             used == {InCell(path[i]) : i \in DOMAIN path}
             place == [i \in 1 .. n |-> InCell(path[i])]
  <2>1. Chain(path, usable, a, b)
    BY <1>3, <1>9
  <2>2. n \in 1 .. b - a /\ n \in Nat /\ n \in ways
    <3> HIDE DEF path, usable
    <3> QED BY <1>1, <1>5, <1>6, <2>1
  <2>3. \A m \in ways : n <= m
    <3> SUFFICES ASSUME NEW m \in ways PROVE n <= m
      OBVIOUS
    <3>1. PICK q : Chain(q, usable, a, b) /\ Len(q) = m
      BY <1>5
    <3> QED BY <1>3, <3>1
  <2>4. Min(ways) \in ways /\ Min(ways) <= n
    BY <1>7, <2>2, LeastIn
  <2>5. Min(ways) = n
    BY <1>7, <2>2, <2>3, <2>4
  <2>6. /\ DOMAIN path = 1 .. n
        /\ \A i \in 1 .. n : PackedAtom(path[i], a, b)
        /\ \A i, j \in 1 .. n : i = j \/ Apart(path[i], path[j])
    <3>1. path = Decompose(FixedAtoms(a, b), a, b)
      OBVIOUS
    <3> HIDE DEF path
    <3> QED BY <1>9, <3>1, FixedPacked
  <2>7. \A i, j \in 1 .. n : InCell(path[i]) = InCell(path[j]) => i = j
    <3> SUFFICES ASSUME NEW i \in 1 .. n, NEW j \in 1 .. n, InCell(path[i]) = InCell(path[j]), i # j PROVE FALSE
      OBVIOUS
    <3> HIDE DEF path, n
    <3>1. path[i].from = path[j].from /\ path[i].to = path[j].to
      BY DEF InCell
    <3>2. Apart(path[i], path[j])
      BY <2>6
    <3>3. path[i].from \in Times /\ path[i].to \in Times /\ path[i].from < path[i].to
      BY <2>6 DEF PackedAtom
    <3>4. path[i].from \in Nat /\ path[i].to \in Nat
      BY <3>3, TimesNat
    <3> QED BY <3>1, <3>2, <3>3, <3>4 DEF Apart
  <2>8. used = {InCell(path[i]) : i \in 1 .. n} /\ BinAtoms(a, b) = used
    BY <1>9, <2>6 DEF BinAtoms
  <2> HIDE DEF path, n, usable
  <2>9. place \in Surjection(1 .. n, used) /\ place \in Injection(1 .. n, used)
    <3>1. place \in [1 .. n -> used] /\ \A u \in used : \E i \in 1 .. n : place[i] = u
      BY <2>8
    <3>2. \A i, j \in 1 .. n : place[i] = place[j] => i = j
      BY <2>7
    <3> QED BY <3>1, <3>2 DEF Surjection, Injection, IsInjective
  <2>10. IsFiniteSet(1 .. n) /\ Cardinality(1 .. n) = n
    <3>1. 1 \in Int /\ n \in Int /\ ~(1 > n) /\ n - 1 + 1 = n
      BY <2>2
    <3> QED BY <3>1, FS_Interval
  <2>11. Cardinality(used) = n
    BY <2>9, <2>10, FS_Surjection
  <2> QED BY <2>2, <2>5, <2>8, <2>11
<1> QED BY <1>8, <1>9

\* Every output bin that the packing is past has its bins, the others none.
BinsPacked ==
    (Ragged /\ ~Target.calendar) =>
        /\ phase # "assemble" /\ (phase = "done" => cursor >= PlannedTo)
        /\ \A x \in atoms : x.to <= cursor
        /\ \A b \in OutGrid \ {Horizon} : (Floor(OutGrid, PlannedFrom) <= b /\ b < cursor) =>
              {x \in atoms : b <= x.from /\ x.to <= After(OutGrid, b)} = BinAtoms(b, After(OutGrid, b))

LEMMA PackedKept ==
    ASSUME UNCHANGED inputs
    PROVE  /\ (Ragged /\ ~Target.calendar)' <=> (Ragged /\ ~Target.calendar)
           /\ PlannedTo' = PlannedTo /\ PlannedFrom' = PlannedFrom /\ OutGrid' = OutGrid
           /\ \A a, b : BinAtoms(a, b)' = BinAtoms(a, b)
BY DEF inputs, PlannedTo, PlannedFrom, OutWidth, OutGrid, OutTier, Ragged, FromWm, Target, BinAtoms, FixedAtoms, Held

LEMMA PackedInit == Init => BinsPacked
<1> SUFFICES ASSUME Init, Ragged PROVE BinsPacked
  BY DEF BinsPacked
<1>1. InputsInv
  BY InitInputs
<1>2. IsGrid(OutGrid) /\ PlannedFrom \in Times
  BY <1>1, QueryFacts, GivenFacts DEF InputsInv
<1>3. cursor = Floor(OutGrid, PlannedFrom) /\ cursor \in OutGrid
  BY <1>2, FloorOf DEF Init
<1>4. \A b \in OutGrid : ~(cursor <= b /\ b < cursor)
  BY <1>2, <1>3, GridFacts
<1> QED BY <1>3, <1>4 DEF Init, BinsPacked

LEMMA PackedStep == TypeInv /\ BinsPacked /\ [Next]_vars => BinsPacked'
<1> SUFFICES ASSUME TypeInv, BinsPacked, [Next]_vars PROVE BinsPacked'
  OBVIOUS
<1>1. UNCHANGED inputs
  BY DEF Next, Emit, SkipGated, Stop, RefuseBins, PackFixed, PackCalendar, Assemble, Over, vars
<1> SUFFICES ASSUME Ragged, ~Target.calendar PROVE BinsPacked'
  BY <1>1, PackedKept DEF BinsPacked
<1>0. /\ InputsInv /\ cursor \in Times /\ cursor \in OutGrid /\ AtomsTyped /\ cursor \in Nat
      /\ IsGrid(OutGrid)
  BY TimesNat, QueryFacts DEF TypeInv, InputsInv
<1>2. /\ phase # "assemble" /\ (phase = "done" => cursor >= PlannedTo)
      /\ \A x \in atoms : x.to <= cursor
      /\ \A b \in OutGrid \ {Horizon} : (Floor(OutGrid, PlannedFrom) <= b /\ b < cursor) =>
            {x \in atoms : b <= x.from /\ x.to <= After(OutGrid, b)} = BinAtoms(b, After(OutGrid, b))
  BY DEF BinsPacked
\* The rest of the invariant, of what a step makes of the variables.
<1> DEFINE Rest ==
        /\ phase' # "assemble" /\ (phase' = "done" => cursor' >= PlannedTo)
        /\ \A x \in atoms' : x.to <= cursor'
        /\ \A b \in OutGrid \ {Horizon} : (Floor(OutGrid, PlannedFrom) <= b /\ b < cursor') =>
              {x \in atoms' : b <= x.from /\ x.to <= After(OutGrid, b)} = BinAtoms(b, After(OutGrid, b))
<1>3. ASSUME Rest PROVE BinsPacked'
  BY <1>1, <1>3, PackedKept DEF BinsPacked
<1>4. \A x \in atoms : x.from \in Nat /\ x.to \in Nat /\ x.from < x.to
  BY <1>0, AtomTimes
<1>5. CASE Emit \/ SkipGated \/ Stop \/ PackCalendar
  BY <1>5 DEF Emit, SkipGated, Stop, Walking, PackCalendar
<1>6. CASE RefuseBins
  <2>1. phase' = "refused" /\ atoms' = atoms /\ cursor' = cursor
    BY <1>6 DEF RefuseBins
  <2> QED BY <1>2, <1>3, <2>1
<1>7. CASE Assemble
  <2>1. /\ phase' \in {"done", "refused"} /\ atoms' = atoms /\ cursor' = cursor
        /\ cursor >= PlannedTo
    BY <1>2, <1>7 DEF Assemble
  <2> QED BY <1>2, <1>3, <2>1
<1>8. CASE UNCHANGED vars
  <2>1. phase' = phase /\ atoms' = atoms /\ cursor' = cursor
    BY <1>8 DEF vars
  <2> QED BY <1>2, <1>3, <2>1
<1>9. CASE PackFixed
  <2> DEFINE path == Decompose(FixedAtoms(cursor, BinEnd), cursor, BinEnd)
             new == BinAtoms(cursor, BinEnd)
  <2>1. phase = "walk" /\ cursor < PlannedTo
    BY <1>9 DEF PackFixed, Packing
  <2>2. /\ BinEnd \in OutGrid /\ cursor < BinEnd /\ BinEnd \in Times /\ BinEnd \in Nat
        /\ BinEnd = After(OutGrid, cursor)
    BY <1>0, <2>1, BinEndFacts DEF BinEnd
  <2>3. \/ phase' = "refused" /\ cursor' = cursor /\ atoms' = atoms
        \/ phase' = "walk" /\ cursor' = BinEnd /\ atoms' = atoms \cup new
    BY <1>9, <2>1 DEF PackFixed, BinAtoms
  <2>4. CASE phase' = "refused" /\ cursor' = cursor /\ atoms' = atoms
    BY <1>2, <1>3, <2>4
  <2>5. CASE phase' = "walk" /\ cursor' = BinEnd /\ atoms' = atoms \cup new
    <3>1. \A x \in new : x.from \in Nat /\ x.to \in Nat /\ cursor <= x.from /\ x.from < x.to /\ x.to <= BinEnd
      <4>1. ASSUME path # NoPath
            PROVE  \A i \in DOMAIN path : PackedAtom(path[i], cursor, BinEnd)
        <5>1. path = Decompose(FixedAtoms(cursor, BinEnd), cursor, BinEnd)
          OBVIOUS
        <5> HIDE DEF path
        <5> QED BY <1>0, <2>2, <4>1, <5>1, FixedPacked
      <4>2. \A p : PackedAtom(p, cursor, BinEnd) =>
                /\ InCell(p).from \in Nat /\ InCell(p).to \in Nat /\ cursor <= InCell(p).from
                /\ InCell(p).from < InCell(p).to /\ InCell(p).to <= BinEnd
        BY TimesNat DEF PackedAtom, InCell
      <4>3. \A x \in new : path # NoPath /\ \E i \in DOMAIN path : x = InCell(path[i])
        BY DEF BinAtoms
      <4> HIDE DEF path, new
      <4> QED BY <4>1, <4>2, <4>3
    <3> HIDE DEF new
    <3>2. \A x \in atoms' : x.to <= cursor'
      BY <1>0, <1>2, <1>4, <2>2, <2>5, <3>1
    <3>3. ASSUME NEW b \in OutGrid \ {Horizon}, Floor(OutGrid, PlannedFrom) <= b, b < cursor'
          PROVE  {x \in atoms' : b <= x.from /\ x.to <= After(OutGrid, b)} = BinAtoms(b, After(OutGrid, b))
      <4>1. b \in Times /\ b \in Nat /\ b < Horizon
        BY <1>0, <3>3, GridFacts, TimesNat
      <4>2. After(OutGrid, b) \in Nat /\ \A y \in OutGrid : y > b => After(OutGrid, b) <= y
        BY <1>0, <4>1, AfterOf, GridFacts
      <4>3. CASE b < cursor
        <5>1. After(OutGrid, b) <= cursor
          BY <1>0, <4>2, <4>3
        <5>2. \A x \in new : ~(x.to <= After(OutGrid, b))
          BY <1>0, <3>1, <4>2, <5>1
        <5>3. {x \in atoms' : b <= x.from /\ x.to <= After(OutGrid, b)}
                = {x \in atoms : b <= x.from /\ x.to <= After(OutGrid, b)}
          BY <2>5, <5>2
        <5> QED BY <1>2, <3>3, <4>3, <5>3
      <4>4. CASE b = cursor
        <5>1. \A x \in atoms : ~(cursor <= x.from)
          BY <1>0, <1>2, <1>4
        <5>2. {x \in atoms' : b <= x.from /\ x.to <= After(OutGrid, b)} = new
          BY <2>2, <2>5, <3>1, <4>4, <5>1
        <5>3. BinAtoms(b, After(OutGrid, b)) = new
          BY <2>2, <4>4, Zenon DEF new
        <5> QED BY <5>2, <5>3
      <4>5. CASE cursor < b
        <5>1. BinEnd <= b
          <6>1. cursor < Horizon /\ Horizon \in Nat
            BY <1>0, <4>1, <4>5, TimesNat
          <6>2. \A y \in OutGrid : y > cursor => After(OutGrid, cursor) <= y
            BY <1>0, <6>1, AfterOf
          <6> QED BY <1>0, <2>2, <4>1, <4>5, <6>2
        <5> QED BY <2>2, <2>5, <3>3, <4>1, <5>1
      <4> QED BY <1>0, <4>1, <4>3, <4>4, <4>5
    <3> QED BY <1>3, <2>5, <3>2, <3>3
  <2> QED BY <2>3, <2>4, <2>5
<1> QED BY <1>5, <1>6, <1>7, <1>8, <1>9 DEF Next, Over

(* An output bin of a fixed width that no tier has is packed with as few bins *)
(* of the tiers as the usable tiers allow, and left out only when they do not *)
(* add up: for every ladder, nested or not, every target, and watermarks or   *)
(* registered shards (decomposeBin, planRagged, planRaggedFromInventory).     *)
THEOREM RaggedMinimalHolds == Spec => []RaggedMinimal
<1>1. TypeInv /\ BinsPacked => RaggedMinimal
  <2> SUFFICES ASSUME TypeInv, BinsPacked, phase = "done", Ragged, ~Target.calendar,
                      NEW b \in OutGrid \ {Horizon}, PlannedFrom < After(OutGrid, b), b < PlannedTo,
                      NEW ways, ways = {n \in 1 .. After(OutGrid, b) - b :
                                           After(OutGrid, b) \in Reached(FixedAtoms(b, After(OutGrid, b)), b,
                                                                         After(OutGrid, b) - b)[n]}
               PROVE  Cardinality({x \in atoms : b <= x.from /\ x.to <= After(OutGrid, b)})
                        = IF ways = {} THEN 0 ELSE Min(ways)
    BY DEF RaggedMinimal
  <2>1. InputsInv /\ IsGrid(OutGrid) /\ PlannedFrom \in Times /\ PlannedTo \in Nat /\ PlannedFrom \in Nat
    BY GivenFacts, QueryFacts, TimesNat DEF TypeInv, InputsInv
  <2>2. b \in Times /\ b \in Nat /\ b < Horizon
    BY <2>1, GridFacts, TimesNat
  <2>3. /\ After(OutGrid, b) \in Times /\ After(OutGrid, b) \in Nat /\ b < After(OutGrid, b)
        /\ \A y \in OutGrid : y > b => After(OutGrid, b) <= y
    BY <2>1, <2>2, AfterOf, GridFacts
  <2>4. Floor(OutGrid, PlannedFrom) <= b
    <3>1. Floor(OutGrid, PlannedFrom) \in OutGrid /\ Floor(OutGrid, PlannedFrom) <= PlannedFrom
      BY <2>1, FloorOf
    <3>2. Floor(OutGrid, PlannedFrom) \in Nat
      BY <2>1, <3>1, GridFacts
    <3> QED BY <2>1, <2>2, <2>3, <3>1, <3>2
  <2>5. b < cursor
    BY <2>1, <2>2, TimesNat DEF BinsPacked, TypeInv
  <2>6. {x \in atoms : b <= x.from /\ x.to <= After(OutGrid, b)} = BinAtoms(b, After(OutGrid, b))
    BY <2>4, <2>5 DEF BinsPacked
  <2>7. Cardinality(BinAtoms(b, After(OutGrid, b))) = IF ways = {} THEN 0 ELSE Min(ways)
    BY <2>1, <2>2, <2>3, FewestPacked
  <2> QED BY <2>6, <2>7
<1> QED BY <1>1, TypesAlways, PackedInit, PackedStep, PTL DEF Spec


-----------------------------------------------------------------------------
(* What the answer holds.  The inputs are among those that the constants      *)
(* allow; where the walk stands and where the planning ends; where the rows   *)
(* of an atom come from; and what has been planned so far.                    *)

ChosenInv ==
    /\ <<query.target, query.budget>> \in Asked
    /\ FromWm => declared \in Declared
    /\ \E g \in Gates : early = g[1] /\ gate = g[2]
    /\ FromWm \/ \E i \in Inventories : inventory \subseteq i

\* The walk begins a source on a boundary of its bins, but for the first one.
StartInv ==
    ~Ragged =>
        /\ PlannedFrom <= cursor
        /\ (cursor < PlannedTo /\ Sources(cursor) # {}) =>
              cursor = PlannedFrom \/ cursor \in Grid[TierOf(Best(Sources(cursor)).cell)]

\* The plan is made when the range is through, or when a walk finds nothing.
EndInv ==
    phase \in {"assemble", "done"} =>
        cursor >= PlannedTo \/ (~Ragged /\ Sources(cursor) = {})

\* The sources of an atom are complete to its end, and hold it in one piece.
Backed(x) ==
    /\ FromWm => x.to <= sealed[x.cell]
    /\ FromWm /\ Ragged => x.to <= largest[TierOf(x.cell)]
    /\ ~FromWm /\ ~Ragged =>
          /\ TierOf(x.cell) <= OutTier
          /\ <<x.cell, Floor(Edges(x.cell), x.from)>> \in inventory
          /\ x.to <= After(Edges(x.cell), x.from)
    /\ ~FromWm /\ Ragged =>
          /\ x.to \in Grid[TierOf(x.cell)]
          /\ TierOf(x.cell) \in Packers \/ x.to <= largest[TierOf(x.cell)]
          /\ \E s \in inventory : TierOf(CellOf(s)) = TierOf(x.cell) /\ StartOf(s) <= x.from /\ x.to <= EndOf(s)

\* The row that holds unit u of output bin b begins in the atom.
Gives(x, b, u) ==
    b <= Floor(Grid[TierOf(x.cell)], u) /\ x.from <= Floor(Grid[TierOf(x.cell)], u) /\ u < x.to

\* What the planning is past and could give is in an atom.
FillInv ==
    \A b \in Visible : \A u \in b .. After(OutGrid, b) - 1 :
        (Suffices(b, u) /\ IF Ragged THEN b < cursor ELSE u < cursor) => \E x \in atoms : Gives(x, b, u)

AnswerInv == ChosenInv /\ StartInv /\ EndInv /\ (\A x \in atoms : Backed(x)) /\ FillInv

-----------------------------------------------------------------------------
(* Watermarks that are boundaries of their tier's bins. *)

LEMMA WithinIn ==
    ASSUME NEW d \in [Cells -> 0 .. Far], NEW c \in Cells
    PROVE  \E x \in Cells : TierOf(x) = TierOf(c) /\ Within(d, c) = d[x]
<1> DEFINE S == {d[x] : x \in {x \in Cells : TierOf(x) = TierOf(c) /\ x[2] <= c[2]}}
<1>1. S \subseteq Nat
  BY TimesNat
<1>2. d[c] \in S
  BY CellFacts
<1>3. Min(S) \in S
  BY <1>1, <1>2, LeastIn
<1> QED BY <1>3 DEF Within

LEMMA NextBoundIn ==
    ASSUME NEW d \in [Cells -> 0 .. Far], NEW t \in Tiers, NEW finer \in 0 .. Far
    PROVE  \E c \in Cells : TierOf(c) = t /\ NextBound(d, t, finer) \in {Within(d, c), finer}
<1> DEFINE S == {Min({Within(d, c), finer}) : c \in {c \in Cells : TierOf(c) = t}}
<1>1. \A c \in Cells : /\ Min({Within(d, c), finer}) \in {Within(d, c), finer}
                       /\ Min({Within(d, c), finer}) \in 0 .. Far
  <2> SUFFICES ASSUME NEW c \in Cells
               PROVE  /\ Min({Within(d, c), finer}) \in {Within(d, c), finer}
                      /\ Min({Within(d, c), finer}) \in 0 .. Far
    OBVIOUS
  <2>1. Within(d, c) \in 0 .. Far /\ {Within(d, c), finer} \subseteq Nat
    BY WithinType, TimesNat
  <2> QED BY <2>1, LeastIn
<1>2. S \subseteq 0 .. Far /\ S # {}
  <2>1. LargestCell(t) \in Cells /\ TierOf(LargestCell(t)) = t
    BY TierFacts
  <2>2. Min({Within(d, LargestCell(t)), finer}) \in S
    BY <2>1
  <2> QED BY <1>1, <2>2
<1>3. Max(S) \in S
  BY <1>2, GreatestIn, TimesNat
<1> QED BY <1>1, <1>3 DEF NextBound

\* A coarser tier is complete no further than a finer one.
LEMMA BoundsFall ==
    ASSUME NEW d \in [Cells -> 0 .. Far], NEW m \in 0 .. Len(Grid), NEW n \in 0 .. Len(Grid), m <= n
    PROVE  TierBound(d)[n] <= TierBound(d)[m]
<1> DEFINE Bad == {k \in 0 .. Len(Grid) : m <= k /\ ~(TierBound(d)[k] <= TierBound(d)[m])}
<1>1. Len(Grid) \in Nat /\ Tiers = 1 .. Len(Grid)
  BY LadderAssumption
<1>2. \A k \in 0 .. Len(Grid) : TierBound(d)[k] \in Nat
  BY BoundType, TimesNat
<1>3. ASSUME Bad # {} PROVE FALSE
  <2>1. Bad \subseteq Nat
    BY <1>1
  <2>2. PICK k \in Bad : \A y \in Bad : k <= y
    BY <1>3, <2>1, LeastIn
  <2>3. k # m
    BY <1>2, <2>2
  <2>4. k \in Tiers /\ k - 1 \in 0 .. Len(Grid) /\ m <= k - 1 /\ k - 1 \notin Bad
    BY <1>1, <2>2, <2>3
  <2>5. TierBound(d)[k - 1] <= TierBound(d)[m]
    BY <2>4
  <2>6. TierBound(d)[k] <= TierBound(d)[k - 1]
    BY <2>4, BoundIs, BoundType, NextBoundType
  <2>7. TierBound(d)[k] \in Nat /\ TierBound(d)[k - 1] \in Nat /\ TierBound(d)[m] \in Nat
    BY <1>2, <2>2, <2>4
  <2>8. TierBound(d)[k] <= TierBound(d)[m]
    BY <2>5, <2>6, <2>7
  <2> QED BY <2>2, <2>8
<1> QED BY <1>3

\* The watermarks of cells that stop at a boundary of their tier.
OnBins(d) == \A c \in Cells : d[c] \in Grid[TierOf(c)] \cup {Far}

\* Where a tier stops and a finer one goes on, the finer one has a boundary.
LEMMA BoundMeets ==
    ASSUME NestedTiers, NEW d \in [Cells -> 0 .. Far], OnBins(d),
           NEW n \in Tiers, NEW t \in Tiers, t <= n, TierBound(d)[n] < TierBound(d)[t - 1]
    PROVE  TierBound(d)[n] \in Grid[t]
<1> DEFINE Bad == {k \in Tiers : t <= k /\ TierBound(d)[k] < TierBound(d)[t - 1] /\ TierBound(d)[k] \notin Grid[t]}
<1>1. Len(Grid) \in Nat /\ Tiers = 1 .. Len(Grid)
  BY LadderAssumption
<1>2. ASSUME Bad # {} PROVE FALSE
  <2>1. Bad \subseteq Nat
    BY <1>1
  <2>2. PICK k \in Bad : \A y \in Bad : k <= y
    BY <1>2, <2>1, LeastIn
  <2>3. /\ k \in Tiers /\ k - 1 \in 0 .. Len(Grid) /\ t - 1 \in 0 .. Len(Grid) /\ k \in 0 .. Len(Grid)
        /\ t <= k /\ k \in Nat /\ t \in Nat
        /\ TierBound(d)[k] < TierBound(d)[t - 1] /\ TierBound(d)[k] \notin Grid[t]
    BY <1>1, <2>2
  <2>4. /\ TierBound(d)[k - 1] \in 0 .. Far /\ TierBound(d)[t - 1] \in 0 .. Far
        /\ TierBound(d)[k] = NextBound(d, k, TierBound(d)[k - 1])
    BY <2>3, BoundType, BoundIs
  <2> DEFINE finer == TierBound(d)[k - 1]
  <2>5. PICK c \in Cells : TierOf(c) = k /\ TierBound(d)[k] \in {Within(d, c), finer}
    <3> HIDE DEF finer
    <3>1. finer \in 0 .. Far /\ TierBound(d)[k] = NextBound(d, k, finer)
      BY <2>4 DEF finer
    <3>2. \E c \in Cells : TierOf(c) = k /\ NextBound(d, k, finer) \in {Within(d, c), finer}
      BY <2>3, <3>1, NextBoundIn
    <3> QED BY <3>1, <3>2
  <2>6. CASE TierBound(d)[k] = TierBound(d)[k - 1]
    <3>1. t # k
      BY <2>3, <2>4, <2>6, TimesNat
    <3>2. k - 1 \in Tiers /\ t <= k - 1
      BY <1>1, <2>3, <3>1
    <3> QED BY <2>2, <2>3, <2>6, <3>2
  <2>7. CASE TierBound(d)[k] = Within(d, c)
    <3>1. PICK x \in Cells : TierOf(x) = k /\ TierBound(d)[k] = d[x]
      BY <2>5, <2>7, WithinIn
    <3>2. d[x] # Far
      BY <2>3, <2>4, <3>1, TimesNat
    <3>3. TierBound(d)[k] \in Grid[k]
      BY <3>1, <3>2 DEF OnBins
    <3> QED BY <2>3, <3>3, NestedGrid
  <2> QED BY <2>5, <2>6, <2>7
<1> QED BY <1>2

\* Where a source of the walk stops and one of its tier or of a finer one goes on.
LEMMA SealedMeets ==
    ASSUME NestedTiers, NEW d \in [Cells -> 0 .. Far], OnBins(d), NEW c \in Cells, NEW o \in Cells,
           TierOf(o) <= TierOf(c), Effective(d, c) < Effective(d, o)
    PROVE  Effective(d, c) \in Grid[TierOf(o)]
<1> DEFINE n == TierOf(c)
           t == TierOf(o)
<1>1. /\ Len(Grid) \in Nat /\ Tiers = 1 .. Len(Grid) /\ n \in Tiers /\ t \in Tiers /\ n \in Nat /\ t \in Nat
      /\ n - 1 \in 0 .. Len(Grid) /\ t - 1 \in 0 .. Len(Grid)
  BY LadderAssumption, CellFacts
<1>2. /\ Effective(d, c) \in 0 .. Far /\ Effective(d, o) \in 0 .. Far
      /\ Effective(d, c) \in {Within(d, c), TierBound(d)[n - 1]}
      /\ Effective(d, o) <= TierBound(d)[t - 1] /\ TierBound(d)[t - 1] \in 0 .. Far
      /\ TierBound(d)[0] = Far
  BY <1>1, EffectiveType, BoundType, BoundIs
<1>3. Effective(d, c) < Far /\ Effective(d, c) < TierBound(d)[t - 1]
  BY <1>2, TimesNat
<1>4. CASE Effective(d, c) = Within(d, c)
  <2>1. PICK x \in Cells : TierOf(x) = n /\ Effective(d, c) = d[x]
    BY <1>4, WithinIn
  <2>2. Effective(d, c) # Far
    BY <1>2, <1>3, TimesNat
  <2>3. Effective(d, c) \in Grid[n]
    BY <2>1, <2>2 DEF OnBins
  <2> QED BY <1>1, <2>3, NestedGrid
<1>5. CASE Effective(d, c) = TierBound(d)[n - 1]
  <2>1. n # t
    BY <1>2, <1>3, <1>5, TimesNat
  <2>2. n - 1 \in Tiers /\ t <= n - 1
    BY <1>1, <2>1
  <2> QED BY <1>1, <1>3, <1>5, <2>2, BoundMeets
<1> QED BY <1>2, <1>4, <1>5

\* The least watermark of a tier and the finer ones, and what it bounds.
LEMMA LargestIn ==
    ASSUME NEW d \in [Cells -> 0 .. Far], NEW t \in Tiers, NEW upto \in Times
    PROVE  Largest(d, t, upto) = upto \/ \E c \in Cells : TierOf(c) <= t /\ Largest(d, t, upto) = d[c]
<1> DEFINE S == {upto} \cup {d[c] : c \in {c \in Cells : TierOf(c) <= t}}
<1>1. S \subseteq Nat /\ S # {}
  BY TimesNat
<1>2. Min(S) \in S
  BY <1>1, LeastIn
<1> QED BY <1>2 DEF Largest

LEMMA LargestFalls ==
    ASSUME NEW d \in [Cells -> 0 .. Far], NEW s \in Tiers, NEW t \in Tiers, s <= t, NEW upto \in Times
    PROVE  Largest(d, t, upto) <= Largest(d, s, upto)
<1>1. /\ Largest(d, t, upto) <= upto /\ \A c \in Cells : TierOf(c) <= t => Largest(d, t, upto) <= d[c]
  BY LargestType
<1>2. CASE Largest(d, s, upto) = upto
  BY <1>1, <1>2
<1>3. ASSUME NEW c \in Cells, TierOf(c) <= s, Largest(d, s, upto) = d[c]
      PROVE  Largest(d, t, upto) <= Largest(d, s, upto)
  <2>1. TierOf(c) \in Nat /\ s \in Nat /\ t \in Nat
    BY CellFacts, TierFacts
  <2> QED BY <1>1, <1>3, <2>1
<1> QED BY <1>2, <1>3, LargestIn

LEMMA LargestMeets ==
    ASSUME NestedTiers, NEW d \in [Cells -> 0 .. Far], OnBins(d), NEW t \in Tiers, NEW upto \in Times
    PROVE  Largest(d, t, upto) = upto \/ Largest(d, t, upto) \in Grid[1]
<1> SUFFICES ASSUME NEW c \in Cells, Largest(d, t, upto) = d[c]
             PROVE  Largest(d, t, upto) \in Grid[1]
  BY LargestIn
<1>1. Largest(d, t, upto) # Far
  BY LargestType, TimesNat
<1>2. d[c] \in Grid[TierOf(c)] /\ TierOf(c) \in Tiers
  BY <1>1, CellFacts DEF OnBins
<1>3. 1 \in Tiers /\ 1 <= TierOf(c)
  BY <1>2, TierFacts, LadderAssumption
<1> QED BY <1>2, <1>3, NestedGrid

LEMMA LargestSealed ==
    ASSUME NEW d \in [Cells -> 0 .. Far], NEW t \in Tiers, NEW upto \in Times, NEW c \in Cells, TierOf(c) = t
    PROVE  Largest(d, t, upto) <= Effective(d, c)
<1> DEFINE lg == Largest(d, t, upto)
           Bad == {k \in 0 .. t : ~(lg <= TierBound(d)[k])}
<1>1. /\ Len(Grid) \in Nat /\ Tiers = 1 .. Len(Grid) /\ t \in Nat
      /\ lg \in Nat /\ lg <= Horizon /\ \A x \in Cells : TierOf(x) <= t => lg <= d[x]
  <2>1. lg \in Times /\ \A x \in Cells : TierOf(x) <= t => lg <= d[x]
    BY LargestType
  <2> HIDE DEF lg
  <2>2. lg \in Nat /\ lg <= Horizon
    BY <2>1, TimesNat
  <2>3. Len(Grid) \in Nat /\ Tiers = 1 .. Len(Grid) /\ t \in Nat
    BY LadderAssumption
  <2> QED BY <2>1, <2>2, <2>3
<1> HIDE DEF lg
<1>2. ASSUME NEW x \in Cells, TierOf(x) <= t PROVE lg <= Within(d, x)
  <2>1. PICK y \in Cells : TierOf(y) = TierOf(x) /\ Within(d, x) = d[y]
    BY WithinIn
  <2> QED BY <1>1, <1>2, <2>1
<1>3. ASSUME Bad # {} PROVE FALSE
  <2>1. Bad \subseteq Nat
    BY <1>1
  <2>2. PICK k \in Bad : \A y \in Bad : k <= y
    BY <1>3, <2>1, LeastIn
  <2>3. k # 0
    BY <1>1, <2>2, BoundIs, TimesNat
  <2>4. k \in Tiers /\ k \in Nat /\ k <= t /\ k - 1 \in 0 .. Len(Grid) /\ k - 1 \in 0 .. t
    BY <1>1, <2>2, <2>3
  <2> DEFINE finer == TierBound(d)[k - 1]
  <2>5. lg <= finer
    BY <2>1, <2>2, <2>4
  <2>6. finer \in 0 .. Far /\ TierBound(d)[k] = NextBound(d, k, finer)
    BY <2>4, BoundType, BoundIs
  <2> HIDE DEF finer
  <2>7. PICK x \in Cells : TierOf(x) = k /\ NextBound(d, k, finer) \in {Within(d, x), finer}
    BY <2>4, <2>6, NextBoundIn
  <2>8. lg <= TierBound(d)[k]
    BY <1>2, <2>4, <2>5, <2>6, <2>7
  <2> QED BY <2>2, <2>8
<1>4. lg <= TierBound(d)[t - 1]
  <2>1. t - 1 \in 0 .. t
    BY <1>1
  <2> QED BY <1>3, <2>1
<1>5. lg <= Within(d, c)
  BY <1>1, <1>2
<1> QED BY <1>4, <1>5, EffectiveType DEF lg

LEMMA EarliestGrows ==
    ASSUME NEW e \in [Tiers -> Times], NEW s \in Tiers, NEW t \in Tiers, s <= t
    PROVE  Earliest(e, s) <= Earliest(e, t)
<1> DEFINE S(x) == {e[y] : y \in 1 .. x}
<1>1. /\ s \in Nat /\ t \in Nat /\ 1 .. t \subseteq Tiers /\ s \in 1 .. s /\ t \in 1 .. t /\ 1 .. s \subseteq 1 .. t
  BY TierFacts, LadderAssumption
<1>2. S(s) \subseteq S(t) /\ S(t) \subseteq Times /\ S(s) # {} /\ S(t) # {}
  BY <1>1
<1>3. S(s) \subseteq 0 .. Horizon /\ S(t) \subseteq 0 .. Horizon /\ Horizon \in Nat
  BY <1>2, TimesNat DEF Times
<1>4. Max(S(s)) \in S(s) /\ \A y \in S(t) : y <= Max(S(t))
  BY <1>2, <1>3, GreatestIn
<1> QED BY <1>2, <1>4 DEF Earliest

LEMMA EarliestFinest ==
    ASSUME NEW e \in [Tiers -> Times]
    PROVE  1 \in Tiers /\ Earliest(e, 1) = e[1]
<1>1. 1 \in Tiers
  BY LadderAssumption
<1>2. {e[y] : y \in 1 .. 1} = {e[1]}
  OBVIOUS
<1>3. e[1] \in Nat /\ {e[1]} \subseteq 0 .. Horizon /\ Horizon \in Nat
  BY <1>1, TimesNat DEF Times
<1> DEFINE S == {e[1]}
<1>4. S \subseteq 0 .. Horizon /\ S # {}
  BY <1>3
<1> HIDE DEF S
<1>5. Max(S) \in S
  BY <1>3, <1>4, GreatestIn
<1>6. Max({e[1]}) = e[1]
  BY <1>5 DEF S
<1> QED BY <1>1, <1>2, <1>6 DEF Earliest


-----------------------------------------------------------------------------
(* Where the walk stands. *)

\* What a source is: a cell that is complete and open, or a registered shard.
LEMMA SourceOf ==
    ASSUME InputsInv, NEW x, NEW s \in Sources(x)
    PROVE  /\ FromWm => /\ s.cell \in Cells /\ TierOf(s.cell) <= OutTier /\ sealed[s.cell] > x
                        /\ gate[s.cell] <= Floor(Edges(s.cell), x)
                        /\ s.upto = Min({sealed[s.cell], After(Edges(s.cell), x)})
           /\ ~FromWm => \E o \in inventory :
                            /\ CellOf(o) = s.cell /\ EndOf(o) = s.upto /\ TierOf(s.cell) <= OutTier
                            /\ StartOf(o) <= x /\ x < EndOf(o) /\ gate[s.cell] <= StartOf(o)
<1> DEFINE Open == {c \in Cells : /\ FromWm /\ TierOf(c) <= OutTier
                                    /\ sealed[c] > x /\ gate[c] <= Floor(Edges(c), x)}
           Covers == {o \in inventory : /\ TierOf(CellOf(o)) <= OutTier
                                         /\ StartOf(o) <= x /\ x < EndOf(o) /\ gate[CellOf(o)] <= StartOf(o)}
<1>1. FromWm => inventory = {}
  BY DEF InputsInv, GivenInv
<1>2. \/ \E c \in Open : s = [cell |-> c, upto |-> Min({sealed[c], After(Edges(c), x)})]
      \/ \E o \in Covers : s = [cell |-> CellOf(o), upto |-> EndOf(o)]
  BY DEF Sources
<1>3. ASSUME NEW c \in Open, s = [cell |-> c, upto |-> Min({sealed[c], After(Edges(c), x)})]
      PROVE  /\ FromWm /\ s.cell \in Cells /\ TierOf(s.cell) <= OutTier /\ sealed[s.cell] > x
             /\ gate[s.cell] <= Floor(Edges(s.cell), x)
             /\ s.upto = Min({sealed[s.cell], After(Edges(s.cell), x)})
  <2>1. s.cell = c /\ s.upto = Min({sealed[c], After(Edges(c), x)})
    BY <1>3
  <2> QED BY <2>1
<1>4. ASSUME NEW o \in Covers, s = [cell |-> CellOf(o), upto |-> EndOf(o)]
      PROVE  /\ ~FromWm
             /\ \E r \in inventory :
                   /\ CellOf(r) = s.cell /\ EndOf(r) = s.upto /\ TierOf(s.cell) <= OutTier
                   /\ StartOf(r) <= x /\ x < EndOf(r) /\ gate[s.cell] <= StartOf(r)
  <2>1. s.cell = CellOf(o) /\ s.upto = EndOf(o)
    BY <1>4
  <2> QED BY <1>1, <2>1
<1> HIDE DEF Open, Covers
<1> QED BY <1>2, <1>3, <1>4

LEMMA MarkNat == \A x \in 0 .. Far : x \in Nat
BY TimesNat

LEMMA PrefersTier ==
    ASSUME NEW c \in Cells, NEW d \in Cells, Prefers(c, d)
    PROVE  TierOf(d) <= TierOf(c)
<1>1. TierOf(c) \in Nat /\ TierOf(d) \in Nat
  BY CellFacts, TierFacts
<1> QED BY <1>1 DEF Prefers

\* The preferred source is preferred to whatever else could be read.
LEMMA BestOf ==
    ASSUME InputsInv, NEW x \in Times, x < Horizon, Sources(x) # {}, NEW c, NEW s, s = Best(Sources(x)),
           \/ /\ FromWm /\ c \in Cells /\ TierOf(c) <= OutTier /\ sealed[c] > x
              /\ gate[c] <= Floor(Edges(c), x)
           \/ \E o \in inventory : /\ CellOf(o) = c /\ TierOf(c) <= OutTier
                                   /\ StartOf(o) <= x /\ x < EndOf(o) /\ gate[c] <= StartOf(o)
    PROVE  TierOf(c) <= TierOf(s.cell)
<1>1. \E o \in Sources(x) : o.cell = c
  <2>1. CASE /\ FromWm /\ c \in Cells /\ TierOf(c) <= OutTier /\ sealed[c] > x
             /\ gate[c] <= Floor(Edges(c), x)
    <3> DEFINE p == [cell |-> c, upto |-> Min({sealed[c], After(Edges(c), x)})]
    <3>1. p \in Sources(x) /\ p.cell = c
      BY <2>1 DEF Sources
    <3> HIDE DEF p
    <3> QED BY <3>1
  <2>2. ASSUME NEW o \in inventory, CellOf(o) = c, TierOf(c) <= OutTier, StartOf(o) <= x, x < EndOf(o),
               gate[c] <= StartOf(o)
        PROVE  \E p \in Sources(x) : p.cell = c
    <3> DEFINE p == [cell |-> CellOf(o), upto |-> EndOf(o)]
    <3>1. p \in Sources(x)
      BY <2>2 DEF Sources
    <3> QED BY <2>2, <3>1
  <2> QED BY <2>1, <2>2
<1>2. PICK o \in Sources(x) : o.cell = c
  BY <1>1
<1>3. Prefers(s.cell, c) /\ s \in Sources(x)
  BY <1>2, BestIn
<1>4. s.cell \in Cells /\ c \in Cells
  BY <1>2, <1>3, SourceFacts
<1> QED BY <1>3, <1>4, PrefersTier

\* The walk goes on at a boundary of the next source's bins.
LEMMA WalkMeets ==
    ASSUME InputsInv, ChosenInv, NestedTiers, Aligned, GatesNest, ShardsMeet,
           NEW x \in Times, x < Horizon, Sources(x) # {}, NEW s, s = Best(Sources(x)),
           s.upto < Horizon, Sources(s.upto) # {}, NEW n, n = Best(Sources(s.upto))
    PROVE  s.upto \in Grid[TierOf(n.cell)]
<1> DEFINE y == s.upto
           c == s.cell
           d == n.cell
<1>1. s \in Sources(x) /\ y \in Times /\ x < y /\ c \in Cells
  BY BestIn, SourceFacts
<1>2. n \in Sources(y) /\ d \in Cells
  BY <1>1, BestIn, SourceFacts
<1>3. x \in Nat /\ y \in Nat
  BY <1>1, TimesNat
<1>4. /\ IsGrid(Edges(c)) /\ IsGrid(Edges(d)) /\ TierOf(c) \in Tiers /\ TierOf(d) \in Tiers
      /\ Edges(c) \subseteq Grid[TierOf(c)] /\ Edges(d) \subseteq Grid[TierOf(d)]
      /\ TierOf(c) \in Nat /\ TierOf(d) \in Nat
  BY <1>1, <1>2, CellFacts, TierFacts
<1>5. ASSUME y \in Edges(c), TierOf(d) <= TierOf(c) PROVE y \in Grid[TierOf(d)]
  BY <1>4, <1>5, NestedGrid
<1>6. CASE FromWm
  <2>1. /\ sealed[c] > x /\ gate[c] <= Floor(Edges(c), x) /\ y = Min({sealed[c], After(Edges(c), x)})
        /\ TierOf(d) <= OutTier /\ sealed[d] > y /\ gate[d] <= Floor(Edges(d), y)
    BY <1>1, <1>2, <1>6, SourceOf
  <2>2. y \in {sealed[c], After(Edges(c), x)} /\ y <= After(Edges(c), x)
    BY <1>1, <1>6, SourceFacts
  <2>3. /\ Floor(Edges(c), x) \in Edges(c) /\ Floor(Edges(c), x) <= x /\ Floor(Edges(c), x) \in Nat
        /\ After(Edges(c), x) \in Edges(c) /\ After(Edges(c), x) \in Nat
        /\ \A b \in Edges(c) : b > x => After(Edges(c), x) <= b
    <3>1. Floor(Edges(c), x) \in Edges(c) /\ Floor(Edges(c), x) <= x
      BY <1>4, FloorOf
    <3>2. /\ After(Edges(c), x) \in Edges(c)
          /\ \A b \in Edges(c) : b > x => After(Edges(c), x) <= b
      BY <1>4, AfterOf
    <3> QED BY <1>4, <3>1, <3>2, GridFacts
  <2>4. /\ Floor(Edges(d), x) \in Edges(d) /\ Floor(Edges(d), x) <= x /\ Floor(Edges(d), x) \in Nat
        /\ \A b \in Edges(d) : b <= x => b <= Floor(Edges(d), x)
    <3>1. /\ Floor(Edges(d), x) \in Edges(d) /\ Floor(Edges(d), x) <= x
          /\ \A b \in Edges(d) : b <= x => b <= Floor(Edges(d), x)
      BY <1>4, FloorOf
    <3> QED BY <1>4, <3>1, GridFacts
  <2>5. Floor(Edges(d), y) \in Edges(d) /\ Floor(Edges(d), y) <= y /\ Floor(Edges(d), y) \in Nat
    BY <1>1, <1>4, FloorOf, GridFacts
  <2>6. /\ sealed = [e \in Cells |-> Effective(declared, e)]
        /\ declared \in [Cells -> 0 .. Far] /\ gate \in [Cells -> Times]
    BY DEF InputsInv, GivenInv
  <2>7. sealed[d] \in Nat /\ gate[c] \in Nat /\ gate[d] \in Nat
    <3>1. sealed[d] \in 0 .. Far /\ gate[c] \in Times /\ gate[d] \in Times
      BY <1>1, <1>2, <2>6, GivenFacts
    <3>2. sealed[d] \in Nat
      BY <3>1, MarkNat
    <3>3. gate[c] \in Nat /\ gate[d] \in Nat
      BY <3>1, TimesNat
    <3> QED BY <3>2, <3>3
  <2>8. ASSUME gate[d] <= Floor(Edges(d), x) PROVE y \in Grid[TierOf(d)]
    <3>1. sealed[d] > x
      BY <1>1, <1>3, <2>1, <2>7
    <3>2. TierOf(d) <= TierOf(c)
      BY <1>2, <1>6, <2>1, <2>8, <3>1, BestOf
    <3>3. CASE y = After(Edges(c), x)
      BY <1>5, <2>3, <3>2, <3>3
    <3>4. CASE y = sealed[c]
      <4>1. OnBins(declared)
        BY <1>6 DEF ChosenInv, Aligned, OnBins
      <4>2. Effective(declared, c) = y /\ Effective(declared, c) < Effective(declared, d)
        BY <1>1, <1>2, <2>1, <2>6, <3>4
      <4>3. Effective(declared, c) \in Grid[TierOf(d)]
        BY <1>1, <1>2, <2>6, <3>2, <4>1, <4>2, SealedMeets
      <4> QED BY <4>2, <4>3
    <3> QED BY <2>2, <3>3, <3>4
  <2>9. ASSUME ~(gate[d] <= Floor(Edges(d), x)) PROVE y \in Grid[TierOf(d)]
    <3>1. gate[d] \in Edges(d) /\ (gate[c] <= gate[d] => gate[d] \in Edges(c))
      BY <1>1, <1>2, <2>7 DEF ChosenInv, GatesNest
    <3>2. gate[d] > x
      BY <1>3, <2>4, <2>7, <2>9, <3>1
    <3>3. gate[c] <= gate[d]
      BY <1>3, <2>1, <2>3, <2>7, <3>2
    <3>4. y <= gate[d]
      BY <1>3, <2>2, <2>3, <2>7, <3>1, <3>2, <3>3
    <3>5. y = Floor(Edges(d), y)
      BY <1>3, <2>1, <2>5, <2>7, <3>4
    <3> QED BY <1>4, <2>5, <3>5
  <2> QED BY <2>8, <2>9
<1>7. CASE ~FromWm
  <2>1. PICK o \in inventory : /\ CellOf(o) = c /\ EndOf(o) = y /\ StartOf(o) <= x
    BY <1>1, <1>7, SourceOf
  <2>2. PICK q \in inventory : /\ CellOf(q) = d /\ TierOf(d) <= OutTier
                               /\ StartOf(q) <= y /\ y < EndOf(q) /\ gate[d] <= StartOf(q)
    BY <1>2, <1>7, SourceOf
  <2>3. o \in Shards /\ q \in Shards
    BY DEF InputsInv, GivenInv
  <2>4. /\ y \in Edges(c) /\ StartOf(o) \in Nat /\ StartOf(q) \in Edges(d) /\ StartOf(q) \in Nat /\ EndOf(q) \in Nat
    BY <2>1, <2>2, <2>3, ShardFacts, TimesNat
  <2>5. CASE StartOf(q) <= x
    <3>1. x < EndOf(q)
      BY <1>1, <1>3, <2>2, <2>4
    <3>2. TierOf(d) <= TierOf(c)
      BY <2>2, <2>5, <3>1, BestOf
    <3> QED BY <1>5, <2>4, <3>2
  <2>6. CASE StartOf(q) = y
    BY <1>4, <2>4, <2>6
  <2>7. CASE x < StartOf(q) /\ StartOf(q) < y
    <3>1. CASE TierOf(d) <= TierOf(c)
      BY <1>5, <2>4, <3>1
    <3>2. CASE TierOf(c) < TierOf(d)
      <4>1. StartOf(o) < StartOf(q)
        BY <1>3, <2>1, <2>4, <2>7
      <4>2. PICK i \in Inventories : inventory \subseteq i
        BY <1>7 DEF ChosenInv
      <4>3. /\ o \in i /\ q \in i
            /\ TierOf(CellOf(o)) < TierOf(CellOf(q)) /\ StartOf(o) < StartOf(q) /\ StartOf(q) < EndOf(o)
        BY <2>1, <2>2, <2>7, <3>2, <4>1, <4>2
      <4>4. EndOf(o) \in Grid[TierOf(CellOf(q))]
        BY <4>2, <4>3 DEF ShardsMeet
      <4> QED BY <2>1, <2>2, <4>4
    <3> QED BY <1>4, <3>1, <3>2
  <2> QED BY <1>3, <2>2, <2>4, <2>5, <2>6, <2>7
<1> QED BY <1>6, <1>7


-----------------------------------------------------------------------------
(* What a step does to the atoms and the cursor: nothing, a segment of the    *)
(* walk, or one output bin.                                                   *)

StepStays ==
    /\ atoms' = atoms /\ cursor' = cursor
    /\ phase' = phase \/ phase' = "refused"
       \/ (phase' = "assemble" /\ ~Ragged /\ Sources(cursor) = {})
       \/ (phase' = "done" /\ (phase = "assemble" \/ cursor >= PlannedTo))
Walked(s) == IF SegFrom(s) < SegTo(s) THEN {[cell |-> s.cell, from |-> SegFrom(s), to |-> SegTo(s)]} ELSE {}
StepWalks ==
    /\ ~Ragged /\ cursor < PlannedTo /\ Sources(cursor) # {} /\ phase = "walk" /\ phase' = "walk"
    /\ cursor' = SegTo(Best(Sources(cursor))) /\ atoms' = atoms \cup Walked(Best(Sources(cursor)))
Filled(a, b) == IF Target.calendar THEN {InCell(x) : x \in CalendarAtoms(a, b)} ELSE BinAtoms(a, b)
StepPacks ==
    /\ Ragged /\ cursor < PlannedTo /\ phase = "walk" /\ phase' = "walk"
    /\ cursor' = BinEnd /\ atoms' = atoms \cup Filled(cursor, BinEnd)

LEMMA StepKinds ==
    ASSUME TypeInv, [Next]_vars
    PROVE  UNCHANGED inputs /\ (StepStays \/ StepWalks \/ StepPacks)
<1>1. UNCHANGED inputs
  BY DEF Next, Emit, SkipGated, Stop, RefuseBins, PackFixed, PackCalendar, Assemble, Over, vars
<1> SUFFICES StepStays \/ StepWalks \/ StepPacks
  BY <1>1
<1>2. CASE Emit
  BY <1>2 DEF Emit, Walking, StepWalks, Walked
<1>3. CASE SkipGated
  <2> DEFINE s == Best(Sources(cursor))
  <2>1. /\ ~Ragged /\ cursor < PlannedTo /\ Sources(cursor) # {} /\ phase = "walk" /\ phase' = "walk"
        /\ cursor' = SegTo(s) /\ atoms' = atoms /\ SegTo(s) <= SegFrom(s)
    BY <1>3 DEF SkipGated, Walking
  <2> HIDE DEF s
  <2>2. SegFrom(s) \in Times /\ SegTo(s) \in Times
    <3>1. InputsInv /\ cursor \in Times
      BY DEF TypeInv
    <3> QED BY <2>1, <3>1, SegmentFacts DEF s
  <2>3. ~(SegFrom(s) < SegTo(s))
    <3>1. SegFrom(s) \in Nat /\ SegTo(s) \in Nat
      BY <2>2, TimesNat
    <3> QED BY <2>1, <3>1
  <2>4. Walked(s) = {}
    BY <2>3 DEF Walked
  <2> QED BY <2>1, <2>4 DEF StepWalks, s
<1>4. CASE Stop
  BY <1>4 DEF Stop, Walking, StepStays
<1>5. CASE RefuseBins
  BY <1>5 DEF RefuseBins, StepStays
<1>6. CASE PackFixed
  <2> DEFINE path == Decompose(FixedAtoms(cursor, BinEnd), cursor, BinEnd)
  <2>1. /\ Ragged /\ cursor < PlannedTo /\ phase = "walk" /\ ~Target.calendar
        /\ \/ path = NoPath /\ atoms' = atoms /\ phase' = "refused" /\ cursor' = cursor
           \/ path = NoPath /\ atoms' = atoms /\ phase' = "walk" /\ cursor' = BinEnd
           \/ /\ path # NoPath /\ phase' = "walk" /\ cursor' = BinEnd
              /\ atoms' = atoms \cup {InCell(path[i]) : i \in DOMAIN path}
    BY <1>6 DEF PackFixed, Packing
  <2>2. BinAtoms(cursor, BinEnd) = IF path = NoPath THEN {} ELSE {InCell(path[i]) : i \in DOMAIN path}
    BY DEF BinAtoms
  <2>3. Filled(cursor, BinEnd) = BinAtoms(cursor, BinEnd)
    BY <2>1 DEF Filled
  <2> DEFINE bins == {InCell(path[i]) : i \in DOMAIN path}
             new == BinAtoms(cursor, BinEnd)
             end == BinEnd
  <2>4. new = IF path = NoPath THEN {} ELSE bins
    BY <2>2
  <2>5. /\ Ragged /\ cursor < PlannedTo /\ phase = "walk"
        /\ \/ path = NoPath /\ atoms' = atoms /\ phase' = "refused" /\ cursor' = cursor
           \/ path = NoPath /\ atoms' = atoms /\ phase' = "walk" /\ cursor' = end
           \/ path # NoPath /\ phase' = "walk" /\ cursor' = end /\ atoms' = atoms \cup bins
    BY <2>1
  <2>6. StepStays <=> /\ atoms' = atoms /\ cursor' = cursor
                      /\ phase' = phase \/ phase' = "refused"
                         \/ (phase' = "assemble" /\ ~Ragged /\ Sources(cursor) = {})
                         \/ (phase' = "done" /\ (phase = "assemble" \/ cursor >= PlannedTo))
    BY DEF StepStays
  <2>7. StepPacks <=> /\ Ragged /\ cursor < PlannedTo /\ phase = "walk" /\ phase' = "walk"
                      /\ cursor' = end /\ atoms' = atoms \cup new
    BY <2>3 DEF StepPacks
  <2> HIDE DEF path, bins, new, end
  <2> QED BY <2>4, <2>5, <2>6, <2>7
<1>7. CASE PackCalendar
  <2> DEFINE new == {InCell(x) : x \in CalendarAtoms(cursor, BinEnd)}
  <2>1. /\ Ragged /\ cursor < PlannedTo /\ phase = "walk" /\ phase' = "walk" /\ Target.calendar
        /\ cursor' = BinEnd /\ atoms' = atoms \cup new
    BY <1>7 DEF PackCalendar, Packing
  <2>2. Filled(cursor, BinEnd) = new
    BY <2>1 DEF Filled
  <2> HIDE DEF new
  <2> QED BY <2>1, <2>2 DEF StepPacks
<1>8. CASE Assemble
  BY <1>8 DEF Assemble, StepStays
<1>9. CASE UNCHANGED vars
  BY <1>9 DEF vars, StepStays
<1> QED BY <1>2, <1>3, <1>4, <1>5, <1>6, <1>7, <1>8, <1>9 DEF Next, Over

\* The inputs, and all that follows from them alone, stay.
LEMMA WalkKept ==
    ASSUME UNCHANGED inputs
    PROVE  /\ Ragged' = Ragged /\ FromWm' = FromWm /\ Target' = Target
           /\ PlannedFrom' = PlannedFrom /\ PlannedTo' = PlannedTo
           /\ OutTier' = OutTier /\ OutGrid' = OutGrid /\ Visible' = Visible /\ Packers' = Packers
           /\ \A x : Sources(x)' = Sources(x)
           /\ \A x : Backed(x)' <=> Backed(x)
           /\ \A b, u : Suffices(b, u)' <=> Suffices(b, u)
           /\ ChosenInv' <=> ChosenInv
<1>1. /\ query' = query /\ declared' = declared /\ early' = early /\ gate' = gate /\ inventory' = inventory
      /\ sealed' = sealed /\ largest' = largest /\ earliest' = earliest
  BY DEF inputs
<1>2. /\ Ragged' = Ragged /\ FromWm' = FromWm /\ Target' = Target
      /\ PlannedFrom' = PlannedFrom /\ PlannedTo' = PlannedTo
      /\ OutTier' = OutTier /\ OutGrid' = OutGrid
  BY <1>1 DEF PlannedFrom, PlannedTo, OutWidth, OutGrid, OutTier, Ragged, FromWm, Target
<1>3. Visible' = Visible /\ Packers' = Packers
  BY <1>1, <1>2 DEF Visible, Packers
<1>4. \A x : Sources(x)' = Sources(x)
  BY <1>1, <1>2 DEF Sources
<1>5. \A x : Backed(x)' <=> Backed(x)
  BY <1>1, <1>2, <1>3 DEF Backed
<1>6. \A b, u : Suffices(b, u)' <=> Suffices(b, u)
  BY <1>1, <1>2, <1>3, <1>4 DEF Suffices, Complete
<1>7. ChosenInv' <=> ChosenInv
  <2>1. (\E g \in Gates : early = g[1] /\ gate = g[2])' <=> \E g \in Gates : early = g[1] /\ gate = g[2]
    BY <1>1
  <2>2. (\E i \in Inventories : inventory \subseteq i)' <=> \E i \in Inventories : inventory \subseteq i
    BY <1>1
  <2>3. /\ (<<query.target, query.budget>> \in Asked)' <=> <<query.target, query.budget>> \in Asked
        /\ (declared \in Declared)' <=> declared \in Declared
    BY <1>1
  <2> QED BY <1>2, <2>1, <2>2, <2>3 DEF ChosenInv
<1> QED BY <1>2, <1>3, <1>4, <1>5, <1>6, <1>7

LEMMA ChosenInit == Init => ChosenInv
<1> SUFFICES ASSUME Init PROVE ChosenInv
  OBVIOUS
<1>1. <<query.target, query.budget>> \in Asked
  BY DEF Init
<1>2. FromWm => declared \in Declared
  BY DEF Init
<1>3. \E g \in Gates : early = g[1] /\ gate = g[2]
  BY DEF Init
<1>4. FromWm \/ \E i \in Inventories : inventory \subseteq i
  <2> SUFFICES ASSUME ~FromWm PROVE \E i \in Inventories : inventory \subseteq i
    OBVIOUS
  <2>1. inventory \in {{s \in i : EndOf(s) > query.from /\ StartOf(s) < query.to} : i \in Inventories}
    BY DEF Init
  <2> QED BY <2>1
<1> QED BY <1>1, <1>2, <1>3, <1>4 DEF ChosenInv

LEMMA StartInit == InputsInv /\ Init => StartInv
<1> SUFFICES ASSUME InputsInv, Init, ~Ragged PROVE PlannedFrom <= cursor /\ cursor = PlannedFrom
  BY DEF StartInv
<1>1. cursor = PlannedFrom
  BY DEF Init
<1> QED BY <1>1, GivenFacts

LEMMA StartStep ==
    ASSUME NestedTiers, Aligned, GatesNest, ShardsMeet, TypeInv, TypeInv', ChosenInv, StartInv, [Next]_vars
    PROVE  StartInv'
<1>1. InputsInv /\ cursor \in Times
  BY DEF TypeInv
<1>2. UNCHANGED inputs /\ (StepStays \/ StepWalks \/ StepPacks)
  BY StepKinds
<1>3. /\ Ragged' = Ragged /\ PlannedFrom' = PlannedFrom /\ PlannedTo' = PlannedTo
      /\ \A x : Sources(x)' = Sources(x)
  BY <1>2, WalkKept
<1>4. Sources(cursor)' = Sources(cursor')
  BY <1>2 DEF Sources, inputs, FromWm, OutTier
<1>5. ASSUME ~Ragged,
             PlannedFrom <= cursor',
             (cursor' < PlannedTo /\ Sources(cursor') # {}) =>
                cursor' = PlannedFrom \/ cursor' \in Grid[TierOf(Best(Sources(cursor')).cell)]
      PROVE  StartInv'
  BY <1>3, <1>4, <1>5 DEF StartInv
<1>6. CASE Ragged
  BY <1>3, <1>6 DEF StartInv
<1>7. CASE ~Ragged /\ StepStays
  BY <1>5, <1>7 DEF StartInv, StepStays
<1>8. CASE StepWalks
  <2> DEFINE s == Best(Sources(cursor))
  <2>1. ~Ragged /\ cursor < PlannedTo /\ Sources(cursor) # {} /\ cursor' = SegTo(s)
    BY <1>8 DEF StepWalks
  <2>2. /\ cursor < Horizon /\ SegTo(s) \in Times /\ cursor < SegTo(s) /\ SegTo(s) \in {PlannedTo, s.upto}
    BY <1>1, <2>1, SegmentFacts
  <2> HIDE DEF s
  <2>3. PlannedFrom \in Nat /\ cursor \in Nat /\ SegTo(s) \in Nat /\ PlannedTo \in Nat /\ PlannedTo <= Horizon
    BY <1>1, <2>2, GivenFacts, TimesNat
  <2>4. PlannedFrom <= cursor
    BY <2>1 DEF StartInv
  <2>5. PlannedFrom <= cursor'
    BY <2>1, <2>2, <2>3, <2>4
  <2>6. ASSUME cursor' < PlannedTo, Sources(cursor') # {}
        PROVE  cursor' \in Grid[TierOf(Best(Sources(cursor')).cell)]
    <3>1. cursor' = s.upto /\ s.upto < Horizon
      BY <2>1, <2>2, <2>3, <2>6, TimesNat
    <3>2. Sources(s.upto) # {}
      BY <2>6, <3>1
    <3>3. s.upto \in Grid[TierOf(Best(Sources(s.upto)).cell)]
      BY <1>1, <2>1, <2>2, <3>1, <3>2, WalkMeets DEF s
    <3> QED BY <3>1, <3>3
  <2> QED BY <1>5, <2>1, <2>5, <2>6
<1>9. CASE StepPacks
  BY <1>6, <1>9 DEF StepPacks
<1> QED BY <1>2, <1>6, <1>7, <1>8, <1>9

LEMMA EndInit == Init => EndInv
BY DEF Init, EndInv

LEMMA EndStep ==
    ASSUME TypeInv, EndInv, [Next]_vars
    PROVE  EndInv'
<1>1. UNCHANGED inputs /\ (StepStays \/ StepWalks \/ StepPacks)
  BY StepKinds
<1>2. Ragged' = Ragged /\ PlannedTo' = PlannedTo /\ Sources(cursor)' = Sources(cursor')
  BY <1>1, WalkKept DEF Sources, inputs, FromWm, OutTier
<1>3. CASE StepStays
  BY <1>2, <1>3 DEF StepStays, EndInv
<1>4. CASE StepWalks
  BY <1>2, <1>4 DEF StepWalks, EndInv
<1>5. CASE StepPacks
  BY <1>2, <1>5 DEF StepPacks, EndInv
<1> QED BY <1>1, <1>3, <1>4, <1>5


-----------------------------------------------------------------------------
(* Where the rows of an atom come from. *)

\* A packed atom goes no further than its tier is complete.
LEMMA SealedUpto ==
    ASSUME NEW lg \in [Tiers -> Times], NEW er \in [Tiers -> Times], NEW w,
           NEW a \in Times, NEW b \in Times, a < b
    PROVE  \A x \in PackSealed(PackTiers(w), lg, er, a, b) : x.tier \in Tiers /\ x.to <= lg[x.tier]
<1> DEFINE tiers == PackTiers(w)
           take == [t \in Tiers |-> [g \in Times \X Times |-> TakeSealed(t, lg, er, g[1], g[2])]]
           packed == PackSealed(tiers, lg, er, a, b)
<1>1. packed = Pack(tiers, take, a, b)
  BY DEF PackSealed
<1>2. \A t \in Tiers, s, e \in Times : take[t][<<s, e>>] = TakeSealed(t, lg, er, s, e)
  OBVIOUS
<1> HIDE DEF take, packed
<1>3. Takes(take)
  BY <1>2, SealedTaken DEF Takes
<1> HIDE DEF tiers
<1>4. IsOrder(tiers)
  BY OrderOfPack DEF tiers
<1>5. \A x \in packed : TakenAt(x, tiers, take, 1, a, b)
  BY <1>1, <1>3, <1>4, PackSound
<1>6. ASSUME NEW x \in packed
      PROVE  x.tier \in Tiers /\ x.to <= lg[x.tier]
  <2>1. PICK j \in 1 .. Len(tiers), p \in Times, q \in Times : p < q /\ x \in take[tiers[j]][<<p, q>>]
    BY <1>5 DEF TakenAt
  <2> DEFINE t == tiers[j]
  <2>2. t \in Tiers
    BY <1>4 DEF IsOrder
  <2>3. x \in TakeSealed(t, lg, er, p, q)
    BY <1>2, <2>1, <2>2
  <2> DEFINE upto == Min({q, lg[t]})
             last == Floor(Grid[t], upto)
  <2>4. x.to \in {last, upto}
    BY <2>3 DEF TakeSealed, Atom
  <2> HIDE DEF t
  <2>5. upto \in Times /\ upto <= lg[t]
    BY <2>2, MinMaxOf
  <2>6. x.tier = t
    BY <2>1, <2>2, <2>3, SealedTaken DEF TakenOf
  <2> HIDE DEF upto
  <2>7. last \in Grid[t] /\ last <= upto /\ IsGrid(Grid[t])
    BY <2>2, <2>5, TierFacts, FloorOf
  <2>8. last \in Nat /\ upto \in Nat /\ lg[t] \in Nat
    BY <2>2, <2>5, <2>7, GridFacts, TimesNat
  <2> HIDE DEF last
  <2> QED BY <2>2, <2>4, <2>5, <2>6, <2>7, <2>8
<1> QED BY <1>6 DEF packed, tiers

LEMMA PackTiersUsable ==
    ASSUME NEW w
    PROVE  \A i \in DOMAIN PackTiers(w) : PackTiers(w)[i] \in Usable(w)
<1> DEFINE S == Usable(w)
           n == Cardinality(S)
           p == PackTiers(w)
<1>1. S \subseteq Tiers
  BY DEF Usable
<1>2. CASE ~\E t \in S : Base(t)
  BY <1>2 DEF PackTiers
<1>3. CASE \E t \in S : Base(t)
  <2>1. p = [i \in 1 .. n |-> CHOOSE t \in S : Cardinality(Ahead(S, t)) = i - 1]
    BY <1>3 DEF PackTiers
  <2> HIDE DEF S, n, p
  <2>2. \A i \in 1 .. n : p[i] \in S
    BY <1>1, <2>1, RankOnto DEF n
  <2> QED BY <2>1, <2>2 DEF p, S
<1> QED BY <1>2, <1>3

LEMMA RegisteredUsable ==
    ASSUME NEW held, NEW w, NEW a \in Times, NEW b \in Times, a < b
    PROVE  \A x \in PackRegistered(PackTiers(w), held, a, b) : x.tier \in Usable(w)
<1> DEFINE tiers == PackTiers(w)
           take == [t \in Tiers |-> [g \in Times \X Times |-> TakeRegistered(t, held, g[1], g[2])]]
           packed == PackRegistered(tiers, held, a, b)
<1>1. packed = Pack(tiers, take, a, b)
  BY DEF PackRegistered
<1>2. \A t \in Tiers, s, e \in Times : take[t][<<s, e>>] = TakeRegistered(t, held, s, e)
  OBVIOUS
<1> HIDE DEF take, packed
<1>3. Takes(take)
  BY <1>2, RegisteredTaken DEF Takes
<1> HIDE DEF tiers
<1>4. IsOrder(tiers) /\ \A i \in 1 .. Len(tiers) : tiers[i] \in Usable(w)
  <2>1. IsOrder(tiers) /\ DOMAIN tiers = 1 .. Len(tiers)
    BY OrderOfPack, PackTiersType DEF tiers
  <2> QED BY <2>1, PackTiersUsable DEF tiers
<1>5. \A x \in packed : TakenAt(x, tiers, take, 1, a, b)
  BY <1>1, <1>3, <1>4, PackSound
<1>6. ASSUME NEW x \in packed
      PROVE  x.tier \in Usable(w)
  <2>1. PICK j \in 1 .. Len(tiers), p \in Times, q \in Times : x \in take[tiers[j]][<<p, q>>]
    BY <1>5 DEF TakenAt
  <2>2. tiers[j] \in Tiers
    BY <1>4 DEF IsOrder
  <2>3. x \in TakeRegistered(tiers[j], held, p, q)
    BY <1>2, <2>1, <2>2
  <2>4. TakenOf(tiers[j], TakeRegistered(tiers[j], held, p, q), p, q)
    BY <2>2, <2>3, RegisteredTaken
  <2>5. x.tier = tiers[j]
    BY <2>3, <2>4 DEF TakenOf
  <2> QED BY <1>4, <2>5
<1> QED BY <1>6 DEF packed, tiers

LEMMA WalkBacked ==
    ASSUME InputsInv, ~Ragged, cursor \in Times, cursor < PlannedTo, Sources(cursor) # {},
           NEW s, s = Best(Sources(cursor)), SegFrom(s) < SegTo(s),
           NEW x, x = [cell |-> s.cell, from |-> SegFrom(s), to |-> SegTo(s)]
    PROVE  Backed(x)
<1>1. /\ s \in Sources(cursor) /\ cursor < Horizon /\ SegFrom(s) \in Times /\ cursor <= SegFrom(s)
      /\ SegTo(s) \in Times /\ SegTo(s) <= s.upto
  BY SegmentFacts
<1>2. /\ s.cell \in Cells /\ TierOf(s.cell) <= OutTier /\ s.upto \in Times
      /\ FromWm => s.upto <= sealed[s.cell]
      /\ ~FromWm => /\ <<s.cell, Floor(Edges(s.cell), cursor)>> \in inventory
                    /\ s.upto = EndOf(<<s.cell, Floor(Edges(s.cell), cursor)>>)
  BY <1>1, SourceFacts
<1>3. x.cell = s.cell /\ x.from = SegFrom(s) /\ x.to = SegTo(s)
  OBVIOUS
<1>4. cursor \in Nat /\ SegFrom(s) \in Nat /\ SegTo(s) \in Nat /\ s.upto \in Nat /\ Horizon \in Nat /\ SegTo(s) <= Horizon
  BY <1>1, <1>2, TimesNat
<1>5. FromWm => x.to <= sealed[x.cell]
  <2> SUFFICES ASSUME FromWm PROVE SegTo(s) <= sealed[s.cell]
    BY <1>3
  <2>1. sealed[s.cell] \in Nat
    BY <1>2, GivenFacts, MarkNat
  <2> QED BY <1>1, <1>2, <1>4, <2>1
<1>6. ASSUME ~FromWm
      PROVE  /\ <<x.cell, Floor(Edges(x.cell), x.from)>> \in inventory
             /\ x.to <= After(Edges(x.cell), x.from)
  <2> DEFINE c == s.cell
             z == SegFrom(s)
             o == <<c, Floor(Edges(c), cursor)>>
             d == <<c, Floor(Edges(c), z)>>
  <2>1. o \in inventory /\ o \in Shards /\ EndOf(o) = s.upto
    BY <1>2, <1>6 DEF InputsInv, GivenInv
  <2>2. StartOf(o) <= cursor /\ cursor < EndOf(o) /\ CellOf(o) = c
    BY <1>1, <1>2, ShardAt DEF CellOf
  <2>3. z < Horizon
    BY <1>4
  <2>4. d \in Shards /\ StartOf(d) <= z /\ z < EndOf(d) /\ CellOf(d) = c
    BY <1>1, <1>2, <2>3, ShardAt DEF CellOf
  <2> HIDE DEF z
  <2>5. StartOf(o) \in Nat /\ EndOf(o) \in Nat /\ z \in Nat /\ cursor <= z /\ z < SegTo(s)
    BY <1>1, <1>4, <2>1, ShardFacts, TimesNat DEF z
  <2>6. StartOf(o) <= z /\ z < EndOf(o)
    BY <1>1, <1>4, <2>1, <2>2, <2>5
  <2> HIDE DEF o, d
  <2>7. o = d
    BY <1>1, <2>1, <2>2, <2>4, <2>5, <2>6, OneShard DEF z
  <2>8. IsGrid(Edges(c)) /\ z \in Times
    BY <1>1, <1>2, CellFacts DEF z
  <2>9. After(Edges(c), z) \in Edges(c) /\ z < After(Edges(c), z) /\ After(Edges(c), z) \in Nat
    BY <2>3, <2>8, AfterOf, GridFacts
  <2>10. EndOf(o) <= After(Edges(c), z)
    <3>1. StartOf(o) < After(Edges(c), z)
      BY <2>5, <2>6, <2>9
    <3> QED BY <2>1, <2>2, <2>9, <3>1, ShardFacts
  <2>11. SegTo(s) <= After(Edges(c), z)
    BY <1>1, <1>4, <2>1, <2>5, <2>9, <2>10
  <2> QED BY <1>3, <2>1, <2>7, <2>11 DEF z, d
<1> QED BY <1>2, <1>3, <1>5, <1>6 DEF Backed

\* An atom that ends where its tier is complete.
LEMMA LargestBacked ==
    ASSUME InputsInv, Ragged, FromWm, NEW x, x.cell \in Cells, x.to \in Nat, x.to <= largest[TierOf(x.cell)]
    PROVE  Backed(x)
<1> DEFINE t == TierOf(x.cell)
<1>1. t \in Tiers
  BY CellFacts
<1>2. /\ declared \in [Cells -> 0 .. Far] /\ PlannedTo \in Times
      /\ largest[t] = Largest(declared, t, PlannedTo) /\ sealed[x.cell] = Effective(declared, x.cell)
  BY <1>1 DEF InputsInv, GivenInv
<1>3. Largest(declared, t, PlannedTo) <= Effective(declared, x.cell)
  BY <1>1, <1>2, LargestSealed
<1>4. largest[t] <= sealed[x.cell] /\ largest[t] \in Times /\ sealed[x.cell] \in 0 .. Far
  BY <1>1, <1>2, <1>3, GivenFacts
<1>5. largest[t] \in Nat /\ sealed[x.cell] \in Nat
  BY <1>4, MarkNat, TimesNat
<1> HIDE DEF t
<1>6. x.to <= sealed[x.cell]
  BY <1>4, <1>5 DEF t
<1> QED BY <1>6 DEF Backed

LEMMA HeldBacked ==
    ASSUME InputsInv, Ragged, ~FromWm, NEW p, p.tier \in Tiers, p.to \in Grid[p.tier], Held(p, inventory),
           p.tier \in Packers \/ p.to <= largest[p.tier], NEW x, x = InCell(p)
    PROVE  Backed(x)
<1>1. TierOf(x.cell) = p.tier /\ x.from = p.from /\ x.to = p.to
  BY TierFacts DEF InCell
<1> QED BY <1>1 DEF Backed, Held

LEMMA FixedBacked ==
    ASSUME InputsInv, Ragged, ~Target.calendar, NEW a \in Times, NEW b \in Times, a < b,
           NEW x \in BinAtoms(a, b)
    PROVE  Backed(x)
<1> DEFINE path == Decompose(FixedAtoms(a, b), a, b)
<1>1. path # NoPath /\ \E i \in DOMAIN path : x = InCell(path[i])
  BY DEF BinAtoms
<1>2. PICK p \in FixedAtoms(a, b) : x = InCell(p)
  BY <1>1, FixedPacked
<1>3. /\ p.tier \in Tiers /\ p.to \in Grid[p.tier] /\ p.to \in Times /\ p.to <= b /\ p = Atom(p.tier, p.from, p.to)
      /\ ~FromWm => Held(p, inventory)
  BY FixedFacts
<1>4. PICK t \in Tiers \ Calendar : (FromWm => largest[t] >= b) /\ p \in BinsInside(t, a, b)
  BY DEF FixedAtoms
<1>5. p.tier = t
  BY <1>4 DEF BinsInside, Atom
<1>6. x.cell \in Cells /\ TierOf(x.cell) = t /\ x.to = p.to
  BY <1>2, <1>3, <1>5, TierFacts DEF InCell
<1>7. CASE FromWm
  <2>1. largest[t] \in Nat /\ p.to \in Nat /\ b \in Nat
    BY <1>3, <1>4, GivenFacts, TimesNat
  <2>2. x.to <= largest[TierOf(x.cell)] /\ x.to \in Nat
    BY <1>3, <1>4, <1>6, <1>7, <2>1
  <2> QED BY <1>6, <1>7, <2>2, LargestBacked
<1>8. CASE ~FromWm
  <2>1. p.tier \in Packers
    BY <1>4, <1>5 DEF Packers
  <2> QED BY <1>2, <1>3, <1>8, <2>1, HeldBacked
<1> QED BY <1>7, <1>8

LEMMA CalendarBacked ==
    ASSUME InputsInv, Ragged, Target.calendar, NEW a \in OutGrid, NEW b \in OutGrid, a < b, a < PlannedTo,
           NEW p \in CalendarAtoms(a, b), NEW x, x = InCell(p)
    PROVE  Backed(x)
<1>1. IsGrid(OutGrid) /\ OutGrid = Target.grid
  BY QueryFacts DEF InputsInv
<1>2. a \in Times /\ b \in Times /\ a \in Nat /\ b \in Nat
  BY <1>1, GridFacts
<1>3. ASSUME FromWm, p.tier \in Tiers, p.to \in Times, p.to <= largest[p.tier] PROVE Backed(x)
  <2>1. x.cell \in Cells /\ TierOf(x.cell) = p.tier /\ x.to = p.to
    BY <1>3, TierFacts DEF InCell
  <2>2. x.to \in Nat /\ x.to <= largest[TierOf(x.cell)]
    BY <1>3, <2>1, TimesNat
  <2> QED BY <1>3, <2>1, <2>2, LargestBacked
<1>4. CASE Exact(a, b) # {}
  <2>1. PICK t \in Exact(a, b) : p = Atom(t, a, b)
    BY <1>4 DEF CalendarAtoms
  <2>2. /\ t \in Tiers /\ Grid[t] = OutGrid /\ largest[t] >= b
        /\ ~FromWm => Held(Atom(t, a, b), inventory)
    BY <1>1, LadderAssumption DEF Exact, ExactTiers
  <2>3. p.tier = t /\ p.from = a /\ p.to = b
    BY <2>1 DEF Atom
  <2>4. largest[t] \in Nat /\ b <= largest[t]
    BY <1>2, <2>2, GivenFacts, TimesNat
  <2>5. CASE FromWm
    BY <1>2, <1>3, <2>2, <2>3, <2>4, <2>5
  <2>6. CASE ~FromWm
    BY <2>1, <2>2, <2>3, <2>4, <2>6, HeldBacked
  <2> QED BY <2>5, <2>6
<1>5. CASE Exact(a, b) = {} /\ FromWm
  <2> DEFINE e == Min({b, PlannedTo})
  <2>1. p \in PackSealed(PackTiers(Target.width), largest, earliest, a, e)
    BY <1>5 DEF CalendarAtoms
  <2>2. e \in Times /\ e \in {b, PlannedTo} /\ e \in Nat
    BY <1>2, GivenFacts, MinMaxOf, TimesNat
  <2>3. a < e
    BY <2>2
  <2> HIDE DEF e
  <2>4. largest \in [Tiers -> Times] /\ earliest \in [Tiers -> Times]
    BY GivenFacts
  <2>5. p.tier \in Tiers /\ p.to <= largest[p.tier] /\ p.to \in Times
    BY <1>2, <2>1, <2>2, <2>3, <2>4, SealedUpto, SealedPack
  <2> QED BY <1>3, <1>5, <2>5
<1>6. CASE Exact(a, b) = {} /\ ~FromWm
  <2>1. p \in PackRegistered(PackTiers(Target.width), inventory, a, b)
    BY <1>6 DEF CalendarAtoms
  <2>2. p.tier \in Tiers /\ p.to \in Grid[p.tier] /\ Held(p, inventory) /\ p.tier \in Usable(Target.width)
    BY <1>2, <2>1, RegisteredPack, RegisteredUsable
  <2>3. p.tier \in Packers
    BY <2>2 DEF Packers
  <2> QED BY <1>6, <2>2, <2>3, HeldBacked
<1> QED BY <1>4, <1>5, <1>6

LEMMA BackedStep ==
    ASSUME TypeInv, TypeInv', \A x \in atoms : Backed(x), [Next]_vars
    PROVE  (\A x \in atoms : Backed(x))'
<1>0. InputsInv /\ cursor \in Times /\ (Ragged => cursor \in OutGrid)
  BY DEF TypeInv
<1>1. UNCHANGED inputs /\ (StepStays \/ StepWalks \/ StepPacks)
  BY StepKinds
<1>2. \A x : Backed(x)' <=> Backed(x)
  BY <1>1, WalkKept
<1>3. ASSUME NEW new, atoms' = atoms \cup new, \A x \in new : Backed(x)
      PROVE  (\A x \in atoms : Backed(x))'
  BY <1>2, <1>3
<1>4. CASE StepStays
  BY <1>2, <1>4 DEF StepStays
<1>5. CASE StepWalks
  <2> DEFINE s == Best(Sources(cursor))
  <2>1. ~Ragged /\ cursor < PlannedTo /\ Sources(cursor) # {} /\ atoms' = atoms \cup Walked(s)
    BY <1>5 DEF StepWalks
  <2> HIDE DEF s
  <2>2. \A x \in Walked(s) : SegFrom(s) < SegTo(s) /\ x = [cell |-> s.cell, from |-> SegFrom(s), to |-> SegTo(s)]
    BY DEF Walked
  <2>3. \A x \in Walked(s) : Backed(x)
    BY <1>0, <2>1, <2>2, WalkBacked DEF s
  <2> QED BY <1>3, <2>1, <2>3
<1>6. CASE StepPacks
  <2>1. Ragged /\ cursor < PlannedTo /\ atoms' = atoms \cup Filled(cursor, BinEnd)
    BY <1>6 DEF StepPacks
  <2>2. /\ BinEnd \in OutGrid /\ cursor < BinEnd /\ cursor \in Times /\ BinEnd \in Times /\ cursor \in OutGrid
    BY <1>0, <2>1, BinEndFacts
  <2>3. \A x \in Filled(cursor, BinEnd) : Backed(x)
    <3>1. CASE Target.calendar
      BY <1>0, <2>1, <2>2, <3>1, CalendarBacked DEF Filled
    <3>2. CASE ~Target.calendar
      BY <1>0, <2>1, <2>2, <3>2, FixedBacked DEF Filled
    <3> QED BY <3>1, <3>2
  <2> QED BY <1>3, <2>1, <2>3
<1> QED BY <1>1, <1>4, <1>5, <1>6


-----------------------------------------------------------------------------
(* The packing of a month leaves out no unit that the finest tier has. *)

\* A unit that the taken bins do not hold is in a residue.
LEMMA ResidueAt ==
    ASSUME NEW t, NEW taken, NEW s \in Times, NEW e \in Times, TakenOf(t, taken, s, e),
           NEW u \in Nat, s <= u, u < e, \A x \in taken : ~(x.from <= u /\ u < x.to)
    PROVE  \E p \in Times, q \in Times :
              /\ <<p, q>> \in Residues(taken, s, e) /\ p <= u /\ u < q
              /\ p = s \/ \E x \in taken : p = x.to /\ x.to <= u
              /\ q = e \/ \E x \in taken : q = x.from
<1> DEFINE L == {s} \cup {x.to : x \in {x \in taken : x.to <= u}}
           R == {e} \cup {x.from : x \in {x \in taken : u < x.from}}
<1>1. /\ s \in Nat /\ e \in Nat /\ \A x \in taken : x.from \in Times /\ x.to \in Times /\ x.from \in Nat /\ x.to \in Nat
      /\ Horizon \in Nat /\ u < Horizon
  <2>1. \A x \in taken : x.from \in Times /\ x.to \in Times
    BY DEF TakenOf
  <2>2. s \in Nat /\ e \in Nat /\ e <= Horizon /\ Horizon \in Nat
    BY TimesNat
  <2>3. \A x \in taken : x.from \in Nat /\ x.to \in Nat
    BY <2>1, TimesNat
  <2> QED BY <2>1, <2>2, <2>3
<1>2. L \subseteq 0 .. Horizon /\ L # {} /\ R \subseteq Nat /\ R # {}
  BY <1>1
<1>3. s \in L /\ e \in R /\ (\A x \in taken : x.to <= u => x.to \in L) /\ (\A x \in taken : u < x.from => x.from \in R)
  OBVIOUS
<1>4. \A y \in L : y <= u /\ y \in Times /\ (y = s \/ \E x \in taken : y = x.to /\ x.to <= u)
  BY <1>1
<1>5. \A y \in R : u < y /\ y \in Times /\ (y = e \/ \E x \in taken : y = x.from)
  BY <1>1
<1> HIDE DEF L, R
<1>6. PICK p \in L : \A y \in L : y <= p
  BY <1>1, <1>2, GreatestIn
<1>7. PICK q \in R : \A y \in R : q <= y
  BY <1>2, LeastIn
<1>8. p \in Times /\ q \in Times /\ p <= u /\ u < q /\ p \in Nat /\ q \in Nat
  BY <1>4, <1>5, TimesNat
<1>9. <<p, q>> \in Residues(taken, s, e)
  <2>1. p < q
    BY <1>8
  <2>2. \A x \in taken : x.to <= p \/ x.from >= q
    BY <1>1, <1>3, <1>6, <1>7, <1>8
  <2>3. p \in {s} \cup {x.to : x \in taken} /\ q \in {e} \cup {x.from : x \in taken}
    BY <1>4, <1>5
  <2> QED BY <2>1, <2>2, <2>3 DEF Residues
<1> QED BY <1>4, <1>5, <1>8, <1>9

\* A tier takes unit u of whatever is left to it, and no tier leaves a finer one
\* an interval that it cannot take u of.
TakesUnit(take, t, u, froms, tos) ==
    \A s, e \in Times : (s \in froms /\ e \in tos /\ s <= u /\ u < e) =>
        \E x \in take[t][<<s, e>>] : x.from <= u /\ u < x.to
LeavesUnit(take, u, froms, tos) ==
    \A t \in Tiers : \A s, e \in Times : \A x \in take[t][<<s, e>>] :
        (s < e /\ u < e) => (x.to <= u => x.to \in froms) /\ x.from \in tos

LEMMA PackFinds ==
    ASSUME NEW tiers, IsOrder(tiers), NEW take, Takes(take), NEW u \in Nat, NEW k \in 1 .. Len(tiers),
           NEW froms, NEW tos, TakesUnit(take, tiers[k], u, froms, tos), LeavesUnit(take, u, froms, tos),
           NEW a \in Times, NEW b \in Times, a \in froms, b \in tos, a <= u, u < b
    PROVE  \E x \in Pack(tiers, take, a, b) : x.from <= u /\ u < x.to
<1>1. Len(tiers) \in Nat /\ k \in Nat /\ \A i \in 1 .. Len(tiers) : tiers[i] \in Tiers
  BY DEF IsOrder
<1>2. PICK f : Pack(tiers, take, a, b) = f[1][<<a, b>>] /\ PackRun(f, tiers, take)
  BY <1>1, PackIs
<1> DEFINE Finds(i) == \A s \in Times, e \in Times :
                          (s \in froms /\ e \in tos /\ s <= u /\ u < e) =>
                             \E x \in f[i][<<s, e>>] : x.from <= u /\ u < x.to
           Bad == {i \in 1 .. k : ~Finds(i)}
<1>3. ASSUME NEW i \in 1 .. k, NEW s \in Times, NEW e \in Times
      PROVE  f[i][<<s, e>>] = Descend(f[i + 1], take[tiers[i]][<<s, e>>], s, e) /\ tiers[i] \in Tiers
  <2>1. i \in 1 .. Len(tiers) + 1 /\ ~(i > Len(tiers)) /\ i \in 1 .. Len(tiers)
    BY <1>1
  <2> QED BY <1>1, <1>2, <2>1 DEF PackRun
<1>4. Finds(k)
  <2> SUFFICES ASSUME NEW s \in Times, NEW e \in Times, s \in froms, e \in tos, s <= u, u < e
               PROVE  \E x \in f[k][<<s, e>>] : x.from <= u /\ u < x.to
    OBVIOUS
  <2>1. k \in 1 .. k
    BY <1>1
  <2>2. take[tiers[k]][<<s, e>>] \subseteq f[k][<<s, e>>]
    BY <1>3, <2>1 DEF Descend
  <2> QED BY <2>2 DEF TakesUnit
<1>5. ASSUME NEW i \in 1 .. k, i # k, Finds(i + 1) PROVE Finds(i)
  <2> SUFFICES ASSUME NEW s \in Times, NEW e \in Times, s \in froms, e \in tos, s <= u, u < e
               PROVE  \E x \in f[i][<<s, e>>] : x.from <= u /\ u < x.to
    OBVIOUS
  <2> DEFINE taken == take[tiers[i]][<<s, e>>]
  <2>1. f[i][<<s, e>>] = Descend(f[i + 1], taken, s, e) /\ tiers[i] \in Tiers
    BY <1>3
  <2>2. s < e
    <3>1. s \in Nat /\ e \in Nat
      BY TimesNat
    <3> QED BY <3>1
  <2>3. TakenOf(tiers[i], taken, s, e) /\ \A x \in taken : (x.to <= u => x.to \in froms) /\ x.from \in tos
    BY <2>1, <2>2 DEF Takes, LeavesUnit
  <2> HIDE DEF taken
  <2>4. CASE \E x \in taken : x.from <= u /\ u < x.to
    BY <2>1, <2>4 DEF Descend
  <2>5. CASE \A x \in taken : ~(x.from <= u /\ u < x.to)
    <3>1. PICK p \in Times, q \in Times :
             /\ <<p, q>> \in Residues(taken, s, e) /\ p <= u /\ u < q
             /\ p = s \/ \E x \in taken : p = x.to /\ x.to <= u
             /\ q = e \/ \E x \in taken : q = x.from
      BY <2>3, <2>5, ResidueAt
    <3>2. p \in froms /\ q \in tos
      BY <2>3, <3>1
    <3>3. \E x \in f[i + 1][<<p, q>>] : x.from <= u /\ u < x.to
      BY <1>5, <3>1, <3>2
    <3>4. f[i + 1][<<p, q>>] \subseteq f[i][<<s, e>>]
      BY <2>1, <3>1 DEF Descend
    <3> QED BY <3>3, <3>4
  <2> QED BY <2>4, <2>5
<1> HIDE DEF Finds
<1>6. ASSUME Bad # {} PROVE FALSE
  <2>1. Bad \subseteq 0 .. k
    BY <1>1
  <2>2. PICK i \in Bad : \A y \in Bad : y <= i
    BY <1>1, <1>6, <2>1, GreatestIn
  <2>3. i \in 1 .. k /\ ~Finds(i)
    BY <2>2
  <2>4. i # k
    BY <1>4, <2>3
  <2>5. i + 1 \in 1 .. k /\ i + 1 > i
    BY <1>1, <2>3, <2>4
  <2>6. Finds(i + 1)
    BY <1>1, <2>2, <2>3, <2>5
  <2> QED BY <1>5, <2>3, <2>4, <2>6
<1>7. Finds(1)
  <2>1. 1 \in 1 .. k
    BY <1>1
  <2> QED BY <1>6, <2>1
<1> QED BY <1>2, <1>7 DEF Finds

\* The finest tier is among those that a month is packed from, when days are
\* made of its bins.
LEMMA FinestPacks ==
    ASSUME NEW w, Base(1)
    PROVE  \E k \in 1 .. Len(PackTiers(w)) : PackTiers(w)[k] = 1
<1> DEFINE S == Usable(w)
           n == Cardinality(S)
           p == PackTiers(w)
           k == Cardinality(Ahead(S, 1)) + 1
<1>1. S \subseteq Tiers /\ 1 \in S
  BY LadderAssumption DEF Usable, Base, DayAligned
<1>2. p = [i \in 1 .. n |-> CHOOSE t \in S : Cardinality(Ahead(S, t)) = i - 1]
  BY <1>1 DEF PackTiers
<1>3. Len(p) \in Nat /\ DOMAIN p = 1 .. Len(p)
  BY PackTiersType
<1> HIDE DEF S, n, p
<1>4. n \in Nat /\ Cardinality(Ahead(S, 1)) \in 0 .. n - 1
  BY <1>1, AheadFewer DEF n
<1>5. k \in 1 .. n /\ k - 1 = Cardinality(Ahead(S, 1))
  BY <1>4
<1>6. p[k] \in S /\ Cardinality(Ahead(S, p[k])) = k - 1
  BY <1>2, <1>5, <1>1
<1> DEFINE t == p[k]
<1> HIDE DEF t
<1>7. t = 1
  <2> SUFFICES ASSUME t # 1 PROVE FALSE
    OBVIOUS
  <2>1. t \in S /\ Cardinality(Ahead(S, t)) = k - 1
    BY <1>6 DEF t
  <2>2. Outranks(t, 1) \/ Outranks(1, t)
    BY <1>1, <2>1, OutranksOrder
  <2>3. Cardinality(Ahead(S, t)) = Cardinality(Ahead(S, 1)) /\ Cardinality(Ahead(S, 1)) \in Nat
    BY <1>4, <1>5, <2>1
  <2>4. /\ Outranks(t, 1) => Cardinality(Ahead(S, t)) < Cardinality(Ahead(S, 1))
        /\ Outranks(1, t) => Cardinality(Ahead(S, 1)) < Cardinality(Ahead(S, t))
    BY <1>1, <2>1, AheadFewer
  <2> QED BY <2>2, <2>3, <2>4
<1>8. DOMAIN p = 1 .. n
  BY <1>2
<1> QED BY <1>3, <1>5, <1>7, <1>8 DEF p, t

\* ... up to the finest tier's watermark, and from its earliest bin.
LEMMA SealedFills ==
    ASSUME NestedTiers, Base(1), NEW lg \in [Tiers -> Times], NEW er \in [Tiers -> Times],
           \A t \in Tiers : lg[t] \in Grid[1] \/ lg[1] <= lg[t], er[1] \in Grid[1],
           NEW w, NEW a \in Times, NEW b \in Times, NEW u \in Nat,
           a \in Grid[1], a <= u, u < b, u < lg[1], er[1] <= u
    PROVE  \E x \in PackSealed(PackTiers(w), lg, er, a, b) : x.from <= u /\ u < x.to
<1> DEFINE tiers == PackTiers(w)
           take == [t \in Tiers |-> [g \in Times \X Times |-> TakeSealed(t, lg, er, g[1], g[2])]]
<1>1. PackSealed(tiers, lg, er, a, b) = Pack(tiers, take, a, b)
  BY DEF PackSealed
<1>2. \A t \in Tiers, s, e \in Times : take[t][<<s, e>>] = TakeSealed(t, lg, er, s, e)
  OBVIOUS
<1> HIDE DEF take
<1>3. Takes(take)
  BY <1>2, SealedTaken DEF Takes
<1>4. PICK k \in 1 .. Len(tiers) : tiers[k] = 1
  BY FinestPacks
<1> HIDE DEF tiers
<1>5. IsOrder(tiers)
  BY OrderOfPack DEF tiers
<1>6. 1 \in Tiers /\ IsGrid(Grid[1]) /\ lg[1] \in Times /\ er[1] \in Times /\ lg[1] \in Nat /\ er[1] \in Nat
  <2>1. 1 \in Tiers
    BY LadderAssumption
  <2> QED BY <2>1, TierFacts, TimesNat
<1>7. ASSUME NEW s \in Grid[1], NEW e \in Times, s \in Times, s <= u, u < e
      PROVE  \E x \in take[tiers[k]][<<s, e>>] : x.from <= u /\ u < x.to
  <2> DEFINE upto  == Min({e, lg[1]})
             from  == Max({s, er[1]})
             first == Ceil(Grid[1], from)
             last  == Floor(Grid[1], upto)
  <2>1. upto \in {e, lg[1]} /\ upto \in Times /\ from \in {s, er[1]} /\ from \in Times
    <3>1. upto \in {e, lg[1]} /\ upto \in Times
      BY <1>6, MinMaxOf
    <3>2. from \in {s, er[1]} /\ from \in Times
      BY <1>6, <1>7, MinMaxOf
    <3> QED BY <3>1, <3>2
  <2>2. /\ (first < last => Atom(1, first, last) \in take[tiers[k]][<<s, e>>])
        /\ ((last < upto /\ last >= s /\ er[1] <= last) => Atom(1, last, upto) \in take[tiers[k]][<<s, e>>])
    BY <1>2, <1>4, <1>6, <1>7 DEF TakeSealed
  <2> HIDE DEF upto, from
  <2>3. /\ first \in Grid[1] /\ from <= first /\ \A y \in Grid[1] : y >= from => first <= y
        /\ last \in Grid[1] /\ last <= upto /\ \A y \in Grid[1] : y <= upto => y <= last
    BY <1>6, <2>1, CeilOf, FloorOf
  <2> HIDE DEF first, last
  <2>4. /\ upto \in Nat /\ from \in Nat /\ first \in Nat /\ last \in Nat /\ s \in Nat /\ e \in Nat
    <3>1. first \in Times /\ last \in Times
      BY <1>6, <2>3, GridFacts
    <3> QED BY <1>7, <2>1, <3>1, TimesNat
  <2>5. u < upto /\ from <= u /\ from \in Grid[1]
    BY <1>6, <1>7, <2>1
  <2>6. first <= u /\ s <= last /\ er[1] <= last
    <3>1. first <= from
      BY <2>3, <2>4, <2>5
    <3>2. s <= upto /\ er[1] <= upto
      BY <1>6, <1>7, <2>4, <2>5
    <3>3. s <= last /\ er[1] <= last
      BY <2>3, <3>2
    <3> QED BY <2>4, <2>5, <3>1, <3>3
  <2>7. CASE u < last
    <3>1. first < last
      BY <2>4, <2>6, <2>7
    <3>2. Atom(1, first, last).from = first /\ Atom(1, first, last).to = last
      BY DEF Atom
    <3> QED BY <2>2, <2>6, <2>7, <3>1, <3>2
  <2>8. CASE last <= u
    <3>1. last < upto /\ last >= s
      BY <2>4, <2>5, <2>6, <2>8
    <3>2. Atom(1, last, upto).from = last /\ Atom(1, last, upto).to = upto
      BY DEF Atom
    <3> QED BY <2>2, <2>5, <2>6, <2>8, <3>1, <3>2
  <2> QED BY <2>4, <2>7, <2>8
<1>8. ASSUME NEW t \in Tiers, NEW s \in Times, NEW e \in Times, NEW x \in take[t][<<s, e>>], s < e, u < e
      PROVE  (x.to <= u => x.to \in Grid[1]) /\ x.from \in Times
  <2>1. x \in TakeSealed(t, lg, er, s, e)
    BY <1>2
  <2>2. x.from \in Times /\ (x.to \in Grid[t] \/ x.to = e \/ x.to = lg[t])
    <3>1. /\ TakenOf(t, TakeSealed(t, lg, er, s, e), s, e)
          /\ \A y \in TakeSealed(t, lg, er, s, e) : y.to \in Grid[t] \/ y.to = e \/ y.to = lg[t]
      BY <1>8, SealedTaken
    <3> QED BY <2>1, <3>1 DEF TakenOf
  <2> DEFINE y == x.to
  <2>3. ASSUME x.to <= u PROVE x.to \in Grid[1]
    <3>1. e \in Nat /\ lg[t] \in Nat
      BY TimesNat
    <3>2. x.to # e
      BY <1>8, <2>3, <3>1
    <3>3. x.to = lg[t] => lg[t] \in Grid[1]
      BY <1>6, <2>3, <3>1
    <3>4. Grid[t] \subseteq Grid[1]
      BY <1>6, NestedGrid, LadderAssumption
    <3>5. y \in Grid[t] \/ y = lg[t]
      BY <2>2, <3>2
    <3> HIDE DEF y
    <3>6. y \in Grid[1]
      BY <3>3, <3>4, <3>5 DEF y
    <3> QED BY <3>6 DEF y
  <2> QED BY <2>2, <2>3
<1>9. TakesUnit(take, tiers[k], u, Grid[1], Times)
  BY <1>7 DEF TakesUnit
<1>10. LeavesUnit(take, u, Grid[1], Times)
  BY <1>8 DEF LeavesUnit
<1>11. \E x \in Pack(tiers, take, a, b) : x.from <= u /\ u < x.to
  BY <1>3, <1>5, <1>9, <1>10, PackFinds
<1> QED BY <1>1, <1>11 DEF tiers

\* ... and wherever a shard of the finest tier is registered.
LEMMA RegisteredFills ==
    ASSUME NestedTiers, Base(1), NEW held, held \subseteq Shards,
           NEW w, NEW a \in Times, NEW b \in Times, NEW u \in Nat,
           a \in Grid[1], b \in Grid[1], a <= u, u < b,
           NEW r \in held, TierOf(CellOf(r)) = 1, StartOf(r) <= u, u < EndOf(r)
    PROVE  \E x \in PackRegistered(PackTiers(w), held, a, b) : x.from <= u /\ u < x.to
<1> DEFINE tiers == PackTiers(w)
           take == [t \in Tiers |-> [g \in Times \X Times |-> TakeRegistered(t, held, g[1], g[2])]]
<1>1. PackRegistered(tiers, held, a, b) = Pack(tiers, take, a, b)
  BY DEF PackRegistered
<1>2. \A t \in Tiers, s, e \in Times : take[t][<<s, e>>] = TakeRegistered(t, held, s, e)
  OBVIOUS
<1> HIDE DEF take
<1>3. Takes(take)
  <2>1. \A t \in Tiers, s, e \in Times : TakenOf(t, TakeRegistered(t, held, s, e), s, e)
    BY RegisteredTaken
  <2> QED BY <1>2, <2>1 DEF Takes
<1>4. PICK k \in 1 .. Len(tiers) : tiers[k] = 1
  BY FinestPacks
<1> HIDE DEF tiers
<1>5. IsOrder(tiers)
  BY OrderOfPack DEF tiers
<1>6. 1 \in Tiers /\ IsGrid(Grid[1]) /\ Grid[1] \subseteq Times
  <2>1. 1 \in Tiers
    BY LadderAssumption
  <2> QED BY <2>1, TierFacts DEF IsGrid
<1>7. u \in Times /\ u < Horizon
  <2>1. b \in Nat /\ b <= Horizon /\ Horizon \in Nat
    BY TimesNat
  <2>2. u <= Horizon /\ u < Horizon
    BY <2>1
  <2> QED BY <2>2, TimesNat
<1> DEFINE c == Floor(Grid[1], u)
           d == After(Grid[1], c)
<1>8. c \in Grid[1] /\ c <= u /\ (\A y \in Grid[1] : y <= u => y <= c) /\ c \in Times /\ c \in Nat
  BY <1>6, <1>7, FloorOf, GridFacts
<1> HIDE DEF c
<1>9. c < Horizon
  BY <1>7, <1>8, TimesNat
<1>10. d \in Grid[1] /\ c < d /\ (\A y \in Grid[1] : y > c => d <= y) /\ d \in Times /\ d \in Nat
  <2>1. d \in Grid[1] /\ c < d /\ \A y \in Grid[1] : y > c => d <= y
    BY <1>6, <1>8, <1>9, AfterOf
  <2> QED BY <1>6, <2>1, GridFacts
<1> HIDE DEF d
<1>11. u < d
  <2>1. ~(d <= c)
    BY <1>8, <1>10
  <2>2. ~(d <= u)
    BY <1>8, <1>10, <2>1
  <2> QED BY <1>10, <2>2
<1>12. Held(Atom(1, c, d), held)
  <2>1. /\ StartOf(r) \in Grid[1] /\ EndOf(r) \in Grid[1] /\ StartOf(r) \in Nat /\ EndOf(r) \in Nat
    <3>1. r \in Shards
      OBVIOUS
    <3>2. StartOf(r) \in Edges(CellOf(r)) /\ EndOf(r) \in Edges(CellOf(r)) /\ Edges(CellOf(r)) \subseteq Grid[1]
      BY <3>1, ShardFacts, CellFacts
    <3> QED BY <1>6, <3>2, GridFacts
  <2>2. StartOf(r) <= c
    BY <1>8, <2>1
  <2>3. d <= EndOf(r)
    <3>1. EndOf(r) > c
      BY <1>8, <2>1
    <3> QED BY <1>10, <2>1, <3>1
  <2> DEFINE x == Atom(1, c, d)
  <2>4. x.tier = 1 /\ x.from = c /\ x.to = d
    BY DEF Atom
  <2>5. EndOf(r) >= d
    BY <1>10, <2>1, <2>3
  <2> HIDE DEF x
  <2>6. Held(x, held)
    BY <2>2, <2>4, <2>5 DEF Held
  <2> QED BY <2>6 DEF x
<1>13. ASSUME NEW s \in Grid[1], NEW e \in Grid[1], s \in Times, e \in Times, s <= u, u < e
       PROVE  \E x \in take[tiers[k]][<<s, e>>] : x.from <= u /\ u < x.to
  <2>1. s <= c
    BY <1>8, <1>13
  <2>2. d <= e
    <3>1. e \in Nat
      BY <1>13, TimesNat
    <3>2. e > c
      BY <1>8, <1>13, <3>1
    <3> QED BY <1>10, <1>13, <3>2
  <2>3. c \in Grid[1] \ {Horizon} /\ d = After(Grid[1], c)
    BY <1>8, <1>9, TimesNat DEF d
  <2>4. Atom(1, c, d) \in BinsInside(1, s, e)
    BY <2>1, <2>2, <2>3 DEF BinsInside
  <2>5. Atom(1, c, d) \in take[tiers[k]][<<s, e>>]
    BY <1>2, <1>4, <1>6, <1>12, <1>13, <2>4 DEF TakeRegistered
  <2> DEFINE x == Atom(1, c, d)
  <2>6. x.from = c /\ x.to = d
    BY DEF Atom
  <2>7. x \in take[tiers[k]][<<s, e>>] /\ x.from <= u /\ u < x.to
    BY <1>8, <1>11, <2>5, <2>6
  <2> QED BY <2>7
<1>14. ASSUME NEW t \in Tiers, NEW s \in Times, NEW e \in Times, NEW x \in take[t][<<s, e>>], s < e
       PROVE  x.to \in Grid[1] /\ x.from \in Grid[1]
  <2>1. x \in TakeRegistered(t, held, s, e)
    BY <1>2
  <2>2. x.from \in Grid[t] /\ x.to \in Grid[t]
    BY <2>1, RegisteredTaken DEF TakenOf
  <2>3. Grid[t] \subseteq Grid[1]
    BY <1>6, NestedGrid, LadderAssumption
  <2> QED BY <2>2, <2>3
<1>15. TakesUnit(take, tiers[k], u, Grid[1], Grid[1])
  BY <1>13 DEF TakesUnit
<1>16. LeavesUnit(take, u, Grid[1], Grid[1])
  BY <1>14 DEF LeavesUnit
<1>17. \E x \in Pack(tiers, take, a, b) : x.from <= u /\ u < x.to
  BY <1>3, <1>5, <1>15, <1>16, PackFinds
<1> QED BY <1>1, <1>17 DEF tiers


-----------------------------------------------------------------------------
(* What is planned is in an atom. *)

LEMMA VisibleFacts ==
    ASSUME InputsInv, NEW b \in Visible, NEW u \in b .. After(OutGrid, b) - 1
    PROVE  /\ b \in OutGrid /\ b \in Times /\ b \in Nat /\ b < Horizon /\ query.from <= b /\ b < query.to
           /\ After(OutGrid, b) \in OutGrid /\ After(OutGrid, b) \in Nat /\ After(OutGrid, b) \in Times
           /\ u \in Nat /\ u \in Times /\ u < Horizon /\ b <= u /\ u < After(OutGrid, b)
<1>1. IsGrid(OutGrid) /\ query.to \in Nat /\ query.from \in Nat /\ query.to \in Times
  BY QueryFacts DEF InputsInv
<1>2. b \in OutGrid /\ query.from <= b /\ b < query.to
  BY DEF Visible
<1>3. b \in Times /\ b \in Nat /\ b < Horizon
  <2>1. b \in Times /\ b \in Nat
    BY <1>1, <1>2, GridFacts
  <2>2. query.to <= Horizon /\ Horizon \in Nat
    BY <1>1, TimesNat
  <2> QED BY <1>1, <1>2, <2>1, <2>2
<1> DEFINE e == After(OutGrid, b)
<1>4. e \in OutGrid /\ e \in Nat /\ e \in Times /\ e <= Horizon
  <2>1. e \in OutGrid
    BY <1>1, <1>3, AfterOf
  <2> HIDE DEF e
  <2> QED BY <1>1, <2>1, GridFacts
<1> HIDE DEF e
<1>5. u \in b .. e - 1
  BY DEF e
<1>6. u \in Nat /\ u < Horizon /\ b <= u /\ u < e
  <2>1. Horizon \in Nat
    BY TimesNat
  <2> QED BY <1>3, <1>4, <1>5, <2>1
<1>7. u \in Times
  BY <1>6, TimesNat
<1> QED BY <1>2, <1>3, <1>4, <1>6, <1>7 DEF e

LEMMA WalkGives ==
    ASSUME InputsInv, StartInv, NestedTiers, ~Ragged, cursor \in Times, cursor < PlannedTo, Sources(cursor) # {},
           NEW s, s = Best(Sources(cursor)),
           NEW b \in Visible, NEW u \in b .. After(OutGrid, b) - 1, Suffices(b, u), cursor <= u, u < SegTo(s)
    PROVE  \E x \in Walked(s) : Gives(x, b, u)
<1> DEFINE t == TierOf(s.cell)
           f == Floor(Grid[t], u)
<1>1. /\ s \in Sources(cursor) /\ cursor < Horizon
      /\ SegTo(s) \in Times /\ SegFrom(s) \in {cursor, earliest[t]}
  BY SegmentFacts
<1>2. s.cell \in Cells /\ t <= OutTier
  BY <1>1, SourceFacts
<1>3. t \in Tiers /\ OutTier \in Tiers /\ OutGrid = Grid[OutTier]
  BY <1>2, CellFacts, QueryFacts DEF InputsInv
<1>4. OutGrid \subseteq Grid[t] /\ IsGrid(Grid[t])
  BY <1>2, <1>3, NestedGrid, TierFacts
<1>5. /\ b \in OutGrid /\ b \in Nat /\ query.from <= b /\ u \in Nat /\ u \in Times /\ b <= u
  BY VisibleFacts
<1>6. early \in [Tiers -> Times] /\ earliest = [x \in Tiers |-> Earliest(early, x)]
  BY DEF InputsInv, GivenInv
<1>7. earliest[t] <= b
  <2>1. earliest[OutTier] <= b
    BY DEF Suffices
  <2>2. earliest[t] <= earliest[OutTier]
    BY <1>2, <1>3, <1>6, EarliestGrows
  <2>3. earliest[t] \in Nat /\ earliest[OutTier] \in Nat
    BY <1>3, GivenFacts, TimesNat
  <2> QED BY <1>5, <2>1, <2>2, <2>3
<1> HIDE DEF t
<1>8. f \in Grid[t] /\ f <= u /\ (\A y \in Grid[t] : y <= u => y <= f) /\ f \in Nat
  BY <1>4, <1>5, FloorOf, GridFacts
<1>9. b <= f
  BY <1>4, <1>5, <1>8
<1>10. cursor <= f
  <2>1. CASE cursor = PlannedFrom
    <3>1. PlannedFrom <= query.from /\ PlannedFrom \in Nat /\ query.from \in Nat
      BY GivenFacts, QueryFacts DEF InputsInv
    <3> QED BY <1>5, <1>8, <1>9, <2>1, <3>1
  <2>2. CASE cursor \in Grid[t]
    BY <1>8, <2>2
  <2> QED BY <2>1, <2>2 DEF StartInv, t
<1>11. SegFrom(s) <= f
  <2>1. earliest[t] \in Nat
    BY <1>3, GivenFacts, TimesNat
  <2> QED BY <1>1, <1>5, <1>7, <1>8, <1>9, <1>10, <2>1
<1>12. SegFrom(s) < SegTo(s)
  <2>1. SegFrom(s) \in Nat /\ SegTo(s) \in Nat
    BY <1>1, SegmentFacts, TimesNat
  <2> QED BY <1>5, <1>8, <1>11, <2>1
<1> DEFINE x == [cell |-> s.cell, from |-> SegFrom(s), to |-> SegTo(s)]
<1>13. x \in Walked(s) /\ x.cell = s.cell /\ x.from = SegFrom(s) /\ x.to = SegTo(s)
  BY <1>12 DEF Walked
<1> HIDE DEF x
<1>14. Gives(x, b, u)
  BY <1>9, <1>11, <1>13 DEF Gives, t
<1> QED BY <1>13, <1>14

\* An atom of a packed bin that holds the unit gives it.
LEMMA PackedGives ==
    ASSUME NEW a \in Times, NEW p, p.tier \in Tiers, p.from \in Grid[p.tier], a <= p.from,
           NEW u \in Times, p.from <= u, u < p.to
    PROVE  Gives(InCell(p), a, u)
<1> DEFINE x == InCell(p)
<1>1. TierOf(x.cell) = p.tier /\ x.from = p.from /\ x.to = p.to
  BY TierFacts DEF InCell
<1>2. IsGrid(Grid[p.tier])
  BY TierFacts
<1>3. p.from <= Floor(Grid[p.tier], u) /\ Floor(Grid[p.tier], u) \in Grid[p.tier]
  BY <1>2, FloorOf
<1>4. a \in Nat /\ p.from \in Nat /\ Floor(Grid[p.tier], u) \in Nat
  BY <1>2, <1>3, GridFacts, TimesNat
<1>5. a <= Floor(Grid[p.tier], u)
  BY <1>3, <1>4
<1> HIDE DEF x
<1> QED BY <1>1, <1>3, <1>5 DEF Gives, x

\* A chain holds every unit between its ends.
LEMMA ChainHome ==
    ASSUME NEW atomSet, NEW a, NEW b, Between(atomSet, a, b), NEW p, Chain(p, atomSet, a, b),
           NEW u \in Nat, a <= u, u < b
    PROVE  \E i \in 1 .. Len(p) : p[i].from <= u /\ u < p[i].to
<1>1. Len(p) \in Nat /\ \A i \in 1 .. Len(p) : p[i].from \in Nat /\ p[i].to \in Nat /\ p[i] \in atomSet
  BY DEF Chain, Between
<1>2. a \in Nat /\ b \in Nat
  BY DEF Between
<1>3. p # <<>>
  BY <1>2 DEF Chain
<1>4. p[1].from = a /\ p[Len(p)].to = b /\ 1 \in 1 .. Len(p)
  <2>1. p[1].from = a /\ p[Len(p)].to = b
    BY <1>3 DEF Chain
  <2>2. Len(p) # 0
    BY <1>3 DEF Chain
  <2> QED BY <1>1, <2>1, <2>2
<1> DEFINE Before == {i \in 1 .. Len(p) : p[i].from <= u}
<1>5. Before \subseteq 0 .. Len(p) /\ Before # {}
  <2>1. 1 \in 1 .. Len(p) /\ p[1].from <= u
    BY <1>4
  <2>2. 1 \in Before
    BY <2>1
  <2> QED BY <1>1, <2>2
<1>6. PICK i \in Before : \A j \in Before : j <= i
  BY <1>1, <1>5, GreatestIn
<1>7. i \in 1 .. Len(p) /\ p[i].from <= u
  BY <1>6
<1>8. u < p[i].to
  <2> SUFFICES ASSUME ~(u < p[i].to) PROVE FALSE
    OBVIOUS
  <2>1. i # Len(p)
    BY <1>1, <1>2, <1>4, <1>7
  <2>2. i + 1 \in 1 .. Len(p) /\ i + 1 > i
    BY <1>1, <1>7, <2>1
  <2>3. p[i].to = p[i + 1].from
    BY <1>7, <2>2 DEF Chain
  <2>4. p[i + 1].from <= u
    BY <1>1, <1>7, <2>2, <2>3
  <2>5. i + 1 \in Before
    BY <2>2, <2>4
  <2> HIDE DEF Before
  <2>6. i + 1 <= i
    BY <1>6, <2>5
  <2> QED BY <1>1, <1>7, <2>2, <2>6
<1> QED BY <1>7, <1>8

\* The bins of a tier, one after the other.
LEMMA BinChain ==
    ASSUME NEW t \in Tiers, NEW atomSet, NEW a \in Grid[t], NEW b \in Grid[t], Between(atomSet, a, b),
           \A c \in Grid[t] : (a <= c /\ c < b) => Atom(t, c, After(Grid[t], c)) \in atomSet, a <= b
    PROVE  \E p : Chain(p, atomSet, a, b)
<1> DEFINE Bad == {c \in Grid[t] : a <= c /\ c <= b /\ ~\E p : Chain(p, atomSet, c, b)}
<1>1. IsGrid(Grid[t]) /\ Horizon \in Nat /\ a \in Nat /\ b \in Nat /\ b <= Horizon
  BY TierFacts, GridFacts, TimesNat
<1>2. ASSUME Bad # {} PROVE FALSE
  <2>1. Bad \subseteq 0 .. Horizon
    BY <1>1, GridFacts
  <2>2. PICK c \in Bad : \A y \in Bad : y <= c
    BY <1>1, <1>2, <2>1, GreatestIn
  <2>3. c \in Grid[t] /\ a <= c /\ c <= b /\ ~(\E p : Chain(p, atomSet, c, b)) /\ c \in Nat /\ c \in Times
    <3>1. c \in Grid[t] /\ a <= c /\ c <= b /\ ~\E p : Chain(p, atomSet, c, b)
      BY <2>2
    <3> HIDE DEF Bad
    <3> QED BY <1>1, <3>1, GridFacts
  <2>4. c # b
    <3>1. Chain(<<>>, atomSet, b, b)
      BY DEF Chain
    <3> QED BY <2>3, <3>1
  <2> DEFINE d == After(Grid[t], c)
             x == Atom(t, c, d)
  <2>5. c < b /\ c < Horizon
    BY <1>1, <2>3, <2>4
  <2>6. d \in Grid[t] /\ c < d /\ d <= b /\ d \in Nat
    <3>1. d \in Grid[t] /\ c < d /\ \A y \in Grid[t] : y > c => d <= y
      BY <1>1, <2>3, <2>5, AfterOf
    <3> HIDE DEF d
    <3>2. d \in Nat /\ b > c
      BY <1>1, <2>3, <2>5, <3>1, GridFacts
    <3> QED BY <3>1, <3>2
  <2>7. x \in atomSet /\ x.from = c /\ x.to = d
    BY <2>3, <2>5 DEF Atom
  <2> HIDE DEF d, x
  <2>8. d \notin Bad
    <3>1. ~(d <= c)
      BY <2>3, <2>6
    <3> QED BY <2>2, <3>1
  <2>9. \E p : Chain(p, atomSet, d, b)
    <3>1. a <= d
      BY <1>1, <2>3, <2>6
    <3> QED BY <2>6, <2>8, <3>1
  <2>10. PICK p : Chain(p, atomSet, d, b)
    BY <2>9
  <2>11. Chain(<<x>> \o p, atomSet, c, b)
    BY <2>7, <2>10, ChainCons
  <2> HIDE DEF Bad
  <2> QED BY <2>3, <2>11
<1>3. a \notin Bad
  BY <1>2
<1> QED BY <1>1, <1>3


LEMMA FixedGives ==
    ASSUME InputsInv, ChosenInv, NestedTiers, TargetsServed, Ragged, ~Target.calendar,
           NEW a \in Visible, NEW u \in a .. After(OutGrid, a) - 1, Suffices(a, u)
    PROVE  \E x \in BinAtoms(a, After(OutGrid, a)) : Gives(x, a, u)
<1> DEFINE b == After(OutGrid, a)
           usable == FixedAtoms(a, b)
           path == Decompose(usable, a, b)
<1>1. /\ a \in OutGrid /\ a \in Times /\ a \in Nat /\ a < Horizon
      /\ b \in OutGrid /\ b \in Nat /\ b \in Times
      /\ u \in Nat /\ u \in Times /\ a <= u /\ u < b
  BY VisibleFacts
<1>2. 1 \in Tiers /\ IsGrid(Grid[1])
  BY LadderAssumption, TierFacts
<1>3. Base(1) /\ OutGrid \subseteq Grid[1] /\ Width[1] <= Target.width
  BY QueryFacts DEF InputsInv, ChosenInv, TargetsServed, Ragged, Target
<1>4. /\ FromWm => largest[1] >= b /\ earliest[1] <= a
      /\ ~FromWm => \A x \in a .. b - 1 :
                       \E s \in inventory : TierOf(CellOf(s)) = 1 /\ StartOf(s) <= x /\ x < EndOf(s)
  BY DEF Suffices
<1> HIDE DEF b
<1>5. a < b
  BY <1>1
<1>6. ASSUME NEW c \in Grid[1], a <= c, c < b
      PROVE  Atom(1, c, After(Grid[1], c)) \in usable
  <2> DEFINE d == After(Grid[1], c)
             x == Atom(1, c, d)
  <2>1. c \in Times /\ c \in Nat /\ c < Horizon
    <3>1. c \in Times /\ c \in Nat /\ b <= Horizon /\ Horizon \in Nat
      BY <1>1, <1>2, GridFacts, TimesNat
    <3> QED BY <1>1, <1>6, <3>1
  <2>2. d \in Grid[1] /\ c < d /\ (\A y \in Grid[1] : y > c => d <= y) /\ d \in Nat
    <3>1. d \in Grid[1] /\ c < d /\ \A y \in Grid[1] : y > c => d <= y
      BY <1>2, <2>1, AfterOf
    <3> QED BY <1>2, <3>1, GridFacts
  <2>3. x = Atom(1, c, d) /\ x.tier = 1 /\ x.from = c /\ x.to = d
    BY DEF Atom
  <2>4. x \in BinsInside(1, a, b)
    <3>1. b > c /\ b \in Grid[1]
      BY <1>1, <1>3, <1>6, <2>1
    <3>2. d <= b
      BY <2>2, <3>1
    <3>3. c # Horizon
      BY <2>1, TimesNat
    <3> QED BY <1>6, <3>2, <3>3 DEF BinsInside
  <2>5. 1 \in {t \in {t \in Tiers \ Calendar : Width[t] <= Target.width} : FromWm => largest[t] >= b /\ earliest[t] <= a}
    BY <1>2, <1>3, <1>4 DEF Base
  <2>6. FromWm \/ Held(x, inventory)
    <3> SUFFICES ASSUME ~FromWm PROVE Held(x, inventory)
      OBVIOUS
    <3>1. c \in a .. b - 1
      BY <1>1, <1>6, <2>1
    <3>2. PICK s \in inventory : TierOf(CellOf(s)) = 1 /\ StartOf(s) <= c /\ c < EndOf(s)
      BY <1>4, <3>1
    <3>3. s \in Shards
      BY DEF InputsInv, GivenInv
    <3>4. EndOf(s) \in Grid[1] /\ EndOf(s) \in Nat
      BY <1>2, <3>2, <3>3, ShardFacts, CellFacts, GridFacts
    <3>5. EndOf(s) >= d
      <4>1. EndOf(s) > c
        BY <2>1, <3>2, <3>4
      <4>2. d <= EndOf(s)
        BY <2>2, <3>4, <4>1
      <4> QED BY <2>2, <3>4, <4>2
    <3> HIDE DEF d, x
    <3> QED BY <2>3, <3>2, <3>5 DEF Held
  <2> HIDE DEF d, x
  <2>7. x \in usable
    BY <2>4, <2>5, <2>6 DEF FixedAtoms
  <2> QED BY <2>3, <2>7 DEF d
<1>7. Between(usable, a, b)
  BY <1>1, <1>5, FixedFacts
<1> HIDE DEF usable
<1>8. \E q : Chain(q, usable, a, b)
  <2>1. a \in Grid[1] /\ b \in Grid[1] /\ a <= b
    BY <1>1, <1>3
  <2> QED BY <1>2, <1>6, <1>7, <2>1, BinChain
<1>9. Chain(path, usable, a, b)
  <2>1. a <= b /\ a \in a .. b
    BY <1>1
  <2>2. PICK f : /\ path = f[a]
                 /\ \A c \in a .. b : f[c] = IF c = b THEN <<>> ELSE Solve(f, usable, c)
    BY <1>7, <2>1, PathIs
  <2> HIDE DEF path
  <2>3. /\ f[a] = NoPath \/ Chain(f[a], usable, a, b)
        /\ \A q : Chain(q, usable, a, b) => f[a] # NoPath
    BY <1>7, <2>1, <2>2, PathsShortest
  <2> QED BY <1>8, <2>2, <2>3
<1> HIDE DEF path
<1>10. PICK i \in 1 .. Len(path) : path[i].from <= u /\ u < path[i].to
  BY <1>1, <1>7, <1>9, ChainHome
<1>11. path # NoPath /\ path[i] \in usable /\ i \in DOMAIN path
  BY <1>7, <1>9, ChainIsPath, ChainOrdered
<1>12. path[i].tier \in Tiers /\ path[i].from \in Grid[path[i].tier] /\ a <= path[i].from
  BY <1>1, <1>5, <1>11, FixedFacts DEF usable
<1>13. Gives(InCell(path[i]), a, u)
  BY <1>1, <1>10, <1>12, PackedGives
<1>14. InCell(path[i]) \in BinAtoms(a, b)
  BY <1>11 DEF BinAtoms, path, usable
<1> QED BY <1>13, <1>14 DEF b

LEMMA CalendarGives ==
    ASSUME InputsInv, ChosenInv, NestedTiers, TargetsServed, Aligned, Ragged, Target.calendar,
           NEW a \in Visible, NEW u \in a .. After(OutGrid, a) - 1, Suffices(a, u)
    PROVE  \E x \in CalendarAtoms(a, After(OutGrid, a)) : Gives(InCell(x), a, u)
<1> DEFINE b == After(OutGrid, a)
<1>1. /\ a \in OutGrid /\ a \in Times /\ a \in Nat /\ a < Horizon /\ a < query.to
      /\ b \in OutGrid /\ b \in Nat /\ b \in Times
      /\ u \in Nat /\ u \in Times /\ a <= u /\ u < b
  BY VisibleFacts
<1>2. 1 \in Tiers /\ IsGrid(Grid[1])
  BY LadderAssumption, TierFacts
<1>3. Base(1) /\ OutGrid \subseteq Grid[1] /\ OutGrid = Target.grid
  BY QueryFacts DEF InputsInv, ChosenInv, TargetsServed, Ragged, Target
<1>4. /\ FromWm => earliest[1] <= u /\ u < largest[1]
      /\ ~FromWm => \E s \in inventory : TierOf(CellOf(s)) = 1 /\ StartOf(s) <= u /\ u < EndOf(s)
  BY DEF Suffices
<1> SUFFICES \E x \in CalendarAtoms(a, b) : Gives(InCell(x), a, u)
  OBVIOUS
<1> HIDE DEF b
<1>5. /\ PlannedTo \in Times /\ PlannedTo \in Nat /\ query.to <= PlannedTo /\ query.to \in Nat
      /\ largest \in [Tiers -> Times] /\ earliest \in [Tiers -> Times] /\ largest[1] <= PlannedTo
      /\ largest[1] \in Nat
  <2>1. largest \in [Tiers -> Times] /\ largest[1] <= PlannedTo
    BY <1>2, GivenFacts
  <2>2. largest[1] \in Nat
    BY <1>2, <2>1, TimesNat
  <2> QED BY <2>1, <2>2, GivenFacts, QueryFacts DEF InputsInv
<1>6. a < b /\ a < PlannedTo
  BY <1>1, <1>5
<1>7. ASSUME NEW x \in CalendarAtoms(a, b), x.from <= u, u < x.to
      PROVE  Gives(InCell(x), a, u)
  <2>1. PackedAtom(x, a, b)
    BY <1>1, <1>6, CalendarPacked
  <2>2. x.tier \in Tiers /\ x.from \in Grid[x.tier] /\ a <= x.from
    BY <2>1 DEF PackedAtom
  <2> QED BY <1>1, <1>7, <2>2, PackedGives
<1>8. CASE Exact(a, b) # {}
  <2>1. PICK t \in Exact(a, b) : TRUE
    BY <1>8
  <2> DEFINE x == Atom(t, a, b)
  <2>2. x \in CalendarAtoms(a, b)
    BY <1>8 DEF CalendarAtoms
  <2>3. x.from = a /\ x.to = b
    BY DEF Atom
  <2> HIDE DEF x
  <2> QED BY <1>1, <1>7, <2>2, <2>3
<1>9. CASE Exact(a, b) = {} /\ FromWm
  <2> DEFINE e == Min({b, PlannedTo})
  <2>1. CalendarAtoms(a, b) = PackSealed(PackTiers(Target.width), largest, earliest, a, e)
    BY <1>9 DEF CalendarAtoms
  <2>2. e \in Times /\ e \in {b, PlannedTo} /\ e \in Nat
    BY <1>1, <1>5, MinMaxOf, TimesNat
  <2> HIDE DEF e
  <2>3. u < e
    BY <1>1, <1>4, <1>5, <1>9, <2>2
  <2>4. /\ declared \in [Cells -> 0 .. Far] /\ early \in [Tiers -> Times]
        /\ \A t \in Tiers : largest[t] = Largest(declared, t, PlannedTo)
        /\ earliest[1] = Earliest(early, 1)
    BY <1>2 DEF InputsInv, GivenInv
  <2>5. OnBins(declared)
    BY <1>9 DEF ChosenInv, Aligned, OnBins
  <2>6. \A t \in Tiers : largest[t] \in Grid[1] \/ largest[1] <= largest[t]
    <3> SUFFICES ASSUME NEW t \in Tiers PROVE largest[t] \in Grid[1] \/ largest[1] <= largest[t]
      OBVIOUS
    <3>1. Largest(declared, t, PlannedTo) = PlannedTo \/ Largest(declared, t, PlannedTo) \in Grid[1]
      BY <1>5, <2>4, <2>5, LargestMeets
    <3> QED BY <1>5, <2>4, <3>1
  <2>7. earliest[1] \in Grid[1]
    <3>1. earliest[1] = early[1]
      BY <2>4, EarliestFinest
    <3>2. early[1] \in Grid[1]
      BY <1>2 DEF ChosenInv, Aligned
    <3> QED BY <3>1, <3>2
  <2>8. a \in Grid[1] /\ u < largest[1] /\ earliest[1] <= u
    BY <1>1, <1>3, <1>4, <1>9
  <2> DEFINE w == Target.width
  <2>9. \E x \in PackSealed(PackTiers(w), largest, earliest, a, e) : x.from <= u /\ u < x.to
    <3> HIDE DEF w
    <3> QED BY <1>1, <1>3, <1>5, <2>2, <2>3, <2>6, <2>7, <2>8, SealedFills
  <2> QED BY <1>7, <2>1, <2>9
<1>10. CASE Exact(a, b) = {} /\ ~FromWm
  <2>1. CalendarAtoms(a, b) = PackRegistered(PackTiers(Target.width), inventory, a, b)
    BY <1>10 DEF CalendarAtoms
  <2>2. PICK r \in inventory : TierOf(CellOf(r)) = 1 /\ StartOf(r) <= u /\ u < EndOf(r)
    BY <1>4, <1>10
  <2>3. inventory \subseteq Shards /\ a \in Grid[1] /\ b \in Grid[1]
    BY <1>1, <1>3 DEF InputsInv, GivenInv
  <2>4. \E x \in PackRegistered(PackTiers(Target.width), inventory, a, b) : x.from <= u /\ u < x.to
    BY <1>1, <1>3, <2>2, <2>3, RegisteredFills
  <2> QED BY <1>7, <2>1, <2>4
<1> QED BY <1>8, <1>9, <1>10

LEMMA FillInit == InputsInv /\ Init => FillInv
<1> SUFFICES ASSUME InputsInv, Init, NEW b \in Visible, NEW u \in b .. After(OutGrid, b) - 1
             PROVE  ~(IF Ragged THEN b < cursor ELSE u < cursor)
  BY DEF FillInv
<1>1. /\ b \in OutGrid /\ b \in Times /\ b \in Nat /\ u \in Nat /\ b <= u /\ query.from <= b
      /\ query.from \in Nat /\ IsGrid(OutGrid)
  BY VisibleFacts, QueryFacts DEF InputsInv
<1>2. PlannedFrom <= query.from /\ PlannedFrom \in Nat /\ PlannedFrom \in Times
  BY GivenFacts
<1>3. CASE Ragged
  <2>1. cursor = Floor(OutGrid, PlannedFrom)
    BY <1>3 DEF Init
  <2>2. cursor \in OutGrid /\ cursor <= PlannedFrom
    BY <1>1, <1>2, <2>1, FloorOf
  <2>3. cursor \in Nat
    BY <1>1, <2>2, TimesNat DEF IsGrid
  <2> QED BY <1>1, <1>2, <1>3, <2>2, <2>3
<1>4. CASE ~Ragged
  <2>1. cursor = PlannedFrom
    BY <1>4 DEF Init
  <2> QED BY <1>1, <1>2, <1>4, <2>1
<1> QED BY <1>3, <1>4

LEMMA FillStep ==
    ASSUME NestedTiers, TargetsServed, Aligned, TypeInv, TypeInv', ChosenInv, StartInv, FillInv, [Next]_vars
    PROVE  FillInv'
<1>0. InputsInv /\ cursor \in Times /\ cursor \in Nat /\ (Ragged => cursor \in OutGrid)
  BY TimesNat DEF TypeInv
<1>1. UNCHANGED inputs /\ (StepStays \/ StepWalks \/ StepPacks)
  BY StepKinds
<1>2. /\ Ragged' = Ragged /\ OutGrid' = OutGrid /\ Visible' = Visible
      /\ \A b, u : Suffices(b, u)' <=> Suffices(b, u)
  BY <1>1, WalkKept
<1>3. ASSUME \A b \in Visible : \A u \in b .. After(OutGrid, b) - 1 :
                (Suffices(b, u) /\ IF Ragged THEN b < cursor' ELSE u < cursor') => \E x \in atoms' : Gives(x, b, u)
      PROVE  FillInv'
  BY <1>2, <1>3 DEF FillInv, Gives, After
<1> SUFFICES ASSUME NEW b \in Visible, NEW u \in b .. After(OutGrid, b) - 1,
                    Suffices(b, u), IF Ragged THEN b < cursor' ELSE u < cursor'
             PROVE  \E x \in atoms' : Gives(x, b, u)
  BY <1>3
<1>4. (IF Ragged THEN b < cursor ELSE u < cursor) => \E x \in atoms : Gives(x, b, u)
  BY DEF FillInv
<1>5. b \in OutGrid /\ b \in Nat /\ u \in Nat
  BY <1>0, VisibleFacts
<1>6. CASE StepStays
  BY <1>4, <1>6 DEF StepStays
<1>7. CASE StepWalks
  <2> DEFINE s == Best(Sources(cursor))
  <2>1. /\ ~Ragged /\ cursor < PlannedTo /\ Sources(cursor) # {} /\ cursor' = SegTo(s)
        /\ atoms' = atoms \cup Walked(s)
    BY <1>7 DEF StepWalks
  <2> HIDE DEF s
  <2>2. CASE u < cursor
    BY <1>4, <2>1, <2>2
  <2>3. CASE cursor <= u
    <3>1. u < SegTo(s)
      BY <2>1
    <3>2. \E x \in Walked(s) : Gives(x, b, u)
      BY <1>0, <2>1, <2>3, <3>1, WalkGives DEF s
    <3> QED BY <2>1, <3>2
  <2> QED BY <1>0, <1>5, <2>2, <2>3
<1>8. CASE StepPacks
  <2>1. Ragged /\ cursor < PlannedTo /\ cursor' = BinEnd /\ atoms' = atoms \cup Filled(cursor, BinEnd)
    BY <1>8 DEF StepPacks
  <2>2. /\ BinEnd \in OutGrid /\ cursor < BinEnd /\ BinEnd \in Nat /\ cursor < Horizon /\ cursor \in OutGrid
    BY <1>0, <2>1, BinEndFacts
  <2>3. CASE b < cursor
    BY <1>4, <2>1, <2>3
  <2>4. CASE ~(b < cursor)
    <3>1. b = cursor
      <4>1. IsGrid(OutGrid)
        BY <1>0, QueryFacts DEF InputsInv
      <4>2. b > cursor => BinEnd <= b
        BY <1>0, <1>5, <2>2, <4>1, AfterOf DEF BinEnd
      <4>3. b < BinEnd
        BY <2>1
      <4> QED BY <1>0, <1>5, <2>2, <2>4, <4>2, <4>3
    <3>2. BinEnd = After(OutGrid, b)
      BY <3>1 DEF BinEnd
    <3>3. \E x \in Filled(b, After(OutGrid, b)) : Gives(x, b, u)
      <4>1. CASE Target.calendar
        <5>1. \E x \in CalendarAtoms(b, After(OutGrid, b)) : Gives(InCell(x), b, u)
          BY <1>0, <2>1, <4>1, CalendarGives
        <5> QED BY <4>1, <5>1 DEF Filled
      <4>2. CASE ~Target.calendar
        BY <1>0, <2>1, <4>2, FixedGives DEF Filled
      <4> QED BY <4>1, <4>2
    <3> QED BY <2>1, <3>1, <3>2, <3>3
  <2> QED BY <2>3, <2>4
<1> QED BY <1>1, <1>6, <1>7, <1>8


-----------------------------------------------------------------------------
(* From an atom to the rows that are read. *)

\* An atom is in the segment of a head.
LEMMA HeadOf ==
    ASSUME AtomsApart, NEW x \in atoms
    PROVE  \E h \in Heads : /\ h \in atoms /\ h.cell = x.cell /\ h.from <= x.from /\ x.to <= RunEnd(h)
                            /\ FromWm \/ Ragged \/ h.from = x.from
<1>0. AtomsTyped /\ \A y \in atoms : y.from \in Nat /\ y.to \in Nat /\ y.from < y.to
  BY AtomTimes DEF AtomsApart
<1> DEFINE Starts == {y \in atoms : y.from <= x.from /\ Linked(y, x)}
           S == {y.from : y \in Starts}
<1>1. Linked(x, x)
  BY <1>0 DEF Linked
<1>2. x \in Starts
  BY <1>0, <1>1
<1>3. S \subseteq Nat /\ S # {}
  BY <1>0, <1>2
<1> HIDE DEF S
<1>4. PICK h \in Starts : \A y \in Starts : h.from <= y.from
  <2>1. PICK n \in S : \A m \in S : n <= m
    BY <1>3, LeastIn
  <2>2. PICK h \in Starts : h.from = n
    BY <2>1 DEF S
  <2>3. \A y \in Starts : y.from \in S
    BY DEF S
  <2> QED BY <2>1, <2>2, <2>3
<1>5. h \in atoms /\ h.from <= x.from /\ Linked(h, x)
  BY <1>4
<1>6. \A y \in atoms : (y.from <= x.from /\ Linked(y, x)) => h.from <= y.from
  BY <1>4
<1> HIDE DEF Starts
<1>7. ASSUME NEW p \in atoms, Joins(p, h) PROVE FALSE
  <2>1. p.to = h.from
    BY <1>7 DEF Joins
  <2>2. p.from < h.from /\ p.from <= x.from
    BY <1>0, <1>5, <2>1
  <2>3. Linked(p, x)
    <3> SUFFICES ASSUME NEW b \in atoms, p.from < b.from, b.from <= x.from
                 PROVE  \E q \in atoms : Joins(q, b)
      BY DEF Linked
    <3>1. CASE h.from < b.from
      BY <1>5, <3>1 DEF Linked
    <3>2. CASE b.from <= h.from
      <4>1. b = h
        <5>1. b = p \/ Apart(b, p)
          BY DEF AtomsApart
        <5>2. b = h \/ Apart(b, h)
          BY <1>5 DEF AtomsApart
        <5>3. b # p
          BY <1>0
        <5>4. p.to <= b.from
          BY <1>0, <5>1, <5>3 DEF Apart
        <5>5. b.from = h.from
          BY <1>0, <1>5, <2>1, <3>2, <5>4
        <5> QED BY <1>0, <1>5, <5>2, <5>5 DEF Apart
      <4> QED BY <1>7, <4>1
    <3> QED BY <1>0, <1>5, <3>1, <3>2
  <2>4. h.from <= p.from
    BY <1>6, <2>2, <2>3
  <2> QED BY <1>0, <1>5, <2>2, <2>4
<1>8. h \in Heads
  BY <1>5, <1>7 DEF Heads
<1>9. h.cell = x.cell
  BY <1>5, LinkedCell
<1>10. x.to <= RunEnd(h)
  BY <1>0, <1>5, RunEndOf
<1>11. FromWm \/ Ragged \/ h.from = x.from
  <2> SUFFICES ASSUME ~FromWm, ~Ragged, h.from # x.from PROVE FALSE
    OBVIOUS
  <2>1. h.from < x.from
    BY <1>0, <1>5
  <2>2. \E p \in atoms : Joins(p, x)
    BY <1>5, <2>1, LinkedPrev
  <2> QED BY <2>2 DEF Joins
<1> QED BY <1>5, <1>8, <1>9, <1>10, <1>11

\* The keys of a packed run reach every unit up to which the tier is covered.
LEMMA KeysReach ==
    ASSUME InputsInv, NEW t \in Tiers, NEW from \in Times, NEW to \in Times, NEW v \in Nat,
           from <= v, v < to, \A y \in from .. v : Covering(t, y) # {}
    PROVE  \E s \in RegisteredKeys(t, from, to) : StartOf(s) <= v /\ v < EndOf(s)
<1>1. /\ from \in Nat /\ to \in Nat /\ to <= Horizon /\ Horizon \in Nat /\ v < Horizon
  <2>1. from \in Nat /\ to \in Nat /\ to <= Horizon /\ Horizon \in Nat
    BY TimesNat
  <2> QED BY <2>1
<1>2. PICK f : /\ RegisteredKeys(t, from, to) = f[from]
               /\ \A x \in from .. Horizon : f[x] = KeysStep(f, t, to, x)
  BY KeysAre
<1> DEFINE Found(y) == \E s \in f[y] : StartOf(s) <= v /\ v < EndOf(s)
           Bad == {y \in from .. v : ~Found(y)}
<1>3. ASSUME NEW y \in from .. v, \A z \in from .. v : y < z => Found(z)
      PROVE  Found(y)
  <2>1. y \in Nat /\ y < to /\ from <= y /\ y <= v
    BY <1>1
  <2>2. y \in Times /\ y \in from .. Horizon
    <3>1. y <= Horizon
      BY <1>1, <2>1
    <3> QED BY <1>1, <2>1, <3>1, TimesNat
  <2> DEFINE s == LargestCovering(t, y)
  <2>3. Covering(t, y) # {}
    BY <1>3
  <2>4. StartOf(s) <= y /\ EndOf(s) \in Nat /\ y < EndOf(s) /\ EndOf(s) <= Horizon /\ s \in Shards
    BY <2>2, <2>3, CoveringFacts
  <2>5. f[y] = {s} \cup f[EndOf(s)]
    <3>1. ~(y >= to)
      BY <1>1, <2>1
    <3> QED BY <1>2, <2>2, <2>3, <3>1 DEF KeysStep
  <2> HIDE DEF s
  <2>6. CASE v < EndOf(s)
    <3>0. StartOf(s) \in Times
      BY <2>4, ShardFacts
    <3>1. StartOf(s) \in Nat
      BY <3>0, TimesNat
    <3>2. StartOf(s) <= v
      BY <2>1, <2>4, <3>1
    <3> QED BY <2>5, <2>6, <3>2
  <2>7. CASE EndOf(s) <= v
    <3>1. EndOf(s) \in from .. v
      BY <1>1, <2>1, <2>4, <2>7
    <3>2. Found(EndOf(s))
      BY <1>3, <2>4, <3>1
    <3> QED BY <2>5, <3>2
  <2> QED BY <2>4, <2>6, <2>7
<1> HIDE DEF Found
<1>4. ASSUME Bad # {} PROVE FALSE
  <2>1. Bad \subseteq 0 .. v
    BY <1>1
  <2>2. PICK y \in Bad : \A z \in Bad : z <= y
    BY <1>4, <2>1, GreatestIn
  <2>3. y \in from .. v /\ ~Found(y) /\ y \in Nat
    BY <1>1, <2>2
  <2>4. \A z \in from .. v : y < z => Found(z)
    BY <1>1, <2>2, <2>3
  <2> QED BY <1>3, <2>3, <2>4
<1>5. Found(from)
  <2>1. from \in from .. v
    BY <1>1
  <2> QED BY <1>4, <2>1
<1> QED BY <1>2, <1>5 DEF Found

\* What the row of unit u needs of its shard.
Serves(s, t, u) ==
    /\ s \in Shards /\ TierOf(CellOf(s)) = t
    /\ StartOf(s) <= Floor(Grid[t], u) /\ Floor(Grid[t], u) < EndOf(s)
    /\ u < sealed[CellOf(s)]

\* A shard that reaches beyond the start of a bin of its tier holds all of it.
LEMMA ShardHoldsBin ==
    ASSUME NEW s \in Shards, NEW t, t = TierOf(CellOf(s)), NEW u \in Times, Floor(Grid[t], u) < EndOf(s)
    PROVE  u < EndOf(s)
<1>1. t \in Tiers /\ EndOf(s) \in Grid[t] /\ IsGrid(Grid[t]) /\ EndOf(s) \in Nat /\ u \in Nat
  <2>1. CellOf(s) \in Cells /\ EndOf(s) \in Edges(CellOf(s)) /\ EndOf(s) \in Times
    BY ShardFacts
  <2>2. t \in Tiers /\ EndOf(s) \in Grid[t]
    BY <2>1, CellFacts
  <2> QED BY <2>1, <2>2, TierFacts, TimesNat
<1>2. Floor(Grid[t], u) \in Nat /\ \A y \in Grid[t] : y <= u => y <= Floor(Grid[t], u)
  BY <1>1, FloorOf, GridFacts
<1>3. ~(EndOf(s) <= u)
  BY <1>1, <1>2
<1> QED BY <1>1, <1>3

LEMMA SealedKey ==
    ASSUME InputsInv, FromWm, NEW x, AtomTyped(x), Backed(x), NEW u \in Times, NEW h, h.cell = x.cell,
           h.from \in Nat, h.from <= x.from, NEW to \in Nat, x.to <= to,
           x.from <= Floor(Grid[TierOf(x.cell)], u), u < x.to
    PROVE  \E s \in Keys(h.cell, h.from, to) : Serves(s, TierOf(x.cell), u)
<1> DEFINE c == x.cell
           t == TierOf(c)
           f == Floor(Grid[t], u)
           s == <<c, Floor(Edges(c), f)>>
<1>1. c \in Cells /\ t \in Tiers /\ x.from \in Nat /\ x.to \in Times /\ x.to \in Nat /\ u \in Nat /\ u < Horizon
  <2>1. c \in Cells /\ x.from \in Times /\ x.to \in Times
    BY DEF AtomTyped
  <2>2. x.from \in Nat /\ x.to \in Nat /\ u \in Nat /\ x.to <= Horizon /\ Horizon \in Nat
    BY <2>1, TimesNat
  <2>3. u < Horizon
    BY <2>2
  <2> QED BY <2>1, <2>2, <2>3, CellFacts
<1> HIDE DEF c, t
<1>2. f \in Grid[t] /\ f <= u /\ f \in Times /\ f \in Nat
  BY <1>1, TierFacts, FloorOf, GridFacts
<1> HIDE DEF f
<1>3. f < Horizon
  BY <1>1, <1>2, TimesNat
<1>4. s \in Shards /\ StartOf(s) <= f /\ f < EndOf(s) /\ CellOf(s) = c
  BY <1>1, <1>2, <1>3, ShardAt DEF CellOf
<1> HIDE DEF s
<1>5. StartOf(s) \in Nat /\ EndOf(s) \in Nat
  BY <1>4, ShardFacts, TimesNat
<1>6. x.from <= f /\ x.to <= sealed[c] /\ sealed[c] \in Nat
  <2>1. x.from <= f /\ x.to <= sealed[c]
    BY DEF f, t, c, Backed
  <2>2. sealed[c] \in Nat
    BY <1>1, GivenFacts, MarkNat
  <2> QED BY <2>1, <2>2
<1>7. u < sealed[c]
  BY <1>1, <1>6
<1>8. StartOf(s) < to /\ EndOf(s) > h.from
  BY <1>1, <1>2, <1>4, <1>5, <1>6
<1>9. s \in Keys(h.cell, h.from, to)
  BY <1>4, <1>8 DEF Keys, PeriodsCovering, c
<1>10. Serves(s, t, u)
  BY <1>4, <1>7 DEF Serves, f, t
<1> QED BY <1>9, <1>10 DEF t, c


LEMMA InventoryKey ==
    ASSUME InputsInv, ~FromWm, ~Ragged, Complete, NEW x, AtomTyped(x), Backed(x), NEW u \in Times,
           NEW h, h.cell = x.cell, h.from = x.from, NEW to,
           x.from <= Floor(Grid[TierOf(x.cell)], u), u < x.to
    PROVE  \E s \in Keys(h.cell, h.from, to) : Serves(s, TierOf(x.cell), u)
<1> DEFINE c == x.cell
           t == TierOf(c)
           f == Floor(Grid[t], u)
           s == <<c, Floor(Edges(c), x.from)>>
<1>1. c \in Cells /\ t \in Tiers /\ x.from \in Times /\ x.from \in Nat /\ x.to \in Nat /\ u \in Nat /\ x.from < Horizon
  <2>1. c \in Cells /\ x.from \in Times /\ x.to \in Times /\ x.from < x.to
    BY DEF AtomTyped
  <2>2. x.from \in Nat /\ x.to \in Nat /\ u \in Nat /\ x.to <= Horizon /\ Horizon \in Nat
    BY <2>1, TimesNat
  <2>3. x.from < Horizon
    BY <2>1, <2>2
  <2> QED BY <2>1, <2>2, <2>3, CellFacts
<1>2. f \in Nat /\ f <= u /\ x.from <= f
  <2>1. f \in Grid[t] /\ f <= u
    BY <1>1, TierFacts, FloorOf
  <2>2. f \in Nat
    BY <1>1, <2>1, TierFacts, GridFacts
  <2> QED BY <2>1, <2>2 DEF f, t, c
<1>3. s \in Shards /\ StartOf(s) <= x.from /\ x.from < EndOf(s) /\ CellOf(s) = c
  BY <1>1, ShardAt DEF CellOf
<1>4. t <= OutTier /\ s \in inventory /\ x.to <= After(Edges(c), x.from)
  BY DEF Backed, s, t, c
<1> HIDE DEF s
<1>5. StartOf(s) \in Nat /\ EndOf(s) \in Nat /\ EndOf(s) \in Edges(c)
  <2>1. StartOf(s) \in Times /\ EndOf(s) \in Times /\ EndOf(s) \in Edges(c)
    BY <1>3, ShardFacts
  <2> QED BY <2>1, TimesNat
<1>6. x.to <= EndOf(s)
  <2>1. IsGrid(Edges(c))
    BY <1>1, CellFacts
  <2>2. After(Edges(c), x.from) \in Edges(c) /\ \A b \in Edges(c) : b > x.from => After(Edges(c), x.from) <= b
    BY <1>1, <2>1, AfterOf
  <2>3. After(Edges(c), x.from) <= EndOf(s)
    BY <1>1, <1>3, <1>5, <2>2
  <2>4. After(Edges(c), x.from) \in Nat
    BY <2>1, <2>2, GridFacts
  <2> QED BY <1>1, <1>4, <1>5, <2>3, <2>4
<1>7. EndOf(s) <= sealed[c]
  <2>1. t \in 1 .. OutTier
    BY <1>1, <1>4, TierFacts, QueryFacts, LadderAssumption DEF InputsInv
  <2>2. TierOf(CellOf(s)) \in Packers
    BY <1>3, <2>1 DEF Packers
  <2> QED BY <1>3, <1>4, <2>2 DEF Complete
<1>8. StartOf(s) <= f /\ f < EndOf(s) /\ u < sealed[c]
  <2>1. sealed[c] \in 0 .. Far
    BY <1>1, GivenFacts
  <2>2. sealed[c] \in Nat
    BY <2>1, MarkNat
  <2>3. u < x.to
    OBVIOUS
  <2> QED BY <1>1, <1>2, <1>3, <1>5, <1>6, <1>7, <2>2, <2>3
<1>9. s \in Keys(h.cell, h.from, to)
  BY <1>3 DEF Keys, c
<1>10. Serves(s, t, u)
  BY <1>3, <1>8 DEF Serves, f, t
<1> QED BY <1>9, <1>10 DEF t, c

\* A cell is complete at least as far as all of its tier.
LEMMA LargestCellSealed ==
    ASSUME InputsInv, NEW c \in Cells
    PROVE  largest[TierOf(c)] <= sealed[c] /\ largest[TierOf(c)] \in Nat /\ sealed[c] \in Nat
<1>1. TierOf(c) \in Tiers
  BY CellFacts
<1>2. /\ declared \in [Cells -> 0 .. Far] /\ PlannedTo \in Times
      /\ largest[TierOf(c)] = Largest(declared, TierOf(c), PlannedTo) /\ sealed[c] = Effective(declared, c)
  BY <1>1 DEF InputsInv, GivenInv
<1>3. Largest(declared, TierOf(c), PlannedTo) <= Effective(declared, c)
  BY <1>1, <1>2, LargestSealed
<1>4. largest[TierOf(c)] \in Times /\ sealed[c] \in 0 .. Far
  BY <1>1, GivenFacts
<1> QED BY <1>2, <1>3, <1>4, MarkNat, TimesNat

LEMMA RegisteredKey ==
    ASSUME InputsInv, ~FromWm, Ragged, Complete, AtomsApart, \A y \in atoms : Backed(y),
           NEW x \in atoms, NEW u \in Times, NEW h \in atoms, h.cell = x.cell, h.from <= x.from, x.to <= RunEnd(h),
           x.from <= Floor(Grid[TierOf(x.cell)], u), u < x.to
    PROVE  \E s \in Keys(h.cell, h.from, RunEnd(h)) : Serves(s, TierOf(x.cell), u)
<1> DEFINE c == x.cell
           t == TierOf(c)
           f == Floor(Grid[t], u)
           to == RunEnd(h)
<1>1. /\ c \in Cells /\ t \in Tiers /\ x.from \in Nat /\ x.to \in Nat /\ u \in Nat
      /\ h.from \in Times /\ h.from \in Nat /\ to \in Times /\ to \in Nat
  <2>1. /\ c \in Cells /\ t \in Tiers /\ x.from \in Nat /\ x.to \in Nat /\ h.from \in Times /\ h.from \in Nat
    BY AtomTimes DEF AtomsApart
  <2>2. to \in Times
    BY RunEndOf DEF AtomsApart
  <2> QED BY <2>1, <2>2, TimesNat
<1>2. f \in Nat /\ f \in Times /\ f <= u /\ h.from <= f /\ f < to /\ f < x.to
  <2>1. f \in Grid[t] /\ f <= u
    BY <1>1, TierFacts, FloorOf
  <2>2. f \in Nat /\ f \in Times
    BY <1>1, <2>1, TierFacts, GridFacts
  <2>3. x.from <= f /\ u < x.to /\ x.to <= to /\ h.from <= x.from
    BY DEF f, t, c, to
  <2> HIDE DEF f, to
  <2> QED BY <1>1, <2>1, <2>2, <2>3
<1> HIDE DEF f
<1>3. ASSUME NEW y \in h.from .. f PROVE Covering(t, y) # {}
  <2>1. y \in Nat /\ h.from <= y /\ y < to
    BY <1>1, <1>2
  <2>2. PICK z \in atoms : z.cell = h.cell /\ z.from <= y /\ y < z.to
    BY <2>1, HomeAtom
  <2>3. PICK s \in inventory : TierOf(CellOf(s)) = t /\ StartOf(s) <= z.from /\ z.to <= EndOf(s)
    BY <2>2 DEF Backed
  <2>4. s \in Shards
    BY DEF InputsInv, GivenInv
  <2>5. StartOf(s) \in Times /\ EndOf(s) \in Times
    BY <2>4, ShardFacts
  <2>6. z.from \in Nat /\ z.to \in Nat /\ StartOf(s) \in Nat /\ EndOf(s) \in Nat
    BY <2>5, AtomTimes, TimesNat DEF AtomsApart
  <2>7. StartOf(s) <= y /\ y < EndOf(s)
    BY <2>1, <2>2, <2>3, <2>6
  <2> QED BY <2>3, <2>7 DEF Covering
<1> HIDE DEF t, to
<1>4. PICK s \in RegisteredKeys(t, h.from, to) : StartOf(s) <= f /\ f < EndOf(s)
  BY <1>1, <1>2, <1>3, KeysReach
<1>5. s \in inventory /\ TierOf(CellOf(s)) = t
  BY <1>1, <1>4, RegisteredKeysSound
<1>6. s \in Shards
  BY <1>5 DEF InputsInv, GivenInv
<1>7. u < EndOf(s)
  BY <1>4, <1>5, <1>6, ShardHoldsBin DEF f
<1>8. /\ largest[t] <= sealed[CellOf(s)] /\ largest[t] \in Nat /\ sealed[CellOf(s)] \in Nat
      /\ EndOf(s) \in Nat
  <2>1. CellOf(s) \in Cells /\ EndOf(s) \in Times
    BY <1>6, ShardFacts
  <2> QED BY <1>5, <2>1, LargestCellSealed, TimesNat
<1>9. u < sealed[CellOf(s)]
  <2>1. CASE t \in Packers
    <3>1. EndOf(s) <= sealed[CellOf(s)]
      BY <1>5, <2>1 DEF Complete
    <3> QED BY <1>1, <1>7, <1>8, <3>1
  <2>2. CASE t \notin Packers
    <3>1. x.to <= largest[t] /\ u < x.to
      BY <2>2 DEF Backed, t, c
    <3> QED BY <1>1, <1>8, <3>1
  <2> QED BY <2>1, <2>2
<1>10. s \in Keys(h.cell, h.from, RunEnd(h))
  BY <1>4 DEF Keys, to, t, c
<1>11. Serves(s, t, u)
  BY <1>4, <1>5, <1>6, <1>9 DEF Serves, f
<1> QED BY <1>10, <1>11 DEF t, c


-----------------------------------------------------------------------------
(* The answer. *)

\* What a query returns is what it coalesced.
DoneInv == phase = "done" => plan = Coalesced

LEMMA DoneStep == DoneInv /\ [Next]_vars => DoneInv'
<1> SUFFICES ASSUME DoneInv, [Next]_vars, phase' = "done" PROVE plan' = Coalesced'
  BY DEF DoneInv
<1>1. CASE Assemble
  BY <1>1, CoalescedKept DEF Assemble
<1>2. CASE UNCHANGED vars
  <2>1. phase = "done" /\ plan' = plan /\ UNCHANGED <<inputs, atoms>>
    BY <1>2 DEF vars
  <2> QED BY <2>1, CoalescedKept DEF DoneInv
<1>3. ~(Emit \/ SkipGated \/ Stop)
  BY DEF Emit, SkipGated, Stop, Walking
<1>4. ~(RefuseBins \/ PackFixed \/ PackCalendar)
  <2>1. ~RefuseBins
    BY DEF RefuseBins
  <2>2. ~PackFixed
    BY DEF PackFixed, Packing
  <2>3. ~PackCalendar
    BY DEF PackCalendar, Packing
  <2> QED BY <2>1, <2>2, <2>3
<1> QED BY <1>1, <1>2, <1>3, <1>4 DEF Next, Over

\* A unit whose row begins in an atom is answered.
LEMMA GivenAnswered ==
    ASSUME TypeInv, AtomsApart, \A y \in atoms : Backed(y), plan = Coalesced, Complete,
           NEW b \in Visible, NEW u \in b .. After(OutGrid, b) - 1, NEW x \in atoms, Gives(x, b, u)
    PROVE  u \in Answered
<1> DEFINE t == TierOf(x.cell)
           f == Floor(Grid[t], u)
<1>1. InputsInv /\ AtomTyped(x) /\ Backed(x)
  BY DEF TypeInv, AtomsTyped
<1>2. /\ b \in OutGrid /\ b \in Nat /\ b < Horizon /\ u \in Nat /\ u \in Times /\ u < Horizon
      /\ b <= u /\ u < After(OutGrid, b)
  BY <1>1, VisibleFacts
<1>3. x.cell \in Cells /\ t \in Tiers /\ x.from \in Nat /\ x.to \in Nat /\ x.to <= Horizon
  <2>1. x.to \in Times
    BY AtomTimes DEF AtomsApart
  <2> QED BY <2>1, AtomTimes, TimesNat DEF AtomsApart
<1>4. /\ f \in Grid[t] /\ f \in Times /\ f \in Nat /\ f <= u
      /\ \A y \in Grid[t] : y <= u => y <= f
  BY <1>2, <1>3, TierFacts, FloorOf, GridFacts
<1>5. b <= f /\ x.from <= f /\ u < x.to
  BY DEF Gives
<1>6. PICK h \in Heads : /\ h \in atoms /\ h.cell = x.cell /\ h.from <= x.from /\ x.to <= RunEnd(h)
                         /\ FromWm \/ Ragged \/ h.from = x.from
  BY HeadOf
<1>7. h.from \in Nat /\ RunEnd(h) \in Nat
  <2>1. RunEnd(h) \in Times
    BY <1>6, RunEndOf DEF AtomsApart
  <2> QED BY <1>6, <2>1, AtomTimes, TimesNat DEF AtomsApart
<1>8. \E s \in Keys(h.cell, h.from, RunEnd(h)) : Serves(s, t, u)
  <2>1. CASE FromWm
    BY <1>1, <1>2, <1>5, <1>6, <1>7, <2>1, SealedKey
  <2>2. CASE ~FromWm /\ ~Ragged
    BY <1>1, <1>2, <1>5, <1>6, <2>2, InventoryKey
  <2>3. CASE ~FromWm /\ Ragged
    BY <1>1, <1>2, <1>5, <1>6, <2>3, RegisteredKey
  <2> QED BY <2>1, <2>2, <2>3
<1>9. PICK s \in Keys(h.cell, h.from, RunEnd(h)) : Serves(s, t, u)
  BY <1>8
<1> HIDE DEF f
<1> DEFINE g == [cell |-> h.cell, from |-> h.from, to |-> RunEnd(h), keys |-> Keys(h.cell, h.from, RunEnd(h))]
           r == [seg |-> g, shard |-> s, bin |-> f]
<1>10. g \in plan /\ g.cell = x.cell /\ g.from = h.from /\ g.to = RunEnd(h) /\ s \in g.keys
  BY <1>6, <1>9 DEF Coalesced, Heads
<1> HIDE DEF g
<1>11. r.seg = g /\ r.shard = s /\ r.bin = f
  OBVIOUS
<1>12. r \in Reads
  <2>1. h.from <= f /\ f < RunEnd(h)
    BY <1>2, <1>3, <1>4, <1>5, <1>6, <1>7
  <2>2. StartOf(s) <= f /\ f < EndOf(s)
    BY <1>9 DEF Serves, f
  <2>3. r \in RowsOf(g, s)
    BY <1>4, <1>10, <2>1, <2>2 DEF RowsOf
  <2> QED BY <1>10, <2>3 DEF Reads
<1> HIDE DEF r
<1>13. u \in Units(r)
  <2>0. f < Horizon
    BY <1>2, <1>4, TimesNat
  <2>1. After(Grid[t], f) \in Grid[t] /\ f < After(Grid[t], f)
    BY <1>3, <1>4, <2>0, TierFacts, AfterOf
  <2>2. After(Grid[t], f) \in Nat
    BY <1>3, <2>1, TierFacts, GridFacts
  <2>3. u < After(Grid[t], f)
    BY <1>2, <1>4, <2>1, <2>2
  <2>4. u < sealed[CellOf(s)]
    BY <1>9 DEF Serves
  <2>5. u \in f .. After(Grid[t], f) - 1
    BY <1>2, <1>4, <2>2, <2>3
  <2> QED BY <1>10, <1>11, <2>4, <2>5 DEF Units
<1>14. Floor(OutGrid, f) = b /\ Floor(OutGrid, u) = b
  <2>1. IsGrid(OutGrid)
    BY <1>1, QueryFacts DEF InputsInv
  <2>2. After(OutGrid, b) \in Nat
    BY <1>1, VisibleFacts
  <2>3. f < After(OutGrid, b)
    BY <1>2, <1>4, <2>2
  <2>4. Floor(OutGrid, f) = b
    BY <1>2, <1>4, <1>5, <2>1, <2>3, InBin
  <2>5. Floor(OutGrid, u) = b
    BY <1>2, <2>1, InBin
  <2> QED BY <2>4, <2>5
<1>15. OutBin(r) = Floor(OutGrid, u)
  <2>1. OutBin(r) = Floor(OutGrid, r.bin)
    BY DEF OutBin
  <2> QED BY <1>11, <1>14, <2>1
<1> QED BY <1>12, <1>13, <1>15 DEF Answered


PlanInv == TypeInv /\ AtomsSound /\ AnswerInv /\ DoneInv

LEMMA PlanInit == Init => PlanInv
<1>1. Init => TypeInv /\ AtomsSound /\ ChosenInv /\ EndInv
  BY TypesInit, SoundInit, ChosenInit, EndInit
<1>2. TypeInv /\ Init => StartInv /\ FillInv
  BY StartInit, FillInit DEF TypeInv
<1>3. Init => (\A x \in atoms : Backed(x)) /\ DoneInv
  BY DEF Init, DoneInv
<1> QED BY <1>1, <1>2, <1>3 DEF PlanInv, AnswerInv

LEMMA PlanStep == NestedLadder /\ InputsMeet /\ PlanInv /\ [Next]_vars => PlanInv'
<1> SUFFICES ASSUME NestedLadder, InputsMeet, PlanInv, [Next]_vars PROVE PlanInv'
  OBVIOUS
<1>1. /\ NestedTiers /\ Aligned /\ GatesNest /\ ShardsMeet /\ TargetsServed
      /\ TypeInv /\ AtomsSound /\ ChosenInv /\ StartInv /\ EndInv /\ (\A x \in atoms : Backed(x)) /\ FillInv /\ DoneInv
  BY DEF NestedLadder, InputsMeet, PlanInv, AnswerInv
<1>2. TypeInv'
  BY <1>1, TypesStep
<1>3. AtomsSound' /\ DoneInv'
  BY <1>1, <1>2, SoundStep, DoneStep
<1>4. ChosenInv'
  BY <1>1, StepKinds, WalkKept
<1>5. StartInv'
  BY <1>1, <1>2, StartStep
<1>6. EndInv'
  BY <1>1, EndStep
<1>7. (\A x \in atoms : Backed(x))'
  BY <1>1, <1>2, BackedStep
<1>8. FillInv'
  BY <1>1, <1>2, FillStep
<1> QED BY <1>2, <1>3, <1>4, <1>5, <1>6, <1>7, <1>8 DEF PlanInv, AnswerInv

LEMMA SufficesAnswered ==
    ASSUME PlanInv, phase = "done",
           NEW b \in Visible, NEW u \in b .. After(OutGrid, b) - 1, Suffices(b, u)
    PROVE  u \in Answered
<1>1. /\ TypeInv /\ AtomsSound /\ StartInv /\ EndInv /\ (\A x \in atoms : Backed(x)) /\ FillInv /\ DoneInv
      /\ InputsInv /\ AtomsApart /\ cursor \in Times
  BY BothInv DEF PlanInv, AnswerInv, TypeInv
<1>2. cursor \in Nat /\ b \in Nat /\ u \in Nat /\ b < query.to
  BY <1>1, VisibleFacts, TimesNat
<1>3. PlannedTo \in Nat /\ PlannedFrom \in Nat /\ query.to \in Nat /\ query.to <= PlannedTo
  BY <1>1, GivenFacts, QueryFacts DEF InputsInv
<1>4. cursor >= PlannedTo \/ (~Ragged /\ Sources(cursor) = {})
  BY <1>1 DEF EndInv
<1>5. IF Ragged THEN b < cursor ELSE u < cursor
  <2>1. CASE Ragged
    BY <1>2, <1>3, <1>4, <2>1
  <2>2. CASE ~Ragged
    <3>1. u < PlannedTo /\ \A x \in PlannedFrom .. u : Sources(x) # {}
      BY <2>2 DEF Suffices
    <3>2. CASE cursor >= PlannedTo
      BY <1>2, <1>3, <2>2, <3>1, <3>2
    <3>3. CASE Sources(cursor) = {}
      <4>1. PlannedFrom <= cursor
        BY <1>1, <2>2 DEF StartInv
      <4>2. cursor \notin PlannedFrom .. u
        BY <3>1, <3>3
      <4>3. u < cursor
        BY <1>2, <1>3, <4>1, <4>2
      <4> QED BY <2>2, <4>3
    <3> QED BY <1>4, <3>2, <3>3
  <2> QED BY <2>1, <2>2
<1>6. PICK x \in atoms : Gives(x, b, u)
  BY <1>1, <1>5 DEF FillInv
<1>7. plan = Coalesced /\ Complete
  BY <1>1 DEF DoneInv, Suffices
<1> QED BY <1>1, <1>6, <1>7, GivenAnswered

(* On a nested ladder, for every query and every input whose marks are         *)
(* boundaries of their tiers, and whose gates and registered shards nest:      *)
(* whatever the tiers have of a visible output bin is in the answer.  The walk *)
(* changes to a coarser source on a boundary of its bins only, so that the row *)
(* of each unit begins in the atom that holds the unit; a packed bin has a     *)
(* chain of atoms through it; coalescing keeps every atom, and the shards it   *)
(* reads hold the row (planQuery, planRagged, planRaggedCalendar and their     *)
(* inventory forms, coalesceSegments, stitch).                                 *)
THEOREM NothingMissingHolds ==
    ASSUME NestedLadder, InputsMeet
    PROVE  Spec => []NothingMissing
<1>1. Init => PlanInv
  BY PlanInit
<1>2. PlanInv /\ [Next]_vars => PlanInv'
  BY PlanStep
<1>3. PlanInv => NothingMissing
  BY SufficesAnswered DEF NothingMissing
<1> QED BY <1>1, <1>2, <1>3, PTL DEF Spec


-----------------------------------------------------------------------------
(* Where the answer ends. *)

\* No cell is complete beyond the best cell of the finest tier.
LEMMA FinestBounds ==
    ASSUME InputsInv, ~Ragged
    PROVE  /\ Authoritative \in Nat
           /\ \E c \in Cells : TierOf(c) = 1 /\ sealed[c] = Authoritative
           /\ \A c \in Cells : sealed[c] <= Authoritative
<1> DEFINE S == {sealed[c] : c \in {c \in Cells : TierOf(c) = 1}}
<1>1. /\ declared \in [Cells -> 0 .. Far] /\ \A c \in Cells : sealed[c] = Effective(declared, c)
      /\ 1 \in Tiers /\ Len(Grid) \in Nat /\ Tiers = 1 .. Len(Grid)
  BY LadderAssumption DEF InputsInv, GivenInv
<1>2. Authoritative = Max(S)
  BY DEF Authoritative
<1>3. \A c \in Cells : sealed[c] \in 0 .. Far /\ sealed[c] \in Nat
  BY GivenFacts, MarkNat
<1>4. S \subseteq 0 .. Far /\ S # {} /\ Far \in Nat
  <2>1. LargestCell(1) \in Cells /\ TierOf(LargestCell(1)) = 1
    BY <1>1, TierFacts
  <2> QED BY <1>3, <2>1, TimesNat
<1>5. Max(S) \in S /\ \A y \in S : y <= Max(S)
  BY <1>4, GreatestIn
<1>6. TierBound(declared)[0] = Far /\ TierBound(declared)[1] = NextBound(declared, 1, Far)
  <2>1. TierBound(declared)[0] = Far
    BY <1>1, BoundIs
  <2>2. TierBound(declared)[1] = NextBound(declared, 1, TierBound(declared)[1 - 1])
    BY <1>1, BoundIs
  <2> QED BY <2>1, <2>2
<1>7. ASSUME NEW c \in Cells, TierOf(c) = 1
      PROVE  sealed[c] = Min({Within(declared, c), Far})
  <2>1. sealed[c] = Min({Within(declared, c), TierBound(declared)[TierOf(c) - 1]})
    BY <1>1 DEF Effective
  <2>2. TierOf(c) - 1 = 0
    BY <1>7
  <2> QED BY <1>6, <2>1, <2>2
<1>8. S = {Min({Within(declared, c), Far}) : c \in {c \in Cells : TierOf(c) = 1}}
  BY <1>7
<1>9. TierBound(declared)[1] = Max(S)
  BY <1>6, <1>8 DEF NextBound
<1>10. PICK c \in Cells : TierOf(c) = 1 /\ sealed[c] = Max(S)
  BY <1>5
<1>11. ASSUME NEW d \in Cells PROVE sealed[d] <= Max(S)
  <2>1. TierOf(d) \in 1 .. Len(Grid) /\ TierOf(d) \in Nat
    BY <1>1, CellFacts
  <2>2. CASE TierOf(d) = 1
    <3>1. sealed[d] \in S
      BY <2>2
    <3> QED BY <1>5, <3>1
  <2>3. CASE TierOf(d) # 1
    <3> DEFINE k == TierOf(d) - 1
    <3>1. k \in 0 .. Len(Grid) /\ 1 \in 0 .. Len(Grid) /\ 1 <= k
      BY <1>1, <2>1, <2>3
    <3>2. sealed[d] <= TierBound(declared)[k]
      BY <1>1, EffectiveType
    <3> HIDE DEF k
    <3>3. TierBound(declared)[k] <= TierBound(declared)[1]
      BY <1>1, <3>1, BoundsFall
    <3>4. TierBound(declared)[k] \in 0 .. Far /\ TierBound(declared)[1] \in 0 .. Far
      BY <1>1, <3>1, BoundType
    <3>5. TierBound(declared)[k] \in Nat /\ TierBound(declared)[1] \in Nat
      BY <3>4, MarkNat
    <3> QED BY <1>3, <1>9, <3>2, <3>3, <3>5
  <2> QED BY <2>2, <2>3
<1> QED BY <1>2, <1>3, <1>10, <1>11

\* Tiers that begin early enough, and are not gated, suffice for all that is
\* before the authoritative end.
LEMMA EndSuffices ==
    ASSUME InputsInv, FromWm, Ragged => Target.calendar, NEW b \in Visible, NEW u \in b .. After(OutGrid, b) - 1,
           u < Authoritative, u < query.to, earliest[Max(Tiers)] <= b, \A c \in Cells : TierOf(c) = 1 => gate[c] = 0
    PROVE  Suffices(b, u)
<1>1. Complete
  BY DEF Complete, InputsInv, GivenInv
<1>2. b \in Nat /\ u \in Nat /\ u \in Times /\ b <= u
  BY VisibleFacts
<1>3. query.to \in Nat /\ PlannedTo \in Nat /\ PlannedFrom \in Nat /\ query.to <= PlannedTo /\ OutTier \in Tiers
  BY GivenFacts, QueryFacts DEF InputsInv
<1>4. ASSUME NEW t \in Tiers PROVE earliest[t] <= b
  <2>1. /\ Tiers = 1 .. Len(Grid) /\ Len(Grid) \in Nat /\ Tiers # {} /\ Tiers \subseteq 0 .. Len(Grid)
    BY LadderAssumption
  <2>2. Max(Tiers) \in Tiers /\ t <= Max(Tiers)
    BY <2>1, GreatestIn
  <2> DEFINE m == Max(Tiers)
  <2> HIDE DEF m
  <2>3. m \in Tiers /\ t <= m /\ early \in [Tiers -> Times] /\ earliest = [x \in Tiers |-> Earliest(early, x)]
    BY <2>2 DEF m, InputsInv, GivenInv
  <2>4. Earliest(early, t) <= Earliest(early, m)
    BY <2>3, EarliestGrows
  <2>5. earliest[t] <= earliest[m] /\ earliest[m] <= b
    BY <2>3, <2>4 DEF m
  <2>6. earliest[t] \in Times /\ earliest[m] \in Times
    BY <2>3, GivenFacts
  <2>7. earliest[t] \in Nat /\ earliest[m] \in Nat
    BY <2>6, TimesNat
  <2> QED BY <1>2, <2>5, <2>7
<1>5. CASE ~Ragged
  <2>1. PICK c \in Cells : TierOf(c) = 1 /\ sealed[c] = Authoritative
    BY <1>5, FinestBounds
  <2>2. Authoritative \in Nat
    BY <1>5, FinestBounds
  <2>3. ASSUME NEW x \in PlannedFrom .. u PROVE Sources(x) # {}
    <3>1. x \in Nat /\ x <= u /\ x \in Times
      <4>1. u <= Horizon /\ Horizon \in Nat
        BY <1>2, TimesNat
      <4>2. x \in Nat /\ x <= u
        BY <1>2, <1>3
      <4>3. x <= Horizon
        BY <1>2, <4>1, <4>2
      <4> QED BY <4>2, <4>3, TimesNat
    <3>2. sealed[c] > x
      BY <1>2, <2>1, <2>2, <3>1
    <3>3. gate[c] <= Floor(Edges(c), x)
      <4>1. Floor(Edges(c), x) \in Edges(c) /\ IsGrid(Edges(c))
        BY <3>1, CellFacts, FloorOf
      <4>2. Floor(Edges(c), x) \in Nat
        BY <4>1, GridFacts
      <4>3. gate[c] = 0
        BY <2>1
      <4> QED BY <4>2, <4>3
    <3>4. TierOf(c) <= OutTier
      BY <1>3, <2>1, TierFacts
    <3> QED BY <3>2, <3>3, <3>4 DEF Sources
  <2>4. u < PlannedTo
    BY <1>2, <1>3
  <2> QED BY <1>1, <1>3, <1>4, <1>5, <2>3, <2>4 DEF Suffices
<1>6. CASE Ragged
  <2>1. Authoritative = largest[1] /\ 1 \in Tiers
    BY <1>6, LadderAssumption DEF Authoritative
  <2>2. earliest[1] <= b
    BY <1>4, <2>1
  <2>3. earliest[1] \in Times
    BY <2>1, GivenFacts
  <2>4. earliest[1] \in Nat
    BY <2>3, TimesNat
  <2>5. earliest[1] <= u /\ u < largest[1]
    BY <1>2, <2>1, <2>2, <2>4
  <2> QED BY <1>1, <1>6, <2>5 DEF Suffices
<1> QED BY <1>5, <1>6

\* What is read lies before the authoritative end, or after the query.
LEMMA AnsweredEnds ==
    ASSUME TypeInv, AtomsSound, \A y \in atoms : Backed(y), FromWm, CutsFine, NEW u \in Answered
    PROVE  u < Authoritative \/ u >= query.to
<1>1. InputsInv /\ AtomsApart
  BY BothInv
<1>2. PICK r \in Reads : u \in Units(r)
  BY DEF Answered
<1>3. PICK x : RowOf(r, x)
  BY RowFacts
<1>4. /\ x \in atoms /\ u \in Nat /\ x.from <= r.bin /\ r.bin <= u /\ r.bin \in Nat
      /\ r.shard \in Shards /\ u < sealed[CellOf(r.shard)]
  BY <1>2, <1>3 DEF RowOf
<1>5. CASE ~Ragged
  <2>1. CellOf(r.shard) \in Cells
    BY <1>4, ShardFacts
  <2> DEFINE c == CellOf(r.shard)
  <2>2. sealed[c] <= Authoritative /\ Authoritative \in Nat /\ sealed[c] \in Nat
    BY <1>1, <1>5, <2>1, FinestBounds, LargestCellSealed
  <2> QED BY <1>4, <2>2
<1>6. CASE Ragged
  <2>1. u < RunEnd(x) \/ RunEnd(x) = PlannedTo
    BY <1>2, <1>3, RowInSegment
  <2>2. RunEnd(x) \in Nat /\ x.from \in Nat
    <3>1. RunEnd(x) \in Times
      BY <1>1, <1>4, RunEndOf DEF AtomsApart
    <3> QED BY <1>1, <1>4, <3>1, AtomTimes, TimesNat DEF AtomsApart
  <2>3. CASE u < RunEnd(x)
    <3>1. x.from <= u
      BY <1>4, <2>2
    <3>2. PICK y \in atoms : y.cell = x.cell /\ y.from <= u /\ u < y.to
      BY <1>1, <1>4, <2>3, <3>1, HomeAtom
    <3> DEFINE t == TierOf(y.cell)
    <3>3. t \in Tiers /\ y.to \in Nat /\ y.to <= largest[t]
      BY <1>1, <1>6, <3>2, AtomTimes DEF AtomsApart, Backed
    <3> HIDE DEF t
    <3>4. 1 \in Tiers /\ 1 <= t /\ Authoritative = largest[1]
      BY <1>6, <3>3, LadderAssumption DEF Authoritative
    <3>5. largest[t] <= largest[1]
      <4>1. /\ declared \in [Cells -> 0 .. Far] /\ PlannedTo \in Times
            /\ \A k \in Tiers : largest[k] = Largest(declared, k, PlannedTo)
        BY <1>1 DEF InputsInv, GivenInv
      <4>2. Largest(declared, t, PlannedTo) <= Largest(declared, 1, PlannedTo)
        BY <3>3, <3>4, <4>1, LargestFalls
      <4> QED BY <3>3, <3>4, <4>1, <4>2
    <3>6. largest[t] \in Times /\ largest[1] \in Times
      BY <1>1, <3>3, <3>4, GivenFacts
    <3>7. largest[t] \in Nat /\ largest[1] \in Nat
      BY <3>6, TimesNat
    <3>8. u < largest[1]
      BY <1>4, <3>2, <3>3, <3>5, <3>7
    <3> QED BY <3>4, <3>8
  <2>4. CASE ~(u < RunEnd(x))
    <3>1. PlannedTo \in Nat /\ query.to \in Nat /\ query.to <= PlannedTo
      BY <1>1, GivenFacts, QueryFacts DEF InputsInv
    <3>2. u >= PlannedTo
      BY <1>4, <2>1, <2>2, <2>4
    <3> QED BY <1>4, <3>1, <3>2
  <2> QED BY <2>3, <2>4
<1> QED BY <1>5, <1>6

(* For the same ladders and inputs: up to authoritativeEnd, where the          *)
(* consumer's hot path takes over, the answer has every unit, and from there   *)
(* on none.  No tier is complete beyond the finest one's best shard, nor a     *)
(* packed month beyond its largest (authoritativeEnd of planQuery and          *)
(* planRaggedCalendar).                                                       *)
THEOREM HandOverHolds ==
    ASSUME NestedLadder, InputsMeet
    PROVE  Spec => []HandOver
<1>1. Init => PlanInv
  BY PlanInit
<1>2. PlanInv /\ [Next]_vars => PlanInv'
  BY PlanStep
<1>3. PlanInv => HandOver
  <2> SUFFICES ASSUME PlanInv, phase = "done", FromWm, Ragged => Target.calendar /\ CutsExact,
                      NEW b \in Visible, NEW u \in b .. After(OutGrid, b) - 1
               PROVE  /\ (/\ u < Authoritative /\ u < query.to /\ earliest[Max(Tiers)] <= b
                          /\ \A c \in Cells : TierOf(c) = 1 => gate[c] = 0) => u \in Answered
                      /\ u \in Answered => u < Authoritative \/ u >= query.to
    BY DEF HandOver
  <2>1. InputsInv /\ TypeInv /\ AtomsSound /\ (\A x \in atoms : Backed(x))
    BY DEF PlanInv, AnswerInv, TypeInv
  <2>2. CutsFine
    BY DEF CutsFine, CutsCalendar
  <2>3. ASSUME u < Authoritative, u < query.to, earliest[Max(Tiers)] <= b,
               \A c \in Cells : TierOf(c) = 1 => gate[c] = 0
        PROVE  u \in Answered
    <3>1. Suffices(b, u)
      BY <2>1, <2>3, EndSuffices
    <3> QED BY <3>1, SufficesAnswered
  <2>4. ASSUME u \in Answered PROVE u < Authoritative \/ u >= query.to
    BY <2>1, <2>2, <2>4, AnsweredEnds
  <2> QED BY <2>3, <2>4
<1> QED BY <1>1, <1>2, <1>3, PTL DEF Spec
===============================================================================
