--------------------------- MODULE TileSourceProofs ---------------------------
(***************************************************************************)
(* Proofs about the source a build reads, for every range, every width of   *)
(* its windows, every ladder and every listing: the windows load a tile     *)
(* once between them and nobody waits in vain; and where the rungs nest,    *)
(* each unit is read once or accounted for.                                 *)
(***************************************************************************)
EXTENDS TileSource, FiniteSetTheorems, TLAPS

(* Numbers and windows. *)

LEMMA LeastIn ==
    ASSUME NEW S, S \subseteq Nat, S # {}
    PROVE  Min(S) \in S /\ \A y \in S : Min(S) <= y
<1>1. PICK x \in S : \A y \in S : ~(<<y, x>> \in OpToRel(<, Nat))
  BY NatLessThanWellFounded, WFMin
<1>2. \A y \in S : ~(y < x)
  BY <1>1, Zenon DEF OpToRel
<1>3. \A y \in S : x <= y
  BY <1>2
<1> QED BY <1>3 DEF Min

LEMMA GreatestIn ==
    ASSUME NEW S, NEW n \in Nat, S \subseteq 0 .. n, S # {}
    PROVE  Max(S) \in S /\ \A y \in S : y <= Max(S)
<1> DEFINE T == {n - x : x \in S}
<1>1. T \subseteq Nat /\ T # {}
  <2>1. T \subseteq Nat
    <3> SUFFICES ASSUME NEW x \in S PROVE n - x \in Nat
      OBVIOUS
    <3>1. x \in 0 .. n
      OBVIOUS
    <3> QED BY <3>1
  <2>2. PICK x \in S : TRUE
    OBVIOUS
  <2>3. n - x \in T
    OBVIOUS
  <2> HIDE DEF T
  <2> QED BY <2>1, <2>3
<1>2. Min(T) \in T /\ \A y \in T : Min(T) <= y
  BY <1>1, LeastIn
<1>3. PICK x \in S : Min(T) = n - x
  BY <1>2
<1>4. \A y \in S : y <= x
  <2> SUFFICES ASSUME NEW y \in S PROVE y <= x
    OBVIOUS
  <2>1. n - x <= n - y
    BY <1>2, <1>3
  <2> QED BY <2>1
<1> QED BY <1>4 DEF Max

LEMMA Parameters ==
    /\ Horizon \in Nat \ {0} /\ Width \in Nat \ {0} /\ Workers \in Nat \ {0} /\ Cap \in Nat \ {0}
    /\ MaxMissing[1] \in Nat /\ MaxMissing[2] \in Nat \ {0} /\ MaxTileFaults \in Nat
BY TileAssumption

LEMMA WindowCount == NWin \in Nat /\ NWin * Width < Horizon + Width
<1>1. \A a \in Nat, c \in Nat \ {0} : a \div c \in Nat /\ (a \div c) * c <= a
  OBVIOUS
<1>2. Horizon + Width - 1 \in Nat
  BY Parameters
<1> QED BY <1>1, <1>2, Parameters DEF NWin

\* Where a window begins and ends.
LEMMA WindowEnds ==
    ASSUME NEW i \in Windows
    PROVE  /\ i \in Nat /\ WFrom(i) \in Nat /\ WFrom(i) < Horizon
           /\ WTo(i) \in Nat /\ WFrom(i) < WTo(i) /\ WTo(i) <= Horizon
<1>1. i \in Nat \ {0} /\ i <= NWin
  BY WindowCount DEF Windows
<1>2. i * Width <= NWin * Width /\ (i - 1) * Width = i * Width - Width /\ i * Width \in Nat
      /\ (i - 1) * Width \in Nat
  BY <1>1, WindowCount, Parameters
<1>3. (i - 1) * Width < Horizon
  BY <1>2, WindowCount, Parameters
<1> QED BY <1>1, <1>2, <1>3, Parameters DEF WFrom, WTo, Lesser

LEMMA WindowOrder ==
    ASSUME NEW i \in Nat \ {0}, NEW j \in Nat \ {0}, i <= j
    PROVE  WFrom(i) \in Nat /\ WFrom(j) \in Nat /\ WFrom(i) <= WFrom(j)
<1>1. (i - 1) * Width <= (j - 1) * Width
  BY Parameters
<1> QED BY <1>1, Parameters DEF WFrom

-----------------------------------------------------------------------------
(* Rungs and tiles. *)

LEMMA TileShape ==
    ASSUME NEW c \in Tiles
    PROVE  /\ c[1] \in DOMAIN Rungs /\ c[1] \in Nat /\ c[1] <= Len(Rungs) /\ c[2] \in Nat /\ c[3] \in Nat
           /\ c = <<c[1], c[2], c[3]>> /\ <<c[2], c[3]>> \in Rungs[c[1]]
<1>1. PICK r \in DOMAIN Rungs : c \in {<<r, iv[1], iv[2]>> : iv \in Rungs[r]}
  BY DEF Tiles
<1>2. PICK iv \in Rungs[r] : c = <<r, iv[1], iv[2]>>
  BY <1>1
<1>3. DOMAIN Rungs = 1 .. Len(Rungs) /\ Len(Rungs) \in Nat /\ Rungs[r] \subseteq Nat \X Nat
  BY TileAssumption
<1>4. iv \in Nat \X Nat
  BY <1>3
<1> QED BY <1>2, <1>3, <1>4

LEMMA RungNumbers ==
    /\ \A r \in DOMAIN Rungs : r \in Nat
    /\ Min(DOMAIN Rungs) \in DOMAIN Rungs /\ \A r \in DOMAIN Rungs : Min(DOMAIN Rungs) <= r
<1>1. DOMAIN Rungs = 1 .. Len(Rungs) /\ Len(Rungs) \in Nat /\ Rungs # <<>>
  BY TileAssumption
<1>2. DOMAIN Rungs \subseteq Nat /\ DOMAIN Rungs # {}
  BY <1>1, TileAssumption
<1> QED BY <1>2, LeastIn

\* An instant has one tile of each rung.
LEMMA TileOfRung ==
    ASSUME NEW r \in DOMAIN Rungs, NEW t \in TileUnits
    PROVE  \E c \in Tiles : c[1] = r /\ Covers(c, t)
<1>1. PICK iv \in Rungs[r] : iv[1] <= t /\ t < iv[2]
  BY TileAssumption
<1>2. <<r, iv[1], iv[2]>> \in Tiles
  BY DEF Tiles
<1> QED BY <1>1, <1>2 DEF Covers

LEMMA OneTileOfRung ==
    ASSUME NEW c \in Tiles, NEW d \in Tiles, c[1] = d[1], NEW t \in TileUnits, Covers(c, t), Covers(d, t)
    PROVE  c = d
<1>1. t \in Nat
  BY Parameters DEF TileUnits
<1> DEFINE a == <<c[2], c[3]>>
           b == <<d[2], d[3]>>
<1>2. a \in Rungs[c[1]] /\ b \in Rungs[c[1]] /\ c[1] \in DOMAIN Rungs
  BY TileShape
<1>3. c[2] \in Nat /\ c[3] \in Nat /\ d[2] \in Nat /\ d[3] \in Nat
  BY TileShape
<1>4. Meet(a, b)
  BY <1>1, <1>3 DEF Meet, Covers
<1>5. a = b
  BY <1>2, <1>4, TileAssumption
<1> QED BY <1>5, TileShape

\* The tile an instant is read from: of the largest rung that is listed there, or
\* of the finest.
LEMMA TileFacts ==
    ASSUME NEW list \in SUBSET Tiles, NEW t \in TileUnits
    PROVE  /\ TileIn(list, t) \in Tiles /\ Covers(TileIn(list, t), t)
           /\ \A c \in list : Covers(c, t) => c[1] <= TileIn(list, t)[1]
           /\ IF \E c \in list : Covers(c, t) THEN TileIn(list, t) \in list
              ELSE TileIn(list, t)[1] = Fallback
<1> DEFINE present == {c \in list : Covers(c, t)}
           rungs   == {c[1] : c \in present}
           rung    == IF present = {} THEN Fallback ELSE Max(rungs)
           got     == TileIn(list, t)
<1>1. present # {} => Max(rungs) \in rungs /\ \A y \in rungs : y <= Max(rungs)
  <2> SUFFICES ASSUME present # {} PROVE Max(rungs) \in rungs /\ \A y \in rungs : y <= Max(rungs)
    OBVIOUS
  <2>1. Len(Rungs) \in Nat
    BY TileAssumption
  <2>2. rungs # {}
    <3>1. PICK c \in present : TRUE
      OBVIOUS
    <3>2. c[1] \in rungs
      OBVIOUS
    <3> QED BY <3>2
  <2>3. rungs \subseteq 0 .. Len(Rungs)
    <3>1. ASSUME NEW c \in present PROVE c[1] \in 0 .. Len(Rungs)
      <4>1. c \in Tiles
        OBVIOUS
      <4>2. c[1] \in Nat /\ c[1] <= Len(Rungs)
        BY <4>1, TileShape
      <4> HIDE DEF present
      <4> QED BY <2>1, <4>2
    <3> QED BY <3>1
  <2> HIDE DEF rungs
  <2> QED BY <2>1, <2>2, <2>3, GreatestIn
<1>2. rung \in DOMAIN Rungs
  <2>1. CASE present = {}
    BY <2>1, RungNumbers DEF Fallback
  <2>2. CASE present # {}
    <3>1. PICK c \in present : Max(rungs) = c[1]
      BY <1>1, <2>2
    <3> QED BY <2>2, <3>1, TileShape
  <2> QED BY <2>1, <2>2
<1>3. got = CHOOSE c \in Tiles : c[1] = rung /\ Covers(c, t)
  BY DEF TileIn
<1> HIDE DEF rung, got
<1>4. got \in Tiles /\ got[1] = rung /\ Covers(got, t)
  BY <1>2, <1>3, TileOfRung
<1>5. CASE present = {}
  BY <1>4, <1>5 DEF rung, got
<1>6. CASE present # {}
  <2>1. PICK c \in present : c[1] = Max(rungs)
    BY <1>1, <1>6
  <2>2. c \in Tiles /\ Covers(c, t) /\ c[1] = got[1]
    BY <1>4, <1>6, <2>1 DEF rung
  <2>3. got = c
    BY <1>4, <2>2, OneTileOfRung
  <2>4. \A d \in list : Covers(d, t) => d[1] <= Max(rungs)
    <3> SUFFICES ASSUME NEW d \in list, Covers(d, t) PROVE d[1] <= Max(rungs)
      OBVIOUS
    <3>1. d[1] \in rungs
      OBVIOUS
    <3> QED BY <1>1, <1>6, <3>1
  <2> QED BY <1>4, <2>1, <2>2, <2>3, <2>4 DEF got
<1> QED BY <1>5, <1>6

\* Where the rungs nest, every instant of a tile that is read is read from it.
LEMMA SameTile ==
    ASSUME NestedRungs, NEW list \in SUBSET Tiles, NEW t \in TileUnits, NEW u \in TileUnits,
           Covers(TileIn(list, t), u)
    PROVE  TileIn(list, u) = TileIn(list, t)
<1> DEFINE c == TileIn(list, t)
           d == TileIn(list, u)
<1>1. c \in Tiles /\ Covers(c, t) /\ Covers(c, u) /\ d \in Tiles /\ Covers(d, u)
  BY TileFacts
<1>2. t \in Nat /\ u \in Nat
  BY Parameters DEF TileUnits
<1>3. c[1] = d[1] => d = c
  BY <1>1, OneTileOfRung
<1>4. c[1] < d[1] => Covers(d, t)
  <2> SUFFICES ASSUME c[1] < d[1] PROVE Covers(d, t)
    OBVIOUS
  <2> DEFINE a == <<c[2], c[3]>>
             b == <<d[2], d[3]>>
  <2>1. /\ a \in Rungs[c[1]] /\ b \in Rungs[d[1]] /\ c[1] \in DOMAIN Rungs /\ d[1] \in DOMAIN Rungs
        /\ c[2] \in Nat /\ c[3] \in Nat /\ d[2] \in Nat /\ d[3] \in Nat
    BY <1>1, TileShape
  <2> HIDE DEF c, d
  <2>2. Meet(a, b)
    BY <1>1, <1>2, <2>1 DEF Meet, Covers
  <2>3. b[1] <= a[1] /\ a[2] <= b[2]
    BY <2>1, <2>2 DEF NestedRungs
  <2> QED BY <1>1, <1>2, <2>1, <2>3 DEF Covers
<1>5. c[1] \in Nat /\ d[1] \in Nat /\ Fallback \in Nat /\ Fallback <= c[1] /\ Fallback <= d[1]
  BY <1>1, TileShape, RungNumbers DEF Fallback
<1>6. \A e \in list : /\ Covers(e, t) => e[1] <= c[1]
                      /\ Covers(e, u) => e[1] <= d[1]
  BY TileFacts
<1>7. (\E e \in list : Covers(e, t)) => c \in list
  BY TileFacts
<1>8. IF \E e \in list : Covers(e, u) THEN d \in list ELSE d[1] = Fallback
  BY TileFacts
<1> HIDE DEF c, d
<1>9. ~(c[1] < d[1])
  BY <1>1, <1>4, <1>5, <1>6, <1>8
<1>10. ~(d[1] < c[1])
  <2> SUFFICES ASSUME d[1] < c[1] PROVE FALSE
    OBVIOUS
  <2>1. c \notin list
    BY <1>1, <1>5, <1>6
  <2>2. c[1] = Fallback
    BY <1>7, <2>1, TileFacts DEF c
  <2> QED BY <1>5, <2>2
<1> QED BY <1>3, <1>5, <1>9, <1>10 DEF c, d

\* A sum of misses that is none is of tiles none of which was missed.
LEMMA NoMisses ==
    ASSUME missing \in [Tiles -> Nat], NEW cs \in SUBSET Tiles
    PROVE  Misses(cs) \in Nat /\ (Misses(cs) = 0 => \A c \in cs : missing[c] = 0)
<1> DEFINE Of(c) == {c} \X (1 .. missing[c])
           parts == {Of(c) : c \in cs}
<1>1. IsFiniteSet(cs)
  BY TileAssumption, FS_Subset
<1>2. IsFiniteSet(parts)
  <2> DEFINE f == [c \in cs |-> Of(c)]
  <2> HIDE DEF Of
  <2>1. f \in Surjection(cs, parts)
    BY DEF Surjection
  <2> QED BY <1>1, <2>1, FS_Surjection
<1>3. ASSUME NEW p \in parts PROVE IsFiniteSet(p)
  <2>1. PICK c \in cs : p = {c} \X (1 .. missing[c])
    BY <1>3
  <2> DEFINE n == missing[c]
  <2>2. n \in Int /\ 1 \in Int
    OBVIOUS
  <2> HIDE DEF n
  <2>3. IsFiniteSet(1 .. n)
    BY <2>2, FS_Interval
  <2>4. IsFiniteSet({c})
    BY FS_Singleton
  <2> QED BY <2>1, <2>3, <2>4, FS_Product DEF n
<1> DEFINE all == UNION parts
<1>4. Misses(cs) = Cardinality(all)
  BY DEF Misses
<1>5. IsFiniteSet(all)
  <2> HIDE DEF parts
  <2> QED BY <1>2, <1>3, FS_UNION
<1>6. Cardinality(all) \in Nat /\ (Cardinality(all) = 0 => all = {})
  <2> HIDE DEF all
  <2> QED BY <1>5, FS_CardinalityType, FS_EmptySet
<1>7. ASSUME all = {}, NEW c \in cs PROVE missing[c] = 0
  <2>1. Of(c) \in parts
    OBVIOUS
  <2>2. Of(c) = {}
    BY <1>7, <2>1
  <2>3. missing[c] \in Nat
    OBVIOUS
  <2>4. 1 \in 1 .. missing[c] => <<c, 1>> \in Of(c)
    OBVIOUS
  <2> QED BY <2>2, <2>3, <2>4
<1> HIDE DEF all
<1> QED BY <1>4, <1>6, <1>7

-----------------------------------------------------------------------------
(* The inductive invariants: the loads. *)

\* Windows are claimed in order, and those collected have ended well.
ClaimInv ==
    /\ listing \in Listings
    /\ \A i \in Windows : i > claimed => st[i] = "idle"
    /\ \A i \in collected : st[i] = "done"
    /\ 1 .. watermark \subseteq collected
    /\ verdict = "ok" => watermark = NWin

\* What each thread has in hand, and where each window is.
HandInv ==
    /\ st[Readahead] \in {"idle", "look", "load", "wait"}
    /\ st[Readahead] # "idle" => tile[Readahead] \in Tiles
    /\ \A i \in Windows :
          /\ st[i] \in {"load", "wait"} => tile[i] = TileAt(pos[i])
          /\ st[i] \in {"look", "load", "wait"} => WFrom(i) <= pos[i] /\ pos[i] < WTo(i)
          /\ st[i] = "done" => WTo(i) <= pos[i]
          /\ st[i] = "idle" => pos[i] = 0

\* One thread at a time loads a tile, and a tile that is loading or waited for
\* has that thread.
LoadInv ==
    /\ \A x, y \in Threads : st[x] = "load" /\ st[y] = "load" /\ tile[x] = tile[y] => x = y
    /\ \A x \in Threads : st[x] \in {"load", "wait"} => cache[tile[x]] = "loading"
    /\ \A c \in Tiles : cache[c] = "loading" => \E y \in Threads : st[y] = "load" /\ tile[y] = c
    /\ \A c \in Tiles : cache[c] = "empty" => missing[c] > 0

\* A tile that was loaded and is not in the cache, or is there because readahead
\* loads it again, lies before the windows that are not complete.
Behind(c) == c[3] <= WFrom(watermark + 1)
OnceInv ==
    /\ \A c \in Tiles : loads[c] \in {0, 1}
    /\ \A i \in Windows : st[i] = "load" => loads[tile[i]] = 1
    /\ \A c \in Tiles :
          cache[c] = "absent" \/ (st[Readahead] = "load" /\ tile[Readahead] = c)
              => loads[c] = 0 \/ Behind(c)

CacheInv == TypeTiles /\ ClaimInv /\ HandInv /\ LoadInv /\ OnceInv

LEMMA ThreadFacts ==
    /\ Readahead \notin Windows /\ Windows \subseteq Nat
    /\ \A x \in Threads : x # Readahead => x \in Windows
    /\ Readahead \in Threads /\ Windows \subseteq Threads
BY WindowCount DEF Threads, Readahead, Windows

\* A window that is under way is at a unit of the range, and after the watermark.
LEMMA UnderWay ==
    ASSUME CacheInv, NEW i \in Windows, st[i] \in {"look", "load", "wait"}
    PROVE  pos[i] \in TileUnits /\ i > watermark /\ WFrom(watermark + 1) <= pos[i]
<1>1. /\ pos[i] \in Nat /\ watermark \in Nat /\ 1 .. watermark \subseteq collected
      /\ \A k \in collected : st[k] = "done"
      /\ WFrom(i) <= pos[i] /\ pos[i] < WTo(i) /\ i \in Threads
  BY ThreadFacts, WindowCount DEF CacheInv, TypeTiles, ClaimInv, HandInv
<1>2. pos[i] \in TileUnits
  BY <1>1, WindowEnds, Parameters DEF TileUnits
<1>3. i \in Nat \ {0}
  BY WindowCount DEF Windows
<1>4. i > watermark
  BY <1>1, <1>3
<1>5. WFrom(watermark + 1) <= WFrom(i) /\ WFrom(watermark + 1) \in Nat /\ WFrom(i) \in Nat
  BY <1>1, <1>3, <1>4, WindowOrder
<1> QED BY <1>1, <1>2, <1>4, <1>5

\* What a thread looks for is a tile, and a window looks for none that is behind.
LEMMA WantedFacts ==
    ASSUME CacheInv, NEW x \in Threads, st[x] \in {"look", "load", "wait"}
    PROVE  /\ Wanted(x) \in Tiles
           /\ st[x] # "look" => tile[x] = Wanted(x)
           /\ x \in Windows => Wanted(x) = TileAt(pos[x]) /\ Covers(Wanted(x), pos[x]) /\ ~Behind(Wanted(x))
<1>1. listing \in SUBSET Tiles
  BY TileAssumption DEF CacheInv, ClaimInv
<1>2. CASE x = Readahead
  BY <1>2, ThreadFacts DEF CacheInv, HandInv, Wanted
<1>3. CASE x # Readahead
  <2>1. x \in Windows /\ Wanted(x) = TileAt(pos[x])
    BY <1>3, ThreadFacts DEF Wanted
  <2>2. pos[x] \in TileUnits /\ WFrom(watermark + 1) <= pos[x]
    BY <2>1, UnderWay
  <2>3. Wanted(x) \in Tiles /\ Covers(Wanted(x), pos[x])
    BY <1>1, <2>1, <2>2, TileFacts DEF TileAt
  <2>4. ~Behind(Wanted(x))
    <3>1. watermark \in Nat
      BY WindowCount DEF CacheInv, TypeTiles
    <3>2. WFrom(watermark + 1) \in Nat
      BY <3>1, WindowOrder
    <3>3. pos[x] \in Nat
      BY <2>2, Parameters DEF TileUnits
    <3>4. Wanted(x)[3] \in Nat
      BY <2>3, TileShape
    <3> QED BY <2>2, <2>3, <3>2, <3>3, <3>4 DEF Behind, Covers
  <2>5. st[x] # "look" => tile[x] = Wanted(x)
    BY <2>1 DEF CacheInv, HandInv
  <2> QED BY <2>1, <2>3, <2>4, <2>5
<1> QED BY <1>2, <1>3

LEMMA InitCacheInv == InitTiles => CacheInv
<1> SUFFICES ASSUME InitTiles PROVE CacheInv
  OBVIOUS
<1> USE DEF InitTiles
<1>1. listing \in SUBSET Tiles
  BY TileAssumption
<1>2. TypeTiles
  <2>1. watermark \in 0 .. claimed /\ claimed \in 0 .. NWin /\ collected \subseteq 1 .. claimed
    BY WindowCount
  <2> QED BY <1>1, <2>1, Parameters DEF TypeTiles
<1>3. ClaimInv
  BY ThreadFacts DEF ClaimInv
<1>4. HandInv
  BY ThreadFacts DEF HandInv
<1>5. LoadInv
  BY ThreadFacts DEF LoadInv
<1>6. OnceInv
  BY ThreadFacts DEF OnceInv
<1> QED BY <1>2, <1>3, <1>4, <1>5, <1>6 DEF CacheInv

LEMMA ClaimWindowInv == ASSUME CacheInv, ClaimWindow PROVE CacheInv'
<1> DEFINE n == claimed + 1
<1>1. /\ claimed \in Nat /\ claimed < NWin /\ n \in Windows /\ n \in Threads /\ n # Readahead
      /\ st[n] = "idle" /\ WFrom(n) \in Nat /\ WFrom(n) < WTo(n)
  <2>1. claimed \in Nat /\ claimed < NWin
    BY WindowCount DEF CacheInv, TypeTiles, ClaimWindow
  <2>2. n \in Windows
    BY <2>1, WindowCount DEF Windows
  <2>3. st[n] = "idle"
    BY <2>1, <2>2 DEF CacheInv, ClaimInv
  <2> QED BY <2>1, <2>2, <2>3, ThreadFacts, WindowEnds
<1>2. /\ claimed' = n /\ st' = [st EXCEPT ![n] = "look"] /\ pos' = [pos EXCEPT ![n] = WFrom(n)]
      /\ UNCHANGED <<listing, tiles, watermark, collected, tile, cache, nTiles, missing, rows,
                     loads, verdict, tileFaults>>
  BY DEF ClaimWindow
<1>3. queue' \in Seq(Tiles)
  <2>1. CASE UNCHANGED queue
    BY <2>1 DEF CacheInv, TypeTiles
  <2>2. ASSUME n + Cap < NWin, queue' = Append(queue, TileAt(WFrom(n + Cap + 1))) PROVE queue' \in Seq(Tiles)
    <3>1. n + Cap + 1 \in Windows
      BY <1>1, <2>2, WindowCount, Parameters DEF Windows
    <3>2. WFrom(n + Cap + 1) \in TileUnits
      BY <3>1, WindowEnds, Parameters DEF TileUnits
    <3>3. listing \in SUBSET Tiles
      BY TileAssumption DEF CacheInv, ClaimInv
    <3>4. TileAt(WFrom(n + Cap + 1)) \in Tiles
      BY <3>2, <3>3, TileFacts DEF TileAt
    <3> HIDE DEF n
    <3> QED BY <2>2, <3>4 DEF CacheInv, TypeTiles
  <2> QED BY <2>1, <2>2 DEF ClaimWindow, Prefetch
<1> HIDE DEF n
<1>4. /\ \A x \in Threads : x # n => st'[x] = st[x] /\ pos'[x] = pos[x]
      /\ st'[n] = "look" /\ pos'[n] = WFrom(n)
  BY <1>1, <1>2 DEF CacheInv, TypeTiles
<1>5. TypeTiles'
  <2>1. watermark' \in 0 .. claimed' /\ claimed' \in 0 .. NWin /\ collected' \subseteq 1 .. claimed'
    BY <1>1, <1>2, WindowCount DEF CacheInv, TypeTiles, n
  <2>2. /\ st' \in [Threads -> {"idle", "look", "load", "wait", "done", "raised"}] /\ pos' \in [Threads -> Nat]
    BY <1>1, <1>2 DEF CacheInv, TypeTiles
  <2> QED BY <1>2, <1>3, <2>1, <2>2 DEF CacheInv, TypeTiles
<1>6. ClaimInv'
  <2>1. n \notin collected
    BY <1>1 DEF CacheInv, ClaimInv
  <2>2. \A i \in collected : i \in Threads
    BY <1>1, ThreadFacts, WindowCount DEF CacheInv, TypeTiles, Windows
  <2>3. \A i \in collected : st'[i] = "done"
    BY <1>4, <2>1, <2>2 DEF CacheInv, ClaimInv
  <2>4. \A i \in Windows : i > n => st'[i] = "idle"
    BY <1>1, <1>4, ThreadFacts DEF CacheInv, ClaimInv, n
  <2> QED BY <1>2, <2>3, <2>4 DEF CacheInv, ClaimInv
<1>7. HandInv'
  <2>1. st'[Readahead] = st[Readahead]
    BY <1>1, <1>4, ThreadFacts
  <2>2. ASSUME NEW i \in Windows
        PROVE  /\ st'[i] \in {"load", "wait"} => tile[i] = TileIn(listing, pos'[i])
               /\ st'[i] \in {"look", "load", "wait"} => WFrom(i) <= pos'[i] /\ pos'[i] < WTo(i)
               /\ st'[i] = "done" => WTo(i) <= pos'[i]
               /\ st'[i] = "idle" => pos'[i] = 0
    <3>1. CASE i = n
      BY <1>1, <1>4, <3>1
    <3>2. CASE i # n
      BY <1>4, <3>2, ThreadFacts DEF CacheInv, HandInv, TileAt
    <3> QED BY <3>1, <3>2
  <2> QED BY <1>2, <2>1, <2>2 DEF CacheInv, HandInv, TileAt
<1>8. LoadInv'
  <2>1. \A x \in Threads : /\ st'[x] = "load" <=> st[x] = "load"
                           /\ st'[x] = "wait" <=> st[x] = "wait"
    BY <1>1, <1>4
  <2> QED BY <1>2, <2>1 DEF CacheInv, LoadInv
<1>9. OnceInv'
  <2>1. \A x \in Threads : st'[x] = "load" <=> st[x] = "load"
    BY <1>1, <1>4
  <2> QED BY <1>2, <2>1, ThreadFacts DEF CacheInv, OnceInv, Behind
<1> QED BY <1>5, <1>6, <1>7, <1>8, <1>9 DEF CacheInv

LEMMA CollectWindowsInv == ASSUME CacheInv, CollectWindows PROVE CacheInv'
<1> DEFINE ended == {i \in 1 .. claimed : st[i] \in {"done", "raised"}} \ collected
           ks    == {k \in 0 .. NWin : 1 .. k \subseteq collected \cup ended}
           done  == Max(ks)
<1>1. UNCHANGED <<listing, tiles, claimed, st, pos, tile, queue, nTiles, missing, rows, loads, tileFaults>>
  BY DEF CollectWindows
<1>2. HandInv'
  BY <1>1 DEF CacheInv, HandInv, TileAt
<1>3. verdict = "running"
  BY DEF CollectWindows
<1>4. CASE \E i \in ended : st[i] = "raised"
  <2>1. verdict' = "raised" /\ UNCHANGED <<watermark, collected, cache>>
    BY <1>4 DEF CollectWindows
  <2> QED BY <1>1, <1>2, <2>1 DEF CacheInv, TypeTiles, ClaimInv, LoadInv, OnceInv, Behind
<1>5. CASE ~\E i \in ended : st[i] = "raised"
  <2>1. /\ collected' = collected \cup ended /\ watermark' = done /\ verdict' = verdict
        /\ cache' = [c \in Tiles |-> IF done > watermark /\ done < NWin /\ c \in Evicted(done)
                                     THEN "absent" ELSE cache[c]]
    BY <1>5 DEF CollectWindows
  <2>2. claimed \in Nat /\ watermark \in 0 .. claimed /\ claimed <= NWin
        /\ collected \subseteq 1 .. claimed /\ 1 .. watermark \subseteq collected
    BY WindowCount DEF CacheInv, TypeTiles, ClaimInv
  <2>3. ended \subseteq 1 .. claimed /\ \A i \in ended : st[i] = "done"
    BY <1>5
  <2> HIDE DEF ended
  <2>4. watermark \in ks
    BY <2>2, WindowCount
  <2>5. done \in ks /\ \A k \in ks : k <= done
    <3>1. ks \subseteq 0 .. NWin /\ NWin \in Nat
      BY WindowCount
    <3> HIDE DEF ks
    <3> QED BY <2>4, <3>1, GreatestIn
  <2>6. done \in 0 .. NWin /\ 1 .. done \subseteq collected \cup ended /\ watermark <= done
    BY <2>4, <2>5
  <2> HIDE DEF done
  <2>7. done <= claimed
    <3>1. 1 .. done \subseteq 1 .. claimed
      BY <2>2, <2>3, <2>6
    <3>2. done \in Nat
      BY <2>6, WindowCount
    <3>3. done # 0 => done \in 1 .. done
      BY <3>2
    <3> QED BY <2>2, <3>1, <3>2, <3>3
  <2>8. \A c \in Tiles : cache'[c] # cache[c] =>
            cache'[c] = "absent" /\ cache[c] \in {"full", "empty"} /\ c[3] <= WFrom(done + 1)
    BY <2>1 DEF Evicted, WindowNow
  <2>9. TypeTiles'
    <3>1. cache' \in [Tiles -> {"absent", "loading", "full", "empty"}]
      BY <2>1 DEF CacheInv, TypeTiles
    <3>2. watermark' \in 0 .. claimed' /\ collected' \subseteq 1 .. claimed'
      BY <1>1, <2>1, <2>2, <2>3, <2>6, <2>7
    <3> QED BY <1>1, <2>1, <3>1, <3>2 DEF CacheInv, TypeTiles
  <2>10. ClaimInv'
    <3>1. 1 .. watermark' \subseteq collected'
      BY <2>1, <2>6
    <3>2. \A i \in collected' : st[i] = "done"
      BY <2>1, <2>3 DEF CacheInv, ClaimInv
    <3> QED BY <1>1, <1>3, <2>1, <3>1, <3>2 DEF CacheInv, ClaimInv
  <2>11. LoadInv'
    <3>1. \A c \in Tiles : cache'[c] = "loading" <=> cache[c] = "loading"
      BY <2>8
    <3>2. \A c \in Tiles : cache'[c] = "empty" => cache[c] = "empty"
      BY <2>8
    <3>3. \A x \in Threads : st[x] \in {"load", "wait"} => tile[x] \in Tiles
      BY WantedFacts
    <3> QED BY <1>1, <3>1, <3>2, <3>3 DEF CacheInv, LoadInv
  <2>12. OnceInv'
    <3>1. \A c \in Tiles : Behind(c) => c[3] <= WFrom(done + 1)
      <4> SUFFICES ASSUME NEW c \in Tiles, Behind(c) PROVE c[3] <= WFrom(done + 1)
        OBVIOUS
      <4>1. watermark + 1 \in Nat \ {0} /\ done + 1 \in Nat \ {0} /\ watermark + 1 <= done + 1
        BY <2>2, <2>6, WindowCount
      <4>2. /\ WFrom(watermark + 1) \in Nat /\ WFrom(done + 1) \in Nat
            /\ WFrom(watermark + 1) <= WFrom(done + 1)
        BY <4>1, WindowOrder
      <4>3. c[3] \in Nat
        BY TileShape
      <4> QED BY <4>2, <4>3 DEF Behind
    <3>2. \A c \in Tiles :
             cache'[c] = "absent" \/ (st[Readahead] = "load" /\ tile[Readahead] = c)
                 => loads[c] = 0 \/ c[3] <= WFrom(done + 1)
      BY <2>8, <3>1 DEF CacheInv, OnceInv
    <3> QED BY <1>1, <2>1, <3>2 DEF CacheInv, OnceInv, Behind
  <2> QED BY <1>2, <2>9, <2>10, <2>11, <2>12 DEF CacheInv
<1> QED BY <1>4, <1>5

LEMMA JudgeInv == ASSUME CacheInv, Judge PROVE CacheInv'
<1>1. /\ UNCHANGED <<listing, tiles, claimed, watermark, collected, st, pos, tile, queue, cache,
                     nTiles, missing, rows, loads, tileFaults>>
      /\ verdict' \in {"ok", "coverage"} /\ watermark = NWin
  BY DEF Judge
<1> QED BY <1>1 DEF CacheInv, TypeTiles, ClaimInv, HandInv, LoadInv, OnceInv, Behind, TileAt

LEMMA TakeQueuedInv == ASSUME CacheInv, TakeQueued PROVE CacheInv'
<1>1. /\ st[Readahead] = "idle" /\ queue # <<>>
      /\ st' = [st EXCEPT ![Readahead] = "look"] /\ tile' = [tile EXCEPT ![Readahead] = Head(queue)]
      /\ queue' = Tail(queue)
      /\ UNCHANGED <<listing, tiles, claimed, watermark, collected, pos, cache, nTiles, missing,
                     rows, loads, verdict, tileFaults>>
  BY DEF TakeQueued
<1>2. Head(queue) \in Tiles /\ queue' \in Seq(Tiles)
  BY <1>1 DEF CacheInv, TypeTiles
<1>3. /\ \A x \in Threads : x # Readahead => st'[x] = st[x] /\ tile'[x] = tile[x]
      /\ st'[Readahead] = "look" /\ tile'[Readahead] \in Tiles
  BY <1>1, <1>2, ThreadFacts DEF CacheInv, TypeTiles
<1>4. TypeTiles'
  <2>1. /\ st' \in [Threads -> {"idle", "look", "load", "wait", "done", "raised"}]
        /\ tile' \in [Threads -> Tiles \cup {NoTile}]
    BY <1>1, <1>2 DEF CacheInv, TypeTiles
  <2> QED BY <1>1, <1>2, <2>1 DEF CacheInv, TypeTiles
<1>5. \A i \in Windows : st'[i] = st[i] /\ tile'[i] = tile[i]
  BY <1>3, ThreadFacts
<1>6. ClaimInv'
  <2>1. \A i \in collected : i \in Windows
    BY WindowCount DEF CacheInv, TypeTiles, Windows
  <2> QED BY <1>1, <1>5, <2>1 DEF CacheInv, ClaimInv
<1>7. HandInv'
  BY <1>1, <1>3, <1>5 DEF CacheInv, HandInv, TileAt
<1>8. LoadInv'
  <2>1. \A x \in Threads : /\ st'[x] \in {"load", "wait"} => st'[x] = st[x] /\ tile'[x] = tile[x]
                           /\ st[x] \in {"load", "wait"} => st'[x] = st[x] /\ tile'[x] = tile[x]
    BY <1>1, <1>3
  <2> QED BY <1>1, <2>1 DEF CacheInv, LoadInv
<1>9. OnceInv'
  BY <1>1, <1>3, <1>5 DEF CacheInv, OnceInv, Behind
<1> QED BY <1>4, <1>6, <1>7, <1>8, <1>9 DEF CacheInv

LEMMA VanishInv == ASSUME CacheInv, NEW c \in Tiles, Vanish(c) PROVE CacheInv'
<1>1. /\ tiles' = tiles \ {c} /\ tileFaults < MaxTileFaults /\ tileFaults' = tileFaults + 1
      /\ UNCHANGED <<listing, claimed, watermark, collected, st, pos, tile, queue, cache, nTiles,
                     missing, rows, loads, verdict>>
  BY DEF Vanish
<1>2. TypeTiles'
  BY <1>1, Parameters DEF CacheInv, TypeTiles
<1> QED BY <1>1, <1>2 DEF CacheInv, ClaimInv, HandInv, LoadInv, OnceInv, Behind, TileAt

\* Threads that get a frame go on, and hand nothing back.
LEMMA GotFacts ==
    ASSUME CacheInv, NEW xs \in SUBSET Threads, NEW c \in Tiles, NEW frame, Got(xs, c, frame)
    PROVE  /\ st' \in [Threads -> {"idle", "look", "load", "wait", "done", "raised"}]
           /\ pos' \in [Threads -> Nat] /\ tile' \in [Threads -> Tiles \cup {NoTile}]
           /\ rows' \in [Windows -> [TileUnits -> Nat]]
           /\ \A x \in Threads :
                 IF x \in xs THEN st'[x] = Step(x, c) /\ st'[x] \notin {"load", "wait"} /\ pos'[x] = c[3]
                 ELSE st'[x] = st[x] /\ pos'[x] = pos[x] /\ tile'[x] = tile[x]
<1>1. c[3] \in Nat
  BY TileShape
<1>2. \A x \in Threads : Step(x, c) \in {"idle", "done", "look"}
  BY DEF Step
<1>3. /\ st' \in [Threads -> {"idle", "look", "load", "wait", "done", "raised"}]
      /\ \A x \in Threads : st'[x] = IF x \in xs THEN Step(x, c) ELSE st[x]
  <2>1. st' = [x \in Threads |-> IF x \in xs THEN Step(x, c) ELSE st[x]]
    BY DEF Got
  <2> QED BY <1>2, <2>1 DEF CacheInv, TypeTiles
<1>4. /\ pos' \in [Threads -> Nat] /\ tile' \in [Threads -> Tiles \cup {NoTile}]
      /\ \A x \in Threads : /\ pos'[x] = IF x \in xs THEN c[3] ELSE pos[x]
                            /\ tile'[x] = IF x \in xs THEN NoTile ELSE tile[x]
  BY <1>1 DEF Got, CacheInv, TypeTiles
<1>5. rows' \in [Windows -> [TileUnits -> Nat]]
  <2>1. ASSUME NEW i \in Windows, NEW u \in TileUnits
        PROVE  (IF frame = "full" /\ i \in xs /\ Covers(c, u) /\ WFrom(i) <= u /\ u < WTo(i)
                THEN rows[i][u] + 1 ELSE rows[i][u]) \in Nat
    <3>1. rows[i][u] \in Nat
      BY DEF CacheInv, TypeTiles
    <3> QED BY <3>1
  <2>2. rows' = [i \in Windows |-> [u \in TileUnits |->
                  IF frame = "full" /\ i \in xs /\ Covers(c, u) /\ WFrom(i) <= u /\ u < WTo(i)
                  THEN rows[i][u] + 1 ELSE rows[i][u]]]
    BY DEF Got
  <2> QED BY <2>1, <2>2
<1> QED BY <1>2, <1>3, <1>4, <1>5

\* They leave the claims as they are, and what each window has in hand in order.
LEMMA GotClaims ==
    ASSUME CacheInv, NEW xs \in SUBSET Threads, NEW c \in Tiles, NEW frame, Got(xs, c, frame),
           \A x \in xs : st[x] \in {"look", "load", "wait"} /\ Wanted(x) = c,
           UNCHANGED <<listing, claimed, collected, watermark, verdict>>
    PROVE  ClaimInv' /\ HandInv'
<1>1. /\ \A x \in Threads \ xs : st'[x] = st[x] /\ pos'[x] = pos[x] /\ tile'[x] = tile[x]
      /\ \A x \in xs : st'[x] = Step(x, c) /\ pos'[x] = c[3]
  <2>1. \A x \in Threads :
           IF x \in xs THEN st'[x] = Step(x, c) /\ st'[x] \notin {"load", "wait"} /\ pos'[x] = c[3]
           ELSE st'[x] = st[x] /\ pos'[x] = pos[x] /\ tile'[x] = tile[x]
    BY GotFacts
  <2>2. xs \subseteq Threads
    OBVIOUS
  <2> QED BY <2>1, <2>2
<1>2. ClaimInv'
  <2>1. \A i \in collected : i \in Threads \ xs
    <3>1. \A i \in collected : i \in Threads /\ st[i] = "done"
      BY ThreadFacts, WindowCount DEF CacheInv, TypeTiles, ClaimInv, Windows
    <3> QED BY <3>1
  <2>2. \A i \in Windows : i > claimed => i \in Threads \ xs
    <3>1. \A i \in Windows : i > claimed => i \in Threads /\ st[i] = "idle"
      BY ThreadFacts DEF CacheInv, ClaimInv
    <3> QED BY <3>1
  <2> QED BY <1>1, <2>1, <2>2 DEF CacheInv, ClaimInv
<1>3. ASSUME NEW i \in Windows
      PROVE  /\ st'[i] \in {"load", "wait"} => tile'[i] = TileIn(listing, pos'[i])
             /\ st'[i] \in {"look", "load", "wait"} => WFrom(i) <= pos'[i] /\ pos'[i] < WTo(i)
             /\ st'[i] = "done" => WTo(i) <= pos'[i]
             /\ st'[i] = "idle" => pos'[i] = 0
  <2>1. CASE i \notin xs
    BY <1>1, <2>1, ThreadFacts DEF CacheInv, HandInv, TileAt
  <2>2. CASE i \in xs
    <3>1. Covers(c, pos[i]) /\ WFrom(i) <= pos[i]
      BY <2>2, ThreadFacts, WantedFacts DEF CacheInv, HandInv
    <3>2. pos[i] \in Nat /\ c[3] \in Nat /\ WFrom(i) \in Nat /\ WTo(i) \in Nat
      BY ThreadFacts, TileShape, WindowEnds DEF CacheInv, TypeTiles
    <3>3. st'[i] = (IF c[3] >= WTo(i) THEN "done" ELSE "look") /\ pos'[i] = c[3]
      BY <1>1, <2>2, ThreadFacts DEF Step
    <3> QED BY <3>1, <3>2, <3>3 DEF Covers
  <2> QED BY <2>1, <2>2
<1>4. /\ st'[Readahead] \in {"idle", "look", "load", "wait"}
      /\ st'[Readahead] # "idle" => tile'[Readahead] \in Tiles
  <2>1. CASE Readahead \in xs
    BY <1>1, <2>1 DEF Step
  <2>2. CASE Readahead \notin xs
    BY <1>1, <2>2, ThreadFacts DEF CacheInv, HandInv
  <2> QED BY <2>1, <2>2
<1>5. HandInv'
  BY <1>3, <1>4 DEF HandInv, TileAt
<1> QED BY <1>2, <1>5

LEMMA LookUpInv == ASSUME CacheInv, NEW x \in Threads, LookUp(x) PROVE CacheInv'
<1> DEFINE c == Wanted(x)
<1>1. /\ st[x] = "look"
      /\ UNCHANGED <<listing, tiles, claimed, watermark, collected, queue, missing, verdict, tileFaults>>
  BY DEF LookUp
<1>2. c \in Tiles /\ (x \in Windows => c = TileAt(pos[x]) /\ ~Behind(c))
  BY <1>1, WantedFacts
<1>3. \A y \in Threads : st[y] \in {"load", "wait"} => tile[y] \in Tiles
  BY WantedFacts
<1>4. \A i \in collected : i \in Windows
  BY WindowCount DEF CacheInv, TypeTiles, Windows
<1>5. CASE cache[c] = "absent"
  <2>1. /\ st' = [st EXCEPT ![x] = "load"] /\ tile' = [tile EXCEPT ![x] = c]
        /\ cache' = [cache EXCEPT ![c] = "loading"] /\ nTiles' = nTiles + 1
        /\ loads' = [loads EXCEPT ![c] = IF x = Readahead THEN @ ELSE @ + 1]
        /\ UNCHANGED <<pos, rows>>
    BY <1>5 DEF LookUp, NoEntry
  <2> HIDE DEF c
  <2>2. /\ st'[x] = "load" /\ tile'[x] = c
        /\ \A y \in Threads : y # x => st'[y] = st[y] /\ tile'[y] = tile[y]
    BY <2>1 DEF CacheInv, TypeTiles
  <2>3. /\ cache'[c] = "loading" /\ \A d \in Tiles : d # c => cache'[d] = cache[d] /\ loads'[d] = loads[d]
        /\ loads'[c] = IF x = Readahead THEN loads[c] ELSE loads[c] + 1
    BY <1>2, <2>1 DEF CacheInv, TypeTiles
  <2>4. TypeTiles'
    <3>1. /\ st' \in [Threads -> {"idle", "look", "load", "wait", "done", "raised"}]
          /\ tile' \in [Threads -> Tiles \cup {NoTile}]
          /\ cache' \in [Tiles -> {"absent", "loading", "full", "empty"}] /\ nTiles' \in Nat
      BY <1>2, <2>1 DEF CacheInv, TypeTiles
    <3>2. loads' \in [Tiles -> Nat]
      BY <1>2, <2>1 DEF CacheInv, TypeTiles
    <3> QED BY <1>1, <2>1, <3>1, <3>2 DEF CacheInv, TypeTiles
  <2>5. ClaimInv'
    <3>1. \A i \in Windows : st[i] \in {"idle", "done"} => st'[i] = st[i]
      BY <1>1, <2>2, ThreadFacts
    <3> QED BY <1>1, <1>4, <3>1 DEF CacheInv, ClaimInv
  <2>6. HandInv'
    <3>1. ASSUME NEW i \in Windows
          PROVE  /\ st'[i] \in {"load", "wait"} => tile'[i] = TileIn(listing, pos[i])
                 /\ st'[i] \in {"look", "load", "wait"} => WFrom(i) <= pos[i] /\ pos[i] < WTo(i)
                 /\ st'[i] = "done" => WTo(i) <= pos[i]
                 /\ st'[i] = "idle" => pos[i] = 0
      <4>1. CASE i = x
        BY <1>1, <1>2, <2>2, <4>1 DEF CacheInv, HandInv, TileAt
      <4>2. CASE i # x
        BY <2>2, <4>2, ThreadFacts DEF CacheInv, HandInv, TileAt
      <4> QED BY <4>1, <4>2
    <3>2. /\ st'[Readahead] \in {"idle", "look", "load", "wait"}
          /\ st'[Readahead] # "idle" => tile'[Readahead] \in Tiles
      <4>1. CASE Readahead = x
        BY <1>2, <2>2, <4>1
      <4>2. CASE Readahead # x
        BY <2>2, <4>2, ThreadFacts DEF CacheInv, HandInv
      <4> QED BY <4>1, <4>2
    <3> QED BY <1>1, <2>1, <3>1, <3>2 DEF HandInv, TileAt
  <2>7. LoadInv'
    <3>1. \A y \in Threads : y # x /\ st[y] \in {"load", "wait"} => tile[y] # c
      BY <1>5 DEF CacheInv, LoadInv, c
    <3>2. \A y, z \in Threads : st'[y] = "load" /\ st'[z] = "load" /\ tile'[y] = tile'[z] => y = z
      BY <2>2, <3>1 DEF CacheInv, LoadInv
    <3>3. \A y \in Threads : st'[y] \in {"load", "wait"} => cache'[tile'[y]] = "loading"
      BY <1>3, <2>2, <2>3 DEF CacheInv, LoadInv
    <3>4. \A d \in Tiles : cache'[d] = "loading" => \E y \in Threads : st'[y] = "load" /\ tile'[y] = d
      <4> SUFFICES ASSUME NEW d \in Tiles, cache'[d] = "loading", d # c
                   PROVE  \E y \in Threads : st'[y] = "load" /\ tile'[y] = d
        BY <2>2
      <4>1. PICK y \in Threads : st[y] = "load" /\ tile[y] = d
        BY <2>3 DEF CacheInv, LoadInv
      <4> QED BY <1>1, <2>2, <4>1
    <3>5. \A d \in Tiles : cache'[d] = "empty" => missing[d] > 0
      BY <2>3 DEF CacheInv, LoadInv
    <3> QED BY <1>1, <3>2, <3>3, <3>4, <3>5 DEF LoadInv
  <2>8. OnceInv'
    <3>1. loads[c] = 0 \/ Behind(c)
      BY <1>2, <1>5 DEF CacheInv, OnceInv, c
    <3>2. \A d \in Tiles : loads'[d] \in {0, 1}
      <4>1. loads[c] \in {0, 1} /\ (x # Readahead => loads[c] = 0)
        BY <1>2, <3>1, ThreadFacts DEF CacheInv, OnceInv, c
      <4> QED BY <2>3, <4>1 DEF CacheInv, OnceInv
    <3>3. \A i \in Windows : st'[i] = "load" => loads'[tile'[i]] = 1
      <4> SUFFICES ASSUME NEW i \in Windows, st'[i] = "load" PROVE loads'[tile'[i]] = 1
        OBVIOUS
      <4>1. CASE i = x
        <5>1. loads[c] = 0 /\ x # Readahead
          BY <1>2, <3>1, <4>1, ThreadFacts DEF c
        <5> QED BY <2>2, <2>3, <4>1, <5>1
      <4>2. CASE i # x
        <5>1. st[i] = "load" /\ tile'[i] = tile[i] /\ tile[i] \in Tiles /\ cache[tile[i]] = "loading"
          BY <1>3, <2>2, <4>2, ThreadFacts DEF CacheInv, LoadInv
        <5>2. tile[i] # c
          BY <1>5, <5>1 DEF c
        <5> QED BY <2>3, <5>1, <5>2 DEF CacheInv, OnceInv
      <4> QED BY <4>1, <4>2
    <3>4. \A d \in Tiles : cache'[d] = "absent" \/ (st'[Readahead] = "load" /\ tile'[Readahead] = d)
                               => loads'[d] = 0 \/ d[3] <= WFrom(watermark + 1)
      <4> SUFFICES ASSUME NEW d \in Tiles,
                          cache'[d] = "absent" \/ (st'[Readahead] = "load" /\ tile'[Readahead] = d)
                   PROVE  loads'[d] = 0 \/ d[3] <= WFrom(watermark + 1)
        OBVIOUS
      <4>1. CASE x = Readahead /\ d = c
        BY <2>3, <3>1, <4>1 DEF Behind
      <4>2. CASE x = Readahead /\ d # c
        BY <2>2, <2>3, <4>2 DEF CacheInv, OnceInv, Behind
      <4>3. CASE x # Readahead
        <5>1. d # c
          <6> SUFFICES ASSUME d = c PROVE FALSE
            OBVIOUS
          <6>1. st[Readahead] = "load" /\ tile[Readahead] = c
            BY <2>2, <2>3, <4>3, ThreadFacts
          <6> QED BY <1>5, <6>1, ThreadFacts DEF CacheInv, LoadInv, c
        <5> QED BY <2>2, <2>3, <4>3, <5>1, ThreadFacts DEF CacheInv, OnceInv, Behind
      <4> QED BY <4>1, <4>2, <4>3
    <3> QED BY <1>1, <3>2, <3>3, <3>4 DEF OnceInv, Behind
  <2> QED BY <2>4, <2>5, <2>6, <2>7, <2>8 DEF CacheInv
<1>6. CASE cache[c] = "loading"
  <2>1. /\ st' = [st EXCEPT ![x] = "wait"] /\ tile' = [tile EXCEPT ![x] = c]
        /\ UNCHANGED <<pos, rows, cache, nTiles, loads>>
    BY <1>6 DEF LookUp, NoEntry
  <2> HIDE DEF c
  <2>2. /\ st'[x] = "wait" /\ tile'[x] = c
        /\ \A y \in Threads : y # x => st'[y] = st[y] /\ tile'[y] = tile[y]
    BY <2>1 DEF CacheInv, TypeTiles
  <2>3. TypeTiles'
    <3>1. /\ st' \in [Threads -> {"idle", "look", "load", "wait", "done", "raised"}]
          /\ tile' \in [Threads -> Tiles \cup {NoTile}]
      BY <1>2, <2>1 DEF CacheInv, TypeTiles
    <3> QED BY <1>1, <2>1, <3>1 DEF CacheInv, TypeTiles
  <2>4. ClaimInv'
    <3>1. \A i \in Windows : st[i] \in {"idle", "done"} => st'[i] = st[i]
      BY <1>1, <2>2, ThreadFacts
    <3> QED BY <1>1, <1>4, <3>1 DEF CacheInv, ClaimInv
  <2>5. HandInv'
    <3>1. ASSUME NEW i \in Windows
          PROVE  /\ st'[i] \in {"load", "wait"} => tile'[i] = TileIn(listing, pos[i])
                 /\ st'[i] \in {"look", "load", "wait"} => WFrom(i) <= pos[i] /\ pos[i] < WTo(i)
                 /\ st'[i] = "done" => WTo(i) <= pos[i]
                 /\ st'[i] = "idle" => pos[i] = 0
      <4>1. CASE i = x
        BY <1>1, <1>2, <2>2, <4>1 DEF CacheInv, HandInv, TileAt
      <4>2. CASE i # x
        BY <2>2, <4>2, ThreadFacts DEF CacheInv, HandInv, TileAt
      <4> QED BY <4>1, <4>2
    <3>2. /\ st'[Readahead] \in {"idle", "look", "load", "wait"}
          /\ st'[Readahead] # "idle" => tile'[Readahead] \in Tiles
      <4>1. CASE Readahead = x
        BY <1>2, <2>2, <4>1
      <4>2. CASE Readahead # x
        BY <2>2, <4>2, ThreadFacts DEF CacheInv, HandInv
      <4> QED BY <4>1, <4>2
    <3> QED BY <1>1, <2>1, <3>1, <3>2 DEF HandInv, TileAt
  <2>6. \A y \in Threads : /\ st'[y] = "load" <=> st[y] = "load"
                           /\ st[y] = "load" => tile'[y] = tile[y]
    BY <1>1, <2>2
  <2>7. LoadInv'
    <3>1. \A y \in Threads : st'[y] \in {"load", "wait"} => cache[tile'[y]] = "loading"
      BY <1>6, <2>2 DEF CacheInv, LoadInv, c
    <3>2. \A d \in Tiles : cache[d] = "loading" => \E y \in Threads : st'[y] = "load" /\ tile'[y] = d
      <4> SUFFICES ASSUME NEW d \in Tiles, cache[d] = "loading"
                   PROVE  \E y \in Threads : st'[y] = "load" /\ tile'[y] = d
        OBVIOUS
      <4>1. PICK y \in Threads : st[y] = "load" /\ tile[y] = d
        BY DEF CacheInv, LoadInv
      <4> QED BY <2>6, <4>1
    <3> QED BY <1>1, <2>1, <2>6, <3>1, <3>2 DEF CacheInv, LoadInv
  <2>8. OnceInv'
    BY <1>1, <2>1, <2>6, ThreadFacts DEF CacheInv, OnceInv, Behind
  <2> QED BY <2>3, <2>4, <2>5, <2>7, <2>8 DEF CacheInv
<1>7. CASE cache[c] \notin {"absent", "loading"}
  <2>1. Got({x}, c, cache[c]) /\ UNCHANGED <<cache, nTiles, loads>>
    BY <1>7 DEF LookUp, NoEntry
  <2> HIDE DEF c
  <2>2. /\ st' \in [Threads -> {"idle", "look", "load", "wait", "done", "raised"}]
        /\ pos' \in [Threads -> Nat] /\ tile' \in [Threads -> Tiles \cup {NoTile}]
        /\ rows' \in [Windows -> [TileUnits -> Nat]]
        /\ \A y \in Threads \ {x} : st'[y] = st[y] /\ tile'[y] = tile[y]
        /\ st'[x] \notin {"load", "wait"}
    <3>1. {x} \in SUBSET Threads
      OBVIOUS
    <3>2. /\ st' \in [Threads -> {"idle", "look", "load", "wait", "done", "raised"}]
          /\ pos' \in [Threads -> Nat] /\ tile' \in [Threads -> Tiles \cup {NoTile}]
          /\ rows' \in [Windows -> [TileUnits -> Nat]]
          /\ \A y \in Threads :
                IF y \in {x} THEN st'[y] = Step(y, c) /\ st'[y] \notin {"load", "wait"} /\ pos'[y] = c[3]
                ELSE st'[y] = st[y] /\ pos'[y] = pos[y] /\ tile'[y] = tile[y]
      BY <1>2, <2>1, <3>1, GotFacts
    <3> QED BY <3>2
  <2>3. ClaimInv' /\ HandInv'
    BY <1>1, <1>2, <2>1, GotClaims DEF c
  <2>4. TypeTiles'
    BY <1>1, <2>1, <2>2 DEF CacheInv, TypeTiles
  <2>5. \A y \in Threads : /\ st'[y] = "load" <=> st[y] = "load"
                           /\ st'[y] = "wait" <=> st[y] = "wait"
                           /\ st[y] \in {"load", "wait"} => tile'[y] = tile[y]
    BY <1>1, <2>2
  <2>6. LoadInv'
    <3>1. \A d \in Tiles : cache[d] = "loading" => \E y \in Threads : st'[y] = "load" /\ tile'[y] = d
      <4> SUFFICES ASSUME NEW d \in Tiles, cache[d] = "loading"
                   PROVE  \E y \in Threads : st'[y] = "load" /\ tile'[y] = d
        OBVIOUS
      <4>1. PICK y \in Threads : st[y] = "load" /\ tile[y] = d
        BY DEF CacheInv, LoadInv
      <4> QED BY <2>5, <4>1
    <3> QED BY <1>1, <2>1, <2>5, <3>1 DEF CacheInv, LoadInv
  <2>7. OnceInv'
    BY <1>1, <2>1, <2>5, ThreadFacts DEF CacheInv, OnceInv, Behind
  <2> QED BY <2>3, <2>4, <2>6, <2>7 DEF CacheInv
<1> QED BY <1>5, <1>6, <1>7

\* The threads that a load concerns: the one that loads, and those that wait.
LEMMA Concerned ==
    ASSUME CacheInv, NEW x \in Threads, st[x] = "load"
    PROVE  /\ tile[x] \in Tiles /\ {x} \cup Waiting(tile[x]) \in SUBSET Threads
           /\ \A y \in {x} \cup Waiting(tile[x]) : st[y] \in {"load", "wait"} /\ Wanted(y) = tile[x]
           /\ \A y \in Threads : st[y] = "load" /\ y \in {x} \cup Waiting(tile[x]) => y = x
           /\ \A y \in Threads : st[y] \in {"load", "wait"} /\ y \notin {x} \cup Waiting(tile[x])
                                     => tile[y] \in Tiles /\ tile[y] # tile[x]
<1>1. tile[x] \in Tiles /\ {x} \cup Waiting(tile[x]) \in SUBSET Threads
  <2>1. tile[x] \in Tiles
    BY WantedFacts
  <2> QED BY <2>1 DEF Waiting
<1>2. \A y \in {x} \cup Waiting(tile[x]) : st[y] \in {"load", "wait"} /\ Wanted(y) = tile[x]
  <2>1. \A y \in {x} \cup Waiting(tile[x]) : y \in Threads /\ st[y] \in {"load", "wait"} /\ tile[y] = tile[x]
    BY DEF Waiting
  <2> QED BY <2>1, WantedFacts
<1>3. \A y \in Threads : st[y] = "load" /\ y \in {x} \cup Waiting(tile[x]) => y = x
  BY DEF Waiting
<1>4. \A y \in Threads : st[y] \in {"load", "wait"} => tile[y] \in Tiles
  BY WantedFacts
<1>5. \A y \in Threads : st[y] \in {"load", "wait"} /\ y \notin {x} \cup Waiting(tile[x]) => tile[y] # tile[x]
  BY DEF CacheInv, LoadInv, Waiting
<1> QED BY <1>1, <1>2, <1>3, <1>4, <1>5

LEMMA LoadTileInv == ASSUME CacheInv, NEW x \in Threads, LoadTile(x) PROVE CacheInv'
<1> DEFINE c == tile[x]
           xs == {x} \cup Waiting(c)
           frame == IF c \in tiles THEN "full" ELSE "empty"
<1>1. /\ st[x] = "load" /\ cache' = [cache EXCEPT ![c] = frame]
      /\ missing' = [missing EXCEPT ![c] = IF c \in tiles THEN @ ELSE @ + 1]
      /\ Got(xs, c, frame)
      /\ UNCHANGED <<listing, tiles, claimed, watermark, collected, queue, nTiles, loads, verdict, tileFaults>>
  BY DEF LoadTile
<1>2. /\ c \in Tiles /\ xs \in SUBSET Threads
      /\ \A y \in xs : st[y] \in {"load", "wait"} /\ Wanted(y) = c
      /\ \A y \in Threads : st[y] = "load" /\ y \in xs => y = x
      /\ \A y \in Threads : st[y] \in {"load", "wait"} /\ y \notin xs => tile[y] \in Tiles /\ tile[y] # c
  BY <1>1, Concerned
<1>3. frame \in {"full", "empty"} /\ (frame = "empty" => c \notin tiles)
  OBVIOUS
<1> HIDE DEF c, xs, frame
<1>4. /\ st' \in [Threads -> {"idle", "look", "load", "wait", "done", "raised"}]
      /\ pos' \in [Threads -> Nat] /\ tile' \in [Threads -> Tiles \cup {NoTile}]
      /\ rows' \in [Windows -> [TileUnits -> Nat]]
      /\ \A y \in Threads :
            IF y \in xs THEN st'[y] = Step(y, c) /\ st'[y] \notin {"load", "wait"} /\ pos'[y] = c[3]
            ELSE st'[y] = st[y] /\ pos'[y] = pos[y] /\ tile'[y] = tile[y]
  BY <1>1, <1>2, GotFacts
<1>5. ClaimInv' /\ HandInv'
  <2>1. \A y \in xs : st[y] \in {"look", "load", "wait"} /\ Wanted(y) = c
    BY <1>2
  <2> QED BY <1>1, <1>2, <2>1, GotClaims
<1>6. /\ cache'[c] = frame /\ \A d \in Tiles : d # c => cache'[d] = cache[d] /\ missing'[d] = missing[d]
      /\ missing'[c] = IF c \in tiles THEN missing[c] ELSE missing[c] + 1
  BY <1>1, <1>2 DEF CacheInv, TypeTiles
<1>7. TypeTiles'
  <2>1. /\ cache' \in [Tiles -> {"absent", "loading", "full", "empty"}]
        /\ missing' \in [Tiles -> Nat]
    BY <1>1, <1>2, <1>3 DEF CacheInv, TypeTiles
  <2> QED BY <1>1, <1>4, <2>1 DEF CacheInv, TypeTiles
<1>8. \A y \in Threads : st'[y] \in {"load", "wait"} =>
          /\ y \notin xs /\ st'[y] = st[y] /\ tile'[y] = tile[y] /\ tile[y] \in Tiles /\ tile[y] # c
  BY <1>2, <1>4
<1>9. LoadInv'
  <2>1. \A y, z \in Threads : st'[y] = "load" /\ st'[z] = "load" /\ tile'[y] = tile'[z] => y = z
    BY <1>8 DEF CacheInv, LoadInv
  <2>2. \A y \in Threads : st'[y] \in {"load", "wait"} => cache'[tile'[y]] = "loading"
    BY <1>6, <1>8 DEF CacheInv, LoadInv
  <2>3. \A d \in Tiles : cache'[d] = "loading" => \E y \in Threads : st'[y] = "load" /\ tile'[y] = d
    <3> SUFFICES ASSUME NEW d \in Tiles, cache'[d] = "loading"
                 PROVE  \E y \in Threads : st'[y] = "load" /\ tile'[y] = d
      OBVIOUS
    <3>1. d # c /\ cache[d] = "loading"
      BY <1>3, <1>6
    <3>2. PICK y \in Threads : st[y] = "load" /\ tile[y] = d
      BY <3>1 DEF CacheInv, LoadInv
    <3>3. y \notin xs
      BY <1>2, <3>1, <3>2 DEF c
    <3> QED BY <1>4, <3>2, <3>3
  <2>4. \A d \in Tiles : cache'[d] = "empty" => missing'[d] > 0
    <3> SUFFICES ASSUME NEW d \in Tiles, cache'[d] = "empty" PROVE missing'[d] > 0
      OBVIOUS
    <3>1. CASE d = c
      <4>1. missing[c] \in Nat /\ c \notin tiles
        BY <1>2, <1>3, <1>6, <3>1 DEF CacheInv, TypeTiles
      <4> QED BY <1>6, <3>1, <4>1
    <3>2. CASE d # c
      BY <1>6, <3>2 DEF CacheInv, LoadInv
    <3> QED BY <3>1, <3>2
  <2> QED BY <2>1, <2>2, <2>3, <2>4 DEF LoadInv
<1>10. OnceInv'
  <2>1. \A i \in Windows : st'[i] = "load" => loads[tile'[i]] = 1
    BY <1>8, ThreadFacts DEF CacheInv, OnceInv
  <2>2. \A d \in Tiles : cache'[d] = "absent" \/ (st'[Readahead] = "load" /\ tile'[Readahead] = d)
                             => loads[d] = 0 \/ Behind(d)
    <3> SUFFICES ASSUME NEW d \in Tiles,
                        cache'[d] = "absent" \/ (st'[Readahead] = "load" /\ tile'[Readahead] = d)
                 PROVE  cache[d] = "absent" \/ (st[Readahead] = "load" /\ tile[Readahead] = d)
      BY DEF CacheInv, OnceInv
    <3>1. cache'[d] = "absent" => cache[d] = "absent"
      BY <1>3, <1>6
    <3>2. st'[Readahead] = "load" => st[Readahead] = "load" /\ tile[Readahead] = tile'[Readahead]
      BY <1>8, ThreadFacts
    <3> QED BY <3>1, <3>2
  <2> QED BY <1>1, <2>1, <2>2 DEF CacheInv, OnceInv, Behind
<1> QED BY <1>5, <1>7, <1>9, <1>10 DEF CacheInv

LEMMA LoadRaisesInv == ASSUME CacheInv, NEW x \in Threads, LoadRaises(x) PROVE CacheInv'
<1> DEFINE c == tile[x]
           xs == {x} \cup Waiting(c)
<1>1. /\ st[x] = "load" /\ tileFaults < MaxTileFaults /\ tileFaults' = tileFaults + 1
      /\ cache' = [cache EXCEPT ![c] = "absent"]
      /\ loads' = [loads EXCEPT ![c] = IF x = Readahead THEN @ ELSE @ - 1]
      /\ st' = [y \in Threads |-> IF y \in xs THEN IF y = Readahead THEN "idle" ELSE "raised" ELSE st[y]]
      /\ tile' = [y \in Threads |-> IF y \in xs THEN NoTile ELSE tile[y]]
      /\ UNCHANGED <<listing, tiles, claimed, watermark, collected, pos, queue, nTiles, missing,
                     rows, verdict>>
  BY DEF LoadRaises, Told
<1>2. /\ c \in Tiles /\ xs \in SUBSET Threads
      /\ \A y \in xs : st[y] \in {"load", "wait"}
      /\ \A y \in Threads : st[y] = "load" /\ y \in xs => y = x
      /\ \A y \in Threads : st[y] \in {"load", "wait"} /\ y \notin xs => tile[y] \in Tiles /\ tile[y] # c
  BY <1>1, Concerned
<1> HIDE DEF c, xs
<1>3. \A y \in Threads :
          /\ y \in xs => st'[y] = IF y = Readahead THEN "idle" ELSE "raised"
          /\ y \notin xs => st'[y] = st[y] /\ tile'[y] = tile[y]
  BY <1>1
<1>4. /\ cache'[c] = "absent" /\ \A d \in Tiles : d # c => cache'[d] = cache[d] /\ loads'[d] = loads[d]
      /\ loads'[c] = IF x = Readahead THEN loads[c] ELSE loads[c] - 1
  BY <1>1, <1>2 DEF CacheInv, TypeTiles
<1>5. x # Readahead => loads[c] = 1
  BY <1>1, ThreadFacts DEF CacheInv, OnceInv, c
<1>6. TypeTiles'
  <2>1. loads' \in [Tiles -> Nat]
    <3>1. loads'[c] \in Nat
      BY <1>2, <1>4, <1>5 DEF CacheInv, TypeTiles
    <3> QED BY <1>1, <1>4, <3>1 DEF CacheInv, TypeTiles
  <2>2. /\ st' \in [Threads -> {"idle", "look", "load", "wait", "done", "raised"}]
        /\ tile' \in [Threads -> Tiles \cup {NoTile}]
        /\ cache' \in [Tiles -> {"absent", "loading", "full", "empty"}]
    BY <1>1 DEF CacheInv, TypeTiles
  <2>3. tileFaults' \in 0 .. MaxTileFaults
    BY <1>1, Parameters DEF CacheInv, TypeTiles
  <2> QED BY <1>1, <2>1, <2>2, <2>3 DEF CacheInv, TypeTiles
<1>7. ClaimInv'
  <2>1. \A i \in Windows : i \in Threads /\ (st[i] \in {"idle", "done"} => st'[i] = st[i])
    BY <1>2, <1>3, ThreadFacts
  <2>2. \A i \in collected : i \in Windows
    BY WindowCount DEF CacheInv, TypeTiles, Windows
  <2> QED BY <1>1, <2>1, <2>2 DEF CacheInv, ClaimInv
<1>8. HandInv'
  <2>1. \A i \in Windows : i \in Threads /\ (st'[i] # "raised" => st'[i] = st[i] /\ tile'[i] = tile[i])
    BY <1>3, ThreadFacts
  <2>2. Readahead \in Threads /\ (st'[Readahead] # "idle" => st'[Readahead] = st[Readahead]
                                                            /\ tile'[Readahead] = tile[Readahead])
    BY <1>3, ThreadFacts
  <2> QED BY <1>1, <2>1, <2>2 DEF CacheInv, HandInv, TileAt
<1>9. \A y \in Threads : st'[y] \in {"load", "wait"} =>
          /\ y \notin xs /\ st'[y] = st[y] /\ tile'[y] = tile[y] /\ tile[y] \in Tiles /\ tile[y] # c
  BY <1>2, <1>3
<1>10. LoadInv'
  <2>1. \A y, z \in Threads : st'[y] = "load" /\ st'[z] = "load" /\ tile'[y] = tile'[z] => y = z
    BY <1>9 DEF CacheInv, LoadInv
  <2>2. \A y \in Threads : st'[y] \in {"load", "wait"} => cache'[tile'[y]] = "loading"
    BY <1>4, <1>9 DEF CacheInv, LoadInv
  <2>3. \A d \in Tiles : cache'[d] = "loading" => \E y \in Threads : st'[y] = "load" /\ tile'[y] = d
    <3> SUFFICES ASSUME NEW d \in Tiles, cache'[d] = "loading"
                 PROVE  \E y \in Threads : st'[y] = "load" /\ tile'[y] = d
      OBVIOUS
    <3>1. d # c /\ cache[d] = "loading"
      BY <1>4
    <3>2. PICK y \in Threads : st[y] = "load" /\ tile[y] = d
      BY <3>1 DEF CacheInv, LoadInv
    <3>3. y \notin xs
      BY <1>2, <3>1, <3>2 DEF c
    <3> QED BY <1>3, <3>2, <3>3
  <2>4. \A d \in Tiles : cache'[d] = "empty" => missing[d] > 0
    BY <1>4 DEF CacheInv, LoadInv
  <2> QED BY <1>1, <2>1, <2>2, <2>3, <2>4 DEF LoadInv
<1>11. OnceInv'
  <2>1. \A d \in Tiles : loads'[d] \in {0, 1}
    BY <1>4, <1>5 DEF CacheInv, OnceInv
  <2>2. \A i \in Windows : st'[i] = "load" => loads'[tile'[i]] = 1
    BY <1>4, <1>9, ThreadFacts DEF CacheInv, OnceInv
  <2>3. \A d \in Tiles : cache'[d] = "absent" \/ (st'[Readahead] = "load" /\ tile'[Readahead] = d)
                             => loads'[d] = 0 \/ Behind(d)
    <3> SUFFICES ASSUME NEW d \in Tiles,
                        cache'[d] = "absent" \/ (st'[Readahead] = "load" /\ tile'[Readahead] = d)
                 PROVE  loads'[d] = 0 \/ Behind(d)
      OBVIOUS
    <3>1. CASE d # c
      BY <1>4, <1>9, <3>1, ThreadFacts DEF CacheInv, OnceInv
    <3>2. CASE d = c /\ x # Readahead
      BY <1>4, <1>5, <3>2
    <3>3. CASE d = c /\ x = Readahead
      BY <1>1, <1>4, <3>3 DEF CacheInv, OnceInv, c
    <3> QED BY <3>1, <3>2, <3>3
  <2> QED BY <1>1, <2>1, <2>2, <2>3 DEF OnceInv, Behind
<1> QED BY <1>6, <1>7, <1>8, <1>10, <1>11 DEF CacheInv

LEMMA NextCacheInv == CacheInv /\ [NextTiles]_tileVars => CacheInv'
<1> SUFFICES ASSUME CacheInv, [NextTiles]_tileVars PROVE CacheInv'
  OBVIOUS
<1>1. CASE UNCHANGED tileVars
  BY <1>1 DEF tileVars, CacheInv, TypeTiles, ClaimInv, HandInv, LoadInv, OnceInv, Behind, TileAt
<1>2. CASE ClaimWindow
  BY <1>2, ClaimWindowInv
<1>3. CASE CollectWindows
  BY <1>3, CollectWindowsInv
<1>4. CASE Judge
  BY <1>4, JudgeInv
<1>5. CASE TakeQueued
  BY <1>5, TakeQueuedInv
<1>6. CASE \E x \in Threads : ThreadStep(x) \/ LoadRaises(x)
  BY <1>6, LookUpInv, LoadTileInv, LoadRaisesInv DEF ThreadStep
<1>7. CASE \E c \in Tiles : Vanish(c)
  BY <1>7, VanishInv
<1> QED BY <1>1, <1>2, <1>3, <1>4, <1>5, <1>6, <1>7 DEF NextTiles

\* The state of a build's source has its type.
THEOREM TileTypes == SpecTiles => []TypeTiles
<1>1. CacheInv => TypeTiles
  BY DEF CacheInv
<1> QED BY <1>1, InitCacheInv, NextCacheInv, PTL DEF SpecTiles

\* Whatever rungs there are, how they lie to each other, what is listed and which
\* loads fail: what eviction drops no later window reads, and a thread that waits
\* for a tile waits for one that is being loaded.
THEOREM LoadsHold == SpecTiles => [](LoadedOnce /\ NoneStranded)
<1>1. CacheInv => LoadedOnce /\ NoneStranded
  <2> SUFFICES ASSUME CacheInv PROVE LoadedOnce /\ NoneStranded
    OBVIOUS
  <2>1. LoadedOnce
    BY DEF CacheInv, OnceInv, LoadedOnce
  <2>2. ASSUME NEW x \in Threads, st[x] = "wait"
        PROVE  \E y \in Threads : st[y] = "load" /\ tile[y] = tile[x]
    <3>1. tile[x] \in Tiles
      BY <2>2, WantedFacts
    <3>2. cache[tile[x]] = "loading"
      BY <2>2 DEF CacheInv, LoadInv
    <3> QED BY <3>1, <3>2 DEF CacheInv, LoadInv
  <2> QED BY <2>1, <2>2 DEF NoneStranded
<1> QED BY <1>1, InitCacheInv, NextCacheInv, PTL DEF SpecTiles

-----------------------------------------------------------------------------
(* The inductive invariants: what is read. *)

\* Up to where a window is, it has read whole tiles, each unit once, or found its
\* tile missing; from there on it has read nothing.
UnitRead(i, u) == rows[i][u] = 1 \/ (rows[i][u] = 0 /\ missing[TileAt(u)] > 0)
RowInv ==
    \A i \in Windows : \A u \in WFrom(i) .. WTo(i) - 1 :
        IF u < pos[i] THEN TileAt(u)[3] <= pos[i] /\ UnitRead(i, u) ELSE rows[i][u] = 0

ReadInv == CacheInv /\ RowInv /\ NoSilentHole

LEMMA UnitFacts ==
    ASSUME NEW i \in Windows, NEW u \in WFrom(i) .. WTo(i) - 1
    PROVE  u \in TileUnits /\ u \in Nat /\ WFrom(i) <= u /\ u < WTo(i)
BY WindowEnds, Parameters DEF TileUnits

\* Misses are never taken back.
LEMMA MissesGrow ==
    ASSUME CacheInv, CacheInv', NextTiles
    PROVE  \A c \in Tiles : missing[c] \in Nat /\ missing'[c] \in Nat /\ missing[c] <= missing'[c]
<1>1. missing \in [Tiles -> Nat] /\ missing' \in [Tiles -> Nat]
  BY DEF CacheInv, TypeTiles
<1>2. CASE UNCHANGED missing
  BY <1>1, <1>2
<1>3. ASSUME NEW x \in Threads, LoadTile(x)
      PROVE  \A c \in Tiles : missing[c] <= missing'[c]
  <2>1. missing' = [missing EXCEPT ![tile[x]] = IF tile[x] \in tiles THEN @ ELSE @ + 1]
    BY <1>3 DEF LoadTile
  <2> QED BY <1>1, <2>1
<1> QED BY <1>1, <1>2, <1>3 DEF NextTiles, ThreadStep, ClaimWindow, CollectWindows, Judge, TakeQueued,
            LookUp, LoadRaises, Vanish

\* A step that gives no window a frame leaves what was read as it is.
LEMMA RowsUntouched ==
    ASSUME ReadInv, CacheInv', NextTiles, UNCHANGED <<listing, rows>>,
           \A i \in Windows : pos'[i] = pos[i] \/ (pos[i] = 0 /\ pos'[i] = WFrom(i))
    PROVE  RowInv'
<1>1. \A c \in Tiles : missing[c] \in Nat /\ missing'[c] \in Nat /\ missing[c] <= missing'[c]
  BY MissesGrow DEF ReadInv
<1>2. listing \in SUBSET Tiles
  BY TileAssumption DEF ReadInv, CacheInv, ClaimInv
<1>3. ASSUME NEW i \in Windows, NEW u \in WFrom(i) .. WTo(i) - 1
      PROVE  IF u < pos'[i] THEN TileIn(listing, u)[3] <= pos'[i]
                                 /\ (rows[i][u] = 1 \/ (rows[i][u] = 0 /\ missing'[TileIn(listing, u)] > 0))
             ELSE rows[i][u] = 0
  <2>1. u \in TileUnits /\ u \in Nat /\ WFrom(i) <= u /\ WFrom(i) \in Nat
    BY UnitFacts, WindowEnds
  <2>2. TileIn(listing, u) \in Tiles
    BY <1>2, <2>1, TileFacts
  <2>3. IF u < pos[i] THEN TileIn(listing, u)[3] <= pos[i]
                           /\ (rows[i][u] = 1 \/ (rows[i][u] = 0 /\ missing[TileIn(listing, u)] > 0))
        ELSE rows[i][u] = 0
    BY DEF ReadInv, RowInv, UnitRead, TileAt
  <2>4. CASE pos'[i] = pos[i]
    BY <1>1, <2>2, <2>3, <2>4
  <2>5. CASE pos[i] = 0 /\ pos'[i] = WFrom(i)
    BY <2>1, <2>3, <2>5
  <2> QED BY <2>4, <2>5
<1> QED BY <1>3 DEF RowInv, UnitRead, TileAt

\* Threads that get the frame of the tile they are at read each of its units once,
\* or, where it is empty, have counted it as missing.
LEMMA GotRows ==
    ASSUME NestedRungs, ReadInv, CacheInv', NextTiles, NEW xs \in SUBSET Threads, NEW c \in Tiles,
           NEW frame \in {"full", "empty"}, Got(xs, c, frame), UNCHANGED listing,
           \A x \in xs : st[x] \in {"look", "load", "wait"} /\ Wanted(x) = c,
           frame = "empty" => missing'[c] > 0
    PROVE  RowInv'
<1>1. \A d \in Tiles : missing[d] \in Nat /\ missing'[d] \in Nat /\ missing[d] <= missing'[d]
  BY MissesGrow DEF ReadInv
<1>2. listing \in SUBSET Tiles /\ c[2] \in Nat /\ c[3] \in Nat
  BY TileAssumption, TileShape DEF ReadInv, CacheInv, ClaimInv
<1>3. ASSUME NEW i \in Windows, NEW u \in WFrom(i) .. WTo(i) - 1
      PROVE  IF u < pos'[i] THEN TileIn(listing, u)[3] <= pos'[i]
                                 /\ (rows'[i][u] = 1 \/ (rows'[i][u] = 0 /\ missing'[TileIn(listing, u)] > 0))
             ELSE rows'[i][u] = 0
  <2>1. u \in TileUnits /\ u \in Nat /\ WFrom(i) <= u /\ u < WTo(i) /\ WFrom(i) \in Nat /\ i \in Threads
    BY UnitFacts, WindowEnds, ThreadFacts
  <2>2. TileIn(listing, u) \in Tiles /\ TileIn(listing, u)[3] \in Nat
    BY <1>2, <2>1, TileFacts, TileShape
  <2>3. IF u < pos[i] THEN TileIn(listing, u)[3] <= pos[i]
                           /\ (rows[i][u] = 1 \/ (rows[i][u] = 0 /\ missing[TileIn(listing, u)] > 0))
        ELSE rows[i][u] = 0
    BY DEF ReadInv, RowInv, UnitRead, TileAt
  <2>4. /\ pos'[i] = IF i \in xs THEN c[3] ELSE pos[i]
        /\ rows'[i][u] = IF frame = "full" /\ i \in xs /\ Covers(c, u) /\ WFrom(i) <= u /\ u < WTo(i)
                         THEN rows[i][u] + 1 ELSE rows[i][u]
    BY <2>1 DEF Got
  <2>5. CASE i \notin xs
    BY <1>1, <2>2, <2>3, <2>4, <2>5
  <2>6. CASE i \in xs
    <3>1. st[i] \in {"look", "load", "wait"} /\ c = TileIn(listing, pos[i]) /\ Covers(c, pos[i])
      BY <2>1, <2>6, ThreadFacts, WantedFacts DEF ReadInv, TileAt
    <3>2. pos[i] \in TileUnits /\ pos[i] \in Nat
      BY <3>1, UnderWay, Parameters DEF ReadInv, TileUnits
    <3>3. Covers(c, u) => TileIn(listing, u) = c
      BY <1>2, <2>1, <3>1, <3>2, SameTile
    <3>4. CASE u < pos[i]
      <4>1. ~Covers(c, u)
        BY <1>2, <2>3, <3>1, <3>2, <3>3, <3>4 DEF Covers
      <4>2. rows'[i][u] = rows[i][u] /\ pos'[i] = c[3] /\ pos[i] < c[3]
        BY <2>4, <2>6, <3>1, <4>1 DEF Covers
      <4>3. missing[TileIn(listing, u)] > 0 => missing'[TileIn(listing, u)] > 0
        BY <1>1, <2>2
      <4> QED BY <1>2, <2>1, <2>2, <2>3, <3>2, <3>4, <4>2, <4>3
    <3>5. CASE ~(u < pos[i]) /\ u < c[3]
      <4>1. Covers(c, u)
        BY <1>2, <2>1, <3>1, <3>2, <3>5 DEF Covers
      <4>2. TileIn(listing, u) = c /\ rows[i][u] = 0 /\ pos'[i] = c[3]
        BY <2>3, <2>4, <2>6, <3>3, <3>5, <4>1
      <4>3. rows'[i][u] = IF frame = "full" THEN 1 ELSE 0
        BY <2>1, <2>4, <2>6, <4>1, <4>2
      <4> QED BY <1>2, <3>5, <4>2, <4>3
    <3>6. CASE ~(u < pos[i]) /\ ~(u < c[3])
      <4>1. rows'[i][u] = 0 /\ pos'[i] = c[3]
        BY <2>3, <2>4, <2>6, <3>6 DEF Covers
      <4> QED BY <3>6, <4>1
    <3> QED BY <3>4, <3>5, <3>6
  <2> QED BY <2>5, <2>6
<1> QED BY <1>3 DEF RowInv, UnitRead, TileAt

LEMMA NextRowInv == ASSUME NestedRungs, ReadInv, CacheInv', NextTiles PROVE RowInv'
<1>1. CASE ClaimWindow
  <2>1. /\ UNCHANGED <<listing, rows>> /\ pos' = [pos EXCEPT ![claimed + 1] = WFrom(claimed + 1)]
    BY <1>1 DEF ClaimWindow
  <2>2. ASSUME NEW i \in Windows PROVE pos'[i] = pos[i] \/ (pos[i] = 0 /\ pos'[i] = WFrom(i))
    <3>1. i \in Threads /\ pos \in [Threads -> Nat] /\ claimed \in Nat /\ i \in Nat
      BY ThreadFacts, WindowCount DEF ReadInv, CacheInv, TypeTiles
    <3>2. i = claimed + 1 => pos[i] = 0
      BY <3>1 DEF ReadInv, CacheInv, ClaimInv, HandInv
    <3> QED BY <2>1, <3>1, <3>2
  <2> QED BY <2>1, <2>2, RowsUntouched
<1>2. CASE CollectWindows \/ Judge \/ TakeQueued \/ (\E c \in Tiles : Vanish(c))
  <2>1. UNCHANGED <<listing, rows, pos>>
    BY <1>2 DEF CollectWindows, Judge, TakeQueued, Vanish
  <2> QED BY <2>1, RowsUntouched
<1>3. ASSUME NEW x \in Threads, LookUp(x) PROVE RowInv'
  <2> DEFINE c == Wanted(x)
  <2>1. st[x] = "look" /\ UNCHANGED <<listing, missing>>
    BY <1>3 DEF LookUp
  <2>2. c \in Tiles
    BY <2>1, WantedFacts DEF ReadInv
  <2>3. CASE cache[c] \in {"absent", "loading"}
    <3>1. UNCHANGED <<pos, rows>>
      BY <1>3, <2>3 DEF LookUp, NoEntry
    <3> QED BY <2>1, <3>1, RowsUntouched
  <2>4. CASE cache[c] \notin {"absent", "loading"}
    <3>1. Got({x}, c, cache[c])
      BY <1>3, <2>4 DEF LookUp, NoEntry
    <3>2. cache[c] \in {"full", "empty"} /\ (cache[c] = "empty" => missing'[c] > 0)
      BY <2>1, <2>2, <2>4 DEF ReadInv, CacheInv, TypeTiles, LoadInv
    <3>3. {x} \in SUBSET Threads /\ \A y \in {x} : st[y] \in {"look", "load", "wait"} /\ Wanted(y) = c
      BY <2>1
    <3> HIDE DEF c
    <3> QED BY <2>1, <2>2, <3>1, <3>2, <3>3, GotRows
  <2> QED BY <2>3, <2>4
<1>4. ASSUME NEW x \in Threads, LoadTile(x) PROVE RowInv'
  <2> DEFINE c == tile[x]
             xs == {x} \cup Waiting(c)
             frame == IF c \in tiles THEN "full" ELSE "empty"
  <2>1. /\ st[x] = "load" /\ Got(xs, c, frame) /\ UNCHANGED listing
        /\ missing' = [missing EXCEPT ![c] = IF c \in tiles THEN @ ELSE @ + 1]
    BY <1>4 DEF LoadTile
  <2>2. /\ c \in Tiles /\ xs \in SUBSET Threads
        /\ \A y \in xs : st[y] \in {"load", "wait"} /\ Wanted(y) = c
    BY <2>1, Concerned DEF ReadInv
  <2>3. frame \in {"full", "empty"} /\ (frame = "empty" => c \notin tiles)
    OBVIOUS
  <2>4. frame = "empty" => missing'[c] > 0
    <3>1. missing \in [Tiles -> Nat]
      BY DEF ReadInv, CacheInv, TypeTiles
    <3> HIDE DEF c, frame
    <3> QED BY <2>1, <2>2, <2>3, <3>1
  <2> HIDE DEF c, xs, frame
  <2>5. \A y \in xs : st[y] \in {"look", "load", "wait"} /\ Wanted(y) = c
    BY <2>2
  <2> QED BY <2>1, <2>2, <2>3, <2>4, <2>5, GotRows
<1>5. ASSUME NEW x \in Threads, LoadRaises(x) PROVE RowInv'
  <2>1. UNCHANGED <<listing, rows, pos>>
    BY <1>5 DEF LoadRaises
  <2> QED BY <2>1, RowsUntouched
<1> QED BY <1>1, <1>2, <1>3, <1>4, <1>5 DEF NextTiles, ThreadStep

\* Of a window that was read, each unit was: so there are no windows under way
\* once every window has ended.
LEMMA DoneRead ==
    ASSUME CacheInv, RowInv, NEW i \in Windows, st[i] = "done", NEW u \in WFrom(i) .. WTo(i) - 1
    PROVE  UnitRead(i, u)
<1>1. WTo(i) <= pos[i] /\ pos[i] \in Nat /\ WTo(i) \in Nat /\ u \in Nat /\ u < WTo(i)
  BY ThreadFacts, WindowEnds, UnitFacts DEF CacheInv, TypeTiles, HandInv
<1>2. u < pos[i]
  BY <1>1
<1> QED BY <1>2 DEF RowInv

\* A build that ends well at tolerance 0 has missed nothing that is closed.
LEMMA JudgeHoles == ASSUME ReadInv, Judge PROVE NoSilentHole'
<1> SUFFICES ASSUME verdict' = "ok", MaxMissing[1] = 0, NEW i \in Windows, NEW u \in WFrom(i) .. WTo(i) - 1
             PROVE  rows[i][u] >= 1 \/ TileIn(listing, u)[3] > Horizon
  <2>1. UNCHANGED <<listing, rows>>
    BY DEF Judge
  <2> QED BY <2>1 DEF NoSilentHole, TileAt
<1> DEFINE open  == {c \in Tiles : Open(c)}
           holes == Misses(Tiles \ open)
<1>1. /\ watermark = NWin
      /\ verdict' = IF holes * MaxMissing[2] > MaxMissing[1] * (nTiles - Misses(open)) THEN "coverage" ELSE "ok"
  BY DEF Judge
<1>2. missing \in [Tiles -> Nat] /\ nTiles \in Nat /\ listing \in SUBSET Tiles
  BY TileAssumption DEF ReadInv, CacheInv, TypeTiles, ClaimInv
<1>3. open \in SUBSET Tiles /\ Tiles \ open \in SUBSET Tiles
  OBVIOUS
<1>4. holes \in Nat /\ Misses(open) \in Nat /\ (holes = 0 => \A c \in Tiles \ open : missing[c] = 0)
  <2> HIDE DEF open
  <2> QED BY <1>2, <1>3, NoMisses
<1> HIDE DEF holes
<1>5. holes = 0
  <2>1. ~(holes * MaxMissing[2] > MaxMissing[1] * (nTiles - Misses(open)))
    BY <1>1
  <2> DEFINE rest == nTiles - Misses(open)
             m == MaxMissing[2]
  <2>2. rest \in Int /\ m \in Nat \ {0}
    BY <1>2, <1>4, Parameters
  <2>3. MaxMissing[1] * rest = 0
    <3> HIDE DEF rest
    <3> QED BY <2>2
  <2> HIDE DEF rest, m
  <2>4. ~(holes * m > 0)
    BY <2>1, <2>3 DEF rest, m
  <2> QED BY <1>4, <2>2, <2>4
<1>6. u \in TileUnits /\ u \in Nat
  BY UnitFacts
<1>7. TileIn(listing, u) \in Tiles
  BY <1>2, <1>6, TileFacts
<1>8. i \in collected /\ st[i] = "done"
  BY <1>1, WindowCount DEF ReadInv, CacheInv, ClaimInv, Windows
<1>9. rows[i][u] = 1 \/ (rows[i][u] = 0 /\ missing[TileIn(listing, u)] > 0)
  BY <1>8, DoneRead DEF ReadInv, UnitRead, TileAt
<1>10. TileIn(listing, u) \in Tiles \ open => rows[i][u] = 1
  BY <1>4, <1>5, <1>9
<1> QED BY <1>7, <1>10 DEF Open

\* What has been read is not taken back.
LEMMA HolesStay ==
    ASSUME ReadInv, CacheInv', NextTiles, UNCHANGED verdict
    PROVE  NoSilentHole'
<1> SUFFICES ASSUME verdict = "ok", MaxMissing[1] = 0, NEW i \in Windows, NEW u \in WFrom(i) .. WTo(i) - 1
             PROVE  rows'[i][u] >= 1 \/ TileIn(listing', u)[3] > Horizon
  BY DEF NoSilentHole, TileAt
<1>1. listing' = listing
  BY DEF NextTiles, ThreadStep, ClaimWindow, CollectWindows, Judge, TakeQueued, LookUp, LoadTile, LoadRaises, Vanish
<1>2. u \in TileUnits
  BY UnitFacts
<1>3. rows[i][u] \in Nat /\ rows'[i][u] \in Nat /\ rows[i][u] <= rows'[i][u]
  <2>1. rows[i][u] \in Nat /\ rows'[i][u] \in Nat
    BY <1>2 DEF ReadInv, CacheInv, TypeTiles
  <2>2. CASE UNCHANGED rows
    BY <2>1, <2>2
  <2>3. ASSUME NEW xs, NEW c, NEW frame, Got(xs, c, frame) PROVE rows[i][u] <= rows'[i][u]
    <3>1. rows'[i][u] = IF frame = "full" /\ i \in xs /\ Covers(c, u) /\ WFrom(i) <= u /\ u < WTo(i)
                        THEN rows[i][u] + 1 ELSE rows[i][u]
      BY <1>2, <2>3 DEF Got
    <3> QED BY <2>1, <3>1
  <2>4. ASSUME NEW x \in Threads, LookUp(x) PROVE rows[i][u] <= rows'[i][u]
    <3>1. UNCHANGED rows \/ Got({x}, Wanted(x), cache[Wanted(x)])
      BY <2>4 DEF LookUp
    <3> QED BY <2>2, <2>3, <3>1
  <2>5. ASSUME NEW x \in Threads, LoadTile(x) PROVE rows[i][u] <= rows'[i][u]
    BY <2>3, <2>5 DEF LoadTile
  <2>6. CASE ClaimWindow \/ CollectWindows \/ Judge \/ TakeQueued \/ (\E x \in Threads : LoadRaises(x))
             \/ (\E c \in Tiles : Vanish(c))
    <3>1. UNCHANGED rows
      BY <2>6 DEF ClaimWindow, CollectWindows, Judge, TakeQueued, LoadRaises, Vanish
    <3> QED BY <2>2, <3>1
  <2> QED BY <2>1, <2>4, <2>5, <2>6 DEF NextTiles, ThreadStep
<1>4. rows[i][u] >= 1 \/ TileIn(listing, u)[3] > Horizon
  BY DEF ReadInv, NoSilentHole, TileAt
<1> QED BY <1>1, <1>3, <1>4

LEMMA InitReadInv == InitTiles => ReadInv
<1> SUFFICES ASSUME InitTiles PROVE ReadInv
  OBVIOUS
<1>1. CacheInv
  BY InitCacheInv
<1>2. RowInv
  <2> SUFFICES ASSUME NEW i \in Windows, NEW u \in WFrom(i) .. WTo(i) - 1
               PROVE  ~(u < pos[i]) /\ rows[i][u] = 0
    BY DEF RowInv
  <2>1. u \in TileUnits /\ u \in Nat /\ i \in Threads
    BY UnitFacts, ThreadFacts
  <2> QED BY <2>1 DEF InitTiles
<1>3. NoSilentHole
  BY DEF InitTiles, NoSilentHole
<1> QED BY <1>1, <1>2, <1>3 DEF ReadInv

LEMMA NextReadInv == NestedRungs /\ ReadInv /\ [NextTiles]_tileVars => ReadInv'
<1> SUFFICES ASSUME NestedRungs, ReadInv, [NextTiles]_tileVars PROVE ReadInv'
  OBVIOUS
<1>1. CacheInv'
  BY NextCacheInv DEF ReadInv
<1>2. CASE UNCHANGED tileVars
  BY <1>1, <1>2 DEF tileVars, ReadInv, RowInv, UnitRead, NoSilentHole, TileAt
<1>3. CASE NextTiles
  <2>1. RowInv'
    BY <1>1, <1>3, NextRowInv
  <2>2. CASE UNCHANGED verdict
    BY <1>1, <1>3, <2>1, <2>2, HolesStay DEF ReadInv
  <2>3. CASE Judge
    BY <1>1, <2>1, <2>3, JudgeHoles DEF ReadInv
  <2>4. CASE CollectWindows
    <3>1. verdict' # "ok"
      BY <2>4 DEF CollectWindows
    <3> QED BY <1>1, <2>1, <3>1 DEF ReadInv, NoSilentHole
  <2> QED BY <1>3, <2>2, <2>3, <2>4 DEF NextTiles, ThreadStep, ClaimWindow, TakeQueued, LookUp, LoadTile,
              LoadRaises, Vanish
<1> QED BY <1>2, <1>3

\* Where the rungs nest, whatever is listed, vanishes or fails to load: of a window
\* that was read each unit was read once or counted as missing, and then no listed
\* tile has it unless the chosen one vanished; a build that ends well at tolerance
\* 0 missed nothing closed; the windows load a tile once between them, and nobody
\* waits in vain.
THEOREM TilesSoundHolds == NestedRungs => (SpecTiles => []TilesSound)
<1> SUFFICES ASSUME NestedRungs PROVE SpecTiles => []TilesSound
  OBVIOUS
<1>1. ReadInv => ReadOnce
  <2> SUFFICES ASSUME ReadInv, NEW i \in Windows, st[i] = "done", NEW u \in WFrom(i) .. WTo(i) - 1
               PROVE  \/ rows[i][u] = 1
                      \/ /\ rows[i][u] = 0 /\ missing[TileAt(u)] > 0
                         /\ TileAt(u) \notin listing => \A c \in listing : ~Covers(c, u)
    BY DEF ReadOnce
  <2>1. UnitRead(i, u)
    BY DoneRead DEF ReadInv
  <2>2. listing \in SUBSET Tiles /\ u \in TileUnits
    BY UnitFacts, TileAssumption DEF ReadInv, CacheInv, ClaimInv
  <2>3. TileAt(u) \notin listing => \A c \in listing : ~Covers(c, u)
    BY <2>2, TileFacts DEF TileAt
  <2> QED BY <2>1, <2>3 DEF UnitRead
<1>2. ReadInv => NoSilentHole
  BY DEF ReadInv
<1>3. SpecTiles => []ReadInv
  BY InitReadInv, NextReadInv, PTL DEF SpecTiles
<1> QED BY <1>1, <1>2, <1>3, LoadsHold, PTL DEF TilesSound
=============================================================================
