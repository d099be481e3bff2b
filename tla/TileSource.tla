------------------------------ MODULE TileSource ------------------------------
(***************************************************************************)
(* The source a build reads (pyrmts_engine/source.py): which stored tile   *)
(* an instant is read from, the cache of parsed tiles that the window      *)
(* threads and one readahead thread share, its eviction behind the         *)
(* completed windows, and the account of absent tiles that the build is    *)
(* judged by (engine.py).  A tile is its rung and its two ends.            *)
(***************************************************************************)
EXTENDS Integers, Sequences, FiniteSets, FiniteSetsExt

CONSTANTS
    Rungs,       \* the tier's rungs, finest first: the intervals of their tiles
    Horizon,     \* the build is over [0, Horizon)
    Width,       \* of a window
    Workers, Cap,   \* n_workers, inflight_cap
    MaxMissing,  \* max_missing_source, a fraction
    Listings,    \* what the LIST of the tier may answer
    MaxTileFaults   \* bound on tiles that vanish and on loads that raise

VARIABLES
    listing, tiles,            \* the LIST, taken once; what is stored
    claimed, watermark, collected,   \* next_i; the windows whose result was taken
    st, pos, tile,             \* per thread: step, next instant, tile in hand
    queue,                     \* the readahead pool's
    cache, nTiles, missing,    \* per tile: its entry, its count in _missing
    rows,                      \* per window: how often each unit was read
    loads,                     \* history: loads by window threads that did not raise
    verdict, tileFaults

tileVars == <<listing, tiles, claimed, watermark, collected, st, pos, tile, queue, cache,
              nTiles, missing, rows, loads, verdict, tileFaults>>

TileUnits == 0 .. Horizon - 1
Tiles == UNION {{<<r, iv[1], iv[2]>> : iv \in Rungs[r]} : r \in DOMAIN Rungs}
Covers(c, t) == c[2] <= t /\ t < c[3]

Lesser(a, b) == IF a <= b THEN a ELSE b
NWin == (Horizon + Width - 1) \div Width
Windows   == 1 .. NWin
WFrom(i)  == (i - 1) * Width
WTo(i)    == Lesser(i * Width, Horizon)
Readahead == 0
Threads   == Windows \cup {Readahead}
NoTile    == <<0, 0, 0>>

\* Every rung tiles the range; a LIST answers with tiles.
Meet(a, b) == a[1] < b[2] /\ b[1] < a[2]
ASSUME TileAssumption ==
    /\ {Horizon, Width, Workers, Cap, MaxMissing[2]} \subseteq Nat \ {0}
    /\ MaxMissing[1] \in Nat /\ MaxTileFaults \in Nat
    /\ Rungs \in Seq(SUBSET (Nat \X Nat)) /\ Rungs # <<>> /\ IsFiniteSet(Tiles)
    /\ \A r \in DOMAIN Rungs, u \in TileUnits : \E iv \in Rungs[r] : iv[1] <= u /\ u < iv[2]
    /\ \A r \in DOMAIN Rungs : \A a, b \in Rungs[r] : Meet(a, b) => a = b
    /\ Listings \subseteq SUBSET Tiles

\* A tile holds whole tiles of the rungs before its own: so it is where all rungs
\* are fixed, or all calendar, and each divides the next.
NestedRungs ==
    \A q, r \in DOMAIN Rungs : q < r =>
        \A a \in Rungs[q], b \in Rungs[r] : Meet(a, b) => b[1] <= a[1] /\ a[2] <= b[2]

\* Where nothing is stored the finest rung is read, and its miss recorded (in
\* the mutant, the largest).
LargestRung == Max(DOMAIN Rungs)
Fallback    == Min(DOMAIN Rungs)

TileIn(list, t) ==
    LET present == {c \in list : Covers(c, t)}
        rung == IF present = {} THEN Fallback ELSE Max({c[1] : c \in present})
    IN CHOOSE c \in Tiles : c[1] = rung /\ Covers(c, t)
TileAt(t) == TileIn(listing, t)

InitTiles ==
    /\ listing \in Listings /\ tiles = listing
    /\ claimed = 0 /\ watermark = 0 /\ collected = {}
    /\ st = [x \in Threads |-> "idle"] /\ pos = [x \in Threads |-> 0]
    /\ tile = [x \in Threads |-> NoTile] /\ queue = <<>>
    /\ cache = [c \in Tiles |-> "absent"] /\ nTiles = 0 /\ missing = [c \in Tiles |-> 0]
    /\ rows = [i \in Windows |-> [u \in TileUnits |-> 0]] /\ loads = [c \in Tiles |-> 0]
    /\ verdict = "running" /\ tileFaults = 0

-----------------------------------------------------------------------------
(* The coordinator: claim(), wait, advance_watermark *)

\* The tile of the window the claim frontier reaches next is prefetched unless
\* it is cached, or memory is short.
Prefetch(k) ==
    \/ UNCHANGED queue
    \/ /\ k + Cap < NWin
       /\ LET c == TileAt(WFrom(k + Cap + 1))
          IN cache[c] = "absent" /\ queue' = Append(queue, c)

\* The first window runs alone.
ClaimWindow ==
    /\ verdict = "running" /\ claimed < NWin
    /\ claimed - watermark < Cap /\ claimed - Cardinality(collected) < Workers
    /\ claimed = 1 => st[1] = "done"
    /\ claimed' = claimed + 1
    /\ st' = [st EXCEPT ![claimed + 1] = "look"]
    /\ pos' = [pos EXCEPT ![claimed + 1] = WFrom(claimed + 1)]
    /\ Prefetch(claimed + 1)
    /\ UNCHANGED <<listing, tiles, watermark, collected, tile, cache, nTiles, missing, rows,
                   loads, verdict, tileFaults>>

\* evict_before the start of the first window that is not complete (in the
\* mutant, of the next one to be claimed).
WindowNow(done) == done + 1
Frontier(done)  == claimed + 1
Evicted(done) == {c \in Tiles : cache[c] \in {"full", "empty"} /\ c[3] <= WFrom(WindowNow(done))}

\* wait() returns with every window that ended so far; a window that raised
\* ends the build.
CollectWindows ==
    LET ended == {i \in 1 .. claimed : st[i] \in {"done", "raised"}} \ collected
        done == Max({k \in 0 .. NWin : 1 .. k \subseteq collected \cup ended})
    IN /\ verdict = "running" /\ ended # {}
       /\ IF \E i \in ended : st[i] = "raised"
          THEN verdict' = "raised" /\ UNCHANGED <<watermark, collected, cache>>
          ELSE /\ collected' = collected \cup ended /\ watermark' = done
               /\ cache' = [c \in Tiles |-> IF done > watermark /\ done < NWin /\ c \in Evicted(done)
                                            THEN "absent" ELSE cache[c]]
               /\ UNCHANGED verdict
       /\ UNCHANGED <<listing, tiles, claimed, st, pos, tile, queue, nTiles, missing, rows,
                      loads, tileFaults>>

\* An absent tile whose period reaches past the range is open: in neither side
\* of the ratio (in the mutant, also one that ends with the range).
Open(c)      == c[3] > Horizon
OpenAtEnd(c) == c[3] >= Horizon
Misses(cs)   == Cardinality(UNION {{c} \X (1 .. missing[c]) : c \in cs})

Judge ==
    LET open  == {c \in Tiles : Open(c)}
        holes == Misses(Tiles \ open)
    IN /\ verdict = "running" /\ watermark = NWin
       /\ verdict' = IF holes * MaxMissing[2] > MaxMissing[1] * (nTiles - Misses(open))
                     THEN "coverage" ELSE "ok"
       /\ UNCHANGED <<listing, tiles, claimed, watermark, collected, st, pos, tile, queue,
                      cache, nTiles, missing, rows, loads, tileFaults>>

-----------------------------------------------------------------------------
(* _tile_frame, in a window thread or in the readahead thread *)

\* The threads xs have the frame of c, which extends the rows of their windows,
\* clipped; each goes on with its next tile.
Step(x, c) == IF x = Readahead THEN "idle" ELSE IF c[3] >= WTo(x) THEN "done" ELSE "look"
Got(xs, c, frame) ==
    /\ st' = [x \in Threads |-> IF x \in xs THEN Step(x, c) ELSE st[x]]
    /\ pos' = [x \in Threads |-> IF x \in xs THEN c[3] ELSE pos[x]]
    /\ tile' = [x \in Threads |-> IF x \in xs THEN NoTile ELSE tile[x]]
    /\ rows' = [i \in Windows |-> [u \in TileUnits |->
                  IF frame = "full" /\ i \in xs /\ Covers(c, u) /\ WFrom(i) <= u /\ u < WTo(i)
                  THEN rows[i][u] + 1 ELSE rows[i][u]]]

\* The readahead thread takes its next tile.
TakeQueued ==
    /\ st[Readahead] = "idle" /\ queue # <<>> /\ verdict = "running"
    /\ st' = [st EXCEPT ![Readahead] = "look"]
    /\ tile' = [tile EXCEPT ![Readahead] = Head(queue)] /\ queue' = Tail(queue)
    /\ UNCHANGED <<listing, tiles, claimed, watermark, collected, pos, cache, nTiles, missing,
                   rows, loads, verdict, tileFaults>>

\* Under the lock: the thread that finds no entry makes one and loads (in the
\* mutant, one that finds no frame), the others wait for it.
NoEntry(c) == cache[c] = "absent"
NoFrame(c) == cache[c] \in {"absent", "loading"}
Wanted(x)  == IF x = Readahead THEN tile[x] ELSE TileAt(pos[x])

LookUp(x) ==
    LET c == Wanted(x) IN
    /\ st[x] = "look"
    /\ IF NoEntry(c)
       THEN /\ st' = [st EXCEPT ![x] = "load"] /\ tile' = [tile EXCEPT ![x] = c]
            /\ cache' = [cache EXCEPT ![c] = "loading"] /\ nTiles' = nTiles + 1
            /\ loads' = [loads EXCEPT ![c] = IF x = Readahead THEN @ ELSE @ + 1]
            /\ UNCHANGED <<pos, rows>>
       ELSE /\ IF cache[c] = "loading"
               THEN /\ st' = [st EXCEPT ![x] = "wait"] /\ tile' = [tile EXCEPT ![x] = c]
                    /\ UNCHANGED <<pos, rows>>
               ELSE Got({x}, c, cache[c])
            /\ UNCHANGED <<cache, nTiles, loads>>
    /\ UNCHANGED <<listing, tiles, claimed, watermark, collected, queue, missing, verdict,
                   tileFaults>>

Waiting(c) == {y \in Threads : st[y] = "wait" /\ tile[y] = c}

\* fetch and parse, outside the lock; an absent tile is read as empty.
LoadTile(x) ==
    LET c == tile[x]
        frame == IF c \in tiles THEN "full" ELSE "empty"
    IN /\ st[x] = "load"
       /\ cache' = [cache EXCEPT ![c] = frame]
       /\ missing' = [missing EXCEPT ![c] = IF c \in tiles THEN @ ELSE @ + 1]
       /\ Got({x} \cup Waiting(c), c, frame)
       /\ UNCHANGED <<listing, tiles, claimed, watermark, collected, queue, nTiles, loads,
                      verdict, tileFaults>>

\* The load raises: the entry is taken out, the waiters raise too (in the
\* mutant, they are not told); nobody looks at what readahead raises.
Told(c)   == Waiting(c)
NotTold(c) == {}
LoadRaises(x) ==
    LET c == tile[x] IN
    /\ st[x] = "load" /\ tileFaults < MaxTileFaults /\ tileFaults' = tileFaults + 1
    /\ cache' = [cache EXCEPT ![c] = "absent"]
    /\ loads' = [loads EXCEPT ![c] = IF x = Readahead THEN @ ELSE @ - 1]
    /\ st' = [y \in Threads |-> IF y \in {x} \cup Told(c)
                                THEN IF y = Readahead THEN "idle" ELSE "raised" ELSE st[y]]
    /\ tile' = [y \in Threads |-> IF y \in {x} \cup Told(c) THEN NoTile ELSE tile[y]]
    /\ UNCHANGED <<listing, tiles, claimed, watermark, collected, pos, queue, nTiles, missing,
                   rows, verdict>>

\* A tile that was listed is gone before it is read.
Vanish(c) ==
    /\ c \in tiles /\ tiles' = tiles \ {c}
    /\ tileFaults < MaxTileFaults /\ tileFaults' = tileFaults + 1
    /\ UNCHANGED <<listing, claimed, watermark, collected, st, pos, tile, queue, cache, nTiles,
                   missing, rows, loads, verdict>>

ThreadStep(x) == LookUp(x) \/ LoadTile(x)
NextTiles ==
    \/ ClaimWindow \/ CollectWindows \/ Judge \/ TakeQueued
    \/ \E x \in Threads : ThreadStep(x) \/ LoadRaises(x)
    \/ \E c \in Tiles : Vanish(c)

SpecTiles == InitTiles /\ [][NextTiles]_tileVars

-----------------------------------------------------------------------------
(* Properties *)

TypeTiles ==
    /\ listing \subseteq Tiles /\ tiles \subseteq Tiles
    /\ watermark \in 0 .. claimed /\ claimed \in 0 .. NWin /\ collected \subseteq 1 .. claimed
    /\ st \in [Threads -> {"idle", "look", "load", "wait", "done", "raised"}]
    /\ pos \in [Threads -> Nat] /\ tile \in [Threads -> Tiles \cup {NoTile}]
    /\ queue \in Seq(Tiles) /\ cache \in [Tiles -> {"absent", "loading", "full", "empty"}]
    /\ nTiles \in Nat /\ missing \in [Tiles -> Nat] /\ loads \in [Tiles -> Nat]
    /\ rows \in [Windows -> [TileUnits -> Nat]]
    /\ verdict \in {"running", "raised", "coverage", "ok"} /\ tileFaults \in 0 .. MaxTileFaults

\* "at each instant the largest rung whose grid-aligned tile is present wins"
\* and "redundant ... finer tiles under a present larger tile are
\* deterministically ignored" (WideShardSource): of a window that was read, each
\* unit was read once, or not at all and then from a tile counted as missing,
\* though never when a tile of any rung is listed that has it, unless the chosen
\* one vanished.
ReadOnce ==
    \A i \in Windows : st[i] = "done" =>
        \A u \in WFrom(i) .. WTo(i) - 1 :
            \/ rows[i][u] = 1
            \/ /\ rows[i][u] = 0 /\ missing[TileAt(u)] > 0
               /\ TileAt(u) \notin listing => \A c \in listing : ~Covers(c, u)

\* "concurrent readers of the same tile block on one load" and what eviction
\* drops no later window reads (TiledSource): the windows of a build load each
\* tile at most once between them, loads that raise apart.
LoadedOnce == \A c \in Tiles : loads[c] <= 1

\* "Anything closed stays a real hole" (build_local): a build that ends well at
\* tolerance 0 read every unit, those in tiles still open apart.
NoSilentHole ==
    (verdict = "ok" /\ MaxMissing[1] = 0) =>
        \A i \in Windows : \A u \in WFrom(i) .. WTo(i) - 1 :
            rows[i][u] >= 1 \/ TileAt(u)[3] > Horizon

\* A thread that waits for a tile waits for one that is being loaded: whoever
\* loads it tells those who wait, also when the load raises.
NoneStranded ==
    \A x \in Threads : st[x] = "wait" => \E y \in Threads : st[y] = "load" /\ tile[y] = tile[x]

\* What a build reads (TiledSource, WideShardSource, judge).
TilesSound == ReadOnce /\ NoSilentHole /\ LoadedOnce /\ NoneStranded
=============================================================================
