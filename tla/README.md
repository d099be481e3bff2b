# pyrmts in TLA+

A verification development kept beside pyrmts: TLA+ models of the parts of the code whose correctness depends on
interleavings, failures and boundaries, TLC configurations that check them on small instances, and TLAPS proofs of
the properties that matter most for every value of the constants. All definitions are translated from the source;
`PROJECT.json` maps each one to the lines it stands for.

pyrmts maintains *pyramids*: time series aggregated into **tiers** (bins of a minute, five minutes, an hour, a day,
a month), each tier stored as Parquet **shards** of one or more durations, the **rungs** of the tier. A shard is a
tier, a rung and a period. An engine builds shards in bulk, a scheduled function keeps the newest ones filled in,
repairs late data and collects superseded shards, and a reader (a Cloudflare worker or the browser) plans a query
over whatever shards are registered and stitches their rows.

- [1. Inventory](#1-inventory)
- [2. Modules](#2-modules)
- [3. Runs](#3-runs)
- [4. Fairness](#4-fairness)
- [5. Proofs](#5-proofs)
- [6. Where the code and its documentation disagree](#6-where-the-code-and-its-documentation-disagree)
- [7. What is not modelled](#7-what-is-not-modelled)
- [8. Plan](#8-plan)

## 1. Inventory

Three shared stores tie the components together; nothing else does.

- **object storage** (S3, R2, a directory): the shards, the invalidation journal `invalidations.jsonl`, spilled
  runs. The calls are put, get, head, list, delete and a conditional put on an etag.
- **registry**, the shard index (D1, or one JSONL manifest): per slot the current key and when it was written. What
  is not registered is not served, except that a template without `{hash}` lets discovery take a listed object for
  built.
- **raw data**: the source of the finest tier; it may arrive late or change after it was aggregated.

| component | code | state | operations | hard because | correct means |
|---|---|---|---|---|---|
| executor of `build_local` | `pyrmts_engine/engine.py`, `plan.py`, `spill.py` | claimed windows, runs per shard, completed windows and watermark, close futures, `next_reg`; durable: objects, registry, spilled runs | claim, route a window to its shards, combine, close (take runs, put, register in turn), drain, shut the pools down, resume or fill again | a coordinator, window threads and close threads; tasks that raise; loss of the process between any two steps | no run reaches a closed shard; objects hold every window once; registration in order; a success leaves nothing out; every build ends |
| content-addressed store | `pyrmts/keys.py`, `pyrmts/gc.py`, `pyrmts_engine/gc.py`, `shard_index.py` | objects with mtimes, rows | `put_shard` (head, put), record, `gc_orphans` (rows, list, rows again, delete), `adopt_unregistered` | check-then-act across two stores without transactions, a writer lost between put and record | a registered key is present; lost registrations are healed; rows do not go back |
| extension fill and journal | `pyrmts_engine/consolidate.py`, `discovery.py`, `invalidation.py`, `pyrmts/invalidation.py`, `gap_discovery.py` | shards with mtimes, the journal, a tick's gaps and requests | `invalidate` (append with compare-and-swap), discover, materialise from smaller shards, the source tier or raw data, put, `prune_spent` | requests, ticks and collections overlap, ticks stop or die, a coarse shard is rebuilt from fine ones of the same tick or from smaller ones of its tier | a request leaves the journal only when it is repaired; the journal drains; the cover gets built and fresh |
| scheduled function and registry collection | `pyrmts_ops/lambda_entry.py`, `gc.py`, `consolidate.py` | rows with `written_at`, objects | tick (discover, reconcile, fill, perhaps sweep), a single gap, a scaffold | invocations overlap; a sweep deletes objects one by one and rows at the end; crashes in between | what is served stays served; in the end only the cover is left |
| query planner | `js/packages/pyrmts/src/planner.ts`, `axis.ts`, `stitch.ts`, `cfw/src/serve.ts` (prefetch) | none beyond a query | walk over watermarks or over an inventory, packing of target widths, coalescing, limits | calendars that do not nest, holes, overlaps, bins cut by a watermark | each unit of time is answered exactly once, up to where the hot path takes over |
| tile cache | `pyrmts_engine/source.py` | the listing, cached and loading tiles, the account of absent ones | choose a tile for an instant, single-flight load, readahead, eviction behind the completed windows, judgement | three kinds of threads share it; a tile vanishes, a load raises | each unit of a window is read once or counted as missing; a tile is loaded once; a waiter waits for a load that goes on |
| fill over absent tiles | `pyrmts_engine/engine.py` (fill mode), `gap_discovery.py` | stored shards, source tiles, held and deferred gaps | discover, defer, hold, merge the spans that are left, walk, judge | whether a tile is still to come is decided once; tiles are longer than shards and cut across them | no shard is built over a tile that may still come |
| rebuild fan-out | `pyrmts_ops/rebuild.py`, `run_single_gap` | layers of shards, scaffolds, stored shards and what they were built from | plan layers and scaffolds, one call per shard, barrier per layer, scaffold clean-up | beside ticks; calls fail before or after their put; a driver dies and is run again; a failed shard does not stop the layers above | what was written since `stale_before` holds nothing stale; a rebuild without a bounce is complete; calls stay in the budget |
| tip writer | `pyrmts/tip_writer.py`, the indexes of `shard_index.py` | the tip's contents, its rows, the process's own copy of them, the journal | get, merge, put, record, invalidate | a crash between any two calls, a registry that is one object, the fill that derives coarser shards meanwhile | no row is lost, coarse shards that are behind are invalidated |
| reader's index | `shard-index.ts`, `manifest-shard-index.ts`, `cfw/src/shard-index.ts` | a TTL cache of watermarks, the manifest | read, record, invalidate | a read in flight across a write; re-put of the whole manifest | a reader is never behind its own write for longer than the TTL |
| fetch | `fetch.ts` | footers, ranges | range reads with and without If-Match | a shard replaced during a read | rows of one version of a shard |
| cascade, canonicalisation | `cascade.py`, `canonicalize.py` | the shards of each rung | build a rung from the one below, with or without overwrite; rewrite shards with the rows of merged identities | rungs straddle each other, rows of an earlier map, shards that raise | a parent equals the fold of its children; canonical rows are the sums of their leaves |
| single-shard materializer | `pyrmts_engine/materialize.py`, `pyrmts/writer.py` | objects, the key set, the rows to emit | build a shard from raw chunks or from the tier above, emit the rows of a round | a driver that dies before it emits; sources that are missing or straddle; genesis | a stored shard holds its whole bins with all their rows; a round builds and registers what can be built |
| multiscan, diff index | `multiscan.py`, `diffindex.py`, `diffindex_store.py` | runs of equal states, adjacencies, aligned blocks, the manifest | encode and extract, difference of two scans, ingest | an ingest dies between its puts; a change that is undone inside a block | equal to the scans themselves |
| sealing | `multiscan_driver.py`, `multiscan_index.py` | individual shards, archives, the manifest | seal a fixed group, seal in powers of the base, drop what is sealed | deletes around the write of the manifest, a crash between them | every scan stays readable |
| runs, intervals | `runs.py`, `intervals.py` | open intervals; buffers of a merge | append a scan, cut key ranges, merge streams in bounded memory, write row groups | keys that go and come back, rows of one identity in several batches | equal to a rebuild; sorted, identities together |
| AWS deployment | `pyrmts_ops/aws.py` | role, function, policy statements, rules, targets | upsert each, verify | any call fails, deployments overlap, operators turn rules off, a change of the package type deletes the function | a deployed rule may invoke its function; a rule turned off stays off |
| walk diff | `walkdiff.ts` | none | lock-step descent of two trees | boundaries | equal to the direct difference |
| geo planner | `pyrmts-geo` | none | covers by cells | geometry | the cover contains the region |
| everything else | YAML, CLI, batch, Pulumi, React, health | configuration, I/O | | | |

The hazards this code is exposed to are listed one by one, at their lines, under `hazards` in `PROJECT.json`, each
with the properties that would catch it.

## 2. Modules

| module | models | theorems in |
|---|---|---|
| `WindowExecutor` | the executor of `build_local` | `WindowExecutorProofs` |
| `ShardBuild` | what any build promises its readers, the abstract specification | |
| `HashedStore` | `put_shard`, `gc_orphans`, `adopt_unregistered` | `ProducerProofs` |
| `FillTick` | producers, journal, the fill tick, a collection beside it | `FillTickProofs` |
| `RegistryGc` | `lambda_entry`, single gaps, the registry sweep | `RegistryGcProofs` |
| `PlanLadder` | axis, tiers, watermarks of the planner | `QueryPlanProofs` |
| `RaggedPacking` | packing of a bin no tier has | `QueryPlanProofs` |
| `QueryPlan` | both planners, coalescing, and what the stitched answer holds | `QueryPlanProofs` |
| `TileSource` | the tile cache and the readahead of a build, its missing tiles | `TileSourceProofs` |
| `ShardLadder` | shards of a ladder as triples, the cover a range is expected to have | |
| `HeldFill` | fill mode over tiles that are not there: deferral, holding, merged spans, judgement | `ProducerProofs` |
| `Rebuild` | the fan-out rebuild, its calls and scaffolds, beside a tick | `OpsProofs` |
| `Cascade` | `cascade_tiers`, `canonicalize_shards` | `OpsProofs` |
| `TipWriter` | the streaming producer, three kinds of registry, a deriving fill | `ProducerProofs` |
| `Materializer` | `materialize_shard` under a driver, and the rows it emits | `OpsProofs` |
| `Intervals` | `islands`, `append_intervals`, `plan_ranges`, `key_range_terms` | `ScanProofs` |
| `Runs` | `merge_sorted`, `write_exact_row_groups` | |
| `MultiScan` | the two encodings of scans, `diff_scans`, the diff index and its ingest | `ScanProofs` |
| `ScanSeal` | `seal_new_groups`, `seal_dyadic`, the manifest | `ScanProofs` |
| `LambdaDeploy` | deployment of scheduled functions call by call, `verify_schedules` | `OpsProofs` |
| `MCComponents` | one composed instance of the components above from `TileSource` on, and the store | |
| `MC...` | the other instances TLC checks | |

`QueryPlan` extends `RaggedPacking`, which extends `PlanLadder`; `HeldFill`, `Rebuild` and `Materializer` extend
`ShardLadder`. The components share no variables: what one does to another's stores is in each module as an actor or
as an environment (a collection beside writers, a sweep beside ticks, a prune beside producers, a tick beside a
rebuild, a fill beside the tip writer).

### WindowExecutor and ShardBuild

A build walks the windows of the range. `pc` is the coordinator's place in `build_local`: `claim` admits a burst of
windows (bounded by `MaxInflight`; the byte estimate may refuse any claim but the first, which is a choice here),
`first`/`wait` are the two waits of the scheduler loop, `submit` hands over every pending shard that the completed
prefix of windows has passed, `drain` consumes the close futures, `stopWindows`/`stopCloses` are the `finally` block.
`RouteTier(i)` is one tier's turn of a window thread: it appends the window's run to every overlapping shard that is
still owed. `TakeShard`, `PutShard`, `RegisterShard` are the three parts of a close; the last one waits for
`next_reg`. `WindowRaises` and `CloseRaises` stand for any exception, `Crash` for loss of the process, `Begin` for
the first build and every further attempt, which derives what is owed from the registry (`resume`) or the listing
(`fill`). Of data only this is kept: per shard and window, how often the window was combined into it.

`ShardBuild` has three variables and says that complete shards appear one by one, are registered only after that,
are never taken back, and that success means all of them. `ImplementsShardBuild` maps onto it the objects that are
complete, the registry and `pc = "done"`; a partial object in the storage would be a step `ShardBuild` does not have.

### HashedStore

One storage and one registry with atomic rows; every call is a step. A writer derives a key from the bytes, asks with
`HeadObject`, puts when absent (`Put`), and swaps the row (`SwapRow`) unless it is lost before (`Forget`, `WriterDies`).
`GcStart`, `GcList`, `GcReread`, `GcDelete` and `AdoptStart` ... `AdoptEnd` follow the two maintenance passes call
by call. Environment assumptions are constants, so that a reader sees which one a property rests on:

- `CachedIndex = FALSE`: the second reading of the registry is a real one. A `JsonlShardIndex` that is asked twice
  answers the second time from memory; with that instance `RegisteredPresent` does not hold.
- `QuietDeletes`: nothing is written from that reading to the last delete. Without it, and with a rewrite that
  reproduces old bytes (`Reuse`), a writer may find the blob present just before it is deleted.
- `QuietAdopt`: nothing is written during an adoption (a fill adopts before it writes).

### FillTick

Time is a row of units, a shard's content is the version of the raw data it holds of each unit. A producer lands
raw data, stamps a request and appends it with compare-and-swap (`Land`, `Stamp`, `Load`, and the conditional put,
which succeeds exactly when the journal still equals what was loaded because etags are digests of the content).
`FillStart` reads the journal, `Discover` the listing, and finds what is missing from the minimal cover or
stale; `Materialize(g)` takes the gaps in the code's order and reads smaller shards of the tier (`SubTiles`), the source tier
(`SourceTiles`) or raw data; a hole no source tile covers leaves the gap, an input without rows stores nothing, and a tile of the
tier that was deleted after the listing ends the tick (`TileGone`). `PutShard` stores; `FillDone`, `PruneLoad` and `PutPruned` are
the end of the tick. `StopEarly`, `TickDies`, `RawNotReady` are its faults. `Collect(s)` deletes a shard that a larger one of its
tier covers, at any time and without the grace period: more than the sweep does, whose own steps and rows are in `RegistryGc`.
Ticks run at growing instants (`now`), each over all time before it. All smallest rungs are filled too (`fill_all`, as
`lambda_entry` has it). The clock is the number of requests stamped so far, the finest order in which a build and a
request can be compared.

History, which no guard reads: `ver` in a request; `unread`, the requests made while a tick that has not read them builds a shard they
overlap; `passed`, those for which a shard is stale that the cover has left behind; `refused`, those whose producer gave up.

### RegistryGc

One hashless tier over raw data, any number of overlapping invocations. `StartTick`, `Discover`, the
reconciliation of objects without a row, the fill and the sweep follow `lambda_entry`; `StartSingle` is an event
for one gap, with a row or as a scaffold. A sweep reads the rows once, skips what is within its grace period, asks
for a covering parent with a HEAD, deletes the object, and deletes rows in statements of `Chunk` at the end.
Invocations overlap because a tick has a time budget of twelve minutes on a five-minute schedule and no reserved
concurrency, and because rebuilds invoke the same function.

### PlanLadder, RaggedPacking, QueryPlan

A behaviour is one query: its inputs are chosen in `Init`, the walk or the packing takes one step per segment or
output bin (`Emit`, `SkipGated`, `Stop`; `RefuseBins`, `PackFixed`, `PackCalendar`), and `Assemble` coalesces and
applies the limits. A grid is a set of boundaries, so months of different lengths need nothing special.
`Effective` is the propagation of watermarks over rungs and tiers, `Decompose` the shortest path that packs a fixed
width (`decomposeBin`). `PackSealed` and `PackRegistered` are the packings of calendar widths: one descent over the
tiers, coarsest first (`Pack`, `Descend`), that leaves the `Residues` of what a tier could take to the finer ones; they
differ in what a tier takes, up to its watermark (`TakeSealed`) or what is registered (`TakeRegistered`). `Reads`,
`Units` and `OutBin` are what fetching and stitching make of the plan: which rows of which shards land in which output
bin; a row holds no unit beyond its shard's watermark. `LadderAssumption` (a shard is made of whole bins) is what the
ladder validation establishes. That tiers and rungs nest (`NestedLadder`) it establishes only within fixed widths; that is a
hypothesis of the theorems that need it, and TLC checks it of the instance. So is `InputsMeet`, what a query's inputs have to
do with the ladder: watermarks and earliest bins are boundaries of their tier's bins (`Aligned`), the gate of a cell is a period
boundary of every cell that is open before (`GatesNest`), a registered shard that reaches into one of a coarser tier ends with
one of its bins (`ShardsMeet`), and a target is made of bins of the finest tier (`TargetsServed`). `Complete` says that the
registered shards a query may read (of the tiers in `Packers`) hold all of their periods; `NothingMissing` speaks of such
inventories. `CutsExact` is a condition on watermarks under which months are packed exactly; section 7 says when it fails.

### TileSource and HeldFill

`TileSource` is what the window threads of `WindowExecutor` read from. `TileAt` picks the tile of an instant from the
one LIST a build takes: the largest rung present, or the finest one, whose absence is then counted. A window thread
alternates `LookUp` (cached, being loaded by another, or ours to load) and `LoadTile`; `TakeQueued` is the readahead thread at
the head of its queue; `Prefetch` and `ClaimWindow` are the coordinator, `CollectWindows` takes results, moves the watermark and
evicts the tiles behind it. `LoadRaises` wakes the waiters with the error, `Vanish` deletes a listed object. `Judge` is
the end: too many missing tiles, or any missing one that is not open at the end, fail the build. `rows` and `loads` are
history: how often each unit of a window was read, and how often each tile was loaded.

`HeldFill` decides before all that: which expected shards are missing (`Lacking`), which no tile reaches (`Unfillable`),
which lie over an absent tile that is still open (`Deferred`) and whether so many closed ones are absent that nothing
is written (`Held`). `MergeSpans` and `FillWindows` are the windows it walks, `WalkWindows` and `WriteFilled` the build in
one step per shard, `JudgeFill` the verdict. Tiles may
`Arrive` until the writes begin, and time `Advance`s between fills.

### Rebuild

`StartRebuild` orders what is missing, or older than `stale_before`, in layers by tier and rung, with scaffold layers
before rungs whose calls would read more source bins than the budget; `NextLayer` hands out a layer when every call of the
one before has returned. `Call(g)` is `run_single_gap`: exists, no inputs, empty, or written from smaller shards of its
tier and tiles of its source tier, the stale ones not being read. `CallFails` leaves nothing, an object, or an object and a
row. `outdated` is history: the stored shards that hold anything the sources said before `stale_before`. `CleanScaffold`
deletes, `DriverDies` and a new `StartRebuild` are a re-run, beside which the calls of the dead driver run on (`Stray`); `TickFills` is
the scheduled function beside it.

### Cascade and Materializer

Two ways to build upper tiers. `Cascade` goes rung by rung (`StartCascade`, `BuildShard`, `NextRung`), an existing shard being
kept unless `overwrite`; `ShardRaises` fails one shard and the run goes on. `CorrectBase` changes a base shard at any time,
`StartCanonicalize(m)` and `RollShard` rewrite every shard in place with the canonical rows of map `m`. A shard is a set of
rows of bin, token and sum; sums make a row that is counted twice visible.

`Materializer` goes shard by shard: `todo` is the set of those to come, `Nearest` the first of them in order of
dependency. Source rows are raw rows in chunks of a day, or the meeting
shards of the nearest tier above whose bin divides (`Meeting`); `InPeriod` clips to the period and to whole bins;
`EmitSql` writes the rows of what a round found or built; `MatDies` ends a round before it, `ObjectLost` removes a shard.

### TipWriter

`StartProcess` parses the registry, `ReadTip`, `PutTip`, `RecordTip`, `InvalidateTip` are one flush, `NextBatch` the next one in this process
or a later one, `ProcessDies` a crash after which the same batch is appended again. The registry is a table of rows,
a file that each record is appended to, or one stored object that is put again every `FlushEvery` records. `Derive` is the
fill that the journal asks for. The checked value of `FlushEvery` is the default, 1.

### Runs, Intervals, MultiScan, ScanSeal

Algorithms, each against a definition of what it should be. `Runs` keeps what `merge_sorted` keeps: a buffer per input,
the last key seen of each, the frontier below which an identity is final; `Advance` loads the inputs at the frontier
and emits. `Intervals` appends scan by scan to a table kept per key range, whose ranges come from row groups of files
(`PlanRanges`, only the exact ones can be cut at; `Points` are in the order of the code's sort, each at its rank), and `Islands` over all scans is the definition. `MultiScan` folds scans
into runs of equal states, and ingests them into an index of adjacencies and of composed blocks aligned to powers of
two, each `Adjacency`, `AlignedBlock` and `ListScan` a put of its own; `Forward` and `Diff` compose a difference.

`ScanSeal` is the driver of both sealing schemes. Fixed: `PutGroup`, `RecordGroup`, `DropMember`. Exponential: `BuildBlock`,
`DeleteSuperseded`, `DropCovered`, `Rewrite`, in that order. `Serves(l, p)` is what a reader does: the record that names
the scan, else the individual shard. `SealAssumption` bounds sizes and bases as `consolidate_groups` and `dyadic_decompose` do.

### LambdaDeploy

A deployer's `pc` is its next call of AWS; `Dies` is a call that raises or a deployer that is stopped, and a deployment run
again is another `Deploy`. A flip of the package type deletes the function with its policy. `Operator` turns rules on and
off. `bound` (rules deployed to the end since their function was made) and `retired` (rules an operator turned off) are
history.

## 3. Runs

| run | module, cfg | question | result |
|---|---|---|---|
| `executor` | `MCWindowExecutor`, `WindowExecutor.cfg` | do threads, failing tasks and a lost process leave wrong, lost or unordered objects? | no; refines `ShardBuild` |
| `executor_liveness` | `WindowExecutorLiveness.cfg` | does every fill end, and succeed when run again? | yes, with one close thread |
| `executor_hang` | `WindowExecutorHang.cfg` | the same with two close threads | violated, see 6 |
| `components` | `MCComponents`, `Components.cfg` | twelve components, one at a time: the store, and `TileSource` to `LambdaDeploy` of section 2 | hold, see below |
| `store_reads` | `MCHashedStore`, `HashedStoreReads.cfg` | does the grace period protect a reader? | violated, see 6 |
| `fill` | `MCFillTick`, `FillTick.cfg` | is what is pruned repaired, is no append lost, and is everything built and repaired in the end? | yes, but for requests made while a tick builds, stale shards outside the cover, and what lies over an outage |
| `fill_mid_tick` | `FillTickMidTick.cfg` | is what is pruned repaired when a request comes during a tick? | violated, see 6 |
| `registry_gc` | `MCRegistryGc`, `RegistryGc.cfg` | do overlapping sweeps take anything out of service, and does the registry settle? | no; yes |
| `gc_mid_period` | `RegistryGcMidPeriod.cfg` | the same for a shard whose period is not over | violated, see 6 |
| `plan` | `MCQueryPlan`, `QueryPlan.cfg` | does a plan answer each unit exactly once, up to the hand-over? | yes |
| `plan_tail` | `QueryPlanTail.cfg` | does the inventory walk stop only at the tail? | violated, see 6 |
| `seal_crash` | `MCScanSeal`, `SealCrash.cfg` | is every scan readable after a seal in powers of two that died? | violated, see 6 |

`components` is a composition by cases. A behaviour of `MCComponents` is a behaviour of one component, chosen at the
start (`part`), the others resting in an initial state or blank; no step mixes two. So each of its invariants speaks of one
component, and `Is("...") =>` in front of one only keeps TLC from reading blank values. Several are conjunctions of the named
properties of a module: `TilesSound` (`ReadOnce`, `NoSilentHole`, `LoadedOnce`, `NoneStranded`), `RebuildSound` (`FreshMeansNew`,
`CleanMeansComplete`, `BudgetKept`), `CascadeSound` (`CascadeExact`, `RollupExact`), `TipSound` (`RowsKept`, `BehindIsJournalled`),
`ScansExact` (`EncodersAgree`, `DiffsExact`), `MaterializedExact` (`RowsExact`, `ReadyMeansBuilt`, `RoundRegisters`), `DeploySound`
(`DeployVerifies`, `DisableSticks`), `AdoptionsSound` (`AdoptHeals`, `NoRollback`).

What each run's properties say is written above each of them, in the module. The bounds, and why the interesting
cases happen within them:

- **executor**: seven ticks in four windows, the last clipped by the end of the range; two tiers of two shards; the
  shards of the fine tier meet *inside* a window, those of the coarse one *at* a window's edge. So there are windows
  that feed two shards of a tier, shards of one and of several windows, and a restart inside a window. Three window
  threads and three claims in flight let windows complete in any order with one left over; two closes run in
  parallel; two exceptions and a loss of the process in three attempts cover a failure during the recovery from
  another. Deadlock is not checked here, because closes may block for ever (`executor_hang` shows it).
- **fill**: two tiers over two units, the finer of single units, the coarser of units and a pair. So the pair is assembled from
  smaller shards of its tier, from the source tier, or from both at once; the units of its tier are superseded when the range
  grows from one unit to two, and may be collected before, while or after the pair is read. One unit has no
  raw data until a change brings some, so "empty" and the hole above it happen and end. Two producers with two attempts
  per append: an append meets a prune or the other append, either gives way, and a request is refused. Of changes of the raw data,
  ticks that die or stop and reads that are put off there are two together (`MaxEvents`): two requests, a request and a fault, or
  two faults. Producers are alike: the first idle one is the next. What the ladder leaves out: two rungs in the finest tier,
  whose pair is assembled from units alone as `FillTickRelics.cfg` has it. The liveness properties need every fault to be used up,
  which the bound makes sure of.
- **registry_gc**: rungs of one and two units over three units of time, so that a pair supersedes its halves and the
  last half stays; two invocations; a sweep budget and a statement of one row, so that both are exhausted at once;
  one fault or single gap anywhere. The theorems hold for any number of invocations and rungs.
- **plan**: six days of two units; half-day, day and two-day bins and irregular "months" ({0,4,12}); seven cells;
  128 assignments of watermarks, where those of the finest tier also end within the bins of coarser ones, under three
  gatings; every subset of seven registered shards, among them overlapping
  ones and ones that leave holes; eight outputs: three budgets, fixed widths of three and six units that no tier has
  and that do not divide each other's tiers evenly, a month that straddles two-day bins, and the exact month; two
  ranges, aligned and not; smoothing by no or one bin. The liveness of the walk is the invariant `WalkAdvances`. For
  months that are packed from watermarks `CountedOnce` and `HandOver` suppose `CutsExact`.
- **seal_crash**: three scans, so that the third seal merges two archives into one, and one crash.
- **components**, by part:
  - *store*: one slot (rows are per slot and no operation relates two), three versions (current, previous, lost), one
    writer, two collections and two adoptions, five instants with a grace period of two and a write time of one: an
    orphan can be younger and older than its grace period, and a collection can overlap an adoption.
  - *tiles*: nine units in windows of two and tiles of one and three, so tiles are shared by two windows and windows by
    two tiles; two window threads, two windows in flight and the readahead; four listings, with overlaps, holes
    inside and at the end, and fine tiles between coarse ones; one load that raises or tile that vanishes. Missing tiles
    are tolerated by none, the default.
  - *held*: raw tiles of four units over shards of one, two and six, from a genesis inside a tile; three clocks, so a
    tile is open, then closed, then late; no tolerance and a half, strict or not; a source of stored shards; one crash
    or invalidation.
  - *rebuild*: rungs of one, two and four units, of which the last is over the budget of two; stored covers of two earlier
    instants, so that superseded shards are there too; two clocks; a limit of three calls or none; a drought of
    two units or none; one call that fails or driver that dies, at any place.
  - *cascade*: rungs of two, three and six units, the middle one straddling the base and the last with a longer bin;
    two tokens, two identity maps; one rewrite of a base shard and one shard that raises.
  - *tip*: three batches over four bins that touch again what an earlier one wrote, two coarser shards, both merge rules,
    three kinds of registry, two crashes.
  - *intervals*: two keys among nine, three states, three scans: a key may change, change back, go and come back; two
    footers, cut in at most three ranges, on keys that are and are not boundaries.
  - *runs*: every sorted input of three rows beside every one of two, over four keys of which two share an identity, cut
    in several batches, with three reductions and a row group of two.
  - *scans*: five scans of two keys with births, deaths, changes that are undone and a row equal to the monoid's
    identity; two levels of blocks; one ingest that dies. Five scans fill one block of four and begin the next.
  - *seal*: five scans, groups of two over two periods, and powers of two over one; two crashes.
  - *materializer*: a ladder of three tiers with a day that cuts across shards, and one whose base shards straddle; raw
    rows everywhere or in part; two clocks; one death or one lost object.
  - *deploy*: three calls, of which one flips the package type of a function with two rules; two deployers, three
    deployments, any call failing.

Assumptions of the runs that are not in the code are named: requests `unread`, `passed` and `refused` and shards that are not
`Fed` (fill, in the properties); `QuietDeletes`, `QuietAdopt` (store);
`MidPeriod = FALSE` (registry_gc); `QuietTicks` (rebuild: no scheduled fill runs while a rebuild with `stale_before` does, as
a tick reads stale shards too); `QuietOperator` (deploy: no operator acts between a deployment's read of a rule and its
put; without it `DisableSticks` does not hold); one period and no crash for the exponential scheme of `SealsKeepScans`, which is
therefore stated at rest; complete shards where `NothingMissing` speaks of an inventory (`Complete`); `CutsExact`
(plan); nested rungs, tiers and inputs (`NestedLadder`, `InputsMeet`). Theorems that suppose more say so in section 5.
Each is a constant or a condition in the property, and where the code itself does not guarantee it the violated runs of
section 6, section 7 or the hazards say what happens without it.

## 4. Fairness

Liveness is checked of the executor, the fill and the registry collection; the parts of `components` have safety only.

- **executor**: weak fairness of starting an attempt, of the coordinator and of each thread's own step. The pools run
  real threads and the driver repeats a build that did not succeed. `WindowRaises`, `CloseRaises` and `Crash`
  are never owed.
- **fill**: a producer inside `invalidate()` goes on, a tick goes on, and the cron comes round: strong fairness for
  a tick over the whole range, as a tick can only start while none runs. New data, faults and collections are never owed.
- **registry_gc**: time passes, each invocation is fired again and goes on; the sweep of a tick is strongly
  fair because one firing in twelve sweeps. Faults and single gaps are never owed.

## 5. Proofs

TLAPS checks these for every value of the constants that satisfies the named assumptions (`SizesAssumption`,
`ShardAssumption`, `WindowAssumption`, `StoreAssumption`, `FillAssumption`, `GcAssumption`, `RebuildAssumption`,
`TipAssumption`, `TileAssumption`, `HeldAssumption`, `DeployAssumption`, `SealAssumption`, `MultiAssumption`, `CascadeAssumption`, `MatAssumption`,
`LadderAssumption`, `QueryAssumption`), which TLC evaluates in a
run. A theorem that supposes more names it in its statement. Each proof has a lemma per action (or per conjunct and
action) and a temporal last step.

**WindowExecutorProofs**: `TypeCorrect`; `NoLateAppendHolds`; `ObjectsCompleteHolds`; `SuccessMeansWrittenHolds`;
`SuccessMeansRegisteredHolds`; `RegistrationOrderHolds`; `Refinement`. The safety properties are not inductive: that
an object is complete depends on what its close took, that on which windows were complete when it was submitted,
that on the walk's order. `IInv` says all of it: the claimed windows are a prefix of the owed ones in order
(`WalkInv`, `ClaimInv`), a shard stays pending until every window that meets it is complete (`PendingInv`), close futures
and close states agree (`CloseInv`), a pending shard's runs hold each window exactly as far as its thread
has come (`RunsInv`), what a close took is complete (`TakenInv`), so are objects (`StoreInv`), what an attempt skips is
there (`SkippedInv`), turns are handed out in order (`TurnInv`), and a drained build has written everything
(`DrainInv`). `SuccessMeansRegistered` excludes a fill of a hashless template, where a listed object counts as built
and its row may be missing; there the reconciliation of the next tick is responsible (`RegistryGc`).
`NoLeftoverHolds` adds what the coordinator still holds when it drains (`CoordInv`). `NoDeadSeqHolds` is for one close
thread (`CloseWorkers = 1`), where turns are taken in the order they are given out (`SeqInv`); with two it is false, as
`executor_hang` shows.

**FillTickProofs**: `TypeCorrect`; `NoDroppedAppendHolds` for any number of producers; `PrunedMeansRepairedHolds` for every ladder,
range, horizon, number of producers and faults, in every interleaving of producers, tick and collection, from `FillAssumption` alone.
`RepairInv` ties mtimes to contents: a shard of the cover that was built after a plain request (neither `unread` nor `passed`) holds
the request's data, and so does what a tick is about to put, as all that it reads was built after the request or is
fresh raw data (`RequestInv`, `FillInv`); where a shard outside the cover is read that is stale, the request is `passed`. The exemptions are needed, as `fill_mid_tick` and `FillTickRelics.cfg` show (section 6).

**RegistryGcProofs**: `TypeCorrect` (with the bound on what one sweep dooms); `DanglingCoveredHolds`;
`NoCoverageLostHolds`, when only periods that are over are built. `ClosedInv`: every object and everything an invocation
remembers is of a period that is over, hence whole. `CoverInv`: whatever any invocation has listed, built or
doomed is in the storage or has a registered larger shard above it. This is where the argument lies: a doomed
shard's parent may be deleted by another sweep between the HEAD and the delete, but only for a still larger one.

**TileSourceProofs**: `TileTypes`; `LoadsHold` (`LoadedOnce`, `NoneStranded`); `TilesSoundHolds` for nested rungs. `CacheInv`: a
thread has in hand the tile of its place (`HandInv`), a tile that is loading or waited for is loaded by exactly one thread (`LoadInv`),
and a tile that was loaded and is no longer cached lies before the windows that are not complete (`OnceInv`). `ReadInv`: a
window has read each unit before its place once or found its tile missing, in whole tiles, and none after it.

**OpsProofs**: `RebuildSoundHolds` (`FreshMeansNew`, `CleanMeansComplete`, `BudgetKept`) when no tick runs beside a rebuild
with `stale_before` (`QuietTicks`). `RebuildInv`: what was written since holds nothing stale (`FreshInv`); what the
cover lacks is in a layer to come or in a call, until the limit cuts a layer or a shard fails (`CoverInv`); scaffolds are built
before what is longer (`SlotInv`). `DeployVerifiesHolds`, and `DeploySoundHolds` when no operator acts between a deployment's read
of a rule and its put (`QuietOperator`); `DeployInv`: a bound rule has its target and its permission, and a deployer
past a call has what the call makes (`ProgressInv`); `ReadInv`: one about to preserve the state of a rule that was turned off has
read that it is.
`CascadeSoundHolds` (`CascadeExact`, `RollupExact`) for any ladder in which a bin divides the coarser ones and the edges of the
shards, and a rung's shards neither overlap nor leave out a base unit that a shard of the next rung spans
(`CascadeAssumption`); rungs may straddle each other. `CascadeInv`: a shard is one row per whole bin and token
(`Shaped`); a shard has a leaf only where the base has one (`Supported`), so one that is left as it is because nothing was combined
holds nothing stale; below the rung being built, and in it what is built, the leaves are those of the base (`Built`); each shard
a canonicalization has rewritten is rolled up by its map (`Rolled`). That the sum of a shard's rows is the sum of the base rows
under them (`GroupExact`) is no induction: a sum over a finite set is the size of a union of disjoint sets, one per row (`SumsTo`, by a
minimal counterexample), and the base rows under the source rows of one bin are disjoint and are those of the bin.
`MaterializedExactHolds` (`RowsExact`, `ReadyMeansBuilt`, `RoundRegisters`) and `MatTypes` for any ladder of `MatAssumption`, raw rows,
clocks, losses and deaths. `Counted` gives each row of a set the raw rows it counts: its own, of its bin, none left over. Binning, the
union over days, combination over shards that are apart and clipping to a period keep it (`GroupedCounted`, `UnionCounted`,
`CombinedCounted`, `ClippedCounted`), and rows that are counted, one to a bin, are those a shard should have (`ExactMeans`).
`MatInv`: every stored shard is exact (`AllExact`); in a round the driver knows of all that is stored (`KeysInv`); what is stored of the
cover is to come, or registered, or about to be (`RegisterInv`); and what was ready when its turn came is stored (`ReadyInv`), since
each unit of the next shard lies in a shard of the source tier (`ReadyCovered`) whose turn came before. `buildable_at` is recursive in
the tier; where the sources align (`SourcesAlign`) it is the end of the last source shard (`ReadyIs`, by the least tier where it would not be).

**ProducerProofs**: `NoQuietHoleHolds` for fills over raw tiles and over stored shards, on a ladder of fixed durations in which the
finest of a tier divides the others (`HeldAssumption`). `FillInv`: over raw tiles each unit still to be written is stored or may be
missed by the fill's tolerance (`TodoMayMiss`, from the deferrals and the held tiles); over stored shards the source reaches as far as
each shard to be written (`Reaches`), so a unit that was not read lies in a tile that is over, which the judgement does not forgive
(`FreshRead`, `FreshWhole`). Both need that the windows cover the shards: the sort is shown to be one by counting the spans
before a span, and each merged prefix to be in order and to contain its spans. `TipSoundHolds` (`RowsKept`,
`BehindIsJournalled`) for the three registries, with a registry put at every
record (`FlushEvery = 1`). `TipInv`: at each step of a flush the registered tip holds all batches up to it or all up to the
one before (`FlushInv`), no shard was derived later than now (`ClockInv`), and one that is behind is in the journal or about to be.
Of the store: `TypeCorrect`, and `RegisteredPresent` under either of two assumptions.
`QuietRegisteredPresent` (`QuietInv`): nothing is written during the deletes. `FreshRegisteredPresent` (`FreshInv`):
writes go on at any time but never reproduce old bytes and take less than the grace period. Its strengthening
dates everything: what a collection has listed was put before each write in flight began. `AdoptionsSoundHolds`
(`AdoptHeals`, `NoRollback`) supposes one writer, that reproduces no old bytes and writes nothing during an adoption (`Alone`);
`AdoptInv` says that times lie in the past and a row's after its object's (`TimesInv`), that what is being written is later
than all its slot has (`WriteInv`), that a lost version that is still stored is the newest of its slot (`LostInv`), and that a pass
holds every such version, and only keys newer than rows that are still as it read them (`PassInv`).

**ScanProofs**: `SealsKeepScansHolds` for any group size, base, number of scans and of crashes, and for the fixed scheme any number of periods.
`SealInv` has a part per scheme. Fixed (`FixedInv`): each record's archive is there and holds its members' rows (`RecordsHeld`),
each tile is a shard of its own or recorded (`TilesKept`), and the job's items are under keys of their own that no record has
(`WorkLeft`), so that no put touches an archive that is read. A crash keeps all of it, since the job is forgotten.
Its lemmas say that the groups are disjoint (`InOrder`, `PlaceIn`) and that each item has its key (`FixedWorkFacts`).
Exponential (`DyadicInv`): the records are the aligned blocks of the first scans (`Dyadics`, from `DecomposeTiles`: what
`dyadic_decompose` returns tiles the range, again by a minimal counterexample), the archives are those of the records and of the blocks
built so far, and the individual shards are those of the other scans, until the deletes.
`ScansExactHolds` (`EncodersAgree`, `DiffsExact`) and `MultiTypes`, for any set of states with any identity, any scans, number of
levels and deaths of an ingest. `FoldInv`: the runs the streamed fold has closed are the whole runs that end before the last
scan, and each key of the last scan has its run open, from where it began. That a scan is given back follows because each of its states lies in
exactly one whole run (`RunAround`); that no difference is missed, because between two scans that differ in a key a run of it begins
or ends (`BoundaryBetween`), which is what `diff_scans` looks at. `IndexInv`: a stored changeset is that of the scans at its block's
ends (`NodesOk`), every aligned block before the last listed scan is stored (`NodesIn`), and of the blocks that end with the scan being
appended those below the level it is at (`NodesNew`), so that an ingest that is run again after a death, and puts the same
again, changes nothing. Changesets compose (`ComposeBetween`), `aligned_blocks` returns a gapless chain of aligned blocks
(`BlocksChain`), and the composition along a chain is the difference of its ends (`ChainComposes`). That powers of two double, the
prover has to be told: `2 ^ n` is the number of subsets of `n` elements (`PowIs`).
`IntervalsExactHolds` (`RangesPartition`, the rebuild, `ReadsTheScan`, `DeltaReplays`) and `IntervalsTypes`, for any keys, states,
footers, ranges asked for and scans; stamps stay below the open one (`IntervalsAssumption`). `IntervalsInv`: the table is the stamped
islands of the scans so far. A plan's cuts ascend (`CutsAscend`: by a minimal counterexample, along the fold that finds them), so
a key is in one range (`OneRange`) and in one of the conjunctions `key_range_terms` makes of it (`PiecesOne`); what the ranges append
one by one is then what the whole table would (`RangesAppend`, from `AppendLocal`: an append never looks past a key). A
scan more closes the runs that reach the last scan and do not go on, moves the end of those that do, and opens the
others (`AppendRebuilds`). Rows read back because each state is in exactly one whole run (`OneRun`), and a row's stamps
order as its scans do (`RowStamps`).

**QueryPlanProofs**: `PlanTypes`; `WalkAdvancesHolds`; `RaggedMinimalHolds`; `CountedOnceHolds` on a nested ladder
(`NestedLadder`); `NothingMissingHolds` and `HandOverHolds` on a nested ladder with inputs that nest (`InputsMeet`). That no unit is counted twice goes through the atoms the plan is made of (`AtomsSound`): their rows' units do not meet, and
lie in one output bin. A packing is followed down the tiers: the residues of what a tier
takes are disjoint from it and from one another. The shortest path is a recursive function; that its value is a chain of
atoms, and none is shorter, is shown for each argument by looking at the least (or greatest) one where it would fail, a
minimal counterexample in place of an induction. That nothing is missing is `PlanInv`: besides `AtomsSound`, the walk begins a
source on a boundary of its bins (`StartInv`), so no row of a coarser source straddles the change; an atom's sources are complete
to its end (`Backed`); every unit the planning is past and could give has an atom in which the row that holds the unit begins
(`FillInv`), for a packed bin because the finest tier alone would already make a chain through it. From the atom the row is
followed through its run, the shards that the run reads, and the output bin.

`RegisteredPresent`, `TilesSound`, `NoQuietHole`, `RebuildSound`, `TipSound`, `DeploySound`, `AdoptionsSound`, `SealsKeepScans`,
`CascadeSound`, `ScansExact`, `IntervalsExact` and `MaterializedExact` are what `components` checks
on the small instances; so are the type invariants, as parts of `Types`, of which those of the store, the tiles, the held fill, the
scans, the intervals, the materializer and the deployment are proved.

Only model-checked: `Runs` (`MergeExact`), whose promise, a sorted sequence and the reduction of each identity's rows in order, is a
fold that the prover could only follow by induction over data; everything under fairness (`BuildEnds`, `EventuallyDone`, `JournalDrains`, `Repaired`,
`Filled`, `Settled`), since the prover has neither ENABLED nor liveness.

## 6. Where the code and its documentation disagree

1. `executor_hang`: a close that raises while an earlier one still runs never gives up its turn
   (`engine.py:926`); the closes behind it wait for ever and so does the shutdown of their pool.
2. `store_reads`: the grace period runs from an object's put, not from its replacement (`gc.py:118`); a
   version that was current for long is deleted as soon as it is replaced, under the readers that hold its key.
3. `fill_mid_tick`: a request stamped between a tick's read and its put is older than the shard's mtime
   (`invalidation.py:50`) and is pruned although the shard was built from older data (`SpentMeansRepaired`).
4. `gc_mid_period`: a shard of a period that is not over is swept by age alone (`gc.py:130`), whether or not anything
   else serves its units.
5. `plan_tail`: the inventory walk ends at the first uncovered instant (`planner.ts:1241`); a smoothed query starts before
   the prefetched range, and when the visible range starts with a shard the plan is empty.
6. `seal_crash`: `seal_dyadic` deletes the superseded archives and the individual shards (`multiscan_driver.py:327-334`)
   before it rewrites the manifest (`:335`); a seal that dies between leaves scans whose record names a deleted archive,
   while `specs/multi-scan-consolidation.md:175` says that a crash between any two steps is safe.

Two more disagreements are in `FillTick`, each stated as a property that has a configuration of its own to show it violated:

7. *Superseded shards* (`FillTickRelics.cfg`, `ReadMeansRepaired`): `stale_keys_for` looks only at the shards of the expected
   cover (`pyrmts_engine/invalidation.py:34-51`). A smaller shard that a larger one of its tier has superseded stays in the key set
   however stale it is; `tile_from_existing` reads it (`consolidate.py:267-310`), so the larger shard is rebuilt from old
   data, is newer than the request, and the request is pruned. No race and no fault is needed, only two rungs in a tier and a
   sweep that has not come yet. `consolidate.py:435-439` says that "coarse rebuilds read repaired fine tiles" and
   `specs/done/shard-invalidation.md:41-42` that an entry is spent "once no overlapping shard predates its `requested_at`" and
   that "a coarse consolidation never rebuilds before the fine tiles it reads". Such requests are `passed`; `PrunedMeansRepaired` and
   `Repaired` are stated for the others.
8. *Outages* (`FillTickOutage.cfg`, `OutageFinal`): a shard without rows is never put ("empty", `consolidate.py:325`), so the tier above
   finds a hole that no source tile covers and has no inputs, on every tick (`:187-189`). The docstring of
   `cross_tier_rebin` says "no data" is "a valid, final answer (outage windows), not an unfillable state" (`:179-182`), which
   holds only for a part of a source shard that has rows. `Filled` is stated for shards whose sources all have rows (`Fed`).

## 7. What is not modelled

- **Data.** Parquet, monoids, keys as text, hashing, SQL as text, YAML: an object is the set of its inputs, or of rows
  that are counted or summed.
- **Byte estimates and wall time** of the executor and the tick: a claim may be refused, a tick may stop at any gap.
- **Two writers of a registry that is one object** (`StorageJsonlShardIndex`, `ManifestShardIndex`): rows are atomic in
  the store, as in D1; `TipWriter` re-puts such a registry, alone.
- **Legacy keys, dry runs, hashed templates** in fills, rebuilds and sources; `run_rebuild` raises for them.
- **Of the planner**: windows of months, the rolling pass, filters, targets no ladder can serve; a ladder whose
  fine shards end inside coarse bins, half-filled coarse shards of an inventory, rungs that do not nest.
- **Geometry, React, Pulumi, the command line, batch submission, benchmarks, validation reports**: no state that
  several actors share, or reports over the modelled components.
- **The reader in JavaScript**: its TTL caches, the range reads of a shard that is replaced meanwhile, `walkdiff`.

Behaviour that was met while modelling and that no property covers, by component; some of it the code's own comments
say. Each is a place where a reader of the checked properties should not take more from them than they state.

- *store*: an adoption reads the rows, then lists (`pyrmts_engine/gc.py:102`): a writer that registers in between has
  its new row taken back. `StorageJsonlShardIndex` puts the whole manifest it loaded (`shard_index.py:220`): of two
  writers the later drops the other's rows.
- *tiles*: the engine may evict an absent tile that the readahead then loads again, and counts it twice (`source.py:238`),
  so the ratio of missing tiles is an upper bound.
- *ladder*: `yaml.py:306-316` compares rungs of fixed and calendar widths by their nominal widths: 3, 5 or 15 days pass together
  with months, which they do not divide. Such a ladder is not nested (`NestedRungs`, `NestedLadder`,
  `HeldAssumption`).
- *rebuild*: a source tile without rows leaves the tiers above with no inputs, which counts as a failure, for ever; a shard
  of a period that has no rows any more stays; the row of a deleted scaffold stays when a tick had registered it; a
  driver that dies leaves its scaffolds, and so do its calls that run on; a shard whose call failed after the put is fresh to the re-run, which does not
  register it (a tick does).
- *cascade*: a run without `overwrite` after one that failed keeps the coarse shards built from an incomplete
  rung (`cascade.py:156`); a cascade beside a canonicalisation can lose leaves.
- *tip writer*: `Derive` is a whole tick in one step: a tick that interleaves with flushes has the case of `fill_mid_tick`; a batch that is older than the last one, appended again, wins under keep-last; two long-lived processes keep
  their own copies of the registry; with `flush_every` above 1 a crash loses the rows not put yet.
- *tick*: a request whose producer gave up after its attempts (`pyrmts/invalidation.py:106-109`) leaves shards as they are
  until it is made again; with `fill_all=False` the smallest rungs are written by someone else, which `FillTick` does not have.
- *intervals*: the guard of an append looks only at the largest start (`intervals.py:364-366`), not at closing stamps.
- *multiscan*: a real row whose states are all the identity is dropped with the absent ones (`_drop_absent`).
- *sealing*: `seal_dyadic` over several periods resolves a scan through the records of other periods and deletes their
  archives (`multiscan_driver.py:296`); `seal_new_groups` after a crash between two periods does not seal the second.
- *materializer*: day chunks of raw rows are concatenated, so a bin longer than a day has several rows
  (`materialize.py:246`, the condition `ChunksHoldBins`); a bin that begins before genesis is dropped (`:353`); a base
  period without rows makes the tiers above fail for ever; a driver that takes only gaps never registers what a
  round that died had written. `buildable_at` looks at the smallest rung of the source tier only ("no coarser tile closes
  earlier", `:99`): where a rung of that tier is no multiple of its own source's smallest rung, the cover may have put a longer
  shard in the place of smaller ones, which cannot be built yet, and a shard that is called ready is not built in that round. Genesis inside a bin
  of the source tier leaves a shard of it empty. `ReadyMeansBuilt` therefore supposes `SourcesAlign`.
- *deployment*: a role made just before its policy could be attached never gets it (`aws.py:93-101`); a change of the package
  type drops the permissions of the function's other rules (`:157-164`), which is why `bound` ends there; an
  operator's change between `describe_rule` and `put_rule` is undone (`:230-240`).
- *planner*: a calendar target cuts a bin of a base tier at the least watermark of all rungs of the tier and of the finer
  ones (`planner.ts:775-793`, `:895`), but its row comes from the tier's largest shard, which may hold data up to its own
  later watermark: the units between are added again by a finer tier or the hot path, unless `CutsExact`; fine and coarse shards that meet inside a coarse bin (`stitch.ts:59`), half-filled coarse shards
  (`planner.ts:1217`), two keys of one bin with rungs of 15 days and a month (`planner.ts:1436`).
- *reader*: a read in flight across an invalidation refills the cache with what it read (`shard-index.ts:151`,
  `manifest-shard-index.ts:206`).

## 8. Plan

Done, in this order, from what loses data to what misreads it: executor, store, fill and journal, registry collection,
planner; then the components of `MCComponents`; then their theorems. Next:

1. **The reader**: the TTL cache of watermarks with reads in flight, the re-put manifest, range reads of a shard that is
   being replaced, composed with `TipWriter`. Abstract specification: a register no staler than the TTL.
2. **Several periods** of the exponential seal, and `seal_new_groups` after a crash, with a specification of what the
   manifest promises a reader.
3. **Walk diff** against the difference of two leaf sets; the rolling pass and windows of months of the planner.
