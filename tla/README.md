# cptkirk, specified

TLA+ models of [cptkirk](../src/README.md), an R package with a Rust core that
reads cloud-optimised GeoTIFFs (COGs) by byte range and hands the pixels to
GDAL. The models are written from the source under `src/`; every definition
that stands for code is listed in `PROJECT.json` (`map`) with its lines.

To run, in this directory: `tlc -workers 2 -config batch.cfg MCBatchRun`
checks one instance (the table of runs names module and cfg), and
`tlapm BatchRun_proofs.tla` checks the proofs of one module.

## 1. The system and its parts

R calls `ck_warp`, `ck_stack`, `ck_read`, `ck_stack_read`, `warp_remote` or
`ck_batch` (or `cog_info`, which stops after the headers). Each of
them reads the headers of its sources, plans one pixel window per source,
fetches the windows through the Rust core, stages them as in-memory files for
GDAL, and lets GDAL warp, stack and write. R is one thread. The Rust core runs a
tokio runtime; its tasks, the HTTP server, and optionally a pool of mirai
daemons are the other actors.

| Part | State | Operations | Talks to | What is hard |
|---|---|---|---|---|
| Streaming session (`lib.rs` 345-530) | open sources, channel of depth Buf, driver task, handle held by R | begin, take, drop; the driver pulls, fetches, sends, ends, panics, is aborted | batch assembly (blocking take), window fetch (one future per source) | completion in any order, sends parked on a full channel, one task for all fetches, abandonment |
| Batch assembly (`ck_batch.R`) | have/need, accumulators, failed list, tasks | drain, dispatch inline or to daemons, collect | the session, mirai, `.stack_assemble` | arrival order against band order, partial failure, unbounded dispatch, NA against error |
| Pooled window fetch and blit (`window.rs`) | plans, tile list, decoded tiles, output buffers | validate, fetch and decode tiles, blit | range reader, band-subset fetch | index arithmetic with partial tiles, three layouts, two separate blits, one failing tile |
| Band-subset fetch (`band_fetch.rs`) | none | choose tile indices, lay out the subset | range reader | file band against output band |
| Range reader (`http_reader.rs`) | requests in flight | multi-range request, parse, fall back to single ranges | HTTP server | reordered, coalesced or missing parts; servers that ignore Range; timeouts |
| Window planning (`engine.R`) | per-call cache of plans | plan, pick overview, clip | PROJ | rounding, margin, reuse of a plan by another source |
| Stack and warp calls (`engine.R`, `ck_stack.R`, `ck_warp.R`, `stage.R`, `warp_remote.R`) | /vsimem files, exit handlers, output file | collect, stage, warp each, buildVRT, translate, name, clean up | everything above, GDAL | dropped sources shift positions, failures between steps |
| Read to array (`ck_read.R`) | a temporary raster | as above, then decode to an array | the same engine | three ways to the array, each to be measured |
| Source opening (`source.rs`, `runtime.rs`, `lib.rs` 158-195) | the runtime, one cache of stores and a client per open, headers read | classify a URL, share a pool, read all headers, open again for the fetch | object_store, reqwest, the files | which sources may share credentials; files replaced between two opens |
| Header metadata (`meta.rs`, `build_meta`) | none | geotransform, CRS, type, names and levels from tags | source opening, planning | half pixels, rotated files, missing GeoKeys, directories that are no overviews |
| Scoped GDAL options (`gdal-config.R`) | process-global options | set for a call, restore on exit | GDAL | options named twice, one refused on the way |
| Auth, validation, scaffolding | none that outlives a call | pure functions, tables, generated code | | |

What makes each part correct:

* **Session.** Every requested window reaches R exactly once or is known to be
  dropped; memory is bounded by `io` and the channel; NULL means "drained"; the
  blocking take never waits forever.
* **Batch.** Every output is assembled once, from all its planned windows and in
  band order; a returned path is a complete file; every NA has a cause; the call
  ends as long as a daemon is left for the tasks in the queue.
* **Fetch and blit.** A returned buffer holds, at every pixel, that pixel of that
  band of that source; no slice is indexed out of range (a panic would cross the
  R boundary); exactly the tiles needed are read.
* **Range reader.** The bytes handed on are the bytes asked for, in order, or the
  call fails; no empty range is sent; the fallback is bounded.
* **Planning and calls.** A window fits its level and covers what the extent
  touches; no overlapping source is dropped; bands, nodata and names stay with
  their source; no array is larger than `max_bytes`; whatever fails, /vsimem and
  GDAL's options are as before the call, but for stated exceptions.
* **Source opening.** A source is read through the store it would get by itself
  (but for a user, section 3), and a signed Azure URL with its own signature
  unless the environment has an account key; sources share a pool exactly when
  `store_key` agrees or both are pre-signed; every source is planned on its own
  grid and, unless its file was replaced, fetched on it.
* **Header metadata.** Every pixel is where the header says, every parameter of a
  CRS comes from the right GeoKey and none from nowhere, and a level is imagery.

## 2. Modules

| Module | Models | Used by |
|---|---|---|
| `StreamPromise` | abstract: each job delivered once, then the end | refined by `FetchStream` |
| `FetchStream` | the session: driver, channel, R's take and drop | `BatchRun` |
| `BatchPromise` | abstract: each output made once, from all its windows in order, when the last one lands; the outputs made are the files returned | refined by `BatchRun` |
| `BatchRun`, `MCBatchRun` | `.batch_stream_run` on top of the session, in four modes (flat or stacked, inline or daemons) | |
| `TileGrid` | tile and index arithmetic as pure operators | `PooledFetch` |
| `PooledFetch`, `MCPooledFetch` | `fetch_windows_pooled` and the blits; `fetch_decoded` with `blit_native` or `blit_f64` is the case of one window. Only the internal binding `cog_fetch_window` uses `blit_f64`, and no R function calls it: reads and staging both take native bytes | |
| `HttpRange`, `MCHttpRange` | `SignedHttpReader` against a server | |
| `WindowPlan` | `.plan_from_meta`, `.pick_overview`, `.grid_sig`, `.plan_sources` | `StackCall` |
| `StackCall`, `MCStackCall` | one call of `ck_stack`, `ck_stack_read`, `ck_warp`, `ck_read` or `warp_remote`, GDAL options to clean-up | |
| `HeaderMeta` | `meta.rs`, `build_meta` and the geotransform of a window as operators on a header | `SourceOpen` |
| `SourceOpen`, `MCSourceOpen` | the runtime, readers and cache, headers, plans on shared grids, the second open, the fetch's own checks | |
| `*_proofs` | the theorems of the module they are named after | |

`BatchRun` EXTENDS `FetchStream`: its consumer actions (`ReceiveError`,
`ReceiveFlat`, `ReceiveStacked`, `EndDrain`) contain the session's `Take` and
`TakeNull`, its `Driver` is the session's driver, and `Forget` is the handle's
finalizer. `StackCall` takes the fetch as one step: what happens inside it is
`PooledFetch`. `SourceOpen` EXTENDS `HeaderMeta` and `WindowPlan` and uses the
latter's `Level` and `Planner`; it is what `StackCall` and `BatchRun` leave out
at their beginning, with windows reduced to "from some pixel to the last".

### How state and actions correspond to the code

*FetchStream.* `idx` are the requested sources; `todo`, `fetching`, `parked` are
the three lives of a future in `buffer_unordered(io)`: not yet pulled, fetching,
waiting in `tx.send`. `Slots` (fetching and parked) is what counts against `io`,
for a future that waits for room still owns its slot. `Pull` is the iterator
being asked for the next job, `Finish` the end of `fetch_window_native`, `Send`
the send, `Panic` the unwinding of the one task that polls all futures, `Abort`
the delayed effect of `handle.abort()` in Drop. `Take` and `TakeNull` are the
two ends of `blocking_recv`.

*BatchRun.* `have`, `acc`, `failed` are the variables of the same names; `work`
records from which sources an output was assembled; `status` is the task of an
output; `rpc` is where R's thread is. Windows are represented by the number of
their source. Sources without a plan are those outside `idx`. An error inside an
inline assembly leaves `ck_batch` (`WarpRaises`); in a daemon it becomes the
task's value. `daemons` counts the daemons still connected: one may be lost with
the task it runs (`DaemonEnd`), which then has an error value, or go away idle
(`DaemonLeaves`), and none comes back; a queued task stays queued. `Home`,
`Spoiled`, `Files` and `Ended` are the state of `BatchPromise` in terms of the
loop's: the output of a source, the outputs whose assembly failed, those
returned as paths, and how the call ended; what landed is what was taken and did
not fail, and what an output was made of is `work`.

*PooledFetch.* A pixel value is named by its origin, `<<source, band, x, y>>`, so
that one invariant can say "this is the right pixel". `TileData` is what the
decoder returns for each of the three layouts: chunky, planar, planar subset.
`waiting`, `active` and `decoded` are the stages of a tile, kept as sets, as
neither the start order nor the finish order shows in the result. `Plan` fails
the whole call when any window or band is out of range, as `plan_tile` does.

*HttpRange.* `got` names the bytes of an answer by their interval. The server may
answer the multi-range request by any sequence of disjoint parts, each of them
one or several asked ranges with the gap between (RFC 9110 allows reordering and
coalescing); what is not such a body counts as refused. `HonoursRange` says
whether it answers a single range with that range or with the whole object.

*WindowPlan, StackCall.* Ground coordinates are integers in a unit that divides
the pixel size, so that floor and ceiling are exact. `vsimem` is the set of
files in memory and `deferred` those an exit handler will remove; handlers are
registered at the point where the code registers them. `PlanFails`,
`FetchFails`, `StageFails`, `WarpFails`, `BuildFails`, `WriteFails`, `NameFails`
are the places where GDAL, the store or a check may stop the call. `config` says
of each GDAL option whether its value is the user's or the call's, and `undo` is
what the exit handlers will put back. Names of bands are the labels of their
sources, or `band_names` where the caller gave as many as there are bands
(`Descriptions`). A read has three ways: the fetched window as it is
(`ReadNative`), the staged window for types `readBin` has not (`ReadStaged`), or
a throwaway raster whose size is GDAL's choice (`OutPixels`); `array` is its
result, as bands and bytes.

*SourceOpen.* A URL is its parts, as far as the code tells them apart. `stores`
and `client` are the two fields of `OpenCache`; a reader remembers the store it
got and its connection `pool`, a number taken when a pool is built. `StoreFor` is
the store of a URL under a user, and `Credential` what its builder signs with:
the options of the environment, the URL's signature after them, and an account
key before any signature (`source.rs` 170-174). `readers` are
made in order, `headers` arrive in any order (`try_join_all`). `BuildMetas` is
`build_meta` for every source; it does not happen a second time after `Reopen`,
as `cog_fetch_windows_raw` only opens. `Replace` (external) may put another file
under a source's name before any step. `trusted` is `sanitise = FALSE`.

*HeaderMeta.* Coefficients of a geotransform are doubled so that half a pixel is
an integer, and those of a window are multiplied by the size of its level, so
that no fraction is lost. Citations are WKT or not, GeoKeys a function of the
keys that are there, metadata items closed or not. A proj string is the set of
its parameters, each a name with a value: their order means nothing to PROJ.

## 3. Model checking

Runs that pass:

| Run | What is checked | Bounds, and why they are enough |
|---|---|---|
| `stream_session` | `StreamTypeOK`, `Conservation`, `Backpressure`, `NullMeansDrainedOrPanicked`, refinement `PromiseKept`, liveness `EverySourceDelivered` | 4 sources, io 2, depth 1: some source waits for a slot while another is parked behind a full channel; panic and drop allowed |
| `batch` | `AccumulatorsExact`, `StackCompleteInBandOrder`, `PathMeansComplete`, `NaExplained`, `InlineMemoryBounded`, refinement `BatchPromiseKept`, liveness `BatchReturns` | 5 sources in 3 groups (two pairs and a single), every subset of them planned, io 2, depth 1, 2 daemons that may be lost or leave: two incomplete groups at once, a queue behind busy daemons, one daemon left, none left: 726,532 states |
| `pooled_fetch` | `WindowExact`, `NoPanicInBlit`, `BlitsAgree`, `TilesExact`, `WrittenOnce`, `PoolEnds` | 5x3 pixels in 2x2 tiles (both edges partial), 3 bands, 2 windows out of 5, 5 band selections, planar or chunky, predictor or not, 2 fetches at once: 228,680 states |
| `http_range` | `RangesExact`, `NoEmptyRequest`, `FallbackBounded`, `ReadEnds` | a 9-byte object, up to 4 ranges, among them neighbours, a repeated and an empty one, 2 in flight |
| `stack_call` | `OutputComplete`, `NamesMatch`, `WindowsServable`, `NoneDropped`, `NothingLeft`, `ConfigRestored`, `ArrayBounded` | 3 sources, each of 4 headers (same grid with other type, bands and nodata; another grid; rows going north with odd overviews), 8 requests, 2 methods, GDAL options none, one named twice, one refused, all five entry points: 276,874 states |
| `source_open` | `ReadersOwn`, `PoolsShared`, `GeoreferencedRight`, `CrsRight`, `FetchedAsPlanned` | every pair of 15 URLs (two tokens on one container, two containers, a port, a user, signed, half signed, a bucket, two containers given as users, a local path), with four environments (none, a signature, an account key, both), and some triples; 18 placements; 62 combinations of GeoKeys and citations, among them every projection bare and with all its keys; two sources on equal or different grids, 3 requests, `sanitise` either way, one file replaced at any point: 68,046 states |

Each of these runs also checks the type invariant of its module. Every property
has a mutant in `PROJECT.json`: a definition changed as a plausible bug would
change it, for which TLC finds the property violated.

Deadlock checking is off in every cfg because sessions and calls end.

*What the bounds are.* `NSrc`, `Io`, `Buf`, `NDaemons`, `NWin`, `Concurrency`,
`Size` and `MaxInflight` are the code's own parameters, made small. `MaxReplaced`
bounds how often a file is replaced: once is enough, for a call reads a header at
most twice. `OutPixels` are the sizes GDAL may give a raster, one below and one
above the limits asked for. No counter grows without end, hence there is no state
constraint.

### Fairness

* The driver (`DriverFairness`): tokio polls a woken task, so every enabled
  pull, completion and send happens. A fetch completes because the HTTP client
  has a connect and a total timeout (`http_reader.rs` 52-61).
* R's take: the drain loop of `ck_batch` does nothing else. In the single
  session run, `EverySourceDelivered` assumes that R keeps the session.
* An inline warp ends, a daemon that is still connected takes a queued task when
  it has nothing to do, and a task ends (`BatchFairness`). Nothing is assumed of
  daemons staying or being replaced: a lost one takes its place in the pool with
  it, and with none left nothing is taken from the queue. `collect_mirai`
  (`ck_batch.R` 312) has no timeout and then waits for ever, so `BatchReturns`
  promises the end unless the call collects while the last daemon is gone and a
  task is queued (`Stranded`). It does promise it when some daemons are lost, and
  when all are lost with nothing in the queue.
* `WF(PoolNext)` and `WF(HttpNext)`: the call is polled by `block_on` and each
  request answers or times out. The models have no idle loops, so this is enough
  for their end.

No strong fairness is used, and no fairness on failures, panics or drops.

### Disagreements found

Each has a run that TLC ends with a counterexample.

| Run | The code | What is said |
|---|---|---|
| `batch_null_doc` | a panic in one fetch ends the stream for all; the other outputs are NA without a warning (`lib.rs` 471, `ck_batch.R` 267) | NA is no overlap, or a failure that warns |
| `batch_paths_doc` | the text of a daemon's error is returned as a path (`ck_batch.R` 310-313: an error value is a string of length one) | the output paths are returned |
| `http_whole_doc` | a single-range 200 is read whole and taken for the range (`http_reader.rs` 143-149) | a non-cooperating server never triggers a whole-file download |
| `stack_resampling_doc` | `r_each` is indexed by position among the surviving sources (`ck_stack.R` 233) | one method per source |
| `stack_size_doc` | a reused plan is not measured again (`engine.R` 137, 424) | `max_bytes` bounds every window |
| `header_mask_doc` | every directory is listed as a level, internal masks too, and the overview picked may be one (`lib.rs` 310, `engine.R` 478) | level 1 is full resolution, the rest overviews |

Stated in a property as its exception, because the code does differ there:

* `.plan_from_meta` scales the two skew terms of an overview's geotransform by the
  other axis's factor (`engine.R` 432-433: the third coefficient belongs to rows
  and is multiplied by `fx`, the fifth to columns and by `fy`). It shows only for
  a rotated source whose level has other proportions than the image (`SkewSafe`).
* URLs that differ in user information alone share the store of the first
  (`LentBy`). For `abfss://container@account...` the user is the container, so a
  source may be looked for in another's container; for a URL with a password, the
  first one's is used. `parse_src_cached` says a store is shared "across sources
  with the same scheme/host/container/credential" (`source.rs` 89-90).
* The last daemon going away while tasks are queued leaves `ck_batch` waiting
  (`Stranded`; see Fairness).
* An option that GDAL's binding refuses ends `.local_gdal_speed` before its
  handler is registered: the options set before it stay (`gdal-config.R` 17-21).
* Files of a staging or warping loop that failed stay in /vsimem (`NothingLeft`).
* A source that is opened again may be another file; the window then has pixels of
  the new file under the old georeferencing, if it fits its level
  (`FetchedAsPlanned`).

What the documentation says and the code does otherwise, where a property states
what the code does:

* *One pool per host.* `source.rs` 40-43, `ck_batch.R` 32-34 and 110-112 and
  `cptkirk-package.R` 49-50 say that same-host sources share one connection pool,
  "one TLS handshake per host". `store_key` (`source.rs` 117-124) also takes the
  first path segment and the query: two containers of a host, two first
  directories of a web server, or two signatures have a pool and a handshake
  each. All pre-signed URLs, on the other hand, share one client, whatever their
  host or signature.
  `PoolsShared` states exactly this; the run has such pairs.
* *Off-grid sources with `sanitise = FALSE`.* The documentation says they "may fail
  or, if their extent happens to contain the window, return wrong pixels"
  (`ck_batch.R` 38-40). The code compares every grid with the first one's and
  aborts (`ck_batch.R` 163-177), so the second half cannot happen: `Plannable`,
  and `FetchedAsPlanned` with a mutant that leaves the comparison out.
* *The asset's own signature wins* over one in the environment, as `source.rs`
  170-173 says, but an account key in the environment goes before both, which is
  said there as well (173-174) and is what `ReadersOwn` states.
* *A CRS from GeoKeys* (`meta.rs` 97-260) has two values no header gave, a scale of
  1 and the ellipsoid WGS84, where there is no key for them, and leaves out some
  that were given: a scale beside a latitude of true scale or for a projection
  without one, axes beside a named ellipsoid, a minor axis beside a flattening or
  either without a major axis, a meridian's longitude beside its name.
  `CrsSaysAll` states which. Units are not among the keys the function looks at:
  it gives none.

Met while reading, without a run of their own: the margin is added before the test
for emptiness, so a source within margin pixels of the extent is fetched although
it does not overlap (`engine.R` 415-419); with daemons, dispatch does not wait, so
that all windows of a batch may be held at once, although `ck_batch.R` 112-113
calls memory bounded; with `sanitise = FALSE` the order of an extent's numbers is
not checked; the comment of `.pick_overview`
says "finest" and the code takes the coarsest admissible level (`engine.R`
458-479; the coarsest is the useful one); `window.rs` 600-601 says tiles are
blitted as they arrive, but all are collected first (`window.rs` 669);
`parse_byteranges` does not compare a part's length with the range asked for;
`INIT_DEST` and the fetch fill follow the first source's
nodata; a wrong length of `band_names` is noticed after the file was written.

## 4. Proofs

60 theorems, checked by TLAPS for every value of the constants.

**FetchStream_proofs.** From `StreamAssumption` (io and depth at least 1). The
safety properties are not inductive: `NullMeansDrainedOrPanicked` needs that a
stopped driver left no future behind and that nothing is lost while R holds the
session (`StoppedClean`), that NULL is final (`EosFinal`), and `Conservation` to
conclude `taken = idx`. `StreamInv` is their conjunction; each action has a
lemma, `StepInv` joins them. `StreamKeepsPromise` is the refinement: `Take` maps
to `Deliver`, `TakeNull` to `Close`, every other step to a stutter; a NULL after
a panic is hidden by the mapping.

**BatchRun_proofs.** `BatchUsesStream` shows that each step of the batch is a
step of the session or leaves it unchanged, so that all theorems above hold in
the composition. `BatchInv` adds to the session's invariant: every window taken
is failed, accumulated or in one dispatched output (`AccumulatorsExact`), a
group is dispatched only when complete, and where R's thread is agrees with
what is running; `PoolOK` that no more tasks run than daemons are left, which is
what keeps `daemons` a natural number. From them: `BatchStacksComplete`,
`BatchPathsComplete`, and `BatchNaExplained`, the strongest
form of the documented meaning of NA that the code has. Completeness rests on
counting: `have = need` with `have` the cardinality of a subset of the group.
`BatchInlineMemory` needs a second invariant, `InlineFlat`: inline and unstacked,
nothing accumulates and only the output R's thread is on is being assembled.

`BatchKeepsPromise` is the refinement of `BatchPromise`. A window taken
(`ReceiveFlat`, `ReceiveStacked`) maps to `Land`, an error taken to `Lose`, the
end of the drain after a failure to `Warn`, a panic to `Cut`, an assembly that
fails (inline or in a daemon) to `Spoil`, and `Collect` to `Finish`; dispatching,
fetching and everything else in the session stutter. The hard step is `Land`:
that the window which makes `have` reach `need` is the last one the output waits
for, and only that one, and that the accumulator then lists them in source order
(an increasing listing of a set is as long as the set, by counting). Besides
`BatchInv` it needs `LoopOK`: no window is taken after the warning, an inline
assembly is the one R's thread is in, and only outputs asked for are made.

The two documented properties which `batch_null_doc` and `batch_paths_doc` refute
hold once the cause is excluded, and for every other interleaving:
`BatchNaDocumented` without panics and failing daemons, `BatchPathsDocumented`
without failing daemons. Their invariant `Unharmed` says that without failing
daemons an error is on its way to the caller, never to be collected.

**TileGrid_proofs.** No induction and no state: division facts (`DivUnique`,
`DivMonotone`), then `TilesCoverWindow`, `OverlapsSplitWindow`, `TilesAreNeeded`
and `TilesExist` on the scheduled tiles, `OutIndexInBounds` and
`OutIndexInjective` on the output buffer (uniqueness of mixed-radix digits).

**PooledFetch_proofs.** `PoolInv` says that a pixel is right or still prefilled
with its tile among those to blit (`PixelsPending`). `ReadRight` shows for each
layout that the element the blit reads is the pixel wanted; with the two
index theorems a blit turns exactly its own pixels right. `PoolExact`,
`PoolBlitSafe`, `PoolWritesOnce`, `PoolBlitsAgree` and `PoolReadsNeeded` follow.

**HttpRange_proofs.** `HttpInv` for type, empty ranges and the bound. `HttpExact`
has two assumptions that its statement shows: the server honours single ranges
(`HonoursRange`; `http_whole_doc` shows why), and any two ranges of a request are
disjoint or equal, as the tiles of a TIFF are. The server's side of the protocol
(`Bodies`) is part of the model. `HttpNeverWhole` is the comment that
`http_whole_doc` refutes, under the same first assumption and for requests that do
not ask for the whole object.

**WindowPlan_proofs.** No state. Floor and ceiling are reduced to the facts that
define them, one axis at a time: `PlanHoldsExtent` (the window is not empty, fits
its level, holds every pixel touched), `OverlapHasPlan`, `PickedFineEnough` and
`PlanShared`. `Max` and `Min` of the library are CHOOSE expressions over a set
whose maximum nobody promises; a lemma shows that a non-empty set of positions
has one by the least counterexample, since induction is not to be had.

**StackCall_proofs.** `CallInv` says of every plan that it is what its source
alone would have given, which makes the two theorems on windows a matter of
`WindowPlan_proofs`. `IInv` adds how far the call has come (`Progress`), that
every file in /vsimem is on the list or excused by the step that failed
(`Tracked`), and that an option with the call's value has an entry in `undo`, and
all entries hold the user's value (`OptionsSafe`). From it `StackTypesCorrect`,
`StackNothingLeft` and `StackConfigRestored`. That `Surviving` lists each plan
once and in order rests on `Nth`, again by the least counterexample.

What a call delivers is a second invariant, `Contents`: the tiles, the output and
the array are compositions of the planned windows (`Composed`), in a stack each
with the method of its place or none, and the names are the labels of the plans or
the given ones, as many of them.
`StackNamesMatch` and `StackOutputComplete` then compare flattened sequences of
sequences. `FlattenSeq` is a recursive function and induction is not to be had, so
its existence and its value for one element more are shown by the least length at
which they failed (`FlatExists`, `FlattenNext`); from there `FlattenMap` (two
flattenings agree if their elements do) and `FlattenKept` (dropping sources is
the same as giving them no bands) carry the two theorems. `StackArrayBounded`
follows from `Contents` too: an array has bytes, for every window has bands and
pixels, and each of the three ways to it compares them with the limit.

Two documented properties hold where the cause of their counterexample is absent:
`StackResamplingKept` (no source dropped: each is warped with its own method) and
`StackSizeGuarded` (no source wider than the one whose plan it is given: every
window is within `max_bytes`). So dropped sources alone shift methods, and wider
sources under a shared plan alone go unmeasured.

Assumed of the constants (`StackAssumption`): headers have a level and a band,
requests are as the checks at entry leave them (bands from 1, a limit that is a
number), and a raster GDAL makes has pixels.

**SourceOpen_proofs.** The invariant has four parts. `TypeInv`: the types, and
that every store of the cache was built for one of the sources opened so far,
with that reader's pool. `CacheInv`: a reader is its own URL's or that of an
earlier one with the same key, and then its own but for the user (`KeyDecides`);
the pool of the client is the signed readers' alone; two readers share a pool
exactly if they should. From it `SourceReadersOwn` and `SourcePoolsShared`.
`PlanInv`: metadata was made from the headers that are open, except after a
second open; every plan is the one its source's own grid gives (`PlansOwn`: the
first source on a grid plans for the others, and with `sanitise = FALSE` the
grids were compared). `FoundInv`: a header that is open is its file's until one
is replaced, and then so is the metadata. A window planned on a grid lies in
that grid's level (`WindowsThere`), so `SourceFetchedAsPlanned` follows.
`SignedAs`, on the settings of a signed URL's store, is the half of
`SourceReadersOwn` that is about what is signed with. `GeotransformRight` and
`WindowPlacedRight` are algebra on integers, for any header, rotated or not;
`SourceGeoreferenced` joins them with `PlanInv`. `CrsSaysWhatHeaderSays` is
about `resolve_src_crs` alone, for any GeoKeys and citations: the code if it is
usable, else the first citation that is WKT, else a proj string that has the
parameters its projection, ellipsoid and meridian call for, each once and with
the value of the right key, and no others (`SaysProjection`, `SaysDatum`,
`SaysParam`), and nothing only if no projection is named or a conic lacks a
parallel; `SourceCrsRight` joins it with `PlanInv`. The cache's map is written
with `Put` and not with the `:>` and `@@` of TLC, which the provers do not know.
Assumptions: `HeaderOK` (directories have pixels, tags are numbers) and `UrlsOK`
(URLs with one host agree on whether it is Azure's, URLs with one query on the
names in it).

Only model-checked: the four liveness properties (`EverySourceDelivered`,
`BatchReturns`, `PoolEnds`, `ReadEnds`), since the prover handles neither fairness
nor ENABLED. Every other property of a run that passes is a theorem. Of the
properties that a run refutes, `ImageryPlanned` has no conditional theorem: without
masks it says nothing.

Each invariant was first an invariant of a TLC run on the instance of section 3.

## 5. What is not modelled

* Authentication (`auth.R`), argument checks and the assembly of GDAL arguments:
  pure functions or tables.
* The decoding of an array's numbers (`readBin`) and its reshaping to rows and
  columns; the unit conversions and RAM probes of the cache size.
* Sample types, fill patterns, decompression: a pixel is one value, and a
  window is counted in pixels (`bps` scales every offset alike).
* PROJ: the extent is given in the source's CRS. Windows of rotated grids are
  placed (`HeaderMeta`) but not clipped (`WindowPlan`); grids with their axes
  exchanged, whose second coefficient is 0, are not among the headers.
* The text of citations, of numbers in a proj string, and of the XML of band
  names.
* Inside object_store and the TIFF reader: `StoreOf` says what tells one store
  from another, `ReadHeader` that a header is read whole.
* Expansion of output path templates in `ck_batch`; its outputs are numbers here.
* Truncated multipart parts, HTTP redirects, and the retries inside
  object_store.

## 6. Plan

Done, in this order: session and promise; batch on the session; tile arithmetic
and pooled fetch; range reader; planning and stack calls; reads and GDAL options
in the stack call; header metadata and source opening; the proofs of section 4.

Next:

1. A server that truncates parts, and the check of a part's length it calls for.
2. Sources in several CRS, where `is_copy` differs between the sources of one
   call, with PROJ as an external monotone map.
3. `SourceOpen` composed with `BatchRun`: the handles of one opening shared by a
   whole streaming session.
4. The orientation of a returned array, and output path templates.
