----------------------------- MODULE SourceOpen -----------------------------
(***************************************************************************)
(* How a call gets at its sources: a reader for each (source.rs, through   *)
(* the store cache of a multi-source open), their headers, read at once    *)
(* (open_all_cached in lib.rs, open_tiff_from_reader in window.rs), the    *)
(* metadata R plans from, and the fetch, from the open handles or from the *)
(* sources opened again (.warp_collect, .batch_collect_plan).              *)
(*                                                                         *)
(* A source is [scheme, host, port, user, container, query, keys, azure,   *)
(* file]: the parts of its URL ("" if absent), the names in its query,     *)
(* whether the host is an Azure one, and the file it names.  A scheme of   *)
(* at most one letter is a local path: scheme "".                          *)
(*                                                                         *)
(* The store library, the TIFF reader and the files themselves, which      *)
(* somebody may replace at any time, are external.                         *)
(***************************************************************************)
EXTENDS HeaderMeta, WindowPlan

CONSTANTS
  Calls,        (* [op, urls, files, ambient, trusted, request]: the entry *)
                (* point, its sources, what is in the files, the options   *)
                (* from the environment, sanitise = FALSE, and the [res,   *)
                (* overview, x, y] of the request: its resolution, the     *)
                (* level asked for, the first pixel of its extent          *)
  Headers,      (* headers a file may be replaced with                     *)
  MaxReplaced   (* how often a file is replaced                            *)

(* Entry points: cog_info; cog_source and a warp from it; a warp, read or  *)
(* stack of paths; ck_batch.                                               *)
Ops == {"info", "handle", "paths", "batch"}

(* A host is Azure's or not, and the names in a query are the query's,     *)
(* whichever URL they are part of.                                         *)
UrlsOK(urls) ==
  \A i, j \in DOMAIN urls :
    /\ urls[i].host = urls[j].host => urls[i].azure = urls[j].azure
    /\ urls[i].query = urls[j].query => urls[i].keys = urls[j].keys

ASSUME SourceAssumption ==
  /\ MaxReplaced \in Nat
  /\ \A h \in Headers : HeaderOK(h)
  /\ \A c \in Calls :
       /\ c.op \in Ops
       /\ c.urls \in Seq(UNION {{c.urls[i]} : i \in DOMAIN c.urls}) /\ Len(c.urls) > 0
       /\ c.op = "handle" => Len(c.urls) = 1
       /\ UrlsOK(c.urls)
       /\ \A i \in DOMAIN c.urls : c.urls[i].file \in DOMAIN c.files
       /\ \A f \in DOMAIN c.files : HeaderOK(c.files[f])
       /\ c.request.overview \in Nat /\ c.request.x \in Nat /\ c.request.y \in Nat

VARIABLES
  call,      (* the call                                                   *)
  runtime,   (* the shared runtime has been built                          *)
  phase,     (* start, readers, headers, plan, fetch, done, error          *)
  files,     (* the header now in every file                               *)
  replaced,  (* how often one was replaced                                 *)
  stores,    (* OpenCache.stores: key -> the store built for it            *)
  client,    (* OpenCache.http_client: its connection pool, 0 if not built *)
  pools,     (* connection pools built                                     *)
  readers,   (* the readers, in order                                      *)
  headers,   (* source -> the header read through its reader               *)
  metas,     (* what R has been given of each source                       *)
  plans      (* source -> the window planned for it                        *)

opened == <<stores, client, pools, readers>>
world == <<files, replaced>>
sourceVars == <<call, runtime, phase, world, opened, headers, metas, plans>>

Sources == DOMAIN call.urls
Ended == {"done", "error"}

(* cog_open opens one source by itself, the other entry points any number  *)
(* through a cache.                                                        *)
Cached == call.op \in {"paths", "batch"} \/ Len(call.urls) > 1

(* A map with one entry more, or another value under its key.              *)
Put(map, key, value) ==
  [k \in DOMAIN map \cup {key} |-> IF k = key THEN value ELSE map[k]]

SourceInit ==
  /\ call \in Calls
  /\ runtime \in BOOLEAN
  /\ phase = "start"
  /\ files = call.files
  /\ replaced = 0
  /\ stores = Nothing /\ client = 0 /\ pools = 0
  /\ readers = <<>> /\ headers = Nothing
  /\ metas = <<>> /\ plans = <<>>

-----------------------------------------------------------------------------
(* is_presigned_http: S3 and OBS, AWS and GCS signatures in the query.     *)
IsPresignedHttp(u) ==
  /\ u.scheme \in {"http", "https"}
  /\ u.host # "" /\ ~u.azure
  /\ \/ {"AccessKeyId", "Signature"} \subseteq u.keys
     \/ {"X-Amz-Signature", "X-Goog-Signature"} \cap u.keys # {}

(* azure_sas_opt: the query of a signed Azure URL as a store option.       *)
AzureSasOpt(u) ==
  IF u.scheme = "https" /\ u.azure /\ "sig" \in u.keys THEN <<u.query>> ELSE Nothing

(* assemble_store_opts: of two settings of an option the last one counts.  *)
AssembleStoreOpts(u) ==
  IF AzureSasOpt(u) = Nothing THEN call.ambient
  ELSE Put(call.ambient, "sas", AzureSasOpt(u)[1])

(* parse_url_opts (external): what tells one store from another.  An Azure *)
(* https store is one container's, with its credential; an http store is a *)
(* host's, with the user of a password; the bucket of s3, gs and az is     *)
(* their host; and the container of abfss://container@account.. is where   *)
(* other URLs have a user.                                                 *)
StoreFor(u, user) ==
  LET inUser == u.scheme \in {"abfs", "abfss"} /\ user # ""
  IN  [scheme |-> u.scheme, host |-> u.host, port |-> u.port,
       user |-> IF inUser THEN "" ELSE user,
       container |-> IF inUser THEN user ELSE IF u.azure THEN u.container ELSE "",
       settings |-> AssembleStoreOpts(u)]

StoreOf(u) == StoreFor(u, u.user)

(* The Azure builder (external): an account key goes before a signature.   *)
Credential(store) ==
  IF "access_key" \in DOMAIN store.settings THEN <<"access_key", store.settings["access_key"]>>
  ELSE IF "sas" \in DOMAIN store.settings THEN <<"sas", store.settings["sas"]>>
  ELSE Nothing

(* Mutant of StoreKey: the credential is left out.                         *)
StoreKey_NoQuery(u) == <<u.scheme, u.host, u.port, u.container>>

StoreKey(u) == <<u.scheme, u.host, u.port, u.container, u.query>>

SignedReader(u, pool) == [kind |-> "signed", query |-> u.query, pool |-> pool]
StoreReader(store, pool) == [kind |-> "store", store |-> store, pool |-> pool]

-----------------------------------------------------------------------------
(* shared_runtime: built once and kept.                                    *)
GetRuntime ==
  /\ phase = "start"
  /\ runtime' = TRUE
  /\ phase' = "readers"
  /\ UNCHANGED <<call, world, opened, headers, metas, plans>>

RuntimeFails ==
  /\ phase = "start"
  /\ ~runtime
  /\ phase' = "error"
  /\ UNCHANGED <<call, runtime, world, opened, headers, metas, plans>>

(* Readers are made one after the other; then the headers are read.        *)
NextUrl == call.urls[Len(readers) + 1]

AddReader(reader) ==
  /\ readers' = Append(readers, reader)
  /\ phase' = IF Len(readers') = Len(call.urls) THEN "headers" ELSE "readers"
  /\ UNCHANGED <<call, runtime, world, headers, metas, plans>>

Opening == phase = "readers" /\ Len(readers) < Len(call.urls)

(* A pre-signed URL: its own reader, on the client of the cache if there   *)
(* is one.                                                                 *)
OpenSigned ==
  /\ Opening
  /\ IsPresignedHttp(NextUrl)
  /\ LET found == Cached /\ client # 0
         pool == IF found THEN client ELSE pools + 1
     IN  /\ AddReader(SignedReader(NextUrl, pool))
         /\ pools' = IF found THEN pools ELSE pools + 1
         /\ client' = IF Cached THEN pool ELSE client
  /\ UNCHANGED stores

(* Any other URL, opened by itself, and local paths always: a new store.   *)
OpenFresh ==
  /\ Opening
  /\ ~IsPresignedHttp(NextUrl)
  /\ ~Cached \/ NextUrl.scheme = ""
  /\ AddReader(StoreReader(StoreOf(NextUrl), pools + 1))
  /\ pools' = pools + 1
  /\ UNCHANGED <<stores, client>>

(* Mutant of OpenCached: the new store is not put in the cache.            *)
OpenCached_NoInsert ==
  /\ Opening
  /\ Cached /\ ~IsPresignedHttp(NextUrl) /\ NextUrl.scheme # ""
  /\ AddReader(StoreReader(StoreOf(NextUrl), pools + 1))
  /\ pools' = pools + 1
  /\ UNCHANGED <<stores, client>>

(* parse_src_cached: the store of the key, built by the first source.      *)
OpenCached ==
  /\ Opening
  /\ Cached /\ ~IsPresignedHttp(NextUrl) /\ NextUrl.scheme # ""
  /\ LET key == StoreKey(NextUrl)
         found == key \in DOMAIN stores
         entry == IF found THEN stores[key]
                  ELSE [store |-> StoreOf(NextUrl), pool |-> pools + 1]
     IN  /\ AddReader(StoreReader(entry.store, entry.pool))
         /\ stores' = Put(stores, key, entry)
         /\ pools' = IF found THEN pools ELSE pools + 1
  /\ UNCHANGED client

(* A URL the library does not know, a local file that is not there, or an  *)
(* HTTP client that cannot be built: the whole open fails.                 *)
OpenFails ==
  /\ Opening
  /\ phase' = "error"
  /\ UNCHANGED <<call, runtime, world, opened, headers, metas, plans>>

-----------------------------------------------------------------------------
(* open_tiff_from_reader, all sources at once: each answers in its time.   *)
ReadHeader(i) ==
  /\ phase = "headers"
  /\ i \notin DOMAIN headers
  /\ headers' = Put(headers, i, files[call.urls[i].file])
  /\ UNCHANGED <<call, runtime, phase, world, opened, metas, plans>>

(* try_join_all: one failure is the failure of all.                        *)
HeaderFails ==
  /\ phase = "headers"
  /\ DOMAIN headers # Sources
  /\ phase' = "error"
  /\ UNCHANGED <<call, runtime, world, opened, headers, metas, plans>>

(* Mutant of BuildMetas: a source without the metadata is left out.        *)
BuildMetas_SkipsBad ==
  /\ phase = "headers"
  /\ DOMAIN headers = Sources
  /\ metas = <<>>
  /\ LET good == SelectSeq([i \in Sources |-> headers[i]], MetaOk)
     IN  metas' = [n \in DOMAIN good |-> BuildMeta(good[n])]
  /\ phase' = IF call.op = "info" THEN "done" ELSE "plan"
  /\ UNCHANGED <<call, runtime, world, opened, headers, plans>>

(* All are open, for the first time: build_meta of each, or no result.     *)
BuildMetas ==
  /\ phase = "headers"
  /\ DOMAIN headers = Sources
  /\ metas = <<>>
  /\ IF \A i \in Sources : MetaOk(headers[i])
     THEN /\ metas' = [i \in Sources |-> BuildMeta(headers[i])]
          /\ phase' = IF call.op = "info" THEN "done" ELSE "plan"
     ELSE phase' = "error" /\ UNCHANGED metas
  /\ UNCHANGED <<call, runtime, world, opened, headers, plans>>

-----------------------------------------------------------------------------
Abs(n) == IF n < 0 THEN -n ELSE n

(* What .grid_sig puts together, and the pixel size.                       *)
Grid(m) == [gt |-> m.gt, crs |-> m.crs, w |-> m.w, h |-> m.h, px |-> Abs(m.gt[2]) \div 2]
OnGrids == [i \in Sources |-> [grid |-> Grid(metas[i])]]

(* The source whose plan a source gets: the first on its grid; with        *)
(* sanitise = FALSE the first of all.                                      *)
PlannerOf(i) == IF call.trusted THEN 1 ELSE Planner(OnGrids, i)

(* Mutant of Plannable: sanitise = FALSE takes one grid for granted.       *)
Plannable_Trusting == metas[1].crs # Nothing

(* A plan needs a CRS; sanitise = FALSE needs one grid.                    *)
Plannable ==
  IF call.trusted THEN metas[1].crs # Nothing /\ \A i \in Sources : Grid(metas[i]) = Grid(metas[1])
  ELSE \A i \in Sources : metas[i].crs # Nothing

(* A plan on a grid: the level and the window on it, which here goes from  *)
(* some pixel of the image to the last; WindowPlan has any.                *)
PlanOn(grid) ==
  LET level == Level(grid, call.request)
      w == grid.w[level]
      h == grid.h[level]
      xoff == (call.request.x * w) \div grid.w[1]
      yoff == (call.request.y * h) \div grid.h[1]
  IN  [grid |-> grid, level |-> level, xoff |-> xoff, yoff |-> yoff,
       xsize |-> w - xoff, ysize |-> h - yoff,
       gt |-> WindowGt(grid.gt, grid.w[1], grid.h[1], w, h, xoff, yoff)]

PlanFor(i) == PlanOn(Grid(metas[PlannerOf(i)]))

(* .batch_collect_plan, or .warp_collect up to the fetch.                  *)
Plan ==
  /\ phase = "plan"
  /\ Plannable
  /\ plans' = [i \in Sources |-> PlanFor(i)]
  /\ phase' = "fetch"
  /\ UNCHANGED <<call, runtime, world, opened, headers, metas>>

PlanFails ==
  /\ phase = "plan"
  /\ ~Plannable
  /\ phase' = "error"
  /\ UNCHANGED <<call, runtime, world, opened, headers, metas, plans>>

(* cog_fetch_windows_raw opens the sources again, with a cache of its own. *)
Reopen ==
  /\ phase = "fetch"
  /\ call.op = "paths"
  /\ phase' = "readers"
  /\ stores' = Nothing /\ client' = 0
  /\ readers' = <<>> /\ headers' = Nothing
  /\ UNCHANGED <<call, runtime, world, pools, metas, plans>>

(* The checks of fetch_decoded and plan_tile against the open header.      *)
Servable(i) ==
  LET ifds == headers[i].ifds
  IN  /\ plans[i].level <= Len(ifds)
      /\ plans[i].xoff + plans[i].xsize <= ifds[plans[i].level].w
      /\ plans[i].yoff + plans[i].ysize <= ifds[plans[i].level].h

(* The sources a fetch would read from are open: the ones that were        *)
(* planned from, or, after Reopen, their second opening.                   *)
ReadyToFetch ==
  \/ phase = "fetch" /\ call.op # "paths"
  \/ phase = "headers" /\ DOMAIN headers = Sources /\ plans # <<>>

FetchWindows ==
  /\ ReadyToFetch
  /\ phase' = IF \A i \in Sources : Servable(i) THEN "done" ELSE "error"
  /\ UNCHANGED <<call, runtime, world, opened, headers, metas, plans>>

-----------------------------------------------------------------------------
(* Somebody writes another file under a source's name.                     *)
Replace ==
  /\ phase \notin Ended
  /\ replaced < MaxReplaced
  /\ \E f \in DOMAIN files, h \in Headers : files' = [files EXCEPT ![f] = h]
  /\ replaced' = replaced + 1
  /\ UNCHANGED <<call, runtime, phase, opened, headers, metas, plans>>

SourceNext ==
  \/ GetRuntime \/ RuntimeFails
  \/ OpenSigned \/ OpenFresh \/ OpenCached \/ OpenFails
  \/ \E i \in Sources : ReadHeader(i)
  \/ HeaderFails \/ BuildMetas
  \/ Plan \/ PlanFails \/ Reopen \/ FetchWindows
  \/ Replace

SourceSpec == SourceInit /\ [][SourceNext]_sourceVars

-----------------------------------------------------------------------------
(* Type invariant of the opening of sources.                               *)
SourceTypeOK ==
  /\ call \in Calls
  /\ runtime \in BOOLEAN
  /\ phase \in {"start", "readers", "headers", "plan", "fetch"} \cup Ended
  /\ DOMAIN files = DOMAIN call.files
  /\ replaced \in 0 .. MaxReplaced
  /\ pools \in Nat /\ client \in 0 .. pools
  /\ Len(readers) <= Len(call.urls)
  /\ DOMAIN headers \subseteq Sources
  /\ metas # <<>> => DOMAIN metas = Sources
  /\ plans # <<>> => DOMAIN plans = Sources

(* What store_key leaves out, of two sources it gives the same key: a user,*)
(* who may be another, and with it the container of an abfss URL.          *)
LentBy(j, i) ==
  /\ StoreKey(call.urls[j]) = StoreKey(call.urls[i])
  /\ call.urls[j].user # call.urls[i].user
  /\ readers[i].store = StoreFor(call.urls[i], call.urls[j].user)

(* A source is read through what opening it by itself would give: its host,*)
(* container and credential, whatever other sources bring along, but for   *)
(* the user of an earlier source (LentBy).  A signed Azure URL is read     *)
(* with its own signature, and not that of the environment or another URL, *)
(* unless the environment has an account key, which is then what counts.   *)
ReadersOwn ==
  \A i \in DOMAIN readers :
    LET u == call.urls[i]
        reader == readers[i]
    IN  IF IsPresignedHttp(u) THEN reader.kind = "signed" /\ reader.query = u.query
        ELSE /\ reader.kind = "store"
             /\ reader.store = StoreOf(u) \/ \E j \in 1 .. i - 1 : LentBy(j, i)
             /\ AzureSasOpt(u) # Nothing =>
                  Credential(reader.store) =
                    IF "access_key" \in DOMAIN call.ambient
                    THEN <<"access_key", call.ambient["access_key"]>> ELSE <<"sas", u.query>>

(* What store_key says of the stores, and OpenCache of its client: sources *)
(* share a connection pool when scheme, host, port, first path segment and *)
(* query are the same, or when both are pre-signed, and never otherwise.   *)
(* So it is not one pool per host, as OpenCache and ck_batch have it: two  *)
(* containers, or two signatures, of a host are two pools.                 *)
PoolsShared ==
  Cached =>
    \A i, j \in DOMAIN readers :
      LET u == call.urls[i]
          v == call.urls[j]
      IN  readers[i].pool = readers[j].pool <=>
            \/ i = j
            \/ IsPresignedHttp(u) /\ IsPresignedHttp(v)
            \/ /\ ~IsPresignedHttp(u) /\ ~IsPresignedHttp(v)
               /\ u.scheme # "" /\ StoreKey(u) = StoreKey(v)

(* R has the metadata and the headers they were built from are still open. *)
JustBuilt == metas # <<>> /\ (call.op = "paths" => phase \in {"plan", "fetch"})

(* The level keeps the proportions of the image, or the grid has no skew.  *)
(* .plan_from_meta scales the skew terms by the other axis's factor, so    *)
(* that other windows are out of place.                                    *)
SkewSafe(grid, level) ==
  \/ grid.gt[3] = 0 /\ grid.gt[5] = 0
  \/ grid.w[1] * grid.h[level] = grid.h[1] * grid.w[level]

(* The geotransform R plans with puts every source where its header says,  *)
(* and the one a window is staged under puts every pixel of the window     *)
(* where it is on its source, whoever's plan it was.                       *)
GeoreferencedRight ==
  /\ JustBuilt => \A i \in Sources : PlacedRight(headers[i], metas[i].gt)
  /\ \A i \in DOMAIN plans :
       LET p == plans[i]
           m == metas[i]
       IN  SkewSafe(p.grid, p.level) =>
             \A c \in {0, p.xsize}, r \in {0, p.ysize} :
               WindowPlaced(m.gt, p.gt, m.w[1], m.h[1], m.w[p.level], m.h[p.level],
                            p.xoff, p.yoff, c, r)

(* The CRS R plans with says what the header says.                         *)
CrsRight == JustBuilt => \A i \in Sources : CrsSaysAll(headers[i], metas[i].crs)

(* Every source is planned as it would be by itself, whoever's plan it was *)
(* given: that of the first source with its signature, or, with sanitise = *)
(* FALSE, that of the first of all, where ck_batch stops at a source on    *)
(* another grid.  And what a fetch goes for is a window of the level it was*)
(* planned on, on the grid it was planned on, whether the sources stayed   *)
(* open or are opened again, unless in between one has been replaced.      *)
FetchedAsPlanned ==
  /\ \A i \in DOMAIN plans : plans[i] = PlanOn(Grid(metas[i]))
  /\ ReadyToFetch /\ (call.op = "paths" => replaced = 0) =>
       \A i \in Sources : Servable(i) /\ Grid(BuildMeta(headers[i])) = plans[i].grid

(* What the documentation of cog_info says of the levels: "level 1 = full  *)
(* resolution, the rest overviews".  A window is planned on imagery.       *)
ImageryPlanned ==
  JustBuilt => \A i \in DOMAIN plans : ~headers[i].ifds[plans[i].level].mask

=============================================================================
