------------------------------ MODULE StackCall ------------------------------
(***************************************************************************)
(* One call of ck_stack, ck_warp, ck_read, ck_stack_read or warp_remote on *)
(* several sources: set GDAL options, plan, fetch every window at once,    *)
(* stage each as a raw VRT in /vsimem, warp source by source if the grid   *)
(* changes, stack the bands, write the file, name its bands, read it back, *)
(* clean up.  GDAL and the store may fail at any of these steps.           *)
(*                                                                         *)
(* R code runs these steps one after the other; what is hard is that the   *)
(* sources that do not overlap are dropped on the way, and that files in   *)
(* /vsimem and GDAL's options outlive the call unless something undoes     *)
(* them.                                                                   *)
(***************************************************************************)
EXTENDS WindowPlan, SequencesExt

CONSTANTS
  NSrc,       (* number of sources                                        *)
  Metas,      (* headers a source may have                                *)
  Requests,   (* requests that may be made                                *)
  Methods,    (* resampling methods                                       *)
  Options,    (* GDAL options, "cache" the size of its block cache        *)
  OutPixels   (* how many pixels a raster made by GDAL may have           *)

(* Headers with at least one level and band, requests as they are after    *)
(* the checks at entry, and rasters with pixels.                           *)
ASSUME StackAssumption ==
  /\ NSrc \in Nat
  /\ \A m \in Metas : GridOK(m.grid) /\ m.nbands \in Nat \ {0} /\ m.bytes \in Nat
  /\ \A q \in Requests :
       /\ RequestOK(q)
       /\ q.bands \in Seq(Nat \ {0}) /\ q.maxbytes \in Nat
       /\ q.config \in Seq(Options) /\ q.refused \in 0 .. Len(q.config)
  /\ OutPixels \subseteq Nat \ {0}

Srcs == 1 .. NSrc
Stacks == {"stack", "stack_read"}
Reads == {"read", "stack_read"}
Ops == Stacks \cup Reads \cup {"warp", "remote"}

VARIABLES
  metas, request, op, r,   (* the call: headers, grid request, entry      *)
                           (* point, resampling method of each source     *)
  phase,                   (* config, plan, fetch, stage, assemble,       *)
                           (* write, name, read, exit, returned, aborted  *)
  config,                  (* GDAL option -> set by user or call          *)
  undo,                    (* options and values exit handlers put back   *)
  plans,                   (* plans of the overlapping sources, in order  *)
  staged,                  (* how many of their windows are staged        *)
  tiles,                   (* the rasters to stack, each a sequence of    *)
                           (* its bands                                   *)
  vsimem,                  (* files in /vsimem                            *)
  deferred,                (* the files an exit handler will remove       *)
  failed,                  (* the call is on its way out with an error    *)
  dst,                     (* the output: old, none, or its bands         *)
  names,                   (* the descriptions set on the output's bands  *)
  array                    (* what a read returns: [bands, bytes] or None *)

call == <<metas, request, op, r>>
settings == <<config, undo>>
result == <<dst, names, array>>
stackVars == <<call, phase, settings, plans, staged, tiles, vsimem, deferred, failed, result>>

Old == <<"old">>
Missing == <<"missing">>
None == [bands |-> <<>>, bytes |-> 0]

(* The throwaway raster of a read.                                         *)
Out == <<"out", 0>>

(* .resolve_resampling: one method per source, however r was given.  A     *)
(* warp takes a single one.                                                *)
MethodsGiven(o) ==
  IF o \in Stacks THEN [Srcs -> Methods] ELSE {[i \in Srcs |-> m] : m \in Methods}

StackInit ==
  /\ metas \in [Srcs -> Metas]
  /\ request \in Requests
  /\ op \in Ops
  /\ r \in MethodsGiven(op)
  /\ phase = "config"
  /\ config = [k \in Options |-> "user"]
  /\ undo = <<>>
  /\ plans = <<>>
  /\ staged = 0
  /\ tiles = <<>>
  /\ vsimem = {}
  /\ deferred = {}
  /\ failed = FALSE
  /\ dst = IF op \in Reads THEN Missing ELSE Old
  /\ names = <<>>
  /\ array = None

-----------------------------------------------------------------------------
(* Mutant of Surviving: the empty plans are kept.                          *)
Surviving_All == [i \in Srcs |-> PlanOf(metas, request, i)]

(* Plans of every source in order, the sources without one dropped.        *)
Kept == {i \in Srcs : PlanOf(metas, request, i) # NoPlan}
Nth(S, k) == CHOOSE i \in S : Cardinality(S \cap (1 .. i)) = k
Surviving == [k \in 1 .. Cardinality(Kept) |-> PlanOf(metas, request, Nth(Kept, k))]

AllCopy == \A k \in DOMAIN plans : plans[k].copy
CopyPath == Len(plans) = 1 /\ plans[1].copy

(* The bands a staged window has: which source and band, its nodata.       *)
SelectedBands(i) ==
  IF request.bands = <<>> THEN [b \in 1 .. metas[i].nbands |-> b] ELSE request.bands
WindowBands(k, method) ==
  LET i == plans[k].src
  IN  [b \in 1 .. Len(SelectedBands(i)) |->
        [src |-> i, band |-> SelectedBands(i)[b], nodata |-> plans[k].nodata, r |-> method]]

(* An error: the exit handlers still run.                                  *)
Abort == failed' = TRUE /\ phase' = "exit"

-----------------------------------------------------------------------------
(* What .local_gdal_speed sets, in order: num_threads, config, the cache.  *)
(* warp_remote sets nothing.                                               *)
Knobs == IF op = "remote" THEN <<>> ELSE request.config

SetUpTo(n) ==
  [k \in Options |-> IF \E m \in 1 .. n : Knobs[m] = k THEN "call" ELSE config[k]]

(* Mutant of Configure: each old value is read right before it is changed. *)
Configure_ReadsLate ==
  /\ phase = "config"
  /\ op = "remote" \/ request.refused = 0
  /\ config' = SetUpTo(Len(Knobs))
  /\ undo' = [n \in DOMAIN Knobs |-> <<Knobs[n], SetUpTo(n - 1)[Knobs[n]]>>]
  /\ deferred' = IF op = "stack_read" THEN {Out} ELSE {}
  /\ phase' = "plan"
  /\ UNCHANGED <<call, plans, staged, tiles, vsimem, failed, result>>

(* The old values, then the new ones, then the exit handler; an option may *)
(* be named twice.  ck_stack_read then lets its throwaway raster go.       *)
Configure ==
  /\ phase = "config"
  /\ op = "remote" \/ request.refused = 0
  /\ undo' = [n \in DOMAIN Knobs |-> <<Knobs[n], config[Knobs[n]]>>]
  /\ config' = SetUpTo(Len(Knobs))
  /\ deferred' = IF op = "stack_read" THEN {Out} ELSE {}
  /\ phase' = "plan"
  /\ UNCHANGED <<call, plans, staged, tiles, vsimem, failed, result>>

(* An option that is not one string stops the loop: no handler yet.        *)
ConfigureFails ==
  /\ phase = "config"
  /\ op # "remote" /\ request.refused > 0
  /\ config' = SetUpTo(request.refused - 1)
  /\ Abort
  /\ UNCHANGED <<call, undo, plans, staged, tiles, vsimem, deferred, result>>

-----------------------------------------------------------------------------
(* .warp_collect up to the fetch.                                          *)
Plan ==
  /\ phase = "plan"
  /\ plans' = Surviving
  /\ IF TooLarge(metas, request) \/ plans' = <<>>
     THEN Abort
     ELSE phase' = "fetch" /\ UNCHANGED failed
  /\ UNCHANGED <<call, settings, staged, tiles, vsimem, deferred, result>>

(* A request that is refused at once, a source that cannot be opened, or   *)
(* a probe warp that GDAL rejects.                                         *)
PlanFails ==
  /\ phase = "plan"
  /\ Abort
  /\ UNCHANGED <<call, settings, plans, staged, tiles, vsimem, deferred, result>>

(* The window as it is may be the array ck_read is to return.              *)
Native == op = "read" /\ CopyPath

(* cog_fetch_windows_raw: all windows, or an error.                        *)
Fetch ==
  /\ phase = "fetch"
  /\ phase' = IF Native THEN "native" ELSE "stage"
  /\ UNCHANGED <<call, settings, plans, staged, tiles, vsimem, deferred, failed, result>>

FetchFails ==
  /\ phase = "fetch"
  /\ Abort
  /\ UNCHANGED <<call, settings, plans, staged, tiles, vsimem, deferred, result>>

-----------------------------------------------------------------------------
(* est of .guard_out_bytes: R holds a number in eight bytes.               *)
ArrayBytes(pixels, bands) == pixels * bands * 8
WindowArray ==
  [bands |-> WindowBands(1, "none"),
   bytes |-> ArrayBytes(plans[1].xsize * plans[1].ysize, Len(WindowBands(1, "none")))]

(* .window_to_array, for the types readBin has.                            *)
ReadNative ==
  /\ phase = "native"
  /\ ~metas[plans[1].src].exotic
  /\ WindowArray.bytes <= request.maxbytes
  /\ array' = WindowArray
  /\ phase' = "exit"
  /\ UNCHANGED <<call, settings, plans, staged, tiles, vsimem, deferred, failed, dst, names>>

(* Any other type is staged and read through GDAL.                         *)
ReadStaged ==
  /\ phase = "native"
  /\ metas[plans[1].src].exotic
  /\ WindowArray.bytes <= request.maxbytes
  /\ phase' = "stage"
  /\ UNCHANGED <<call, settings, plans, staged, tiles, vsimem, deferred, failed, result>>

(* .guard_out_bytes.                                                       *)
ArrayTooLarge ==
  /\ phase = "native"
  /\ WindowArray.bytes > request.maxbytes
  /\ Abort
  /\ UNCHANGED <<call, settings, plans, staged, tiles, vsimem, deferred, result>>

-----------------------------------------------------------------------------
(* .stage_vsimem_vrt: the bytes, then the VRT that describes them.         *)
Stage ==
  /\ phase = "stage"
  /\ staged < Len(plans)
  /\ staged' = staged + 1
  /\ vsimem' = vsimem \cup {<<"bin", staged + 1>>, <<"vrt", staged + 1>>}
  /\ UNCHANGED <<call, settings, phase, plans, tiles, deferred, failed, result>>

StageFails ==
  /\ phase = "stage"
  /\ staged < Len(plans)
  /\ vsimem' = vsimem \cup {<<"bin", staged + 1>>}
  /\ Abort
  /\ UNCHANGED <<call, settings, plans, staged, tiles, deferred, result>>

AfterStaging ==
  IF op \in Stacks THEN "assemble" ELSE IF Native THEN "read" ELSE "write"

(* Mutant of Staged: only the VRTs are put on the list.                    *)
Staged_VrtsOnly ==
  /\ phase = "stage"
  /\ staged = Len(plans)
  /\ deferred' = deferred \cup {f \in vsimem : f[1] = "vrt"}
  /\ phase' = AfterStaging
  /\ UNCHANGED <<call, settings, plans, staged, tiles, vsimem, failed, result>>

(* withr::defer in .warp_stage, once every window is staged; then the one  *)
(* of ck_read for the raster it will warp to.                              *)
Staged ==
  /\ phase = "stage"
  /\ staged = Len(plans)
  /\ deferred' = deferred \cup vsimem \cup IF op = "read" /\ ~Native THEN {Out} ELSE {}
  /\ phase' = AfterStaging
  /\ UNCHANGED <<call, settings, plans, staged, tiles, vsimem, failed, result>>

-----------------------------------------------------------------------------
(* r_each[[i]] of .stack_assemble: the method of the k-th window.          *)
NextMethod(k) == r[k]

(* One source brought onto the common grid; a native copy is not warped.   *)
WarpTile ==
  /\ phase = "assemble"
  /\ Len(tiles) < Len(plans)
  /\ LET k == Len(tiles) + 1
     IN  IF AllCopy
         THEN tiles' = Append(tiles, WindowBands(k, "none")) /\ UNCHANGED vsimem
         ELSE /\ tiles' = Append(tiles, WindowBands(k, NextMethod(k)))
              /\ vsimem' = vsimem \cup {<<"tile", k>>}
  /\ UNCHANGED <<call, settings, phase, plans, staged, deferred, failed, result>>

WarpFails ==
  /\ phase = "assemble"
  /\ Len(tiles) < Len(plans) /\ ~AllCopy
  /\ Abort
  /\ UNCHANGED <<call, settings, plans, staged, tiles, vsimem, deferred, result>>

(* on.exit for the tiles and the separate VRT, and buildVRT.               *)
BuildVRT ==
  /\ phase = "assemble"
  /\ Len(tiles) = Len(plans)
  /\ vsimem' = vsimem \cup {<<"sep", 0>>}
  /\ deferred' = deferred \cup {f \in vsimem' : f[1] \in {"tile", "sep"}}
  /\ phase' = "write"
  /\ UNCHANGED <<call, settings, plans, staged, tiles, failed, result>>

BuildFails ==
  /\ phase = "assemble"
  /\ Len(tiles) = Len(plans)
  /\ deferred' = deferred \cup {f \in vsimem : f[1] = "tile"}
  /\ Abort
  /\ UNCHANGED <<call, settings, plans, staged, tiles, vsimem, result>>

-----------------------------------------------------------------------------
(* What is written: the bands stacked source by source, or the windows     *)
(* painted one over the other by one warp.                                 *)
Output ==
  IF op \in Stacks THEN FlattenSeq(tiles)
  ELSE FlattenSeq([k \in DOMAIN plans |-> WindowBands(k, IF CopyPath THEN "none" ELSE r[1])])

(* An existing file goes first on the stack and the copy path (warp writes *)
(* into it), then GDAL writes the new one.                                 *)
Write ==
  /\ phase = "write"
  /\ dst' = Output
  /\ vsimem' = IF op \in Reads THEN vsimem \cup {Out} ELSE vsimem
  /\ phase' = IF op \in Stacks THEN "name" ELSE IF op = "read" THEN "read" ELSE "exit"
  /\ UNCHANGED <<call, settings, plans, staged, tiles, deferred, failed, names, array>>

(* A file GDAL did not finish may be left.                                 *)
WriteFails ==
  /\ phase = "write"
  /\ dst' = IF op \in Stacks \/ CopyPath THEN Missing ELSE dst
  /\ vsimem' = IF op \in Reads THEN vsimem \cup {Out} ELSE vsimem
  /\ Abort
  /\ UNCHANGED <<call, settings, plans, staged, tiles, deferred, names, array>>

(* Mutant of Labels: one label per source, as for single-band sources.     *)
Labels_PerSource == [k \in DOMAIN plans |-> <<plans[k].src, 1>>]

(* .set_stack_band_names, default labels: each source's bands in turn.     *)
Labels ==
  FlattenSeq([k \in DOMAIN plans |->
    [b \in 1 .. Len(SelectedBands(plans[k].src)) |-> <<plans[k].src, b>>]])

(* ck_stack was given band_names; ck_stack_read has none.                  *)
GivenNames == op = "stack" /\ request.labels # 0

(* What is set on the bands: the names given, in their order (no source's, *)
(* source 0's), or the default labels.                                     *)
Descriptions ==
  IF GivenNames THEN [b \in 1 .. request.labels |-> <<0, b>>] ELSE Labels

(* Names of the wrong number are only noticed here, the file written.      *)
Name ==
  /\ phase = "name"
  /\ GivenNames => request.labels = Len(Labels)
  /\ names' = Descriptions
  /\ phase' = IF op = "stack" THEN "exit" ELSE "read"
  /\ UNCHANGED <<call, settings, plans, staged, tiles, vsimem, deferred, failed, dst, array>>

(* They are, or GDAL does not open the new file again.                     *)
NameFails ==
  /\ phase = "name"
  /\ Abort
  /\ UNCHANGED <<call, settings, plans, staged, tiles, vsimem, deferred, result>>

-----------------------------------------------------------------------------
(* The raster .vsimem_to_array opens: the staged window, or the new one,   *)
(* whose size is GDAL's choice.  A warp gives it the bands of its first    *)
(* source.                                                                 *)
Raster(pixels) ==
  IF Native THEN WindowArray
  ELSE [bands |-> dst,
        bytes |-> ArrayBytes(pixels, IF op = "read" THEN Len(WindowBands(1, "none")) ELSE Len(dst))]

(* Mutant of ReadBack: the guard of the native window is all there is.     *)
ReadBack_Unguarded ==
  /\ phase = "read"
  /\ \E pixels \in OutPixels : array' = Raster(pixels)
  /\ phase' = "exit"
  /\ UNCHANGED <<call, settings, plans, staged, tiles, vsimem, deferred, failed, dst, names>>

(* .vsimem_to_array.                                                       *)
ReadBack ==
  /\ phase = "read"
  /\ \E pixels \in OutPixels :
       /\ Raster(pixels).bytes <= request.maxbytes
       /\ array' = Raster(pixels)
  /\ phase' = "exit"
  /\ UNCHANGED <<call, settings, plans, staged, tiles, vsimem, deferred, failed, dst, names>>

(* It is too large, or GDAL cannot open or read it.                        *)
ReadBackFails ==
  /\ phase = "read"
  /\ Abort
  /\ UNCHANGED <<call, settings, plans, staged, tiles, vsimem, deferred, result>>

(* The frames are left: on.exit and the deferred handlers run, and the old *)
(* values are set one after the other.                                     *)
Exit ==
  /\ phase = "exit"
  /\ vsimem' = vsimem \ deferred
  /\ deferred' = {}
  /\ config' = [k \in Options |->
                 LET at == {n \in DOMAIN undo : undo[n][1] = k}
                 IN  IF at = {} THEN config[k] ELSE undo[Max(at)][2]]
  /\ undo' = <<>>
  /\ phase' = IF failed THEN "aborted" ELSE "returned"
  /\ UNCHANGED <<call, plans, staged, tiles, failed, result>>

StackNext ==
  \/ Configure \/ ConfigureFails
  \/ Plan \/ PlanFails \/ Fetch \/ FetchFails
  \/ ReadNative \/ ReadStaged \/ ArrayTooLarge
  \/ Stage \/ StageFails \/ Staged
  \/ WarpTile \/ WarpFails \/ BuildVRT \/ BuildFails
  \/ Write \/ WriteFails \/ Name \/ NameFails
  \/ ReadBack \/ ReadBackFails \/ Exit

StackSpec == StackInit /\ [][StackNext]_stackVars

-----------------------------------------------------------------------------
(* Type invariant of the call.                                             *)
StackTypeOK ==
  /\ metas \in [Srcs -> Metas] /\ request \in Requests /\ op \in Ops
  /\ r \in [Srcs -> Methods]
  /\ phase \in {"config", "plan", "fetch", "native", "stage", "assemble", "write", "name",
                "read", "exit", "returned", "aborted"}
  /\ config \in [Options -> {"user", "call"}]
  /\ Len(undo) <= Len(request.config)
  /\ Len(plans) <= NSrc /\ \A k \in DOMAIN plans : plans[k].src \in Srcs
  /\ staged \in 0 .. Len(plans)
  /\ Len(tiles) <= Len(plans)
  /\ vsimem \subseteq {"bin", "vrt", "tile", "sep", "out"} \X (0 .. NSrc)
  /\ deferred \subseteq vsimem \cup {Out}
  /\ failed \in BOOLEAN

(* The source has pixels to give: its own header, planned by itself, gives *)
(* a window.                                                               *)
Served(i) == PlanFromMeta(i, metas[i], request) # NoPlan

OwnBands(i) ==
  [b \in DOMAIN SelectedBands(i) |-> [src |-> i, band |-> SelectedBands(i)[b], nodata |-> metas[i].nodata]]

(* The bands a call that returns has written or returns.                   *)
Delivered == IF op \in Reads THEN array.bands ELSE dst

(* A call that returns has written or returns, in the order of the         *)
(* sources, the bands of every source with pixels to give, under its own   *)
(* URL and nodata, even though plans are shared between sources on one     *)
(* grid, and whichever way a read took.                                    *)
OutputComplete ==
  phase = "returned" =>
    [b \in DOMAIN Delivered |->
       [src |-> Delivered[b].src, band |-> Delivered[b].band, nodata |-> Delivered[b].nodata]]
      = FlattenSeq([i \in Srcs |-> IF Served(i) THEN OwnBands(i) ELSE <<>>])

(* A band of a stack carries the name of the source it came from, whatever *)
(* sources were dropped and however many bands each has; names the user    *)
(* gave are accepted only one for each band written, and go in order.      *)
NamesMatch ==
  phase = "returned" /\ op \in Stacks =>
    /\ Len(names) = Len(dst)
    /\ \A b \in DOMAIN names :
         IF GivenNames THEN names[b] = <<0, b>> ELSE names[b][1] = dst[b].src

(* Every planned window lies inside its level, so that plan_tile accepts   *)
(* it, and holds every pixel of the level that the extent touches.         *)
WindowsServable ==
  \A k \in DOMAIN plans : HoldsExtent(plans[k], metas[plans[k].src].grid, request)

(* No source with ground in the extent is dropped.                         *)
NoneDropped ==
  phase = "returned" =>
    \A i \in Srcs : Overlaps(metas[i].grid, request) => \E k \in DOMAIN plans : plans[k].src = i

Over == phase \in {"returned", "aborted"}

(* A call leaves nothing in /vsimem, failed or not, but for the two places *)
(* where files are put on the list only once all are there: staging that   *)
(* failed leaves the windows staged so far, a source that could not be     *)
(* warped the tiles made so far.                                           *)
NothingLeft ==
  Over =>
    \A f \in vsimem :
      /\ failed
      /\ \/ f[1] \in {"bin", "vrt"} /\ staged < Len(plans)
         \/ f[1] = "tile" /\ Len(tiles) < Len(plans)

(* Every GDAL option is what the user had set once a call is over, however *)
(* it ended and even if an option was given twice, unless one of the       *)
(* options was refused.                                                    *)
ConfigRestored ==
  Over /\ (op = "remote" \/ request.refused = 0) => \A k \in Options : config[k] = "user"

(* What the documentation of ck_read says of max_bytes: no larger array is *)
(* returned, from whatever the call reads it and although the plan of the  *)
(* window may be one that was never measured.                              *)
ArrayBounded == phase = "returned" /\ op \in Reads => array.bytes \in 1 .. request.maxbytes

(* What the documentation of r says: one method per source, so the bands   *)
(* of a source that was warped were warped with the source's own method.   *)
ResamplingOwn ==
  phase = "returned" /\ op \in Stacks =>
    \A b \in DOMAIN dst : dst[b].r \in {"none", r[dst[b].src]}

(* What the documentation of max_bytes says: a call whose fetch windows    *)
(* would be larger is refused before anything is fetched.                  *)
SizeGuarded ==
  phase \notin {"exit", "aborted"} =>
    \A k \in DOMAIN plans :
      WindowBytes(plans[k], metas[plans[k].src], request) <= request.maxbytes

=============================================================================
