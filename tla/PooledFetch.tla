----------------------------- MODULE PooledFetch -----------------------------
(***************************************************************************)
(* fetch_windows_pooled (src/src/rust/src/window.rs): several windows, one *)
(* per open source, fetched tile by tile through ONE buffer_unordered      *)
(* pool, then blitted into one output buffer per window.  fetch_decoded    *)
(* followed by blit_native or blit_f64 is the same with a single window.   *)
(*                                                                         *)
(* A pixel's value is named by where it comes from, <<source, band, x, y>>;*)
(* the sources share one grid, so that only the addressing tells them      *)
(* apart.  A tile is <<source, tx, ty>>.  Tiles start in list order and    *)
(* finish in any order; neither order can be told from the result, so the  *)
(* tiles of each stage are kept as a set.                                  *)
(***************************************************************************)
EXTENDS TileGrid, Sequences, FiniteSets

CONSTANTS
  NWin,         (* number of windows, one per source                      *)
  Concurrency,  (* the pool's budget, max(1) applied                      *)
  Requests,     (* the windows that may be requested                      *)
  Selections    (* the band selections that may be requested              *)

ASSUME PoolAssumption ==
  /\ NWin \in Nat \ {0}
  /\ Concurrency \in Nat \ {0}
  /\ Requests \subseteq Windows
  /\ Selections \subseteq Seq(Nat)

Wins == 1 .. NWin

VARIABLES
  req,        (* the window requested of each source                      *)
  bands0,     (* requested bands (0-based), empty for all                 *)
  planar,     (* the image stores its bands in separate planes            *)
  predictor,  (* the image has a predictor to undo                        *)
  waiting,    (* tiles not yet started                                    *)
  active,     (* tiles being fetched or decoded                           *)
  decoded,    (* decoded tiles not yet blitted                            *)
  outs,       (* the output buffers                                       *)
  phase       (* plan, fetch, blit, done or error                         *)

asked == <<req, bands0, planar, predictor>>
poolVars == <<asked, waiting, active, decoded, outs, phase>>

(* The bands of the output, in output order.                               *)
Bands == IF bands0 = <<>> THEN [k \in 1 .. NBands |-> k - 1] ELSE bands0
NSel == Len(Bands)

BandsValid == \A k \in DOMAIN bands0 : bands0[k] < NBands

(* A subset of the bands of a planar image with no predictor is fetched    *)
(* band by band.                                                           *)
UseBandFetch == planar /\ NSel < NBands /\ ~predictor

(* Mutant of Tiles: the last column and row by the exclusive end.          *)
Tiles_Exclusive(i) ==
  {i} \X ((req[i].xoff \div TileW) .. (Xend(req[i]) \div TileW - 1))
      \X ((req[i].yoff \div TileH) .. (Yend(req[i]) \div TileH - 1))

(* coords of plan_tile.                                                    *)
Tiles(i) == {i} \X TilesX(req[i]) \X TilesY(req[i])

PoolInit ==
  /\ req \in [Wins -> Requests]
  /\ bands0 \in Selections
  /\ planar \in BOOLEAN
  /\ predictor \in BOOLEAN
  /\ waiting = {}
  /\ active = {}
  /\ decoded = {}
  /\ outs = <<>>
  /\ phase = "plan"

-----------------------------------------------------------------------------
(* Mutant of Plan: only the windows are validated, as blits of a planar    *)
(* subset would allow.                                                     *)
Plan_NoBandCheck ==
  /\ phase = "plan"
  /\ IF \A i \in Wins : Fits(req[i])
     THEN waiting' = UNION {Tiles(i) : i \in Wins} /\ phase' = "fetch"
     ELSE waiting' = {} /\ phase' = "error"
  /\ UNCHANGED <<asked, active, decoded, outs>>

(* plan_tile for every window: any bad request fails the whole call before *)
(* a byte is read.                                                         *)
Plan ==
  /\ phase = "plan"
  /\ IF BandsValid /\ \A i \in Wins : Fits(req[i])
     THEN waiting' = UNION {Tiles(i) : i \in Wins} /\ phase' = "fetch"
     ELSE waiting' = {} /\ phase' = "error"
  /\ UNCHANGED <<asked, active, decoded, outs>>

Start(t) ==
  /\ phase = "fetch"
  /\ t \in waiting
  /\ Cardinality(active) < Concurrency
  /\ waiting' = waiting \ {t}
  /\ active' = active \cup {t}
  /\ UNCHANGED <<asked, decoded, outs, phase>>

Decode(t) ==
  /\ phase = "fetch"
  /\ t \in active
  /\ active' = active \ {t}
  /\ decoded' = decoded \cup {t}
  /\ UNCHANGED <<asked, waiting, outs, phase>>

(* Mutant of TileFails: the failed tile is skipped.                        *)
TileFails_Skip(t) ==
  /\ phase = "fetch"
  /\ t \in active
  /\ active' = active \ {t}
  /\ UNCHANGED <<asked, waiting, decoded, outs, phase>>

(* try_collect stops at the first error and drops what is in flight.       *)
TileFails(t) ==
  /\ phase = "fetch"
  /\ t \in active
  /\ phase' = "error"
  /\ waiting' = {} /\ active' = {} /\ decoded' = {}
  /\ UNCHANGED <<asked, outs>>

(* Mutant of Alloc: room for one band.                                     *)
Alloc_OneBand ==
  /\ phase = "fetch"
  /\ waiting = {} /\ active = {}
  /\ outs' = [i \in Wins |-> [d \in 0 .. BandArea(req[i]) - 1 |-> <<"fill">>]]
  /\ phase' = "blit"
  /\ UNCHANGED <<asked, waiting, active, decoded>>

(* alloc_filled: the output buffers, prefilled.                            *)
Alloc ==
  /\ phase = "fetch"
  /\ waiting = {} /\ active = {}
  /\ outs' = [i \in Wins |-> [d \in 0 .. BandArea(req[i]) * NSel - 1 |-> <<"fill">>]]
  /\ phase' = "blit"
  /\ UNCHANGED <<asked, waiting, active, decoded>>

-----------------------------------------------------------------------------
(* What the file holds at tile index k of a planar image.                  *)
FileBand(k) == k \div TilesPerBand
FileTx(k) == (k % TilesPerBand) % TilesPerRow
FileTy(k) == (k % TilesPerBand) \div TilesPerRow

(* The tile of which a decoded planar buffer holds the d-th pixel: planes  *)
(* one after the other, all of them or the selected ones.                  *)
Plane(d) == d \div TileArea
InPlane(d) == d % TileArea

(* A decoded tile, as the decoder lays it out.                             *)
TileData(t) ==
  LET i == t[1]
      PixelX(tx, d) == tx * TileW + (d % TileW)
      PixelY(ty, d) == ty * TileH + (d \div TileW)
      stored(d) == BandTileIndex(Bands[Plane(d) + 1], t[2], t[3])
  IN
  IF UseBandFetch
  THEN [d \in 0 .. NSel * TileArea - 1 |->
         <<i, FileBand(stored(d)), PixelX(FileTx(stored(d)), InPlane(d)),
              PixelY(FileTy(stored(d)), InPlane(d))>>]
  ELSE IF planar
  THEN [d \in 0 .. NBands * TileArea - 1 |->
         <<i, Plane(d), PixelX(t[2], InPlane(d)), PixelY(t[3], InPlane(d))>>]
  ELSE [d \in 0 .. NBands * TileArea - 1 |->
         <<i, d % NBands, PixelX(t[2], d \div NBands), PixelY(t[3], d \div NBands)>>]

(* Which band of the tile buffer feeds the ob-th output band.              *)
BufBand(ob) == IF UseBandFetch THEN ob ELSE Bands[ob + 1]

(* blit_cog_tile: where it reads the pixel (gx, gy) of the ob-th band.     *)
SrcIndex(t, ob, gx, gy) ==
  LET c == gx - t[2] * TileW
      r == gy - t[3] * TileH
  IN  IF planar \/ UseBandFetch
      THEN PlanarIndex(BufBand(ob), c, r)
      ELSE ChunkyIndex(BufBand(ob), c, r)

(* Mutant of Strides: the band stride of a subset taken as chunky.         *)
Strides_NoSubset ==
  IF planar /\ ~UseBandFetch
  THEN [h |-> TileW, w |-> 1, b |-> TileArea]
  ELSE [h |-> TileW * NBands, w |-> NBands, b |-> 1]

(* strides, and blit_f64's own addressing with them.                       *)
Strides ==
  IF UseBandFetch \/ planar
  THEN [h |-> TileW, w |-> 1, b |-> TileArea]
  ELSE [h |-> TileW * NBands, w |-> NBands, b |-> 1]

StrideIndex(t, ob, gx, gy) ==
  (gy - t[3] * TileH) * Strides.h + (gx - t[2] * TileW) * Strides.w
    + BufBand(ob) * Strides.b

(* The output pixels one tile writes, as <<band, x, y>>.                   *)
Cells(t) ==
  (0 .. NSel - 1) \X OverlapX(req[t[1]], t[2]) \X OverlapY(req[t[1]], t[3])

(* blit_cog_tile: an output buffer after the overlap of one decoded tile   *)
(* has been copied into it.                                                *)
Copied(out, t) ==
  LET CellsAt(d) == {x \in Cells(t) : OutIndex(req[t[1]], x[1], x[2], x[3]) = d}
      data == TileData(t)
  IN  [d \in DOMAIN out |->
        IF CellsAt(d) = {} THEN out[d]
        ELSE LET x == CHOOSE y \in CellsAt(d) : TRUE
             IN  data[SrcIndex(t, x[1], x[2], x[3])]]

(* Mutant of Blit: the tile stays in the list.                             *)
Blit_KeepsTile(t) ==
  /\ phase = "blit"
  /\ t \in decoded
  /\ outs' = [outs EXCEPT ![t[1]] = Copied(@, t)]
  /\ UNCHANGED <<asked, waiting, active, decoded, phase>>

Blit(t) ==
  /\ phase = "blit"
  /\ t \in decoded
  /\ outs' = [outs EXCEPT ![t[1]] = Copied(@, t)]
  /\ decoded' = decoded \ {t}
  /\ UNCHANGED <<asked, waiting, active, phase>>

Finish ==
  /\ phase = "blit"
  /\ decoded = {}
  /\ phase' = "done"
  /\ UNCHANGED <<asked, waiting, active, decoded, outs>>

PoolNext ==
  \/ Plan
  \/ \E t \in waiting : Start(t)
  \/ \E t \in active : Decode(t)
  \/ \E t \in active : TileFails(t)
  \/ Alloc
  \/ \E t \in decoded : Blit(t)
  \/ Finish

PoolSpec == PoolInit /\ [][PoolNext]_poolVars

(* block_on polls the pool until it ends, and every tile request answers   *)
(* or times out.                                                           *)
PoolFairness == WF_poolVars(PoolNext)

FairPoolSpec == PoolSpec /\ PoolFairness

-----------------------------------------------------------------------------
TileRefs == {t \in Wins \X Nat \X Nat : t \in Tiles(t[1])}

(* The pixels of window i, as <<band of the output, x, y>>.                *)
Pixels(i) ==
  (0 .. NSel - 1) \X (req[i].xoff .. Xend(req[i]) - 1) \X (req[i].yoff .. Yend(req[i]) - 1)

OutDomain(i) == 0 .. BandArea(req[i]) * NSel - 1
TileOf(i, x) == <<i, x[2] \div TileW, x[3] \div TileH>>
At(i, x) == outs[i][OutIndex(req[i], x[1], x[2], x[3])]
ValueOf(i, x) == <<i, Bands[x[1] + 1], x[2], x[3]>>

(* Type invariant of the pool.                                             *)
PoolTypeOK ==
  /\ req \in [Wins -> Requests]
  /\ bands0 \in Selections
  /\ planar \in BOOLEAN /\ predictor \in BOOLEAN
  /\ waiting \cup active \cup decoded \subseteq Wins \X Nat \X Nat
  /\ phase \in {"plan", "fetch", "blit", "done", "error"}
  /\ IF phase \in {"blit", "done"}
     THEN /\ DOMAIN outs = Wins
          /\ \A i \in Wins : DOMAIN outs[i] = OutDomain(i)
     ELSE outs = <<>>

(* Exactness: when the call returns, every pixel of every window holds the *)
(* value of that pixel of that source and band, whichever of the layouts   *)
(* the file has and whatever order the tiles came in; no prefilled value   *)
(* is left and no tile went to another source's buffer.                    *)
WindowExact ==
  phase = "done" => \A i \in Wins : \A x \in Pixels(i) : At(i, x) = ValueOf(i, x)

(* A tile buffer and an output buffer are never indexed past their end     *)
(* (each such slice would panic and take the whole session down), and the  *)
(* file's tile tables are not either.                                      *)
NoPanicInBlit ==
  \A t \in decoded :
    /\ phase = "blit" =>
         \A x \in Cells(t) :
           /\ OutIndex(req[t[1]], x[1], x[2], x[3]) \in DOMAIN outs[t[1]]
           /\ SrcIndex(t, x[1], x[2], x[3]) \in DOMAIN TileData(t)
    /\ UseBandFetch =>
         \A k \in 1 .. NSel :
           BandTileIndex(Bands[k], t[2], t[3]) \in 0 .. NBands * TilesPerBand - 1

(* The two blits, written separately, address a tile the same way: the     *)
(* internal binding cog_fetch_window (blit_f64) gives the pixels that      *)
(* cog_fetch_window_raw (blit_native) does.  ck_read and staging both use  *)
(* native bytes; no R function of the package calls the first.             *)
BlitsAgree ==
  \A t \in decoded : \A x \in Cells(t) :
    StrideIndex(t, x[1], x[2], x[3]) = SrcIndex(t, x[1], x[2], x[3])

(* The tiles of the pool are the ones whose pixels were asked for, each in *)
(* one stage: none is missing, none is read for nothing, none twice.       *)
TilesExact ==
  phase = "fetch" =>
    /\ waiting \cup active \cup decoded = UNION {{TileOf(i, x) : x \in Pixels(i)} : i \in Wins}
    /\ waiting \cap active = {} /\ waiting \cap decoded = {} /\ active \cap decoded = {}

(* No pixel is written twice: a blit only replaces prefilled values, so    *)
(* that the order of the tiles cannot matter.                              *)
WrittenOnce ==
  [][phase = "blit" =>
       \A i \in Wins : \A d \in OutDomain(i) :
         outs[i][d] # <<"fill">> => outs'[i][d] = outs[i][d]]_poolVars

(* The call returns: with every window, or with an error.                  *)
PoolEnds == <>(phase \in {"done", "error"})

-----------------------------------------------------------------------------
(* Strengthenings for the proofs.                                          *)

(* Past planning the request is one that plan_tile let through.            *)
Planned ==
  phase \in {"fetch", "blit", "done"} =>
    BandsValid /\ \A i \in Wins : Fits(req[i])

TilesKnown == waiting \cup active \cup decoded \subseteq TileRefs

(* A pixel is right or its tile is still to come.                          *)
PixelsPending ==
  phase \in {"blit", "done"} =>
    \A i \in Wins : \A x \in Pixels(i) :
      \/ At(i, x) = ValueOf(i, x)
      \/ At(i, x) = <<"fill">> /\ TileOf(i, x) \in decoded

StagesClean ==
  /\ phase \in {"blit", "done"} => waiting = {} /\ active = {}
  /\ phase \in {"plan", "done", "error"} => waiting = {} /\ active = {} /\ decoded = {}

PoolInv ==
  /\ PoolTypeOK
  /\ Planned
  /\ TilesKnown
  /\ TilesExact
  /\ PixelsPending
  /\ StagesClean

=============================================================================
