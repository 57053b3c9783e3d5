----------------------------- MODULE WindowPlan -----------------------------
(***************************************************************************)
(* The window planning of src/R/engine.R: from a source's header and the   *)
(* request to the overview level and pixel window that are fetched, and    *)
(* its reuse between sources on one grid.                                  *)
(*                                                                         *)
(* Ground coordinates are integers in a unit that divides the pixel size.  *)
(* A grid is [x0, y0, px, dir, w, h]: the corner of the first pixel, the   *)
(* pixel size, the sign of the row direction, and the size of every level  *)
(* in pixels, full resolution first.  The extent and the resolution of the *)
(* request are in the source's CRS: transform_bounds is PROJ's.            *)
(***************************************************************************)
EXTENDS Integers, Sequences, FiniteSetsExt

Larger(a, b) == IF a >= b THEN a ELSE b
Smaller(a, b) == IF a <= b THEN a ELSE b
CeilDiv(a, b) == -((-a) \div b)

(* Every level has pixels, and there is one.                               *)
GridOK(grid) ==
  /\ grid.x0 \in Int /\ grid.y0 \in Int /\ grid.px \in Nat \ {0} /\ grid.dir \in {-1, 1}
  /\ grid.w \in Seq(Nat \ {0}) /\ grid.h \in Seq(Nat \ {0})
  /\ Len(grid.w) = Len(grid.h) /\ Len(grid.w) > 0

(* .check_warp_geometry: an extent is four numbers in order.               *)
RequestOK(request) ==
  /\ request.res \in Nat /\ request.overview \in Nat /\ request.margin \in Nat
  /\ \/ request.te = <<>>
     \/ /\ request.te \in Seq(Int) /\ Len(request.te) = 4
        /\ request.te[1] < request.te[3] /\ request.te[2] < request.te[4]

(* .srs_identity and no resolution: the window itself is the answer.       *)
IsCopy(request) == request.identity /\ request.res = 0

(* .full_src_bbox or the requested extent, as distances from the grid's    *)
(* corner along its columns and rows.                                      *)
XRange(grid, request) ==
  IF request.te = <<>> THEN <<0, grid.w[1] * grid.px>>
  ELSE <<request.te[1] - grid.x0, request.te[3] - grid.x0>>
YRange(grid, request) ==
  IF request.te = <<>> THEN <<0, grid.h[1] * grid.px>>
  ELSE IF grid.dir = 1 THEN <<request.te[2] - grid.y0, request.te[4] - grid.y0>>
  ELSE <<grid.y0 - request.te[4], grid.y0 - request.te[2]>>

(* .pick_overview: the coarsest level no coarser than the output.          *)
PickOverview(grid, request) ==
  LET ok == {l \in DOMAIN grid.w : grid.w[1] * grid.px <= request.res * grid.w[l]}
  IN  IF request.res < grid.px \/ ok = {} THEN 1 ELSE Max(ok)

(* The level of a plan; a requested overview is clamped to the file's.     *)
Level(grid, request) ==
  IF request.overview = 0 THEN PickOverview(grid, request)
  ELSE Larger(1, Smaller(request.overview, Len(grid.w)))

(* First pixel and end of the window along one axis of n pixels at full    *)
(* resolution and nl at the level.                                         *)
AxisOff(range, n, nl, px, margin) ==
  Larger(0, ((range[1] * nl) \div (n * px)) - margin)

(* Mutant of AxisEnd: the last touched pixel taken by floor.               *)
AxisEnd_Floor(range, n, nl, px, margin) ==
  Smaller(nl, ((range[2] * nl) \div (n * px)) + margin)

AxisEnd(range, n, nl, px, margin) ==
  Smaller(nl, CeilDiv(range[2] * nl, n * px) + margin)

NoPlan == [src |-> 0]

(* .plan_from_meta without its size check.                                 *)
PlanFromMeta(i, meta, request) ==
  LET grid == meta.grid
      l == Level(grid, request)
      margin == IF IsCopy(request) THEN 0 ELSE request.margin
      xoff == AxisOff(XRange(grid, request), grid.w[1], grid.w[l], grid.px, margin)
      xend == AxisEnd(XRange(grid, request), grid.w[1], grid.w[l], grid.px, margin)
      yoff == AxisOff(YRange(grid, request), grid.h[1], grid.h[l], grid.px, margin)
      yend == AxisEnd(YRange(grid, request), grid.h[1], grid.h[l], grid.px, margin)
  IN  IF xend <= xoff \/ yend <= yoff THEN NoPlan
      ELSE [src |-> i, nodata |-> meta.nodata, level |-> l, copy |-> IsCopy(request),
            xoff |-> xoff, yoff |-> yoff, xsize |-> xend - xoff, ysize |-> yend - yoff]

NSelected(meta, request) == IF request.bands = <<>> THEN meta.nbands ELSE Len(request.bands)

(* est: the bytes a window would take.                                     *)
WindowBytes(plan, meta, request) ==
  plan.xsize * plan.ysize * NSelected(meta, request) * meta.bytes

(* Mutant of Planner: a signature of sizes, without the geotransform.      *)
Planner_BySize(metas, i) ==
  Min({j \in 1 .. i : metas[j].grid.w = metas[i].grid.w /\ metas[j].grid.h = metas[i].grid.h})

(* .grid_sig and the cache: the source whose plan source i gets.           *)
Planner(metas, i) == Min({j \in 1 .. i : metas[j].grid = metas[i].grid})

(* Mutant of PlanOf: the cached plan as it is.                             *)
PlanOf_AsCached(metas, request, i) ==
  PlanFromMeta(Planner(metas, i), metas[Planner(metas, i)], request)

(* A shared plan with a source's own URL, then its own nodata.             *)
HandedTo(plan, i, nodata) == [[plan EXCEPT !.src = i] EXCEPT !.nodata = nodata]

(* .plan_sources.                                                          *)
PlanOf(metas, request, i) ==
  LET shared == PlanFromMeta(Planner(metas, i), metas[Planner(metas, i)], request)
  IN  IF shared = NoPlan THEN NoPlan
      ELSE HandedTo(shared, i, metas[i].nodata)

(* The size check is made when a plan is made, not when it is reused.      *)
TooLarge(metas, request) ==
  \E i \in DOMAIN metas :
    /\ Planner(metas, i) = i
    /\ PlanOf(metas, request, i) # NoPlan
    /\ WindowBytes(PlanOf(metas, request, i), metas[i], request) > request.maxbytes

(* The extent and the source's raster have ground in common.               *)
Overlaps(grid, request) ==
  /\ XRange(grid, request)[1] < grid.w[1] * grid.px /\ XRange(grid, request)[2] > 0
  /\ YRange(grid, request)[1] < grid.h[1] * grid.px /\ YRange(grid, request)[2] > 0

(* Whether pixel q of a level axis, n pixels at full resolution and nl at  *)
(* the level, has ground in common with the range.                         *)
Touched(q, range, n, nl, px) ==
  q * n * px < range[2] * nl /\ (q + 1) * n * px > range[1] * nl

(* A planned window is not empty, lies inside its level and holds every    *)
(* pixel of the level that the extent touches.                             *)
HoldsExtent(p, grid, request) ==
  /\ p.level \in DOMAIN grid.w
  /\ p.xoff \in Nat /\ p.yoff \in Nat /\ p.xsize \in Nat \ {0} /\ p.ysize \in Nat \ {0}
  /\ p.xoff + p.xsize <= grid.w[p.level] /\ p.yoff + p.ysize <= grid.h[p.level]
  /\ \A q \in 0 .. grid.w[p.level] - 1 :
       Touched(q, XRange(grid, request), grid.w[1], grid.w[p.level], grid.px) =>
         q \in p.xoff .. p.xoff + p.xsize - 1
  /\ \A q \in 0 .. grid.h[p.level] - 1 :
       Touched(q, YRange(grid, request), grid.h[1], grid.h[p.level], grid.px) =>
         q \in p.yoff .. p.yoff + p.ysize - 1

=============================================================================
