-------------------------- MODULE WindowPlan_proofs --------------------------
(***************************************************************************)
(* The window planning, for every grid, level and request: a plan lies in  *)
(* its level, holds every pixel the extent touches, is made whenever       *)
(* extent and raster have ground in common, and is the source's own even   *)
(* when it was made for another source on the same grid.                   *)
(***************************************************************************)
EXTENDS WindowPlan, FiniteSetTheorems, WellFoundedInduction, TLAPS

-----------------------------------------------------------------------------
(* Max and Min are CHOOSEn; that there is something to choose follows from *)
(* strict inclusion of finite sets being well-founded.                     *)

LEMMA LeastExists ==
  ASSUME NEW T \in SUBSET Nat, T # {}
  PROVE  \E x \in T : \A y \in T : x <= y
<1> DEFINE Below == {0 .. m : m \in T}
<1>1. Below \subseteq FiniteSubsetsOf(Nat)
  <2>1. ASSUME NEW m \in T PROVE 0 .. m \in FiniteSubsetsOf(Nat)
    <3>1. IsFiniteSet(0 .. m)
      BY FS_Interval
    <3>2. 0 .. m \subseteq Nat
      OBVIOUS
    <3> QED
      BY <3>1, <3>2 DEF FiniteSubsetsOf
  <2> QED
    BY <2>1
<1>2. Below # {}
  OBVIOUS
<1>3. \E x \in Below : \A y \in Below : ~(<<y, x>> \in StrictSubsetOrdering(Nat))
  <2> HIDE DEF Below
  <2> QED
    BY <1>1, <1>2, FS_StrictSubsetOrderingWellFounded, WFMin, Zenon
<1>4. PICK x \in T : \A y \in T : ~(<<0 .. y, 0 .. x>> \in StrictSubsetOrdering(Nat))
  BY <1>3
<1>5. ASSUME NEW y \in T, y < x PROVE FALSE
  <2>1. 0 .. y \in SUBSET Nat /\ 0 .. x \in SUBSET Nat
    OBVIOUS
  <2>2. x \in 0 .. x /\ x \notin 0 .. y
    BY <1>5
  <2>3. 0 .. y \subseteq 0 .. x /\ 0 .. y # 0 .. x
    BY <2>2, <1>5
  <2> QED
    BY <2>1, <2>3, <1>4, Zenon DEF StrictSubsetOrdering
<1> QED
  BY <1>5

LEMMA MinIsLeast ==
  ASSUME NEW T \in SUBSET Nat, T # {}
  PROVE  Min(T) \in T /\ \A y \in T : Min(T) <= y
  BY LeastExists DEF Min

LEMMA MaxIsGreatest ==
  ASSUME NEW n \in Nat, NEW T \in SUBSET (0 .. n), T # {}
  PROVE  Max(T) \in T /\ \A y \in T : Max(T) >= y
<1> DEFINE Above == {m \in 0 .. n : \A y \in T : m >= y}
<1>1. n \in Above
  OBVIOUS
<1>2. PICK m \in Above : \A k \in Above : m <= k
  <2> HIDE DEF Above
  <2>1. Above \in SUBSET Nat
    BY DEF Above
  <2> QED
    BY <1>1, <2>1, LeastExists
<1>3. m \in T
  <2> SUFFICES ASSUME m \notin T PROVE FALSE
    OBVIOUS
  <2>1. \A y \in T : m > y
    OBVIOUS
  <2>2. m - 1 \in Above
    <3>1. m - 1 \in 0 .. n
      <4>1. PICK y : y \in T
        OBVIOUS
      <4>2. y \in 0 .. n /\ m > y
        BY <2>1, <4>1
      <4> QED
        BY <4>2
    <3>2. \A y \in T : m - 1 >= y
      BY <2>1
    <3> QED
      BY <3>1, <3>2
  <2> QED
    BY <1>2, <2>2
<1>4. \A y \in T : m >= y
  OBVIOUS
<1> QED
  BY <1>3, <1>4, Zenon DEF Max

-----------------------------------------------------------------------------
(* Division of any integer, rounded down and up.                           *)

LEMMA FloorFacts ==
  ASSUME NEW d \in Nat \ {0}, NEW a \in Int
  PROVE  /\ a \div d \in Int
         /\ (a \div d) * d <= a
         /\ a < (a \div d + 1) * d
  BY SMT

LEMMA CeilFacts ==
  ASSUME NEW d \in Nat \ {0}, NEW a \in Int
  PROVE  /\ CeilDiv(a, d) \in Int
         /\ a <= CeilDiv(a, d) * d
         /\ (CeilDiv(a, d) - 1) * d < a
<1>1. PICK k \in Int : k = (-a) \div d /\ k * d <= -a /\ -a < (k + 1) * d
  BY FloorFacts
<1>2. CeilDiv(a, d) = -k
  BY <1>1 DEF CeilDiv
<1>3. (-k) * d = -(k * d) /\ (-k - 1) * d = -((k + 1) * d)
  BY SMT
<1>4. k * d \in Int /\ (k + 1) * d \in Int
  OBVIOUS
<1> QED
  BY <1>1, <1>2, <1>3, <1>4

(* What is below a multiple divides to less.                               *)
LEMMA ScaleLess ==
  ASSUME NEW d \in Nat \ {0}, NEW p \in Int, NEW q \in Int, p * d < q * d
  PROVE  p < q
  BY SMT

-----------------------------------------------------------------------------
(* One axis: n pixels at full resolution, nl at the level.                 *)

AxisOK(range, n, nl, px, margin) ==
  /\ range[1] \in Int /\ range[2] \in Int
  /\ n \in Nat \ {0} /\ nl \in Nat \ {0} /\ px \in Nat \ {0} /\ margin \in Nat

LEMMA TouchedFacts ==
  ASSUME NEW range, NEW n, NEW nl, NEW px, NEW margin, AxisOK(range, n, nl, px, margin),
         NEW q \in Int
  PROVE  Touched(q, range, n, nl, px) <=>
           q * (n * px) < range[2] * nl /\ (q + 1) * (n * px) > range[1] * nl
<1>1. q * n * px = q * (n * px) /\ (q + 1) * n * px = (q + 1) * (n * px)
  BY SMT DEF AxisOK
<1> QED
  BY <1>1, Zenon DEF Touched

LEMMA AxisType ==
  ASSUME NEW range, NEW n, NEW nl, NEW px, NEW margin, AxisOK(range, n, nl, px, margin)
  PROVE  /\ AxisOff(range, n, nl, px, margin) \in Nat
         /\ AxisEnd(range, n, nl, px, margin) \in Int
         /\ AxisEnd(range, n, nl, px, margin) <= nl
<1>1. n * px \in Nat \ {0}
  BY SMT DEF AxisOK
<1>2. range[1] * nl \in Int /\ range[2] * nl \in Int
  BY DEF AxisOK
<1>3. (range[1] * nl) \div (n * px) \in Int
  BY <1>1, <1>2, FloorFacts
<1>4. CeilDiv(range[2] * nl, n * px) \in Int
  BY <1>1, <1>2, CeilFacts
<1> QED
  BY <1>3, <1>4 DEF AxisOK, AxisOff, AxisEnd, Larger, Smaller

(* The window of an axis holds every pixel that is touched.                *)
LEMMA AxisHoldsTouched ==
  ASSUME NEW range, NEW n, NEW nl, NEW px, NEW margin, AxisOK(range, n, nl, px, margin),
         NEW q \in 0 .. nl - 1, Touched(q, range, n, nl, px)
  PROVE  /\ AxisOff(range, n, nl, px, margin) <= q
         /\ q < AxisEnd(range, n, nl, px, margin)
<1>1. PICK d \in Nat \ {0} : d = n * px
  BY SMT DEF AxisOK
<1>2. PICK a \in Int : a = range[1] * nl
  BY DEF AxisOK
<1>3. PICK b \in Int : b = range[2] * nl
  BY DEF AxisOK
<1>4. q \in Int /\ q < nl /\ 0 <= q /\ nl \in Nat /\ margin \in Nat
  BY DEF AxisOK
<1>5. q * d < b /\ a < (q + 1) * d
  BY <1>1, <1>2, <1>3, <1>4, TouchedFacts
<1>6. a \div d <= q
  <2>1. PICK k \in Int : k = a \div d /\ k * d <= a
    BY FloorFacts
  <2>2. k * d < (q + 1) * d
    BY <1>4, <1>5, <2>1, SMT
  <2> QED
    BY <1>4, <2>1, <2>2, ScaleLess
<1>7. q < CeilDiv(b, d)
  <2>1. PICK k \in Int : k = CeilDiv(b, d) /\ b <= k * d
    BY CeilFacts
  <2>2. q * d < k * d
    BY <1>4, <1>5, <2>1, SMT
  <2> QED
    BY <1>4, <2>1, <2>2, ScaleLess
<1>8. AxisOff(range, n, nl, px, margin) = Larger(0, (a \div d) - margin)
  BY <1>1, <1>2 DEF AxisOff
<1>9. AxisEnd(range, n, nl, px, margin) = Smaller(nl, CeilDiv(b, d) + margin)
  BY <1>1, <1>3 DEF AxisEnd
<1>10. a \div d \in Int /\ CeilDiv(b, d) \in Int
  BY FloorFacts, CeilFacts
<1> QED
  BY <1>4, <1>6, <1>7, <1>8, <1>9, <1>10 DEF Larger, Smaller

(* A range with ground on the axis touches one of its pixels.              *)
LEMMA AxisSomeTouched ==
  ASSUME NEW range, NEW n, NEW nl, NEW px, NEW margin, AxisOK(range, n, nl, px, margin),
         range[1] < range[2], range[1] < n * px, range[2] > 0
  PROVE  \E q \in 0 .. nl - 1 : Touched(q, range, n, nl, px)
<1>1. PICK d \in Nat \ {0} : d = n * px
  BY SMT DEF AxisOK
<1>2. PICK a \in Int, b \in Int : a = range[1] /\ b = range[2] /\ a < b /\ a < d /\ b > 0
  BY <1>1 DEF AxisOK
<1>3. PICK l \in Nat \ {0} : l = nl
  BY DEF AxisOK
<1>4. a * l < b * l /\ a * l < d * l /\ b * l > 0 /\ a * l \in Int /\ b * l \in Int
  BY <1>2, SMT
<1>5. CASE a < 0
  <2>1. a * l < 0
    BY <1>5, SMT
  <2>2. 0 * d < b * l /\ (0 + 1) * d > a * l
    BY <1>4, <2>1
  <2>3. 0 \in 0 .. l - 1
    OBVIOUS
  <2> QED
    BY <1>1, <1>2, <1>3, <2>2, <2>3, TouchedFacts
<1>6. CASE a >= 0
  <2>1. PICK k \in Int : k = (a * l) \div d /\ k * d <= a * l /\ a * l < (k + 1) * d
    BY <1>4, FloorFacts
  <2>2. 0 <= a * l
    BY <1>6, SMT
  <2>3. k >= 0
    <3>1. 0 * d < (k + 1) * d
      BY <2>1, <2>2, <1>4, SMT
    <3>2. 0 < k + 1
      BY <3>1, ScaleLess
    <3> QED
      BY <3>2
  <2>4. k < l
    <3>1. k * d < l * d
      BY <2>1, <1>4, SMT
    <3> QED
      BY <3>1, ScaleLess
  <2>5. k * d < b * l /\ (k + 1) * d > a * l
    BY <2>1, <1>4, SMT
  <2>6. k \in 0 .. l - 1
    BY <2>3, <2>4
  <2> QED
    BY <1>1, <1>2, <1>3, <2>5, <2>6, TouchedFacts
<1> QED
  BY <1>2, <1>5, <1>6

-----------------------------------------------------------------------------
(* The ground of a request on a grid, and the level it is planned on.      *)

LEMMA RangesOrdered ==
  ASSUME NEW grid, NEW request, GridOK(grid), RequestOK(request)
  PROVE  /\ XRange(grid, request)[1] \in Int /\ XRange(grid, request)[2] \in Int
         /\ XRange(grid, request)[1] < XRange(grid, request)[2]
         /\ YRange(grid, request)[1] \in Int /\ YRange(grid, request)[2] \in Int
         /\ YRange(grid, request)[1] < YRange(grid, request)[2]
<1>1. /\ grid.w[1] \in Nat \ {0} /\ grid.h[1] \in Nat \ {0} /\ grid.px \in Nat \ {0}
      /\ grid.x0 \in Int /\ grid.y0 \in Int /\ grid.dir \in {-1, 1}
  BY DEF GridOK
<1>2. CASE request.te = <<>>
  <2>1. grid.w[1] * grid.px \in Nat \ {0} /\ grid.h[1] * grid.px \in Nat \ {0}
    BY <1>1, SMT
  <2> QED
    BY <1>2, <2>1 DEF XRange, YRange
<1>3. CASE request.te # <<>>
  <2>1. /\ request.te[1] \in Int /\ request.te[2] \in Int
        /\ request.te[3] \in Int /\ request.te[4] \in Int
        /\ request.te[1] < request.te[3] /\ request.te[2] < request.te[4]
    BY <1>3 DEF RequestOK
  <2>2. /\ XRange(grid, request)[1] = request.te[1] - grid.x0
        /\ XRange(grid, request)[2] = request.te[3] - grid.x0
    BY <1>3, Zenon DEF XRange
  <2>3. CASE grid.dir = 1
    <3>1. /\ YRange(grid, request)[1] = request.te[2] - grid.y0
          /\ YRange(grid, request)[2] = request.te[4] - grid.y0
      BY <1>3, <2>3, Zenon DEF YRange
    <3> QED
      BY <1>1, <2>1, <2>2, <3>1
  <2>4. CASE grid.dir # 1
    <3>1. /\ YRange(grid, request)[1] = grid.y0 - request.te[4]
          /\ YRange(grid, request)[2] = grid.y0 - request.te[2]
      BY <1>3, <2>4, Zenon DEF YRange
    <3> QED
      BY <1>1, <2>1, <2>2, <3>1
  <2> QED
    BY <2>3, <2>4
<1> QED
  BY <1>2, <1>3

LEMMA PickedInFile ==
  ASSUME NEW grid, NEW request, grid.w \in Seq(Nat \ {0}), Len(grid.w) > 0
  PROVE  PickOverview(grid, request) \in 1 .. Len(grid.w)
<1>1. DOMAIN grid.w = 1 .. Len(grid.w) /\ Len(grid.w) \in Nat /\ Len(grid.w) > 0
  OBVIOUS
<1> DEFINE ok == {l \in DOMAIN grid.w : grid.w[1] * grid.px <= request.res * grid.w[l]}
<1>2. CASE request.res < grid.px \/ ok = {}
  <2>1. PickOverview(grid, request) = 1
    BY <1>2 DEF PickOverview
  <2> QED
    BY <1>1, <2>1
<1>3. CASE ~(request.res < grid.px \/ ok = {})
  <2>1. PickOverview(grid, request) = Max(ok)
    BY <1>3 DEF PickOverview
  <2>2. ok \in SUBSET (0 .. Len(grid.w)) /\ ok \subseteq 1 .. Len(grid.w)
    BY <1>1
  <2>3. Max(ok) \in ok
    <3> HIDE DEF ok
    <3> QED
      BY <1>1, <1>3, <2>2, MaxIsGreatest
  <2> QED
    BY <2>1, <2>2, <2>3
<1> QED
  BY <1>2, <1>3

LEMMA LevelInFile ==
  ASSUME NEW grid, NEW request, grid.w \in Seq(Nat \ {0}), Len(grid.w) > 0,
         request.overview \in Nat
  PROVE  Level(grid, request) \in 1 .. Len(grid.w)
<1>1. Len(grid.w) \in Nat
  OBVIOUS
<1> QED
  BY <1>1, PickedInFile DEF Level, Larger, Smaller

(* A level that is picked, not asked for, is never coarser than the output *)
(* unless it is the full resolution: its pixels, w[1] / w[l] times as large*)
(* as those of the image, are no larger than the resolution.               *)
THEOREM PickedFineEnough ==
  ASSUME NEW grid, NEW request, GridOK(grid), RequestOK(request), request.overview = 0,
         Level(grid, request) # 1
  PROVE  grid.w[1] * grid.px <= request.res * grid.w[Level(grid, request)]
<1> DEFINE ok == {l \in DOMAIN grid.w : grid.w[1] * grid.px <= request.res * grid.w[l]}
<1>1. Level(grid, request) = PickOverview(grid, request)
  BY DEF Level
<1>2. Level(grid, request) = Max(ok) /\ ok # {}
  BY <1>1 DEF PickOverview
<1>3. Max(ok) \in ok
  <2>1. ok \in SUBSET (0 .. Len(grid.w)) /\ Len(grid.w) \in Nat
    BY DEF GridOK
  <2> HIDE DEF ok
  <2> QED
    BY <1>2, <2>1, MaxIsGreatest
<1> QED
  BY <1>2, <1>3

-----------------------------------------------------------------------------
(* The plan of a source from its own header.                               *)

Margin(request) == IF IsCopy(request) THEN 0 ELSE request.margin

(* Both axes of a plan are what the lemmas on one axis are about.          *)
LEMMA AxesOK ==
  ASSUME NEW grid, NEW request, GridOK(grid), RequestOK(request)
  PROVE  LET l == Level(grid, request)
         IN  /\ AxisOK(XRange(grid, request), grid.w[1], grid.w[l], grid.px, Margin(request))
             /\ AxisOK(YRange(grid, request), grid.h[1], grid.h[l], grid.px, Margin(request))
<1>1. PICK l : l = Level(grid, request) /\ l \in 1 .. Len(grid.w)
  BY LevelInFile DEF GridOK, RequestOK
<1>2. /\ grid.w[1] \in Nat \ {0} /\ grid.h[1] \in Nat \ {0} /\ grid.px \in Nat \ {0}
      /\ grid.w[l] \in Nat \ {0} /\ grid.h[l] \in Nat \ {0}
  BY <1>1 DEF GridOK
<1>3. Margin(request) \in Nat
  BY DEF Margin, RequestOK
<1> QED
  BY <1>1, <1>2, <1>3, RangesOrdered DEF AxisOK

(* What a plan is made of: whose it is, its nodata and what the grid says. *)
Begin(grid, request, l) ==
  [x |-> AxisOff(XRange(grid, request), grid.w[1], grid.w[l], grid.px, Margin(request)),
   y |-> AxisOff(YRange(grid, request), grid.h[1], grid.h[l], grid.px, Margin(request))]
End(grid, request, l) ==
  [x |-> AxisEnd(XRange(grid, request), grid.w[1], grid.w[l], grid.px, Margin(request)),
   y |-> AxisEnd(YRange(grid, request), grid.h[1], grid.h[l], grid.px, Margin(request))]

Empty(grid, request) ==
  LET l == Level(grid, request)
  IN  \/ End(grid, request, l).x <= Begin(grid, request, l).x
      \/ End(grid, request, l).y <= Begin(grid, request, l).y

Window(i, grid, nodata, request) ==
  LET l == Level(grid, request)
      begin == Begin(grid, request, l)
      end == End(grid, request, l)
  IN  [src |-> i, nodata |-> nodata, level |-> l, copy |-> IsCopy(request),
       xoff |-> begin.x, yoff |-> begin.y,
       xsize |-> end.x - begin.x, ysize |-> end.y - begin.y]

LEMMA PlanIsWindow ==
  ASSUME NEW i \in Nat \ {0}, NEW meta, NEW request
  PROVE  PlanFromMeta(i, meta, request) =
           IF Empty(meta.grid, request) THEN NoPlan
           ELSE Window(i, meta.grid, meta.nodata, request)
<1> DEFINE grid == meta.grid
           l == Level(grid, request)
<1>1. /\ Begin(grid, request, l).x =
           AxisOff(XRange(grid, request), grid.w[1], grid.w[l], grid.px, Margin(request))
      /\ Begin(grid, request, l).y =
           AxisOff(YRange(grid, request), grid.h[1], grid.h[l], grid.px, Margin(request))
      /\ End(grid, request, l).x =
           AxisEnd(XRange(grid, request), grid.w[1], grid.w[l], grid.px, Margin(request))
      /\ End(grid, request, l).y =
           AxisEnd(YRange(grid, request), grid.h[1], grid.h[l], grid.px, Margin(request))
  BY Zenon DEF Begin, End
<1> QED
  BY <1>1, Zenon DEF PlanFromMeta, Empty, Window, Margin

LEMMA WindowIsAPlan ==
  ASSUME NEW i \in Nat \ {0}, NEW grid, NEW nodata, NEW request
  PROVE  Window(i, grid, nodata, request) # NoPlan
  BY DEF Window, NoPlan

(* Any plan lies inside its level, not empty, and holds every pixel of it  *)
(* that the extent touches.                                                *)
THEOREM PlanHoldsExtent ==
  ASSUME NEW i \in Nat \ {0}, NEW meta, NEW request, GridOK(meta.grid), RequestOK(request),
         PlanFromMeta(i, meta, request) # NoPlan
  PROVE  /\ PlanFromMeta(i, meta, request).src = i
         /\ PlanFromMeta(i, meta, request).nodata = meta.nodata
         /\ HoldsExtent(PlanFromMeta(i, meta, request), meta.grid, request)
<1> DEFINE grid == meta.grid
           l == Level(grid, request)
           p == PlanFromMeta(i, meta, request)
           begin == Begin(grid, request, l)
           end == End(grid, request, l)
<1>1. l \in 1 .. Len(grid.w)
  BY LevelInFile DEF GridOK, RequestOK
<1>2. /\ AxisOK(XRange(grid, request), grid.w[1], grid.w[l], grid.px, Margin(request))
      /\ AxisOK(YRange(grid, request), grid.h[1], grid.h[l], grid.px, Margin(request))
  BY AxesOK
<1>3. ~(end.x <= begin.x) /\ ~(end.y <= begin.y)
  BY PlanIsWindow, Zenon DEF Empty
<1>4. /\ begin.x \in Nat /\ end.x \in Int /\ end.x <= grid.w[l]
      /\ begin.y \in Nat /\ end.y \in Int /\ end.y <= grid.h[l]
  BY <1>2, AxisType DEF Begin, End
<1>5. \A q \in 0 .. grid.w[l] - 1 :
        Touched(q, XRange(grid, request), grid.w[1], grid.w[l], grid.px) =>
          begin.x <= q /\ q < end.x
  BY <1>2, AxisHoldsTouched DEF Begin, End
<1>6. \A q \in 0 .. grid.h[l] - 1 :
        Touched(q, YRange(grid, request), grid.h[1], grid.h[l], grid.px) =>
          begin.y <= q /\ q < end.y
  BY <1>2, AxisHoldsTouched DEF Begin, End
<1>7. p = Window(i, grid, meta.nodata, request)
  BY PlanIsWindow, Zenon
<1> HIDE DEF p, l, begin, end, grid
<1>8. /\ p.src = i /\ p.nodata = meta.nodata /\ p.level = l /\ p.xoff = begin.x /\ p.yoff = begin.y
      /\ p.xsize = end.x - begin.x /\ p.ysize = end.y - begin.y
  BY <1>7 DEF Window, l, begin, end
<1>9. /\ p.xoff \in Nat /\ p.yoff \in Nat /\ p.xsize \in Nat \ {0} /\ p.ysize \in Nat \ {0}
      /\ p.xoff + p.xsize = end.x /\ p.yoff + p.ysize = end.y
  BY <1>3, <1>4, <1>8
<1>10. \A q \in 0 .. grid.w[p.level] - 1 :
         Touched(q, XRange(grid, request), grid.w[1], grid.w[p.level], grid.px) =>
           q \in p.xoff .. p.xoff + p.xsize - 1
  BY <1>4, <1>5, <1>8, <1>9
<1>11. \A q \in 0 .. grid.h[p.level] - 1 :
         Touched(q, YRange(grid, request), grid.h[1], grid.h[p.level], grid.px) =>
           q \in p.yoff .. p.yoff + p.ysize - 1
  BY <1>4, <1>6, <1>8, <1>9
<1>12. p.src = i /\ p.nodata = meta.nodata /\ HoldsExtent(p, grid, request)
  <2>1. p.level \in DOMAIN grid.w
    BY <1>1, <1>8 DEF GridOK, grid
  <2>2. p.xoff + p.xsize <= grid.w[p.level] /\ p.yoff + p.ysize <= grid.h[p.level]
    BY <1>4, <1>8, <1>9
  <2> QED
    BY <1>8, <1>9, <1>10, <1>11, <2>1, <2>2, Zenon DEF HoldsExtent
<1> QED
  BY <1>12 DEF p, grid

(* Where extent and raster have ground in common, there is a plan, at any  *)
(* level and with any margin.                                              *)
THEOREM OverlapHasPlan ==
  ASSUME NEW i \in Nat \ {0}, NEW meta, NEW request, GridOK(meta.grid), RequestOK(request),
         Overlaps(meta.grid, request)
  PROVE  PlanFromMeta(i, meta, request) # NoPlan
<1> DEFINE grid == meta.grid
           l == Level(grid, request)
           margin == Margin(request)
           xr == XRange(grid, request)
           yr == YRange(grid, request)
<1>1. /\ AxisOK(xr, grid.w[1], grid.w[l], grid.px, margin)
      /\ AxisOK(yr, grid.h[1], grid.h[l], grid.px, margin)
  BY AxesOK
<1>2. xr[1] < xr[2] /\ yr[1] < yr[2]
  BY RangesOrdered
<1>3. xr[1] < grid.w[1] * grid.px /\ xr[2] > 0 /\ yr[1] < grid.h[1] * grid.px /\ yr[2] > 0
  BY Zenon DEF Overlaps
<1>4. PICK q \in 0 .. grid.w[l] - 1 : Touched(q, xr, grid.w[1], grid.w[l], grid.px)
  BY <1>1, <1>2, <1>3, AxisSomeTouched, Zenon
<1>5. Begin(grid, request, l).x <= q /\ q < End(grid, request, l).x
  BY <1>1, <1>4, AxisHoldsTouched DEF Begin, End
<1>6. PICK s \in 0 .. grid.h[l] - 1 : Touched(s, yr, grid.h[1], grid.h[l], grid.px)
  BY <1>1, <1>2, <1>3, AxisSomeTouched, Zenon
<1>7. Begin(grid, request, l).y <= s /\ s < End(grid, request, l).y
  BY <1>1, <1>6, AxisHoldsTouched DEF Begin, End
<1>8. /\ Begin(grid, request, l).x \in Nat /\ End(grid, request, l).x \in Int
      /\ Begin(grid, request, l).y \in Nat /\ End(grid, request, l).y \in Int
  BY <1>1, AxisType DEF Begin, End
<1>9. ~Empty(grid, request)
  <2> HIDE DEF grid, l, margin, xr, yr
  <2> QED
    BY <1>5, <1>7, <1>8 DEF Empty, l
<1>10. PlanFromMeta(i, meta, request) = Window(i, meta.grid, meta.nodata, request)
  <2>1. PlanFromMeta(i, meta, request) =
          IF Empty(meta.grid, request) THEN NoPlan ELSE Window(i, meta.grid, meta.nodata, request)
    BY PlanIsWindow
  <2> QED
    BY <1>9, <2>1
<1>11. Window(i, meta.grid, meta.nodata, request) # NoPlan
  BY WindowIsAPlan
<1> QED
  BY <1>10, <1>11

-----------------------------------------------------------------------------
(* Plans are shared between the sources on one grid.                       *)

LEMMA PlannerFirst ==
  ASSUME NEW n \in Nat, NEW metas, NEW i \in 1 .. n
  PROVE  /\ Planner(metas, i) \in 1 .. i
         /\ metas[Planner(metas, i)].grid = metas[i].grid
         /\ Planner(metas, Planner(metas, i)) = Planner(metas, i)
<1> DEFINE Same(k) == {j \in 1 .. k : metas[j].grid = metas[k].grid}
<1>1. \A k \in 1 .. n : /\ Same(k) \in SUBSET Nat /\ k \in Same(k)
                        /\ Planner(metas, k) = Min(Same(k))
  BY DEF Planner
<1>2. \A k \in 1 .. n : /\ Planner(metas, k) \in Same(k)
                        /\ \A j \in Same(k) : Planner(metas, k) <= j
  <2> TAKE k \in 1 .. n
  <2>1. Same(k) \in SUBSET Nat /\ Same(k) # {} /\ Planner(metas, k) = Min(Same(k))
    BY <1>1
  <2> HIDE DEF Same
  <2> QED
    BY <2>1, MinIsLeast
<1>3. PICK p \in 1 .. i : p = Planner(metas, i) /\ metas[p].grid = metas[i].grid
  BY <1>2
<1>4. p \in 1 .. n
  BY <1>3
<1>5. PICK q \in 1 .. p : q = Planner(metas, p) /\ metas[q].grid = metas[p].grid
  BY <1>2, <1>4
<1>6. q \in Same(i)
  BY <1>3, <1>5
<1>7. p <= q
  BY <1>2, <1>3, <1>6
<1> QED
  BY <1>3, <1>5, <1>7

LEMMA SrcTaken ==
  ASSUME NEW i, NEW j, NEW n, NEW a, NEW b, NEW c, NEW d, NEW e, NEW f
  PROVE  [[src |-> j, nodata |-> n, level |-> a, copy |-> b, xoff |-> c, yoff |-> d,
           xsize |-> e, ysize |-> f] EXCEPT !.src = i]
           = [src |-> i, nodata |-> n, level |-> a, copy |-> b, xoff |-> c, yoff |-> d,
              xsize |-> e, ysize |-> f]
  OBVIOUS

LEMMA NodataTaken ==
  ASSUME NEW i, NEW n, NEW m, NEW a, NEW b, NEW c, NEW d, NEW e, NEW f
  PROVE  [[src |-> i, nodata |-> n, level |-> a, copy |-> b, xoff |-> c, yoff |-> d,
           xsize |-> e, ysize |-> f] EXCEPT !.nodata = m]
           = [src |-> i, nodata |-> m, level |-> a, copy |-> b, xoff |-> c, yoff |-> d,
              xsize |-> e, ysize |-> f]
  OBVIOUS

LEMMA WindowTaken ==
  ASSUME NEW i, NEW j, NEW grid, NEW nodata, NEW other, NEW request
  PROVE  HandedTo(Window(j, grid, other, request), i, nodata) = Window(i, grid, nodata, request)
<1> DEFINE l == Level(grid, request)
           begin == Begin(grid, request, l)
           end == End(grid, request, l)
           copy == IsCopy(request)
           xsize == end.x - begin.x
           ysize == end.y - begin.y
           fields(k, n) == [src |-> k, nodata |-> n, level |-> l, copy |-> copy,
                            xoff |-> begin.x, yoff |-> begin.y, xsize |-> xsize, ysize |-> ysize]
<1>1. \A k, n : Window(k, grid, n, request) = fields(k, n)
  BY Zenon DEF Window
<1>2. [fields(j, other) EXCEPT !.src = i] = fields(i, other)
  BY SrcTaken
<1>3. [fields(i, other) EXCEPT !.nodata = nodata] = fields(i, nodata)
  BY NodataTaken
<1> HIDE DEF fields
<1> QED
  BY <1>1, <1>2, <1>3 DEF HandedTo

(* Sharing does not show: the plan of a source is the one its own header,  *)
(* planned by itself, would give.                                          *)
THEOREM PlanShared ==
  ASSUME NEW n \in Nat, NEW metas, NEW request, NEW i \in 1 .. n
  PROVE  PlanOf(metas, request, i) = PlanFromMeta(i, metas[i], request)
<1>1. PICK j \in 1 .. i : j = Planner(metas, i) /\ metas[j].grid = metas[i].grid
  BY PlannerFirst
<1>2. i \in Nat \ {0} /\ j \in Nat \ {0}
  BY <1>1
<1>3. PICK grid : grid = metas[i].grid /\ grid = metas[j].grid
  BY <1>1
<1>4. PlanFromMeta(j, metas[j], request) =
        IF Empty(metas[j].grid, request) THEN NoPlan
        ELSE Window(j, metas[j].grid, metas[j].nodata, request)
  BY <1>2, PlanIsWindow
<1>5. PlanFromMeta(i, metas[i], request) =
        IF Empty(metas[i].grid, request) THEN NoPlan
        ELSE Window(i, metas[i].grid, metas[i].nodata, request)
  BY <1>2, PlanIsWindow
<1>6. Window(j, grid, metas[j].nodata, request) # NoPlan
  BY <1>2, WindowIsAPlan
<1>7. HandedTo(Window(j, grid, metas[j].nodata, request), i, metas[i].nodata)
        = Window(i, grid, metas[i].nodata, request)
  BY WindowTaken
<1>8. PlanOf(metas, request, i) =
        IF PlanFromMeta(j, metas[j], request) = NoPlan THEN NoPlan
        ELSE HandedTo(PlanFromMeta(j, metas[j], request), i, metas[i].nodata)
  BY <1>1, Zenon DEF PlanOf
<1>9. CASE Empty(grid, request)
  BY <1>3, <1>4, <1>5, <1>8, <1>9
<1>10. CASE ~Empty(grid, request)
  <2>1. /\ PlanFromMeta(j, metas[j], request) = Window(j, grid, metas[j].nodata, request)
        /\ PlanFromMeta(i, metas[i], request) = Window(i, grid, metas[i].nodata, request)
    BY <1>3, <1>4, <1>5, <1>10
  <2> QED
    BY <1>6, <1>7, <1>8, <2>1
<1> QED
  BY <1>9, <1>10
=============================================================================
