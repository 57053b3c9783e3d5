-------------------------- MODULE SourceOpen_proofs --------------------------
(***************************************************************************)
(* The opening of sources, for every list of URLs, every header and every  *)
(* replacement of files: a source is read through its own reader, pools    *)
(* are shared exactly by key, sources and windows are georeferenced as     *)
(* their headers say, their CRS says what the header does, and windows are *)
(* planned on their own source's grid.                                     *)
(*                                                                         *)
(* The induction runs over three invariants: TypeInv, CacheInv of the      *)
(* readers and the cache, and PlanInv of headers, metadata and plans.      *)
(***************************************************************************)
EXTENDS SourceOpen, WindowPlan_proofs

-----------------------------------------------------------------------------
(* Headers.                                                                *)

LEMMA ElementsTyped ==
  ASSUME NEW s \in Seq(Int), NEW n \in Nat, Len(s) >= n
  PROVE  \A k \in 1 .. n : s[k] \in Int
  BY SMT

(* The two forms the coefficients come in.                                 *)
LEMMA AffineIs ==
  ASSUME NEW h, HeaderOK(h), Affine(h) # Nothing
  PROVE  LET m == h.transform
             s == h.scale
             t == h.tie
         IN  \/ /\ m # Nothing
                /\ \A k \in 1 .. 16 : m[k] \in Int
                /\ Affine(h) = <<m[4], m[1], m[2], m[8], m[5], m[6]>>
             \/ /\ m = Nothing
                /\ (\A k \in 1 .. 3 : s[k] \in Int) /\ (\A k \in 1 .. 6 : t[k] \in Int)
                /\ Affine(h) = <<t[4] - t[1] * s[1], s[1], 0, t[5] + t[2] * s[2], 0, -s[2]>>
<1> DEFINE m == h.transform
           s == h.scale
           t == h.tie
<1>1. m \in Seq(Int) /\ s \in Seq(Int) /\ t \in Seq(Int)
  BY Zenon DEF HeaderOK
<1>2. Affine(h) =
        IF m # Nothing
        THEN IF Len(m) < 16 THEN Nothing ELSE <<m[4], m[1], m[2], m[8], m[5], m[6]>>
        ELSE IF Len(s) < 3 \/ Len(t) < 6 THEN Nothing
        ELSE <<t[4] - t[1] * s[1], s[1], 0, t[5] + t[2] * s[2], 0, -s[2]>>
  BY Zenon DEF Affine
<1> HIDE DEF m, s, t
<1>3. Len(m) \in Nat /\ Len(s) \in Nat /\ Len(t) \in Nat
  BY <1>1, SMT
<1>4. CASE m # Nothing
  <2>1. ~(Len(m) < 16) /\ Affine(h) = <<m[4], m[1], m[2], m[8], m[5], m[6]>>
    BY <1>2, <1>4, Zenon
  <2>2. Len(m) >= 16
    BY <2>1, <1>3, SMT
  <2>3. \A k \in 1 .. 16 : m[k] \in Int
    BY <1>1, <2>2, ElementsTyped
  <2> QED
    BY <1>4, <2>1, <2>3, Zenon DEF m
<1>5. CASE m = Nothing
  <2>1. /\ ~(Len(s) < 3) /\ ~(Len(t) < 6)
        /\ Affine(h) = <<t[4] - t[1] * s[1], s[1], 0, t[5] + t[2] * s[2], 0, -s[2]>>
    BY <1>2, <1>5, Zenon
  <2>2. Len(s) >= 3 /\ Len(t) >= 6
    BY <2>1, <1>3, SMT
  <2>3. \A k \in 1 .. 3 : s[k] \in Int
    BY <1>1, <2>2, ElementsTyped
  <2>4. \A k \in 1 .. 6 : t[k] \in Int
    BY <1>1, <2>2, ElementsTyped
  <2> QED
    BY <1>5, <2>1, <2>3, <2>4, Zenon DEF m, s, t
<1> QED
  BY <1>4, <1>5

LEMMA AffineTyped ==
  ASSUME NEW h, HeaderOK(h), Affine(h) # Nothing
  PROVE  \E a1, a2, a3, a4, a5, a6 \in Int : Affine(h) = <<a1, a2, a3, a4, a5, a6>>
<1> DEFINE m == h.transform
           s == h.scale
           t == h.tie
<1>1. CASE m # Nothing
  <2>1. /\ \A k \in 1 .. 16 : m[k] \in Int
        /\ Affine(h) = <<m[4], m[1], m[2], m[8], m[5], m[6]>>
    BY <1>1, AffineIs, Zenon
  <2> HIDE DEF m
  <2>2. m[4] \in Int /\ m[1] \in Int /\ m[2] \in Int /\ m[8] \in Int /\ m[5] \in Int /\ m[6] \in Int
    BY <2>1, SMT
  <2> QED
    BY <2>1, <2>2, Zenon
<1>2. CASE m = Nothing
  <2>1. /\ (\A k \in 1 .. 3 : s[k] \in Int) /\ (\A k \in 1 .. 6 : t[k] \in Int)
        /\ Affine(h) = <<t[4] - t[1] * s[1], s[1], 0, t[5] + t[2] * s[2], 0, -s[2]>>
    BY <1>2, AffineIs, Zenon
  <2> HIDE DEF s, t
  <2>2. /\ t[4] - t[1] * s[1] \in Int /\ s[1] \in Int /\ 0 \in Int
        /\ t[5] + t[2] * s[2] \in Int /\ -s[2] \in Int
    BY <2>1, SMT
  <2> QED
    BY <2>1, <2>2, Zenon
<1> QED
  BY <1>1, <1>2

(* The doubled coefficients, by name.                                      *)
LEMMA GeotransformIs ==
  ASSUME NEW h, HeaderOK(h), ExtractGeotransform(h) # Nothing
  PROVE  \E a1, a2, a3, a4, a5, a6 \in Int, half \in {0, 1} :
           /\ half = IF IsPoint(h) THEN 1 ELSE 0
           /\ Affine(h) = <<a1, a2, a3, a4, a5, a6>>
           /\ ExtractGeotransform(h) =
                <<2 * a1 - half * (a2 + a3), 2 * a2, 2 * a3,
                  2 * a4 - half * (a5 + a6), 2 * a5, 2 * a6>>
<1>1. Affine(h) # Nothing
  BY Zenon DEF ExtractGeotransform
<1>2. PICK a1 \in Int, a2 \in Int, a3 \in Int, a4 \in Int, a5 \in Int, a6 \in Int :
        Affine(h) = <<a1, a2, a3, a4, a5, a6>>
  BY <1>1, AffineTyped, Zenon
<1> DEFINE a == Affine(h)
           half == IF IsPoint(h) THEN 1 ELSE 0
<1>3. ExtractGeotransform(h) =
        <<2 * a[1] - half * (a[2] + a[3]), 2 * a[2], 2 * a[3],
          2 * a[4] - half * (a[5] + a[6]), 2 * a[5], 2 * a[6]>>
  BY <1>1, Zenon DEF ExtractGeotransform
<1>4. half \in {0, 1} /\ half = IF IsPoint(h) THEN 1 ELSE 0
  BY Zenon
<1>5. a = <<a1, a2, a3, a4, a5, a6>>
  BY <1>2
<1> HIDE DEF a, half
<1>6. a[1] = a1 /\ a[2] = a2 /\ a[3] = a3 /\ a[4] = a4 /\ a[5] = a5 /\ a[6] = a6
  BY <1>5, SMT
<1>7. ExtractGeotransform(h) =
        <<2 * a1 - half * (a2 + a3), 2 * a2, 2 * a3, 2 * a4 - half * (a5 + a6), 2 * a5, 2 * a6>>
  BY <1>3, <1>6, Zenon
<1> WITNESS a1 \in Int, a2 \in Int, a3 \in Int, a4 \in Int, a5 \in Int, a6 \in Int, half \in {0, 1}
<1> QED
  BY <1>2, <1>4, <1>7, Zenon

LEMMA Doubled ==
  ASSUME NEW a \in Int, NEW b \in Int, NEW d \in Int, NEW c \in Int, NEW r \in Int,
         NEW half \in {0, 1}
  PROVE  2 * (2 * a - half * (b + d)) + (2 * c + half) * (2 * b) + (2 * r + half) * (2 * d) =
           4 * (a + c * b + r * d)
<1>1. CASE half = 0
  <2>1. (2 * c) * (2 * b) = 4 * (c * b) /\ (2 * r) * (2 * d) = 4 * (r * d)
    BY SMT
  <2> QED
    BY <1>1, <2>1, SMT
<1>2. CASE half = 1
  <2>1. /\ (2 * c + 1) * (2 * b) = 4 * (c * b) + 2 * b
        /\ (2 * r + 1) * (2 * d) = 4 * (r * d) + 2 * d
    BY SMT
  <2> QED
    BY <1>2, <2>1, SMT
<1> QED
  BY <1>1, <1>2

(* The geotransform of extract_geotransform puts every tiepoint at its     *)
(* ground coordinates, in either raster convention, rotated files included.*)
THEOREM GeotransformRight ==
  ASSUME NEW h, HeaderOK(h), ExtractGeotransform(h) # Nothing
  PROVE  PlacedRight(h, ExtractGeotransform(h))
<1> DEFINE gt == ExtractGeotransform(h)
<1>1. PICK a1 \in Int, a2 \in Int, a3 \in Int, a4 \in Int, a5 \in Int, a6 \in Int, half \in {0, 1} :
        /\ half = IF IsPoint(h) THEN 1 ELSE 0
        /\ Affine(h) = <<a1, a2, a3, a4, a5, a6>>
        /\ gt = <<2 * a1 - half * (a2 + a3), 2 * a2, 2 * a3,
                  2 * a4 - half * (a5 + a6), 2 * a5, 2 * a6>>
  BY GeotransformIs, Zenon
<1> HIDE DEF gt
<1>2. ASSUME NEW t \in Tiepoints(h)
      PROVE  /\ t.c \in Int /\ t.r \in Int
             /\ a1 + t.c * a2 + t.r * a3 = t.x
             /\ a4 + t.c * a5 + t.r * a6 = t.y
  <2>0. Affine(h) # Nothing
    BY Zenon DEF ExtractGeotransform
  <2>1. CASE h.transform # Nothing
    <3> DEFINE m == h.transform
    <3>1. /\ \A k \in 1 .. 16 : m[k] \in Int
          /\ Affine(h) = <<m[4], m[1], m[2], m[8], m[5], m[6]>>
      BY <2>0, <2>1, AffineIs, Zenon
    <3>2. t \in {[c |-> 0, r |-> 0, x |-> m[4], y |-> m[8]],
                 [c |-> 1, r |-> 0, x |-> m[4] + m[1], y |-> m[8] + m[5]],
                 [c |-> 0, r |-> 1, x |-> m[4] + m[2], y |-> m[8] + m[6]]}
      BY <2>1, Zenon DEF Tiepoints
    <3> HIDE DEF m
    <3>3. <<a1, a2, a3, a4, a5, a6>> = <<m[4], m[1], m[2], m[8], m[5], m[6]>>
      BY <1>1, <3>1, Zenon
    <3>4. a1 = m[4] /\ a2 = m[1] /\ a3 = m[2] /\ a4 = m[8] /\ a5 = m[5] /\ a6 = m[6]
      BY <3>3, SMT
    <3>5. CASE t = [c |-> 0, r |-> 0, x |-> m[4], y |-> m[8]]
      BY <3>4, <3>5, SMT
    <3>6. CASE t = [c |-> 1, r |-> 0, x |-> m[4] + m[1], y |-> m[8] + m[5]]
      BY <3>4, <3>6, SMT
    <3>7. CASE t = [c |-> 0, r |-> 1, x |-> m[4] + m[2], y |-> m[8] + m[6]]
      BY <3>4, <3>7, SMT
    <3> QED
      BY <3>2, <3>5, <3>6, <3>7, Zenon
  <2>2. CASE h.transform = Nothing
    <3> DEFINE s == h.scale
               p == h.tie
    <3>1. /\ (\A k \in 1 .. 3 : s[k] \in Int) /\ (\A k \in 1 .. 6 : p[k] \in Int)
          /\ Affine(h) = <<p[4] - p[1] * s[1], s[1], 0, p[5] + p[2] * s[2], 0, -s[2]>>
      BY <2>0, <2>2, AffineIs, Zenon
    <3>2. t = [c |-> p[1], r |-> p[2], x |-> p[4], y |-> p[5]]
      BY <2>2, Zenon DEF Tiepoints
    <3> HIDE DEF s, p
    <3>0. <<a1, a2, a3, a4, a5, a6>> =
            <<p[4] - p[1] * s[1], s[1], 0, p[5] + p[2] * s[2], 0, -s[2]>>
      BY <1>1, <3>1, Zenon
    <3>3. /\ a1 = p[4] - p[1] * s[1] /\ a2 = s[1] /\ a3 = 0
          /\ a4 = p[5] + p[2] * s[2] /\ a5 = 0 /\ a6 = -s[2]
      BY <3>0, SMT
    <3>4. /\ p[1] \in Int /\ p[2] \in Int /\ p[4] \in Int /\ p[5] \in Int
          /\ s[1] \in Int /\ s[2] \in Int
      BY <3>1, SMT
    <3>5. t.c = p[1] /\ t.r = p[2] /\ t.x = p[4] /\ t.y = p[5]
      BY <3>2
    <3>6. p[2] * (-s[2]) = -(p[2] * s[2])
      BY <3>4, SMT
    <3>7. (p[1] * s[1]) \in Int /\ (p[2] * s[2]) \in Int
      BY <3>4, SMT
    <3> QED
      BY <3>3, <3>4, <3>5, <3>6, <3>7, SMT
  <2> QED
    BY <2>1, <2>2
<1>3. ASSUME NEW t \in Tiepoints(h)
      PROVE  /\ GroundX(gt, 2 * t.c + half, 2 * t.r + half) = 4 * t.x
             /\ GroundY(gt, 2 * t.c + half, 2 * t.r + half) = 4 * t.y
  <2> DEFINE c == t.c
             r == t.r
  <2>1. c \in Int /\ r \in Int
    BY <1>2
  <2> HIDE DEF c, r
  <2>2. GroundX(gt, 2 * t.c + half, 2 * t.r + half) =
          2 * (2 * a1 - half * (a2 + a3)) + (2 * t.c + half) * (2 * a2) + (2 * t.r + half) * (2 * a3)
    BY <1>1, Zenon DEF GroundX
  <2>3. GroundY(gt, 2 * t.c + half, 2 * t.r + half) =
          2 * (2 * a4 - half * (a5 + a6)) + (2 * t.c + half) * (2 * a5) + (2 * t.r + half) * (2 * a6)
    BY <1>1, Zenon DEF GroundY
  <2>4. GroundX(gt, 2 * t.c + half, 2 * t.r + half) = 4 * (a1 + t.c * a2 + t.r * a3)
    <3>1. 2 * (2 * a1 - half * (a2 + a3)) + (2 * c + half) * (2 * a2) + (2 * r + half) * (2 * a3) =
            4 * (a1 + c * a2 + r * a3)
      BY <2>1, Doubled
    <3> QED
      BY <2>2, <3>1, Zenon DEF c, r
  <2>5. GroundY(gt, 2 * t.c + half, 2 * t.r + half) = 4 * (a4 + t.c * a5 + t.r * a6)
    <3>1. 2 * (2 * a4 - half * (a5 + a6)) + (2 * c + half) * (2 * a5) + (2 * r + half) * (2 * a6) =
            4 * (a4 + c * a5 + r * a6)
      BY <2>1, Doubled
    <3> QED
      BY <2>3, <3>1, Zenon DEF c, r
  <2> QED
    BY <1>2, <2>4, <2>5, Zenon
<1> QED
  BY <1>1, <1>3, Zenon DEF PlacedRight, gt

-----------------------------------------------------------------------------
(* Windows.                                                                *)

LEMMA Stepped ==
  ASSUME NEW a \in Int, NEW f \in Int, NEW g \in Int,
         NEW xoff \in Int, NEW yoff \in Int, NEW c \in Int, NEW r \in Int
  PROVE  a + xoff * f + yoff * g + c * f + r * g = a + (xoff + c) * f + (yoff + r) * g
<1>1. (xoff + c) * f = xoff * f + c * f /\ (yoff + r) * g = yoff * g + r * g
  BY SMT
<1>2. /\ xoff * f \in Int /\ c * f \in Int /\ yoff * g \in Int /\ r * g \in Int
  BY SMT
<1> QED
  BY <1>1, <1>2, SMT

LEMMA Commuted ==
  ASSUME NEW a \in Int, NEW b \in Int, NEW d \in Int, NEW k \in Int
  PROVE  k * (a * b * d) = k * b * d * a
<1>1. a * b * d = b * d * a
  BY SMT
<1>2. k * (b * d * a) = k * b * d * a
  BY SMT
<1> QED
  BY <1>1, <1>2, Zenon

(* The window's geotransform puts its pixels where they are on the source  *)
(* if there is no skew or the level keeps the proportions of the image.    *)
THEOREM WindowPlacedRight ==
  ASSUME NEW g1 \in Int, NEW g2 \in Int, NEW g3 \in Int, NEW g4 \in Int, NEW g5 \in Int, NEW g6 \in Int,
         NEW w \in Int, NEW h \in Int, NEW wl \in Int, NEW hl \in Int,
         NEW xoff \in Int, NEW yoff \in Int, NEW c \in Int, NEW r \in Int,
         (g3 = 0 /\ g5 = 0) \/ w * hl = h * wl
  PROVE  LET gt == <<g1, g2, g3, g4, g5, g6>>
         IN  WindowPlaced(gt, WindowGt(gt, w, h, wl, hl, xoff, yoff), w, h, wl, hl, xoff, yoff, c, r)
<1> DEFINE gt == <<g1, g2, g3, g4, g5, g6>>
           o1 == g1 * wl * hl
           o2 == g2 * w * hl
           o3 == g3 * w * hl
           o4 == g4 * wl * hl
           o5 == g5 * h * wl
           o6 == g6 * h * wl
           win == <<o1 + xoff * o2 + yoff * o3, o2, o3, o4 + xoff * o5 + yoff * o6, o5, o6>>
<1>1. WindowGt(gt, w, h, wl, hl, xoff, yoff) = win
  BY Zenon DEF WindowGt
<1>2. /\ o1 \in Int /\ o2 \in Int /\ o3 \in Int /\ o4 \in Int /\ o5 \in Int /\ o6 \in Int
  BY SMT
<1>3. /\ o3 = g3 * h * wl
      /\ o5 = g5 * w * hl
  <2>1. CASE g3 = 0 /\ g5 = 0
    BY <2>1, SMT
  <2>2. CASE w * hl = h * wl
    <3>1. g3 * w * hl = g3 * (w * hl) /\ g3 * h * wl = g3 * (h * wl)
      BY SMT
    <3>2. g5 * w * hl = g5 * (w * hl) /\ g5 * h * wl = g5 * (h * wl)
      BY SMT
    <3> QED
      BY <2>2, <3>1, <3>2, Zenon
  <2> QED
    BY <2>1, <2>2
<1>4. /\ (xoff + c) * o2 = (xoff + c) * w * hl * g2
      /\ (yoff + r) * o3 = (yoff + r) * h * wl * g3
      /\ (xoff + c) * o5 = (xoff + c) * w * hl * g5
      /\ (yoff + r) * o6 = (yoff + r) * h * wl * g6
  <2>1. xoff + c \in Int /\ yoff + r \in Int
    BY SMT
  <2>2. (xoff + c) * (g2 * w * hl) = (xoff + c) * w * hl * g2
    BY <2>1, Commuted
  <2>3. (yoff + r) * (g3 * h * wl) = (yoff + r) * h * wl * g3
    BY <2>1, Commuted
  <2>4. (xoff + c) * (g5 * w * hl) = (xoff + c) * w * hl * g5
    BY <2>1, Commuted
  <2>5. (yoff + r) * (g6 * h * wl) = (yoff + r) * h * wl * g6
    BY <2>1, Commuted
  <2> QED
    BY <1>3, <2>2, <2>3, <2>4, <2>5, Zenon
<1> HIDE DEF o2, o3, o5, o6
<1>5. /\ win[1] = o1 + xoff * o2 + yoff * o3 /\ win[2] = o2 /\ win[3] = o3
      /\ win[4] = o4 + xoff * o5 + yoff * o6 /\ win[5] = o5 /\ win[6] = o6
  <2> HIDE DEF o1, o4
  <2> QED
    BY SMT
<1>6. gt[1] = g1 /\ gt[2] = g2 /\ gt[3] = g3 /\ gt[4] = g4 /\ gt[5] = g5 /\ gt[6] = g6
  BY SMT
<1> HIDE DEF gt, win
<1>7. win[1] + c * win[2] + r * win[3] =
        gt[1] * wl * hl + (xoff + c) * w * hl * gt[2] + (yoff + r) * h * wl * gt[3]
  <2>1. o1 + xoff * o2 + yoff * o3 + c * o2 + r * o3 = o1 + (xoff + c) * o2 + (yoff + r) * o3
    <3> HIDE DEF o1
    <3> QED
      BY <1>2, Stepped
  <2> QED
    BY <1>4, <1>5, <1>6, <2>1, Zenon
<1>8. win[4] + c * win[5] + r * win[6] =
        gt[4] * wl * hl + (xoff + c) * w * hl * gt[5] + (yoff + r) * h * wl * gt[6]
  <2>1. o4 + xoff * o5 + yoff * o6 + c * o5 + r * o6 = o4 + (xoff + c) * o5 + (yoff + r) * o6
    <3> HIDE DEF o4
    <3> QED
      BY <1>2, Stepped
  <2> QED
    BY <1>4, <1>5, <1>6, <2>1, Zenon
<1> QED
  BY <1>1, <1>7, <1>8, Zenon DEF WindowPlaced, gt

-----------------------------------------------------------------------------
(* What a header says of its CRS.                                          *)

LEMMA SaysSame ==
  ASSUME NEW params, NEW part, NEW keys, NEW param, NEW names,
         Said(params, param) = Said(part, param), SaysParam(part, keys, param, names)
  PROVE  SaysParam(params, keys, param, names)
  BY DEF SaysParam, Said

(* One parameter: the first key there is, or nothing.                      *)
LEMMA ParamIs ==
  ASSUME NEW keys, NEW param, NEW names, DOMAIN names \in SUBSET Nat
  PROVE  /\ \A q \in Param(keys, param, names) : q[1] = param
         /\ SaysParam(Param(keys, param, names), keys, param, names)
<1> DEFINE given == {n \in DOMAIN names : names[n] \in DOMAIN keys}
           first == Min(given)
           said == Said(Param(keys, param, names), param)
<1>1. given \in SUBSET Nat
  OBVIOUS
<1>2. CASE given = {}
  <2>1. Param(keys, param, names) = {}
    BY <1>2 DEF Param
  <2> QED
    BY <1>2, <2>1 DEF SaysParam, Said
<1>3. CASE given # {}
  <2>1. first \in given /\ \A n \in given : first <= n
    <3> HIDE DEF given
    <3> QED
      BY <1>1, <1>3, MinIsLeast
  <2>2. Param(keys, param, names) = {<<param, keys[names[first]]>>}
    BY <1>3 DEF Param
  <2> HIDE DEF given, first
  <2>3. /\ \A q \in Param(keys, param, names) : q[1] = param
        /\ said = {<<param, keys[names[first]]>>}
    BY <2>2 DEF Said
  <2>4. \A n \in given : n = first \/ first < n
    BY <1>1, <2>1
  <2> HIDE DEF said
  <2>5. \A n \in given : said = {<<param, keys[names[n]]>>} \/ \E m \in given : m < n
    BY <2>1, <2>3, <2>4
  <2>6. said # {} /\ \A q \in Param(keys, param, names) : q[1] = param
    BY <2>3
  <2> QED
    BY <1>3, <2>5, <2>6, Zenon DEF SaysParam, Said, given, said
<1> QED
  BY <1>2, <1>3

(* A parameter with one key: its value, or nothing.                        *)
LEMMA OneKey ==
  ASSUME NEW keys, NEW param, NEW key
  PROVE  Param(keys, param, <<key>>) = IF key \in DOMAIN keys THEN {<<param, keys[key]>>} ELSE {}
<1> DEFINE names == <<key>>
           given == {n \in DOMAIN names : names[n] \in DOMAIN keys}
<1>1. DOMAIN names = {1} /\ names[1] = key
  OBVIOUS
<1> HIDE DEF names
<1>2. CASE key \notin DOMAIN keys
  <2>1. given = {}
    BY <1>1, <1>2
  <2> QED
    BY <1>2, <2>1, Zenon DEF Param, names
<1>3. CASE key \in DOMAIN keys
  <2>1. given = {1}
    BY <1>1, <1>3
  <2>2. Min(given) = 1
    <3>1. given \in SUBSET Nat /\ given # {}
      BY <2>1
    <3> HIDE DEF given
    <3> QED
      BY <2>1, <3>1, MinIsLeast
  <2>3. Param(keys, param, names) = {<<param, keys[names[1]]>>}
    BY <2>1, <2>2, Zenon DEF Param
  <2> QED
    BY <1>1, <1>3, <2>3 DEF names
<1> QED
  BY <1>2, <1>3

(* The names of the parameters, by the part of the string they are from.   *)
Scales == {"k_0", "lat_ts", "lat_1", "lat_2"}
Meridians == {"pm", "pm_name"}
Axes == {"ellps", "a", "rf", "b"}

(* What a projection takes besides its origin, by its code.                *)
LEMMA ExtrasAre ==
  ASSUME NEW keys, NEW p \in Projections, IsProjection(keys, p)
  PROVE  LET extras == Extras(keys, p[3])
             code == keys["coord_trans"]
             conic == code \in {8, 11, 13}
             scaled == code \in {1, 9, 14, 16} \/ (code \in {7, 15} /\ "parallel1" \notin DOMAIN keys)
             scale == IF "scale" \in DOMAIN keys THEN keys["scale"] ELSE 1
         IN  /\ \A q \in extras : q[1] \in Scales
             /\ conic => Parallels \subseteq DOMAIN keys
             /\ SaysKey(extras, keys, "lat_1", "parallel1", conic)
             /\ SaysKey(extras, keys, "lat_2", "parallel2", conic)
             /\ SaysKey(extras, keys, "lat_ts", "parallel1", code \in {7, 15, 17, 28})
             /\ Said(extras, "k_0") = IF scaled THEN {<<"k_0", scale>>} ELSE {}
<1> DEFINE extras == Extras(keys, p[3])
           scale == IF "scale" \in DOMAIN keys THEN keys["scale"] ELSE 1
<1>1. keys["coord_trans"] = p[1] /\ (p[3] = "parallels" => Parallels \subseteq DOMAIN keys)
  BY DEF IsProjection
<1>2. /\ p[3] = "scale" => p[1] \in {1, 9, 14, 16}
      /\ p[3] = "true_scale" => p[1] \in {7, 15}
      /\ p[3] = "latitude" => p[1] \in {17, 28}
      /\ p[3] = "parallels" => p[1] \in {8, 11, 13}
      /\ p[3] = "none" => p[1] \in {10, 12, 19, 21, 24}
      /\ p[3] \in {"scale", "true_scale", "latitude", "parallels", "none"}
  BY DEF Projections
<1>3. ScaleOf(keys) = {<<"k_0", scale>>}
  BY DEF ScaleOf
<1>4. Param(keys, "lat_ts", <<"parallel1">>) =
        IF "parallel1" \in DOMAIN keys THEN {<<"lat_ts", keys["parallel1"]>>} ELSE {}
  BY OneKey
<1>5. CASE p[3] = "scale" \/ (p[3] = "true_scale" /\ "parallel1" \notin DOMAIN keys)
  <2>1. extras = {<<"k_0", scale>>}
    BY <1>3, <1>5 DEF Extras
  <2> HIDE DEF extras, scale
  <2> QED
    BY <1>1, <1>2, <1>5, <2>1 DEF SaysKey, Said, Scales, extras, scale
<1>6. CASE p[3] \in {"true_scale", "latitude"} /\ "parallel1" \in DOMAIN keys
  <2>1. extras = {<<"lat_ts", keys["parallel1"]>>}
    BY <1>4, <1>6 DEF Extras
  <2> QED
    BY <1>1, <1>2, <1>6, <2>1 DEF SaysKey, Said, Scales
<1>7. CASE p[3] = "parallels"
  <2>1. extras = {<<"lat_1", keys["parallel1"]>>, <<"lat_2", keys["parallel2"]>>}
    BY <1>7 DEF Extras
  <2>2. Parallels \subseteq DOMAIN keys /\ "parallel1" \in DOMAIN keys /\ "parallel2" \in DOMAIN keys
    BY <1>1, <1>7 DEF Parallels
  <2> QED
    BY <1>1, <1>2, <1>7, <2>1, <2>2 DEF SaysKey, Said, Scales
<1>8. CASE p[3] = "none" \/ (p[3] = "latitude" /\ "parallel1" \notin DOMAIN keys)
  <2>1. extras = {}
    BY <1>4, <1>8 DEF Extras
  <2> QED
    BY <1>1, <1>2, <1>8, <2>1 DEF SaysKey, Said
<1> QED
  BY <1>2, <1>5, <1>6, <1>7, <1>8

(* The meridian: by its name, by its longitude, or none.                   *)
LEMMA MeridianIs ==
  ASSUME NEW keys
  PROVE  LET known == "meridian" \in DOMAIN keys /\ keys["meridian"] \in 8901 .. 8913
         IN  /\ \A q \in PrimeMeridian(keys) : q[1] \in Meridians
             /\ SaysKey(PrimeMeridian(keys), keys, "pm_name", "meridian",
                        known /\ keys["meridian"] # 8901)
             /\ SaysKey(PrimeMeridian(keys), keys, "pm", "meridian_long",
                        ~known /\ keys["meridian_long"] # 0)
<1> DEFINE known == "meridian" \in DOMAIN keys /\ keys["meridian"] \in 8901 .. 8913
           code == keys["meridian"]
           long == keys["meridian_long"]
<1>1. PrimeMeridian(keys) =
        IF known THEN IF code = 8901 THEN {} ELSE {<<"pm_name", code>>}
        ELSE IF "meridian_long" \in DOMAIN keys /\ long # 0 THEN {<<"pm", long>>} ELSE {}
  BY DEF PrimeMeridian
<1>2. known => "meridian" \in DOMAIN keys
  OBVIOUS
<1> HIDE DEF known
<1> QED
  BY <1>1, <1>2 DEF SaysKey, Said, Meridians, known

(* The ellipsoid: by its name, by its axes, or WGS84.                      *)
LEMMA EllipsoidIs ==
  ASSUME NEW keys
  PROVE  LET named == "ellipsoid" \in DOMAIN keys /\ keys["ellipsoid"] \in EllipsoidNames
             axes == ~named /\ "semi_major" \in DOMAIN keys
             params == Ellipsoid(keys)
         IN  /\ \A q \in params : q[1] \in Axes
             /\ Said(params, "ellps") =
                  IF named THEN {<<"ellps", keys["ellipsoid"]>>} ELSE IF axes THEN {} ELSE {<<"ellps", 7030>>}
             /\ SaysKey(params, keys, "a", "semi_major", axes)
             /\ SaysKey(params, keys, "rf", "inv_flattening", axes)
             /\ SaysKey(params, keys, "b", "semi_minor", axes /\ "inv_flattening" \notin DOMAIN keys)
<1> DEFINE named == "ellipsoid" \in DOMAIN keys /\ keys["ellipsoid"] \in EllipsoidNames
           params == Ellipsoid(keys)
           a == <<"a", keys["semi_major"]>>
<1>1. params = IF named THEN {<<"ellps", keys["ellipsoid"]>>}
               ELSE IF "semi_major" \notin DOMAIN keys THEN {<<"ellps", 7030>>}
               ELSE {a} \cup (IF "inv_flattening" \in DOMAIN keys THEN {<<"rf", keys["inv_flattening"]>>}
                              ELSE Param(keys, "b", <<"semi_minor">>))
  BY DEF Ellipsoid
<1>2. Param(keys, "b", <<"semi_minor">>) =
        IF "semi_minor" \in DOMAIN keys THEN {<<"b", keys["semi_minor"]>>} ELSE {}
  BY OneKey
<1>3. CASE named
  BY <1>1, <1>3 DEF SaysKey, Said, Axes
<1>4. CASE ~named /\ "semi_major" \notin DOMAIN keys
  BY <1>1, <1>4 DEF SaysKey, Said, Axes
<1>5. CASE ~named /\ "semi_major" \in DOMAIN keys
  <2>1. CASE "inv_flattening" \in DOMAIN keys
    <3>1. params = {a, <<"rf", keys["inv_flattening"]>>}
      BY <1>1, <1>5, <2>1
    <3> QED
      BY <1>5, <2>1, <3>1 DEF SaysKey, Said, Axes
  <2>2. CASE "inv_flattening" \notin DOMAIN keys /\ "semi_minor" \in DOMAIN keys
    <3>1. params = {a, <<"b", keys["semi_minor"]>>}
      BY <1>1, <1>2, <1>5, <2>2
    <3> QED
      BY <1>5, <2>2, <3>1 DEF SaysKey, Said, Axes
  <2>3. CASE "inv_flattening" \notin DOMAIN keys /\ "semi_minor" \notin DOMAIN keys
    <3>1. params = {a}
      BY <1>1, <1>2, <1>5, <2>3
    <3> QED
      BY <1>5, <2>3, <3>1 DEF SaysKey, Said, Axes
  <2> QED
    BY <2>1, <2>2, <2>3
<1> QED
  BY <1>3, <1>4, <1>5

LEMMA OriginsAre ==
  ASSUME NEW keys
  PROVE  /\ DOMAIN OriginKeys = {"lon_0", "lat_0", "x_0", "y_0"}
         /\ \A q \in Origins(keys) : q[1] \in DOMAIN OriginKeys
         /\ \A o \in DOMAIN OriginKeys :
              /\ Said(Origins(keys), o) = Said(Param(keys, o, OriginKeys[o]), o)
              /\ SaysParam(Param(keys, o, OriginKeys[o]), keys, o, OriginKeys[o])
<1>1. DOMAIN OriginKeys = {"lon_0", "lat_0", "x_0", "y_0"}
  BY DEF OriginKeys
<1>2. \A o \in DOMAIN OriginKeys : DOMAIN OriginKeys[o] \in SUBSET Nat
  BY DEF OriginKeys
<1>3. \A o \in DOMAIN OriginKeys :
        /\ \A q \in Param(keys, o, OriginKeys[o]) : q[1] = o
        /\ SaysParam(Param(keys, o, OriginKeys[o]), keys, o, OriginKeys[o])
  BY <1>2, ParamIs
<1>4. \A q : q \in Origins(keys) <=> \E o \in DOMAIN OriginKeys : q \in Param(keys, o, OriginKeys[o])
  BY Zenon DEF Origins
<1>5. \A o \in DOMAIN OriginKeys : Said(Origins(keys), o) = Said(Param(keys, o, OriginKeys[o]), o)
  BY <1>3, <1>4 DEF Said
<1> QED
  BY <1>1, <1>3, <1>4, <1>5

(* The parameters of a projection, part by part.                           *)
ProjParts(keys, p) ==
  {<<"proj", p[2]>>} \cup Extras(keys, p[3]) \cup Origins(keys)
    \cup PrimeMeridian(keys) \cup Ellipsoid(keys)

LEMMA PartsSaid ==
  ASSUME NEW keys, NEW p \in Projections, IsProjection(keys, p)
  PROVE  LET params == ProjParts(keys, p)
         IN  /\ Said(params, "proj") = {<<"proj", p[2]>>}
             /\ \A o \in Scales : Said(params, o) = Said(Extras(keys, p[3]), o)
             /\ \A o \in DOMAIN OriginKeys : Said(params, o) = Said(Origins(keys), o)
             /\ \A o \in Meridians : Said(params, o) = Said(PrimeMeridian(keys), o)
             /\ \A o \in Axes : Said(params, o) = Said(Ellipsoid(keys), o)
             /\ \A q \in params : q[1] \in ParamNames
<1> DEFINE params == ProjParts(keys, p)
           proj == <<"proj", p[2]>>
<1>1. /\ \A q \in Extras(keys, p[3]) : q[1] \in Scales
      /\ \A q \in Origins(keys) : q[1] \in {"lon_0", "lat_0", "x_0", "y_0"}
      /\ \A q \in PrimeMeridian(keys) : q[1] \in Meridians
      /\ \A q \in Ellipsoid(keys) : q[1] \in Axes
      /\ DOMAIN OriginKeys = {"lon_0", "lat_0", "x_0", "y_0"}
      /\ proj[1] = "proj"
  <2>1. \A q \in Extras(keys, p[3]) : q[1] \in Scales
    BY ExtrasAre
  <2>2. /\ DOMAIN OriginKeys = {"lon_0", "lat_0", "x_0", "y_0"}
        /\ \A q \in Origins(keys) : q[1] \in DOMAIN OriginKeys
    BY OriginsAre
  <2>3. \A q \in PrimeMeridian(keys) : q[1] \in Meridians
    BY MeridianIs
  <2>4. \A q \in Ellipsoid(keys) : q[1] \in Axes
    BY EllipsoidIs
  <2>5. proj[1] = "proj"
    OBVIOUS
  <2> HIDE DEF proj
  <2> QED
    BY <2>1, <2>2, <2>3, <2>4, <2>5
<1>2. \A q : q \in params <=> \/ q = proj \/ q \in Extras(keys, p[3]) \/ q \in Origins(keys)
                              \/ q \in PrimeMeridian(keys) \/ q \in Ellipsoid(keys)
  BY DEF ProjParts
<1> HIDE DEF params, proj
<1>3. Said(params, "proj") = {proj}
  BY <1>1, <1>2 DEF Said, Scales, Meridians, Axes
<1>4. \A o \in Scales : Said(params, o) = Said(Extras(keys, p[3]), o)
  BY <1>1, <1>2 DEF Said, Scales, Meridians, Axes
<1>5. \A o \in DOMAIN OriginKeys : Said(params, o) = Said(Origins(keys), o)
  BY <1>1, <1>2 DEF Said, Scales, Meridians, Axes
<1>6. \A o \in Meridians : Said(params, o) = Said(PrimeMeridian(keys), o)
  BY <1>1, <1>2 DEF Said, Scales, Meridians, Axes
<1>7. \A o \in Axes : Said(params, o) = Said(Ellipsoid(keys), o)
  BY <1>1, <1>2 DEF Said, Scales, Meridians, Axes
<1>8. \A q \in params : q[1] \in ParamNames
  BY <1>1, <1>2 DEF ParamNames, Scales, Meridians, Axes
<1> QED
  BY <1>3, <1>4, <1>5, <1>6, <1>7, <1>8 DEF params, proj

LEMMA ProjStringSays ==
  ASSUME NEW keys, ProjectionKnown(keys)
  PROVE  /\ "coord_trans" \in DOMAIN keys
         /\ \A q \in ProjString(keys) : q[1] \in ParamNames
         /\ SaysProjection(ProjString(keys), keys) /\ SaysDatum(ProjString(keys), keys)
         /\ \A o \in DOMAIN OriginKeys : SaysParam(ProjString(keys), keys, o, OriginKeys[o])
<1> DEFINE p == CHOOSE t \in Projections : IsProjection(keys, t)
           params == ProjString(keys)
<1>1. p \in Projections /\ IsProjection(keys, p)
  BY DEF ProjectionKnown
<1>2. params = ProjParts(keys, p)
  BY DEF ProjString, ProjParts
<1> HIDE DEF p
<1>3. /\ Said(params, "proj") = {<<"proj", p[2]>>}
      /\ \A o \in Scales : Said(params, o) = Said(Extras(keys, p[3]), o)
      /\ \A o \in DOMAIN OriginKeys : Said(params, o) = Said(Origins(keys), o)
      /\ \A o \in Meridians : Said(params, o) = Said(PrimeMeridian(keys), o)
      /\ \A o \in Axes : Said(params, o) = Said(Ellipsoid(keys), o)
      /\ \A q \in params : q[1] \in ParamNames
  BY <1>1, <1>2, PartsSaid
<1> HIDE DEF params
<1>4. "coord_trans" \in DOMAIN keys /\ keys["coord_trans"] = p[1]
  BY <1>1 DEF IsProjection
<1>5. \A o \in DOMAIN OriginKeys : SaysParam(params, keys, o, OriginKeys[o])
  <2> TAKE o \in DOMAIN OriginKeys
  <2>1. Said(params, o) = Said(Param(keys, o, OriginKeys[o]), o)
    BY <1>3, OriginsAre
  <2> QED
    BY <2>1, OriginsAre, SaysSame
<1>6. SaysProjection(params, keys)
  <2>1. /\ Said(params, "k_0") = Said(Extras(keys, p[3]), "k_0")
        /\ Said(params, "lat_ts") = Said(Extras(keys, p[3]), "lat_ts")
        /\ Said(params, "lat_1") = Said(Extras(keys, p[3]), "lat_1")
        /\ Said(params, "lat_2") = Said(Extras(keys, p[3]), "lat_2")
    BY <1>3 DEF Scales
  <2>2. \E t \in Projections : t[1] = keys["coord_trans"] /\ Said(params, "proj") = {<<"proj", t[2]>>}
    BY <1>1, <1>3, <1>4
  <2> QED
    BY <1>1, <2>1, <2>2, ExtrasAre DEF SaysProjection, SaysKey
<1>7. SaysDatum(params, keys)
  <2>1. /\ Said(params, "pm") = Said(PrimeMeridian(keys), "pm")
        /\ Said(params, "pm_name") = Said(PrimeMeridian(keys), "pm_name")
        /\ Said(params, "ellps") = Said(Ellipsoid(keys), "ellps")
        /\ Said(params, "a") = Said(Ellipsoid(keys), "a")
        /\ Said(params, "rf") = Said(Ellipsoid(keys), "rf")
        /\ Said(params, "b") = Said(Ellipsoid(keys), "b")
    BY <1>3 DEF Meridians, Axes
  <2> QED
    BY <2>1, MeridianIs, EllipsoidIs DEF SaysDatum, SaysKey
<1> QED
  BY <1>3, <1>4, <1>5, <1>6, <1>7 DEF params

(* Whatever keys and citations a header has, the CRS R is given says what  *)
(* they say (resolve_src_crs): its code, its first WKT, or exactly the     *)
(* parameters its projection takes, each with the value of the right key,  *)
(* but for the two defaults: a scale of 1 and the ellipsoid WGS84.         *)
THEOREM CrsSaysWhatHeaderSays ==
  ASSUME NEW h, HeaderOK(h)
  PROVE  CrsSaysAll(h, ResolveSrcCrs(h))
<1> DEFINE wkts == {n \in DOMAIN h.cits : h.cits[n].wkt}
           crs == ResolveSrcCrs(h)
<1>1. DOMAIN h.cits \in SUBSET Nat
  <2>1. h.cits \in Seq([n : Nat, wkt : BOOLEAN])
    BY Zenon DEF HeaderOK
  <2>2. \A s : s \in Seq([n : Nat, wkt : BOOLEAN]) => DOMAIN s \in SUBSET Nat
    OBVIOUS
  <2> QED
    BY <2>1, <2>2, Zenon
<1>2. CASE EpsgUsable(h.keys)
  <2>1. crs = <<"EPSG", h.keys["epsg"]>>
    BY <1>2, Zenon DEF ResolveSrcCrs
  <2> QED
    BY <1>2, <2>1 DEF CrsSaysAll, EpsgUsable
<1>3. CASE ~EpsgUsable(h.keys) /\ wkts # {}
  <2>1. crs = <<"WKT", h.cits[Min(wkts)]>>
    BY <1>3, Zenon DEF ResolveSrcCrs
  <2>2. Min(wkts) \in wkts /\ \A m \in wkts : Min(wkts) <= m
    <3>1. wkts \in SUBSET Nat
      BY <1>1
    <3> HIDE DEF wkts
    <3> QED
      BY <1>3, <3>1, MinIsLeast
  <2>3. crs[1] = "WKT" /\ \E n \in wkts : crs[2] = h.cits[n] /\ \A m \in wkts : n <= m
    <3> HIDE DEF crs, wkts
    <3> QED
      BY <2>1, <2>2
  <2> QED
    BY <1>3, <2>3, Zenon DEF CrsSaysAll
<1>4. CASE ~EpsgUsable(h.keys) /\ wkts = {} /\ ~ProjectionKnown(h.keys)
  <2>1. crs = Nothing
    BY <1>4, Zenon DEF ResolveSrcCrs
  <2>2. \/ "coord_trans" \notin DOMAIN h.keys
        \/ \A p \in Projections : h.keys["coord_trans"] = p[1] =>
             p[1] \in {8, 11, 13} /\ ~(Parallels \subseteq DOMAIN h.keys)
    <3>1. \A p \in Projections : p[3] = "parallels" => p[1] \in {8, 11, 13}
      BY DEF Projections
    <3> QED
      BY <1>4, <3>1, Zenon DEF ProjectionKnown, IsProjection
  <2> QED
    BY <1>4, <2>1, <2>2, Zenon DEF CrsSaysAll
<1>5. CASE ~EpsgUsable(h.keys) /\ wkts = {} /\ ProjectionKnown(h.keys)
  <2>1. crs = <<"proj", ProjString(h.keys)>>
    BY <1>5, Zenon DEF ResolveSrcCrs
  <2>2. crs[1] = "proj" /\ crs[2] = ProjString(h.keys) /\ crs # Nothing
    <3> HIDE DEF crs
    <3> QED
      BY <2>1 DEF Nothing
  <2>3. /\ "coord_trans" \in DOMAIN h.keys
        /\ \A q \in crs[2] : q[1] \in ParamNames
        /\ SaysProjection(crs[2], h.keys) /\ SaysDatum(crs[2], h.keys)
        /\ \A o \in DOMAIN OriginKeys : SaysParam(crs[2], h.keys, o, OriginKeys[o])
    BY <1>5, <2>2, ProjStringSays, Zenon
  <2> QED
    BY <1>5, <2>2, <2>3, Zenon DEF CrsSaysAll
<1> QED
  BY <1>2, <1>3, <1>4, <1>5

-----------------------------------------------------------------------------
(* What is known of a call.                                                *)

LEMMA CallFacts ==
  ASSUME call \in Calls
  PROVE  /\ call.op \in Ops
         /\ Len(call.urls) \in Nat /\ Len(call.urls) > 0
         /\ Sources = 1 .. Len(call.urls) /\ 1 \in Sources
         /\ call.op = "handle" => Len(call.urls) = 1
         /\ UrlsOK(call.urls)
         /\ \A i \in Sources : call.urls[i].file \in DOMAIN call.files
         /\ \A f \in DOMAIN call.files : HeaderOK(call.files[f])
         /\ call.request.overview \in Nat /\ call.request.x \in Nat /\ call.request.y \in Nat
<1>1. /\ call.op \in Ops
      /\ call.urls \in Seq(UNION {{call.urls[i]} : i \in DOMAIN call.urls}) /\ Len(call.urls) > 0
      /\ call.op = "handle" => Len(call.urls) = 1
      /\ UrlsOK(call.urls)
      /\ \A i \in DOMAIN call.urls : call.urls[i].file \in DOMAIN call.files
      /\ \A f \in DOMAIN call.files : HeaderOK(call.files[f])
      /\ call.request.overview \in Nat /\ call.request.x \in Nat /\ call.request.y \in Nat
  BY SourceAssumption, Zenon
<1>2. Len(call.urls) \in Nat /\ DOMAIN call.urls = 1 .. Len(call.urls)
  BY <1>1, SMT
<1>3. Sources = 1 .. Len(call.urls)
  BY <1>2, Zenon DEF Sources
<1>4. 1 \in Sources
  BY <1>1, <1>2, <1>3, SMT
<1> QED
  BY <1>1, <1>2, <1>3, <1>4, Zenon DEF Sources

(* A map with one more entry.                                              *)
LEMMA AddedValue ==
  ASSUME NEW d, NEW e, NEW f
  PROVE  /\ DOMAIN Put(f, d, e) = DOMAIN f \cup {d}
         /\ Put(f, d, e)[d] = e
         /\ \A k \in DOMAIN f : k # d => Put(f, d, e)[k] = f[k]
  BY DEF Put

(* A sequence with one more element.                                       *)
LEMMA AppendedValue ==
  ASSUME NEW S, NEW s \in Seq(S), NEW e \in S
  PROVE  /\ Append(s, e) \in Seq(S)
         /\ Len(Append(s, e)) = Len(s) + 1
         /\ DOMAIN Append(s, e) = 1 .. Len(s) + 1
         /\ Append(s, e)[Len(s) + 1] = e
         /\ \A k \in DOMAIN s : k \in 1 .. Len(s) /\ Append(s, e)[k] = s[k]
  OBVIOUS

-----------------------------------------------------------------------------
(* Readers and stores.                                                     *)

(* StoreFor, with the environment as a parameter.                          *)
StoreUnder(u, user, ambient) ==
  LET inUser == u.scheme \in {"abfs", "abfss"} /\ user # ""
  IN  [scheme |-> u.scheme, host |-> u.host, port |-> u.port,
       user |-> IF inUser THEN "" ELSE user,
       container |-> IF inUser THEN user ELSE IF u.azure THEN u.container ELSE "",
       settings |-> IF AzureSasOpt(u) = Nothing THEN ambient
                    ELSE Put(ambient, "sas", AzureSasOpt(u)[1])]
StoreWith(u, ambient) == StoreUnder(u, u.user, ambient)

LEMMA StoreIs ==
  ASSUME NEW u
  PROVE  StoreOf(u) = StoreWith(u, call.ambient)
  BY Zenon DEF StoreOf, StoreFor, StoreWith, StoreUnder, AssembleStoreOpts

(* With one key, two URLs have one store but for the user.                 *)
LEMMA KeyDecides ==
  ASSUME call \in Calls, NEW i \in Sources, NEW j \in Sources,
         StoreKey(call.urls[j]) = StoreKey(call.urls[i])
  PROVE  StoreOf(call.urls[j]) = StoreFor(call.urls[i], call.urls[j].user)
<1> DEFINE u == call.urls[i]
           v == call.urls[j]
<1>1. /\ u.scheme = v.scheme /\ u.host = v.host /\ u.port = v.port
      /\ u.container = v.container /\ u.query = v.query
  BY SMT DEF StoreKey
<1>2. u.azure = v.azure /\ u.keys = v.keys
  BY <1>1, CallFacts, Zenon DEF UrlsOK, Sources
<1>3. AssembleStoreOpts(v) = AssembleStoreOpts(u)
  BY <1>1, <1>2, Zenon DEF AssembleStoreOpts, AzureSasOpt
<1> QED
  BY <1>1, <1>2, <1>3, Zenon DEF StoreOf, StoreFor

(* A signed Azure URL's store signs with the account key of the            *)
(* environment if it has one, and else as the URL does.                    *)
LEMMA SignedAs ==
  ASSUME NEW u, NEW user, AzureSasOpt(u) # Nothing
  PROVE  Credential(StoreFor(u, user)) =
           IF "access_key" \in DOMAIN call.ambient
           THEN <<"access_key", call.ambient["access_key"]>> ELSE <<"sas", u.query>>
<1> DEFINE settings == Put(call.ambient, "sas", u.query)
<1>1. AzureSasOpt(u)[1] = u.query
  BY DEF AzureSasOpt
<1>2. StoreFor(u, user).settings = settings
  BY <1>1 DEF StoreFor, AssembleStoreOpts
<1>3. /\ DOMAIN settings = DOMAIN call.ambient \cup {"sas"}
      /\ settings["sas"] = u.query
      /\ "access_key" \in DOMAIN call.ambient => settings["access_key"] = call.ambient["access_key"]
  BY SMT DEF Put
<1> HIDE DEF settings
<1>4. /\ ("access_key" \in DOMAIN settings) <=> ("access_key" \in DOMAIN call.ambient)
      /\ "sas" \in DOMAIN settings
  BY <1>3
<1> QED
  BY <1>2, <1>3, <1>4, Zenon DEF Credential

-----------------------------------------------------------------------------
(* The invariants of types and of the cache.                               *)

AllReaders(urls, ambient) ==
  {SignedReader(urls[i], p) : i \in DOMAIN urls, p \in Nat}
    \cup {StoreReader(StoreWith(urls[i], ambient), p) : i \in DOMAIN urls, p \in Nat}

(* A store of the cache was built for one of the sources opened so far,    *)
(* and is the one that is read through.                                    *)
StoresBuilt ==
  \A k \in DOMAIN stores :
    \E j \in DOMAIN readers :
      /\ ~IsPresignedHttp(call.urls[j]) /\ call.urls[j].scheme # ""
      /\ StoreKey(call.urls[j]) = k
      /\ stores[k] = [store |-> StoreWith(call.urls[j], call.ambient), pool |-> readers[j].pool]

TypeInv ==
  /\ SourceTypeOK
  /\ readers \in Seq(AllReaders(call.urls, call.ambient))
  /\ \A j \in DOMAIN readers : readers[j].pool \in 1 .. pools
  /\ StoresBuilt

(* A reader is for its URL, or for one with the same key before it.        *)
ReaderFor(i) ==
  IF IsPresignedHttp(call.urls[i])
  THEN readers[i].kind = "signed" /\ readers[i].query = call.urls[i].query
  ELSE /\ readers[i].kind = "store"
       /\ \E j \in 1 .. i :
            /\ StoreKey(call.urls[j]) = StoreKey(call.urls[i])
            /\ readers[i].store = StoreWith(call.urls[j], call.ambient)

(* What tells whether two URLs share a pool.                               *)
Shared(u, v) ==
  \/ IsPresignedHttp(u) /\ IsPresignedHttp(v)
  \/ /\ ~IsPresignedHttp(u) /\ ~IsPresignedHttp(v)
     /\ u.scheme # "" /\ StoreKey(u) = StoreKey(v)

(* The client's pool is that of the signed readers and of no other, and    *)
(* a store that can be shared is in the cache.                             *)
PoolKnown(i) ==
  IF IsPresignedHttp(call.urls[i]) THEN readers[i].pool = client /\ client # 0
  ELSE /\ readers[i].pool # client
       /\ call.urls[i].scheme # "" => StoreKey(call.urls[i]) \in DOMAIN stores

CacheInv ==
  /\ \A i \in DOMAIN readers : ReaderFor(i)
  /\ Cached => \A i \in DOMAIN readers : PoolKnown(i)
  /\ Cached => \A i, j \in DOMAIN readers :
                 readers[i].pool = readers[j].pool <=> i = j \/ Shared(call.urls[i], call.urls[j])

LEMMA ReaderKnown ==
  ASSUME NEW urls, NEW ambient, NEW i \in DOMAIN urls, NEW p \in Nat
  PROVE  /\ SignedReader(urls[i], p) \in AllReaders(urls, ambient)
         /\ StoreReader(StoreWith(urls[i], ambient), p) \in AllReaders(urls, ambient)
  BY SMT DEF AllReaders

LEMMA NextIsSource ==
  ASSUME TypeInv, Opening
  PROVE  Len(readers) + 1 \in DOMAIN call.urls /\ DOMAIN readers \subseteq DOMAIN call.urls
<1>1. call \in Calls /\ readers \in Seq(AllReaders(call.urls, call.ambient))
  BY Zenon DEF TypeInv, SourceTypeOK
<1>2. DOMAIN call.urls = 1 .. Len(call.urls) /\ Len(call.urls) \in Nat
  BY <1>1, CallFacts, Zenon DEF Sources
<1>3. Len(readers) \in Nat /\ DOMAIN readers = 1 .. Len(readers)
  BY <1>1, SMT
<1>4. Len(readers) < Len(call.urls)
  BY Zenon DEF Opening
<1> QED
  BY <1>2, <1>3, <1>4, SMT

LEMMA SharedSymmetric ==
  ASSUME NEW u, NEW v
  PROVE  Shared(u, v) <=> Shared(v, u)
<1>1. StoreKey(u) = StoreKey(v) => u.scheme = v.scheme
  BY SMT DEF StoreKey
<1> QED
  BY <1>1, Zenon DEF Shared

(* A source that is opened gets a reader of its own making, of a pool that *)
(* is new or known.                                                        *)
LEMMA ReaderAdded ==
  ASSUME TypeInv, Opening, NEW reader \in AllReaders(call.urls, call.ambient), AddReader(reader)
  PROVE  /\ readers' \in Seq(AllReaders(call.urls, call.ambient))
         /\ Len(readers') = Len(readers) + 1 /\ Len(readers') <= Len(call.urls)
         /\ DOMAIN readers = 1 .. Len(readers)
         /\ DOMAIN readers' = DOMAIN readers \cup {Len(readers) + 1}
         /\ Len(readers) + 1 \in Sources /\ Len(readers) \in Nat
         /\ Len(readers) + 1 \notin DOMAIN readers
         /\ readers'[Len(readers) + 1] = reader
         /\ \A k \in DOMAIN readers : readers'[k] = readers[k]
         /\ call' = call
<1> DEFINE S == AllReaders(call.urls, call.ambient)
<1>1. readers' = Append(readers, reader) /\ call' = call
  BY Zenon DEF AddReader
<1>2. readers \in Seq(S) /\ call \in Calls /\ reader \in S
  BY Zenon DEF TypeInv, SourceTypeOK
<1> HIDE DEF S
<1>3. Len(readers) \in Nat /\ DOMAIN readers = 1 .. Len(readers) /\ Len(readers) < Len(call.urls)
  BY <1>2, SMT DEF Opening
<1>4. /\ Append(readers, reader) \in Seq(S)
      /\ Len(Append(readers, reader)) = Len(readers) + 1
      /\ DOMAIN Append(readers, reader) = 1 .. Len(readers) + 1
      /\ Append(readers, reader)[Len(readers) + 1] = reader
      /\ \A k \in DOMAIN readers : Append(readers, reader)[k] = readers[k]
  BY <1>2, AppendedValue
<1>5. Sources = 1 .. Len(call.urls) /\ Len(call.urls) \in Nat
  BY <1>2, CallFacts, Zenon
<1>6. /\ Len(readers) + 1 \in Sources /\ Len(readers) + 1 <= Len(call.urls)
      /\ 1 .. Len(readers) + 1 = 1 .. Len(readers) \cup {Len(readers) + 1}
      /\ Len(readers) + 1 \notin 1 .. Len(readers)
  BY <1>3, <1>5, SMT
<1> QED
  BY <1>1, <1>3, <1>4, <1>6, Zenon DEF S

(* The four steps that open something; every other leaves it as it is.     *)
LEMMA OnlyOpening ==
  ASSUME SourceNext
  PROVE  /\ call' = call
         /\ OpenSigned \/ OpenFresh \/ OpenCached \/ Reopen \/ UNCHANGED opened
<1>1. CASE GetRuntime \/ RuntimeFails \/ OpenFails \/ HeaderFails \/ BuildMetas \/ Plan \/ PlanFails
           \/ FetchWindows \/ Replace
  BY <1>1 DEF GetRuntime, RuntimeFails, OpenFails, HeaderFails, BuildMetas, Plan, PlanFails,
     FetchWindows, Replace
<1>2. CASE OpenSigned \/ OpenFresh \/ OpenCached
  BY <1>2 DEF OpenSigned, OpenFresh, OpenCached, AddReader
<1>3. CASE Reopen
  BY <1>3 DEF Reopen
<1>4. ASSUME NEW i \in Sources, ReadHeader(i) PROVE call' = call /\ UNCHANGED opened
  BY <1>4 DEF ReadHeader
<1> QED
  BY <1>1, <1>2, <1>3, <1>4 DEF SourceNext

(* What opening a source by itself adds: a reader of a new pool.           *)
LEMMA OpenSignedIs ==
  ASSUME TypeInv, OpenSigned
  PROVE  LET u == call.urls[Len(readers) + 1]
         IN  \E pool \in 1 .. pools' :
               /\ Opening /\ IsPresignedHttp(u)
               /\ SignedReader(u, pool) \in AllReaders(call.urls, call.ambient)
               /\ AddReader(SignedReader(u, pool))
               /\ pools' \in Nat /\ pools' >= pools /\ UNCHANGED stores
               /\ client' = IF Cached THEN pool ELSE client
               /\ \/ Cached /\ client # 0 /\ pool = client /\ pools' = pools
                  \/ ~(Cached /\ client # 0) /\ pool = pools + 1 /\ pools' = pools + 1
<1> DEFINE u == call.urls[Len(readers) + 1]
           found == Cached /\ client # 0
           pool == IF found THEN client ELSE pools + 1
<1>1. /\ Opening /\ IsPresignedHttp(u) /\ UNCHANGED stores
      /\ AddReader(SignedReader(u, pool))
      /\ pools' = (IF found THEN pools ELSE pools + 1)
      /\ client' = IF Cached THEN pool ELSE client
  BY Zenon DEF OpenSigned, NextUrl
<1>2. call \in Calls /\ pools \in Nat /\ client \in 0 .. pools /\ readers \in Seq(AllReaders(call.urls, call.ambient))
  BY Zenon DEF TypeInv, SourceTypeOK
<1>3. pools' \in Nat /\ pools' >= pools /\ pool \in 1 .. pools'
  <2>1. CASE found
    BY <1>1, <1>2, <2>1, SMT
  <2>2. CASE ~found
    BY <1>1, <1>2, <2>2, SMT
  <2> QED
    BY <2>1, <2>2
<1>4. Len(readers) + 1 \in DOMAIN call.urls
  BY <1>1, NextIsSource, Zenon
<1>5. pool \in Nat
  BY <1>2, <1>3, SMT
<1>6. SignedReader(u, pool) \in AllReaders(call.urls, call.ambient)
  <2> HIDE DEF pool
  <2> QED
    BY <1>4, <1>5, ReaderKnown, Zenon
<1>7. \/ Cached /\ client # 0 /\ pool = client /\ pools' = pools
      \/ ~(Cached /\ client # 0) /\ pool = pools + 1 /\ pools' = pools + 1
  BY <1>1, Zenon
<1> HIDE DEF found, pool
<1> QED
  BY <1>1, <1>3, <1>6, <1>7, Zenon

LEMMA OpenFreshIs ==
  ASSUME TypeInv, OpenFresh
  PROVE  LET u == call.urls[Len(readers) + 1]
             reader == StoreReader(StoreWith(u, call.ambient), pools + 1)
         IN  /\ Opening /\ ~IsPresignedHttp(u) /\ (~Cached \/ u.scheme = "")
             /\ reader \in AllReaders(call.urls, call.ambient) /\ AddReader(reader)
             /\ pools \in Nat /\ pools' = pools + 1 /\ UNCHANGED <<stores, client>>
<1> DEFINE u == call.urls[Len(readers) + 1]
           reader == StoreReader(StoreWith(u, call.ambient), pools + 1)
<1>1. /\ Opening /\ ~IsPresignedHttp(u) /\ (~Cached \/ u.scheme = "")
      /\ AddReader(StoreReader(StoreOf(u), pools + 1))
      /\ pools' = pools + 1 /\ stores' = stores /\ client' = client
  BY Zenon DEF OpenFresh, NextUrl
<1>2. AddReader(reader)
  BY <1>1, StoreIs, Zenon
<1>3. call \in Calls /\ pools \in Nat /\ readers \in Seq(AllReaders(call.urls, call.ambient))
  BY Zenon DEF TypeInv, SourceTypeOK
<1>4. Len(readers) + 1 \in DOMAIN call.urls
  BY <1>1, NextIsSource, Zenon
<1>5. pools + 1 \in Nat
  BY <1>3, SMT
<1>6. reader \in AllReaders(call.urls, call.ambient)
  BY <1>4, <1>5, ReaderKnown, Zenon
<1> QED
  BY <1>1, <1>2, <1>3, <1>6, Zenon

(* From the cache: the store of a source before it, or a new one.          *)
LEMMA OpenCachedIs ==
  ASSUME TypeInv, OpenCached
  PROVE  LET u == call.urls[Len(readers) + 1]
             reader(j, pool) == StoreReader(StoreWith(call.urls[j], call.ambient), pool)
         IN  /\ Opening /\ Cached /\ ~IsPresignedHttp(u) /\ u.scheme # "" /\ UNCHANGED client
             /\ pools \in Nat
             /\ \/ /\ StoreKey(u) \in DOMAIN stores
                   /\ pools' = pools
                   /\ \E j \in DOMAIN readers :
                        /\ ~IsPresignedHttp(call.urls[j]) /\ call.urls[j].scheme # ""
                        /\ StoreKey(call.urls[j]) = StoreKey(u)
                        /\ reader(j, readers[j].pool) \in AllReaders(call.urls, call.ambient)
                        /\ AddReader(reader(j, readers[j].pool))
                        /\ stores' = Put(stores, StoreKey(u),
                                         [store |-> StoreWith(call.urls[j], call.ambient),
                                          pool |-> readers[j].pool])
                \/ /\ StoreKey(u) \notin DOMAIN stores
                   /\ pools' = pools + 1
                   /\ reader(Len(readers) + 1, pools + 1) \in AllReaders(call.urls, call.ambient)
                   /\ AddReader(reader(Len(readers) + 1, pools + 1))
                   /\ stores' = Put(stores, StoreKey(u),
                                    [store |-> StoreWith(u, call.ambient), pool |-> pools + 1])
<1> DEFINE n == Len(readers) + 1
           u == call.urls[n]
           found == StoreKey(u) \in DOMAIN stores
           entry == IF found THEN stores[StoreKey(u)]
                    ELSE [store |-> StoreOf(u), pool |-> pools + 1]
<1>1. /\ Opening /\ Cached /\ ~IsPresignedHttp(u) /\ u.scheme # "" /\ client' = client
      /\ AddReader(StoreReader(entry.store, entry.pool))
      /\ stores' = Put(stores, StoreKey(u), entry)
      /\ pools' = IF found THEN pools ELSE pools + 1
  BY Zenon DEF OpenCached, NextUrl
<1>2. call \in Calls /\ pools \in Nat /\ readers \in Seq(AllReaders(call.urls, call.ambient))
  BY Zenon DEF TypeInv, SourceTypeOK
<1>3. n \in DOMAIN call.urls /\ DOMAIN readers \subseteq DOMAIN call.urls
  BY <1>1, NextIsSource, Zenon
<1>4. CASE found
  <2>1. PICK j \in DOMAIN readers :
          /\ ~IsPresignedHttp(call.urls[j]) /\ call.urls[j].scheme # ""
          /\ StoreKey(call.urls[j]) = StoreKey(u)
          /\ stores[StoreKey(u)] = [store |-> StoreWith(call.urls[j], call.ambient), pool |-> readers[j].pool]
    BY <1>4, Zenon DEF TypeInv, StoresBuilt
  <2>2. entry = [store |-> StoreWith(call.urls[j], call.ambient), pool |-> readers[j].pool]
    BY <1>4, <2>1, Zenon
  <2> HIDE DEF entry
  <2>3. entry.store = StoreWith(call.urls[j], call.ambient) /\ entry.pool = readers[j].pool
    BY <2>2
  <2>4. readers[j].pool \in Nat
    <3>1. readers[j].pool \in 1 .. pools
      BY Zenon DEF TypeInv
    <3> QED
      BY <3>1, <1>2, SMT
  <2>5. StoreReader(StoreWith(call.urls[j], call.ambient), readers[j].pool) \in AllReaders(call.urls, call.ambient)
    BY <1>3, <2>4, ReaderKnown, Zenon
  <2> HIDE DEF n
  <2>6. pools' = pools
    BY <1>1, <1>4, Zenon
  <2>7. /\ AddReader(StoreReader(StoreWith(call.urls[j], call.ambient), readers[j].pool))
        /\ stores' = Put(stores, StoreKey(u),
                         [store |-> StoreWith(call.urls[j], call.ambient), pool |-> readers[j].pool])
    BY <1>1, <2>2, <2>3, Zenon
  <2> QED
    BY <1>1, <1>2, <1>4, <2>1, <2>5, <2>6, <2>7, Zenon DEF n
<1>5. CASE ~found
  <2>1. entry = [store |-> StoreWith(u, call.ambient), pool |-> pools + 1]
    BY <1>5, StoreIs, Zenon
  <2> HIDE DEF entry
  <2>2. entry.store = StoreWith(u, call.ambient) /\ entry.pool = pools + 1
    BY <2>1
  <2>3. pools + 1 \in Nat
    BY <1>2, SMT
  <2>4. StoreReader(StoreWith(u, call.ambient), pools + 1) \in AllReaders(call.urls, call.ambient)
    BY <1>3, <2>3, ReaderKnown, Zenon
  <2>5. /\ AddReader(StoreReader(StoreWith(u, call.ambient), pools + 1))
        /\ stores' = Put(stores, StoreKey(u), [store |-> StoreWith(u, call.ambient), pool |-> pools + 1])
        /\ pools' = pools + 1
    BY <1>1, <1>5, <2>1, <2>2, Zenon
  <2> QED
    BY <1>1, <1>2, <1>5, <2>4, <2>5, Zenon
<1> QED
  BY <1>4, <1>5

-----------------------------------------------------------------------------
(* Types are kept.                                                         *)

(* A map whose stores were built by the readers stays one with a reader    *)
(* more.                                                                   *)
LEMMA BuiltKept ==
  ASSUME TypeInv, Opening, NEW reader \in AllReaders(call.urls, call.ambient), AddReader(reader),
         NEW k \in DOMAIN stores
  PROVE  \E j \in DOMAIN readers' :
           /\ ~IsPresignedHttp(call.urls[j]) /\ call.urls[j].scheme # ""
           /\ StoreKey(call.urls[j]) = k
           /\ stores[k] = [store |-> StoreWith(call.urls[j], call.ambient), pool |-> readers'[j].pool]
<1>1. PICK j \in DOMAIN readers :
        /\ ~IsPresignedHttp(call.urls[j]) /\ call.urls[j].scheme # ""
        /\ StoreKey(call.urls[j]) = k
        /\ stores[k] = [store |-> StoreWith(call.urls[j], call.ambient), pool |-> readers[j].pool]
  BY Zenon DEF TypeInv, StoresBuilt
<1>2. j \in DOMAIN readers' /\ readers'[j] = readers[j]
  BY ReaderAdded, Zenon
<1> QED
  BY <1>1, <1>2, Zenon

LEMMA IntervalGrows ==
  ASSUME NEW a \in Nat, NEW b \in Nat, b >= a
  PROVE  1 .. a \subseteq 1 .. b
  OBVIOUS

LEMMA AddedTyped ==
  ASSUME TypeInv, Opening, NEW reader \in AllReaders(call.urls, call.ambient), AddReader(reader),
         pools' \in Nat, pools' >= pools, client' \in 0 .. pools', reader.pool \in 1 .. pools',
         \A k \in DOMAIN stores' :
           \E j \in DOMAIN readers' :
             /\ ~IsPresignedHttp(call.urls[j]) /\ call.urls[j].scheme # ""
             /\ StoreKey(call.urls[j]) = k
             /\ stores'[k] = [store |-> StoreWith(call.urls[j], call.ambient), pool |-> readers'[j].pool]
  PROVE  TypeInv'
<1>1. /\ readers' \in Seq(AllReaders(call.urls, call.ambient))
      /\ Len(readers') <= Len(call.urls)
      /\ DOMAIN readers' = DOMAIN readers \cup {Len(readers) + 1}
      /\ readers'[Len(readers) + 1] = reader
      /\ \A k \in DOMAIN readers : readers'[k] = readers[k]
      /\ call' = call
  BY ReaderAdded, Zenon
<1>2. SourceTypeOK'
  <2>1. /\ UNCHANGED <<call, runtime, files, replaced, headers, metas, plans>>
        /\ phase' \in {"headers", "readers"}
    BY DEF AddReader, world
  <2>2. SourceTypeOK
    BY Zenon DEF TypeInv
  <2> QED
    BY <1>1, <2>1, <2>2 DEF SourceTypeOK, Sources, Ended
<1>3. \A j \in DOMAIN readers' : readers'[j].pool \in 1 .. pools'
  <2>1. \A j \in DOMAIN readers : readers[j].pool \in 1 .. pools
    BY Zenon DEF TypeInv
  <2>2. pools \in Nat
    BY Zenon DEF TypeInv, SourceTypeOK
  <2>3. 1 .. pools \subseteq 1 .. pools'
    BY <2>2, IntervalGrows, Zenon
  <2> QED
    BY <1>1, <2>1, <2>3, Zenon
<1>4. StoresBuilt'
  BY <1>1, Zenon DEF StoresBuilt
<1>5. readers' \in Seq(AllReaders(call'.urls, call'.ambient))
  BY <1>1, Zenon
<1> QED
  BY <1>2, <1>3, <1>4, <1>5, Zenon DEF TypeInv

LEMMA TypeInit ==
  ASSUME SourceInit
  PROVE  TypeInv
<1>1. SourceTypeOK
  <2>1. call \in Calls
    BY Zenon DEF SourceInit
  <2>2. Len(call.urls) \in Nat
    BY <2>1, CallFacts, Zenon
  <2>3. MaxReplaced \in Nat
    BY SourceAssumption, Zenon
  <2> QED
    BY <2>1, <2>2, <2>3 DEF SourceInit, SourceTypeOK, Nothing, Sources
<1>2. readers = <<>> /\ stores = <<>>
  BY DEF SourceInit, Nothing
<1> QED
  BY <1>1, <1>2 DEF TypeInv, StoresBuilt

LEMMA TypeStep ==
  ASSUME TypeInv, [SourceNext]_sourceVars
  PROVE  TypeInv'
<1>1. CASE OpenSigned
  <2>1. PICK pool \in 1 .. pools' :
          /\ Opening
          /\ SignedReader(call.urls[Len(readers) + 1], pool) \in AllReaders(call.urls, call.ambient)
          /\ AddReader(SignedReader(call.urls[Len(readers) + 1], pool))
          /\ pools' \in Nat /\ pools' >= pools /\ UNCHANGED stores
          /\ client' = IF Cached THEN pool ELSE client
    BY <1>1, OpenSignedIs, Zenon
  <2>2. client' \in 0 .. pools'
    <3>1. client \in 0 .. pools /\ pools \in Nat
      BY Zenon DEF TypeInv, SourceTypeOK
    <3> QED
      BY <2>1, <3>1, SMT
  <2>3. SignedReader(call.urls[Len(readers) + 1], pool).pool = pool
    BY SMT DEF SignedReader
  <2>4. \A k \in DOMAIN stores' :
          \E j \in DOMAIN readers' :
            /\ ~IsPresignedHttp(call.urls[j]) /\ call.urls[j].scheme # ""
            /\ StoreKey(call.urls[j]) = k
            /\ stores'[k] = [store |-> StoreWith(call.urls[j], call.ambient), pool |-> readers'[j].pool]
    BY <2>1, BuiltKept, Zenon
  <2> QED
    BY <2>1, <2>2, <2>3, <2>4, AddedTyped, Zenon
<1>2. CASE OpenFresh
  <2> DEFINE reader == StoreReader(StoreWith(call.urls[Len(readers) + 1], call.ambient), pools + 1)
  <2>1. /\ Opening /\ reader \in AllReaders(call.urls, call.ambient) /\ AddReader(reader)
        /\ pools \in Nat /\ pools' = pools + 1 /\ UNCHANGED <<stores, client>>
    BY <1>2, OpenFreshIs, Zenon
  <2>2. reader.pool = pools + 1
    BY SMT DEF StoreReader
  <2> HIDE DEF reader
  <2>3. client \in 0 .. pools
    BY Zenon DEF TypeInv, SourceTypeOK
  <2>4. /\ pools' \in Nat /\ pools' >= pools /\ client' \in 0 .. pools' /\ reader.pool \in 1 .. pools'
    BY <2>1, <2>2, <2>3, SMT
  <2>5. \A k \in DOMAIN stores' :
          \E j \in DOMAIN readers' :
            /\ ~IsPresignedHttp(call.urls[j]) /\ call.urls[j].scheme # ""
            /\ StoreKey(call.urls[j]) = k
            /\ stores'[k] = [store |-> StoreWith(call.urls[j], call.ambient), pool |-> readers'[j].pool]
    BY <2>1, BuiltKept, Zenon
  <2> QED
    BY <2>1, <2>4, <2>5, AddedTyped, Zenon
<1>3. CASE OpenCached
  <2> DEFINE u == call.urls[Len(readers) + 1]
             Store(j) == StoreWith(call.urls[j], call.ambient)
  <2>1. /\ Opening /\ ~IsPresignedHttp(u) /\ u.scheme # "" /\ client' = client /\ pools \in Nat
        /\ client \in 0 .. pools
    BY <1>3, OpenCachedIs, Zenon DEF TypeInv, SourceTypeOK
  <2>2. CASE StoreKey(u) \in DOMAIN stores
    <3>1. /\ pools' = pools
          /\ \E j \in DOMAIN readers :
               /\ ~IsPresignedHttp(call.urls[j]) /\ call.urls[j].scheme # ""
               /\ StoreKey(call.urls[j]) = StoreKey(u)
               /\ StoreReader(Store(j), readers[j].pool) \in AllReaders(call.urls, call.ambient)
               /\ AddReader(StoreReader(Store(j), readers[j].pool))
               /\ stores' = Put(stores, StoreKey(u), [store |-> Store(j), pool |-> readers[j].pool])
      BY <1>3, <2>2, OpenCachedIs, Zenon
    <3>2. PICK j \in DOMAIN readers :
            /\ ~IsPresignedHttp(call.urls[j]) /\ call.urls[j].scheme # ""
            /\ StoreKey(call.urls[j]) = StoreKey(u)
            /\ StoreReader(Store(j), readers[j].pool) \in AllReaders(call.urls, call.ambient)
            /\ AddReader(StoreReader(Store(j), readers[j].pool))
            /\ stores' = Put(stores, StoreKey(u), [store |-> Store(j), pool |-> readers[j].pool])
      BY <3>1
    <3>3. StoreReader(Store(j), readers[j].pool).pool = readers[j].pool
      BY SMT DEF StoreReader
    <3>4. readers[j].pool \in 1 .. pools'
      BY <3>1, <3>2, Zenon DEF TypeInv
    <3>8. pools' \in Nat /\ pools' >= pools /\ client' \in 0 .. pools'
      <4>1. pools' = pools /\ client' = client /\ client \in 0 .. pools /\ pools \in Nat
        BY <2>1, <3>1, Zenon
      <4> QED
        BY <4>1, SMT
    <3>5. /\ DOMAIN stores' = DOMAIN stores \cup {StoreKey(u)}
          /\ stores'[StoreKey(u)] = [store |-> Store(j), pool |-> readers[j].pool]
          /\ \A k \in DOMAIN stores : k # StoreKey(u) => stores'[k] = stores[k]
      <4> DEFINE key == StoreKey(u)
                 entry == [store |-> Store(j), pool |-> readers[j].pool]
      <4>1. stores' = Put(stores, key, entry)
        BY <3>2, Zenon
      <4> HIDE DEF key, entry
      <4>2. /\ DOMAIN stores' = DOMAIN stores \cup {key} /\ stores'[key] = entry
            /\ \A k \in DOMAIN stores : k # key => stores'[k] = stores[k]
        BY <4>1, SMT DEF Put
      <4> QED
        BY <4>2, Zenon DEF key, entry
    <3>6. j \in DOMAIN readers' /\ readers'[j] = readers[j]
      BY <2>1, <3>2, ReaderAdded, Zenon
    <3>7. ASSUME NEW k \in DOMAIN stores'
          PROVE  \E i \in DOMAIN readers' :
                   /\ ~IsPresignedHttp(call.urls[i]) /\ call.urls[i].scheme # ""
                   /\ StoreKey(call.urls[i]) = k
                   /\ stores'[k] = [store |-> Store(i), pool |-> readers'[i].pool]
      <4>1. CASE k = StoreKey(u)
        BY <3>2, <3>5, <3>6, <4>1, Zenon
      <4>2. CASE k # StoreKey(u)
        BY <2>1, <3>2, <3>5, <4>2, BuiltKept, Zenon
      <4> QED
        BY <4>1, <4>2
    <3> QED
      BY <2>1, <3>1, <3>2, <3>3, <3>4, <3>7, <3>8, AddedTyped, Zenon
  <2>3. CASE StoreKey(u) \notin DOMAIN stores
    <3> DEFINE n == Len(readers) + 1
    <3>1. /\ pools' = pools + 1
          /\ StoreReader(Store(n), pools + 1) \in AllReaders(call.urls, call.ambient)
          /\ AddReader(StoreReader(Store(n), pools + 1))
          /\ stores' = Put(stores, StoreKey(u), [store |-> Store(n), pool |-> pools + 1])
      BY <1>3, <2>3, OpenCachedIs, Zenon
    <3>2. StoreReader(Store(n), pools + 1).pool = pools + 1
      BY SMT DEF StoreReader
    <3>3. pools + 1 \in 1 .. pools' /\ pools' \in Nat /\ pools' >= pools /\ client' \in 0 .. pools'
      <4>1. pools' = pools + 1 /\ client' = client /\ client \in 0 .. pools /\ pools \in Nat
        BY <2>1, <3>1, Zenon
      <4> QED
        BY <4>1, SMT
    <3>4. /\ DOMAIN stores' = DOMAIN stores \cup {StoreKey(u)}
          /\ stores'[StoreKey(u)] = [store |-> Store(n), pool |-> pools + 1]
          /\ \A k \in DOMAIN stores : k # StoreKey(u) => stores'[k] = stores[k]
      <4> DEFINE key == StoreKey(u)
                 entry == [store |-> Store(n), pool |-> pools + 1]
      <4>1. stores' = Put(stores, key, entry)
        BY <3>1, Zenon
      <4> HIDE DEF key, entry
      <4>2. /\ DOMAIN stores' = DOMAIN stores \cup {key} /\ stores'[key] = entry
            /\ \A k \in DOMAIN stores : k # key => stores'[k] = stores[k]
        BY <4>1, SMT DEF Put
      <4> QED
        BY <4>2, Zenon DEF key, entry
    <3>5. n \in DOMAIN readers' /\ readers'[n].pool = pools + 1
      BY <2>1, <3>1, <3>2, ReaderAdded, Zenon
    <3>6. ASSUME NEW k \in DOMAIN stores'
          PROVE  \E i \in DOMAIN readers' :
                   /\ ~IsPresignedHttp(call.urls[i]) /\ call.urls[i].scheme # ""
                   /\ StoreKey(call.urls[i]) = k
                   /\ stores'[k] = [store |-> Store(i), pool |-> readers'[i].pool]
      <4>1. CASE k = StoreKey(u)
        BY <2>1, <3>4, <3>5, <4>1, Zenon
      <4>2. CASE k # StoreKey(u)
        BY <2>1, <3>1, <3>4, <4>2, BuiltKept, Zenon
      <4> QED
        BY <4>1, <4>2
    <3> QED
      BY <2>1, <3>1, <3>2, <3>3, <3>6, AddedTyped, Zenon
  <2> QED
    BY <2>2, <2>3
<1>4. CASE Reopen
  <2>1. /\ readers' = <<>> /\ stores' = <<>> /\ client' = 0 /\ headers' = <<>> /\ phase' = "readers"
        /\ UNCHANGED <<call, runtime, files, replaced, pools, metas, plans>>
    BY <1>4 DEF Reopen, Nothing, world
  <2>2. SourceTypeOK
    BY Zenon DEF TypeInv
  <2>3. Len(call.urls) \in Nat
    BY <2>2, CallFacts, Zenon DEF SourceTypeOK
  <2>4. SourceTypeOK'
    BY <2>1, <2>2, <2>3 DEF SourceTypeOK, Sources
  <2> QED
    <3>1. DOMAIN readers' = {} /\ DOMAIN stores' = {}
      BY <2>1, SMT
    <3>2. readers' \in Seq(AllReaders(call'.urls, call'.ambient))
      BY <2>1, SMT
    <3> QED
      BY <2>4, <3>1, <3>2, Zenon DEF TypeInv, StoresBuilt
<1>5. CASE SourceNext /\ UNCHANGED opened /\ ~(OpenSigned \/ OpenFresh \/ OpenCached \/ Reopen)
  <2>1. UNCHANGED <<stores, client, pools, readers>> /\ call' = call
    BY <1>5, OnlyOpening DEF opened
  <2>2. SourceTypeOK
    BY Zenon DEF TypeInv
  <2>3. SourceTypeOK'
    <3>1. CASE GetRuntime \/ RuntimeFails \/ OpenFails \/ HeaderFails \/ PlanFails \/ FetchWindows
      <4>1. /\ UNCHANGED <<files, replaced, headers, metas, plans>>
            /\ runtime' \in {runtime, TRUE} /\ phase' \in {"readers", "error", "done"}
        BY <3>1 DEF GetRuntime, RuntimeFails, OpenFails, HeaderFails, PlanFails, FetchWindows, world
      <4> QED
        BY <2>1, <2>2, <4>1 DEF SourceTypeOK, Sources, Ended
    <3>2. ASSUME NEW i \in Sources, ReadHeader(i) PROVE SourceTypeOK'
      <4>1. /\ UNCHANGED <<runtime, phase, files, replaced, metas, plans>>
            /\ headers' = Put(headers, i, files[call.urls[i].file])
        BY <3>2, Zenon DEF ReadHeader, world
      <4>2. DOMAIN headers' = DOMAIN headers \cup {i}
        BY <4>1, AddedValue, Zenon
      <4> QED
        BY <2>1, <2>2, <4>1, <4>2 DEF SourceTypeOK, Sources
    <3>3. CASE BuildMetas
      <4>1. /\ UNCHANGED <<runtime, files, replaced, headers, plans>>
            /\ phase' \in {"done", "plan", "error"}
            /\ metas' = metas \/ metas' = [i \in Sources |-> BuildMeta(headers[i])]
        BY <3>3 DEF BuildMetas, world
      <4>2. metas' # <<>> => DOMAIN metas' = Sources
        BY <2>2, <4>1 DEF SourceTypeOK
      <4> QED
        BY <2>1, <2>2, <4>1, <4>2 DEF SourceTypeOK, Sources, Ended
    <3>4. CASE Plan
      <4>1. /\ UNCHANGED <<runtime, files, replaced, headers, metas>>
            /\ phase' = "fetch" /\ DOMAIN plans' = Sources
        BY <3>4 DEF Plan, world
      <4> QED
        BY <2>1, <2>2, <4>1 DEF SourceTypeOK, Sources
    <3>5. CASE Replace
      <4>1. /\ UNCHANGED <<runtime, phase, headers, metas, plans>>
            /\ replaced < MaxReplaced /\ replaced' = replaced + 1 /\ DOMAIN files' = DOMAIN files
        BY <3>5 DEF Replace
      <4>2. MaxReplaced \in Nat
        BY SourceAssumption, Zenon
      <4> QED
        BY <2>1, <2>2, <4>1, <4>2 DEF SourceTypeOK, Sources
    <3> QED
      BY <1>5, <3>1, <3>2, <3>3, <3>4, <3>5 DEF SourceNext
  <2> QED
    BY <2>1, <2>3 DEF TypeInv, StoresBuilt
<1>6. CASE UNCHANGED sourceVars
  BY <1>6 DEF TypeInv, StoresBuilt, SourceTypeOK, Sources, sourceVars, opened, world
<1> QED
  BY <1>1, <1>2, <1>3, <1>4, <1>5, <1>6, OnlyOpening, Zenon

-----------------------------------------------------------------------------
(* The cache is kept.                                                      *)

(* Cached depends on the call alone.                                       *)
LEMMA CachedKept ==
  ASSUME call' = call
  PROVE  Cached' <=> Cached
  BY DEF Cached

(* What there is to show of a reader that is added.                        *)
LEMMA CacheAdded ==
  ASSUME TypeInv, CacheInv, Opening, NEW reader \in AllReaders(call.urls, call.ambient),
         AddReader(reader), NEW u, u = call.urls[Len(readers) + 1],
         IF IsPresignedHttp(u) THEN reader.kind = "signed" /\ reader.query = u.query
         ELSE /\ reader.kind = "store"
              /\ \E j \in 1 .. Len(readers) + 1 :
                   /\ StoreKey(call.urls[j]) = StoreKey(u)
                   /\ reader.store = StoreWith(call.urls[j], call.ambient),
         Cached => IF IsPresignedHttp(u) THEN reader.pool = client' /\ client' # 0
                   ELSE /\ reader.pool # client'
                        /\ u.scheme # "" => StoreKey(u) \in DOMAIN stores',
         Cached => \A i \in DOMAIN readers :
                     IF IsPresignedHttp(call.urls[i]) THEN readers[i].pool = client' /\ client' # 0
                     ELSE /\ readers[i].pool # client'
                          /\ call.urls[i].scheme # "" => StoreKey(call.urls[i]) \in DOMAIN stores',
         Cached => \A i \in DOMAIN readers : readers[i].pool = reader.pool <=> Shared(call.urls[i], u)
  PROVE  CacheInv'
<1> DEFINE n == Len(readers) + 1
<1>1. /\ DOMAIN readers' = DOMAIN readers \cup {n} /\ n \notin DOMAIN readers
      /\ readers'[n] = reader
      /\ \A k \in DOMAIN readers : readers'[k] = readers[k]
      /\ call' = call
  BY ReaderAdded, Zenon
<1>2. Cached' <=> Cached
  BY <1>1, CachedKept, Zenon
<1> HIDE DEF n
<1>3. u = call.urls[n]
  BY Zenon DEF n
<1>4. ASSUME NEW i \in DOMAIN readers' PROVE ReaderFor(i)'
  <2>1. CASE i = n
    BY <1>1, <1>3, <2>1, Zenon DEF ReaderFor, n
  <2>2. CASE i # n
    <3>1. i \in DOMAIN readers /\ readers'[i] = readers[i]
      BY <1>1, <2>2, Zenon
    <3>2. ReaderFor(i)
      BY <3>1, Zenon DEF CacheInv
    <3> QED
      BY <1>1, <3>1, <3>2, Zenon DEF ReaderFor
  <2> QED
    BY <2>1, <2>2
<1>5. ASSUME Cached, NEW i \in DOMAIN readers' PROVE PoolKnown(i)'
  <2>1. CASE i = n
    BY <1>1, <1>3, <1>5, <2>1, Zenon DEF PoolKnown
  <2>2. CASE i # n
    <3>1. i \in DOMAIN readers /\ readers'[i] = readers[i]
      BY <1>1, <2>2, Zenon
    <3> QED
      BY <1>1, <1>5, <3>1, Zenon DEF PoolKnown
  <2> QED
    BY <2>1, <2>2
<1>6. ASSUME Cached, NEW i \in DOMAIN readers', NEW j \in DOMAIN readers'
      PROVE  readers'[i].pool = readers'[j].pool <=> i = j \/ Shared(call.urls[i], call.urls[j])
  <2>1. CASE i = n /\ j = n
    BY <2>1
  <2>2. CASE i # n /\ j # n
    <3>1. i \in DOMAIN readers /\ j \in DOMAIN readers /\ readers'[i] = readers[i] /\ readers'[j] = readers[j]
      BY <1>1, <2>2, Zenon
    <3> QED
      BY <1>6, <3>1, Zenon DEF CacheInv
  <2>3. CASE i # n /\ j = n
    <3>1. i \in DOMAIN readers /\ readers'[i] = readers[i] /\ readers'[j] = reader
      BY <1>1, <2>3, Zenon
    <3>2. readers[i].pool = reader.pool <=> Shared(call.urls[i], call.urls[j])
      BY <1>3, <1>6, <2>3, <3>1, Zenon
    <3> QED
      BY <2>3, <3>1, <3>2, Zenon
  <2>4. CASE i = n /\ j # n
    <3>1. j \in DOMAIN readers /\ readers'[j] = readers[j] /\ readers'[i] = reader
      BY <1>1, <2>4, Zenon
    <3>2. readers[j].pool = reader.pool <=> Shared(call.urls[j], call.urls[i])
      BY <1>3, <1>6, <2>4, <3>1, Zenon
    <3>3. Shared(call.urls[i], call.urls[j]) <=> Shared(call.urls[j], call.urls[i])
      BY SharedSymmetric
    <3>4. reader.pool = readers[j].pool <=> Shared(call.urls[i], call.urls[j])
      BY <3>2, <3>3, Zenon
    <3> QED
      BY <2>4, <3>1, <3>4, Zenon
  <2> QED
    BY <2>1, <2>2, <2>3, <2>4
<1>7. (\A i \in DOMAIN readers : ReaderFor(i))'
  BY <1>4, Zenon
<1>8. (Cached => \A i \in DOMAIN readers : PoolKnown(i))'
  BY <1>2, <1>5, Zenon
<1>9. Cached' => \A i, j \in DOMAIN readers' :
        readers'[i].pool = readers'[j].pool <=> i = j \/ Shared(call'.urls[i], call'.urls[j])
  BY <1>1, <1>2, <1>6, Zenon
<1> QED
  BY <1>7, <1>8, <1>9, Zenon DEF CacheInv

LEMMA CacheStep ==
  ASSUME TypeInv, CacheInv, [SourceNext]_sourceVars
  PROVE  CacheInv'
<1> DEFINE n == Len(readers) + 1
           u == call.urls[n]
           All == AllReaders(call.urls, call.ambient)
<1>1. /\ pools \in Nat /\ client \in 0 .. pools
      /\ \A i \in DOMAIN readers : readers[i].pool \in 1 .. pools
  BY Zenon DEF TypeInv, SourceTypeOK
<1>2. \A i \in DOMAIN readers : readers[i].pool # pools + 1 /\ readers[i].pool # 0
  BY <1>1, SMT
<1>3. Cached => \A i \in DOMAIN readers : PoolKnown(i)
  BY Zenon DEF CacheInv
<1>4. client # pools + 1 /\ pools + 1 # 0
  BY <1>1, SMT
<1>5. CASE OpenSigned
  <2>1. PICK pool \in 1 .. pools' :
          /\ Opening /\ IsPresignedHttp(u)
          /\ SignedReader(u, pool) \in All
          /\ AddReader(SignedReader(u, pool))
          /\ UNCHANGED stores
          /\ client' = IF Cached THEN pool ELSE client
          /\ \/ Cached /\ client # 0 /\ pool = client
             \/ ~(Cached /\ client # 0) /\ pool = pools + 1
    BY <1>5, OpenSignedIs, Zenon
  <2>2. /\ SignedReader(u, pool).kind = "signed" /\ SignedReader(u, pool).query = u.query
        /\ SignedReader(u, pool).pool = pool
    BY SMT DEF SignedReader
  <2> HIDE DEF u, All
  <2>3. Cached => client' = pool /\ pool # 0
    BY <1>4, <2>1, Zenon
  <2>4. ASSUME Cached, NEW i \in DOMAIN readers
        PROVE  /\ IF IsPresignedHttp(call.urls[i]) THEN readers[i].pool = pool ELSE readers[i].pool # pool
               /\ ~IsPresignedHttp(call.urls[i]) /\ call.urls[i].scheme # "" =>
                    StoreKey(call.urls[i]) \in DOMAIN stores
    <3>1. PoolKnown(i)
      BY <1>3, <2>4
    <3>2. CASE client # 0
      BY <2>1, <2>4, <3>1, <3>2, Zenon DEF PoolKnown
    <3>3. CASE client = 0
      BY <1>2, <2>1, <2>4, <3>1, <3>3, Zenon DEF PoolKnown
    <3> QED
      BY <3>2, <3>3
  <2>5. ASSUME Cached, NEW i \in DOMAIN readers
        PROVE  SignedReader(u, pool).pool = readers[i].pool <=> Shared(call.urls[i], u)
    BY <2>1, <2>2, <2>4, <2>5, Zenon DEF Shared
  <2>6. Cached => \A i \in DOMAIN readers :
                     IF IsPresignedHttp(call.urls[i]) THEN readers[i].pool = client' /\ client' # 0
                     ELSE /\ readers[i].pool # client'
                          /\ call.urls[i].scheme # "" => StoreKey(call.urls[i]) \in DOMAIN stores'
    BY <2>1, <2>3, <2>4, Zenon
  <2>7. IF IsPresignedHttp(u)
        THEN SignedReader(u, pool).kind = "signed" /\ SignedReader(u, pool).query = u.query
        ELSE /\ SignedReader(u, pool).kind = "store"
             /\ \E j \in 1 .. Len(readers) + 1 :
                  /\ StoreKey(call.urls[j]) = StoreKey(u)
                  /\ SignedReader(u, pool).store = StoreWith(call.urls[j], call.ambient)
    BY <2>1, <2>2, Zenon
  <2>8. Cached => IF IsPresignedHttp(u) THEN SignedReader(u, pool).pool = client' /\ client' # 0
                  ELSE /\ SignedReader(u, pool).pool # client'
                       /\ u.scheme # "" => StoreKey(u) \in DOMAIN stores'
    BY <2>1, <2>2, <2>3, Zenon
  <2>9. Cached => \A i \in DOMAIN readers :
                    readers[i].pool = SignedReader(u, pool).pool <=> Shared(call.urls[i], u)
    BY <2>5, Zenon
  <2>10. u = call.urls[Len(readers) + 1] /\ SignedReader(u, pool) \in AllReaders(call.urls, call.ambient)
    BY <2>1, Zenon DEF u, All
  <2> QED
    BY <2>1, <2>6, <2>7, <2>8, <2>9, <2>10, CacheAdded, Zenon
<1>6. CASE OpenFresh
  <2> DEFINE reader == StoreReader(StoreWith(u, call.ambient), pools + 1)
  <2>1. /\ Opening /\ ~IsPresignedHttp(u) /\ (Cached => u.scheme = "")
        /\ reader \in All /\ AddReader(reader)
        /\ UNCHANGED <<stores, client>>
    BY <1>6, OpenFreshIs, Zenon
  <2>2. /\ reader.kind = "store" /\ reader.store = StoreWith(u, call.ambient)
        /\ reader.pool = pools + 1
    BY SMT DEF StoreReader
  <2>3. n \in 1 .. n
    <3>1. Len(readers) \in Nat
      BY <2>1, ReaderAdded, Zenon
    <3> QED
      BY <3>1, SMT
  <2> HIDE DEF reader
  <2>4. \E j \in 1 .. Len(readers) + 1 :
          StoreKey(call.urls[j]) = StoreKey(u) /\ reader.store = StoreWith(call.urls[j], call.ambient)
    BY <2>2, <2>3, Zenon
  <2>5. \A v : u.scheme = "" => ~Shared(v, u)
    <3> HIDE DEF u
    <3>1. \A v : StoreKey(v) = StoreKey(u) => v.scheme = u.scheme
      BY SMT DEF StoreKey
    <3>2. ASSUME NEW v, u.scheme = "" PROVE ~Shared(v, u)
      BY <2>1, <3>1, <3>2, Zenon DEF Shared
    <3> QED
      BY <3>2
  <2>6. Cached => \A i \in DOMAIN readers : readers[i].pool = reader.pool <=> Shared(call.urls[i], u)
    BY <1>2, <2>1, <2>2, <2>5, Zenon
  <2>7. Cached => \A i \in DOMAIN readers :
                     IF IsPresignedHttp(call.urls[i]) THEN readers[i].pool = client' /\ client' # 0
                     ELSE /\ readers[i].pool # client'
                          /\ call.urls[i].scheme # "" => StoreKey(call.urls[i]) \in DOMAIN stores'
    BY <1>3, <2>1, Zenon DEF PoolKnown
  <2>8. Cached => IF IsPresignedHttp(u) THEN reader.pool = client' /\ client' # 0
                  ELSE /\ reader.pool # client'
                       /\ u.scheme # "" => StoreKey(u) \in DOMAIN stores'
    BY <1>4, <2>1, <2>2, Zenon
  <2>9. IF IsPresignedHttp(u) THEN reader.kind = "signed" /\ reader.query = u.query
        ELSE /\ reader.kind = "store"
             /\ \E j \in 1 .. Len(readers) + 1 :
                  /\ StoreKey(call.urls[j]) = StoreKey(u)
                  /\ reader.store = StoreWith(call.urls[j], call.ambient)
    BY <2>1, <2>2, <2>4, Zenon
  <2> HIDE DEF u
  <2>10. u = call.urls[Len(readers) + 1] /\ reader \in AllReaders(call.urls, call.ambient)
    BY <2>1, Zenon DEF u, All
  <2> QED
    BY <2>1, <2>6, <2>7, <2>8, <2>9, <2>10, CacheAdded, Zenon
<1>7. CASE OpenCached
  <2> DEFINE reader(j, pool) == StoreReader(StoreWith(call.urls[j], call.ambient), pool)
  <2>1. Opening /\ Cached /\ ~IsPresignedHttp(u) /\ u.scheme # "" /\ client' = client
    BY <1>7, OpenCachedIs, Zenon
  <2>2. PICK j \in 1 .. n, pool \in Nat :
          /\ StoreKey(call.urls[j]) = StoreKey(u)
          /\ reader(j, pool) \in All /\ AddReader(reader(j, pool))
          /\ \E entry : stores' = Put(stores, StoreKey(u), entry)
          /\ \/ j \in DOMAIN readers /\ pool = readers[j].pool /\ ~IsPresignedHttp(call.urls[j])
                /\ call.urls[j].scheme # ""
             \/ StoreKey(u) \notin DOMAIN stores /\ pool = pools + 1
    <3>0. DOMAIN readers \subseteq 1 .. n /\ n \in 1 .. n /\ pools + 1 \in Nat
          /\ \A i \in DOMAIN readers : readers[i].pool \in Nat
      <4>1. Len(readers) \in Nat /\ DOMAIN readers = 1 .. Len(readers)
        BY SMT DEF TypeInv
      <4> QED
        BY <1>1, <4>1, SMT
    <3>1. CASE StoreKey(u) \in DOMAIN stores
      <4>1. PICK j \in DOMAIN readers :
              /\ ~IsPresignedHttp(call.urls[j]) /\ call.urls[j].scheme # ""
              /\ StoreKey(call.urls[j]) = StoreKey(u)
              /\ reader(j, readers[j].pool) \in All
              /\ AddReader(reader(j, readers[j].pool))
              /\ stores' = Put(stores, StoreKey(u),
                               [store |-> StoreWith(call.urls[j], call.ambient), pool |-> readers[j].pool])
        BY <1>7, <3>1, OpenCachedIs, Zenon
      <4> QED
        BY <3>0, <4>1, Zenon
    <3>2. CASE StoreKey(u) \notin DOMAIN stores
      <4>1. /\ reader(n, pools + 1) \in All
            /\ AddReader(reader(n, pools + 1))
            /\ stores' = Put(stores, StoreKey(u),
                             [store |-> StoreWith(u, call.ambient), pool |-> pools + 1])
        BY <1>7, <3>2, OpenCachedIs, Zenon
      <4> QED
        BY <3>0, <3>2, <4>1, Zenon
    <3> QED
      BY <3>1, <3>2
  <2>3. /\ reader(j, pool).kind = "store" /\ reader(j, pool).store = StoreWith(call.urls[j], call.ambient)
        /\ reader(j, pool).pool = pool
    BY SMT DEF StoreReader
  <2> DEFINE added == reader(j, pool)
  <2>4. added \in All /\ AddReader(added) /\ added.kind = "store" /\ added.pool = pool
        /\ added.store = StoreWith(call.urls[j], call.ambient)
    BY <2>2, <2>3, Zenon
  <2> HIDE DEF added, u, All, n
  <2>5. DOMAIN stores' = DOMAIN stores \cup {StoreKey(u)}
    BY <2>2, AddedValue, Zenon
  <2>6. pool # client
    <3>1. CASE j \in DOMAIN readers /\ pool = readers[j].pool /\ ~IsPresignedHttp(call.urls[j])
      <4>1. PoolKnown(j)
        BY <1>3, <2>1, <3>1
      <4> QED
        BY <3>1, <4>1, Zenon DEF PoolKnown
    <3>2. CASE pool = pools + 1
      BY <1>4, <3>2, Zenon
    <3> QED
      BY <2>2, <3>1, <3>2, Zenon
  <2>7. ASSUME NEW i \in DOMAIN readers
        PROVE  readers[i].pool = pool <=> Shared(call.urls[i], u)
    <3>1. CASE j \in DOMAIN readers /\ pool = readers[j].pool /\ ~IsPresignedHttp(call.urls[j])
               /\ call.urls[j].scheme # ""
      <4>1. readers[i].pool = readers[j].pool <=> i = j \/ Shared(call.urls[i], call.urls[j])
        BY <2>1, <3>1, Zenon DEF CacheInv
      <4>2. Shared(call.urls[j], u)
        BY <2>1, <2>2, <3>1, Zenon DEF Shared
      <4>3. Shared(call.urls[i], call.urls[j]) <=> Shared(call.urls[i], u)
        BY <2>1, <2>2, <3>1, Zenon DEF Shared
      <4> QED
        BY <3>1, <4>1, <4>2, <4>3, Zenon
    <3>2. CASE StoreKey(u) \notin DOMAIN stores /\ pool = pools + 1
      <4>1. PoolKnown(i)
        BY <1>3, <2>1
      <4>2. ~Shared(call.urls[i], u)
        BY <2>1, <3>2, <4>1, Zenon DEF Shared, PoolKnown
      <4> QED
        BY <1>2, <3>2, <4>2, Zenon
    <3> QED
      BY <2>2, <3>1, <3>2, Zenon
  <2>8. \A i \in DOMAIN readers :
          IF IsPresignedHttp(call.urls[i]) THEN readers[i].pool = client' /\ client' # 0
          ELSE /\ readers[i].pool # client'
               /\ call.urls[i].scheme # "" => StoreKey(call.urls[i]) \in DOMAIN stores'
    BY <1>3, <2>1, <2>5, Zenon DEF PoolKnown
  <2>9. IF IsPresignedHttp(u) THEN added.pool = client' /\ client' # 0
        ELSE added.pool # client' /\ (u.scheme # "" => StoreKey(u) \in DOMAIN stores')
    BY <2>1, <2>4, <2>5, <2>6, Zenon
  <2>10. IF IsPresignedHttp(u) THEN added.kind = "signed" /\ added.query = u.query
         ELSE /\ added.kind = "store"
              /\ \E k \in 1 .. Len(readers) + 1 :
                   /\ StoreKey(call.urls[k]) = StoreKey(u)
                   /\ added.store = StoreWith(call.urls[k], call.ambient)
    BY <2>1, <2>2, <2>4, Zenon DEF n
  <2>11. \A i \in DOMAIN readers : readers[i].pool = added.pool <=> Shared(call.urls[i], u)
    BY <2>4, <2>7, Zenon
  <2>12. u = call.urls[Len(readers) + 1] /\ added \in AllReaders(call.urls, call.ambient)
    BY <2>4, Zenon DEF u, n, All
  <2> QED
    BY <2>1, <2>4, <2>8, <2>9, <2>10, <2>11, <2>12, CacheAdded, Zenon
<1>8. CASE Reopen
  <2>1. readers' = <<>>
    BY <1>8, Zenon DEF Reopen
  <2>2. DOMAIN readers' = {}
    BY <2>1, SMT
  <2> QED
    BY <2>2, Zenon DEF CacheInv
<1>9. CASE UNCHANGED <<call, opened>>
  <2>1. call' = call /\ readers' = readers /\ stores' = stores /\ client' = client /\ (Cached' <=> Cached)
    BY <1>9, CachedKept DEF opened
  <2>2. \A i : (ReaderFor(i)' <=> ReaderFor(i)) /\ (PoolKnown(i)' <=> PoolKnown(i))
    BY <2>1, Zenon DEF ReaderFor, PoolKnown
  <2> QED
    BY <2>1, <2>2, Zenon DEF CacheInv
<1>10. UNCHANGED sourceVars => UNCHANGED <<call, opened>>
  BY DEF sourceVars
<1> QED
  BY <1>5, <1>6, <1>7, <1>8, <1>9, <1>10, OnlyOpening

LEMMA CacheInit ==
  ASSUME SourceInit
  PROVE  CacheInv
<1>1. DOMAIN readers = {}
  BY SMT DEF SourceInit
<1> QED
  BY <1>1, Zenon DEF CacheInv

-----------------------------------------------------------------------------
(* Headers, metadata and plans.                                            *)

(* What BuildMeta makes of a header that is a georeferenced file's.        *)
MetaTyped(m) ==
  /\ \E g1, g2, g3, g4, g5, g6 \in Int : m.gt = <<g1, g2, g3, g4, g5, g6>>
  /\ m.w \in Seq(Nat \ {0}) /\ m.h \in Seq(Nat \ {0})
  /\ Len(m.w) = Len(m.h) /\ Len(m.w) > 0

(* A plan is of the source's own grid, on a level of it, and its           *)
(* geotransform is that of the window.                                     *)
PlanTyped(p, m) ==
  /\ p.grid = Grid(m)
  /\ p.level \in 1 .. Len(m.w)
  /\ p.xoff \in Int /\ p.yoff \in Int /\ p.xsize \in Int /\ p.ysize \in Int
  /\ p.xoff + p.xsize = m.w[p.level] /\ p.yoff + p.ysize = m.h[p.level]
  /\ p.gt = WindowGt(m.gt, m.w[1], m.h[1], m.w[p.level], m.h[p.level], p.xoff, p.yoff)

(* Every plan is the one the source's own grid gives.                      *)
PlansOwn == \A i \in DOMAIN plans : plans[i] = PlanOn(Grid(metas[i]))

PlanInv ==
  /\ \A f \in DOMAIN files : HeaderOK(files[f])
  /\ \A i \in DOMAIN headers : HeaderOK(headers[i])
  /\ \A i \in DOMAIN metas : MetaTyped(metas[i])
  /\ phase \in {"plan", "fetch"} => metas # <<>>
  /\ phase = "fetch" => plans # <<>>
  /\ plans # <<>> => metas # <<>>
  /\ JustBuilt => \A i \in Sources :
                    i \in DOMAIN headers /\ MetaOk(headers[i]) /\ metas[i] = BuildMeta(headers[i])
  /\ \A i \in DOMAIN plans : PlanTyped(plans[i], metas[i])
  /\ PlansOwn

LEMMA PlansKept ==
  ASSUME PlansOwn, UNCHANGED <<call, metas, plans>>
  PROVE  PlansOwn'
  BY DEF PlansOwn, PlanOn

LEMMA ElementOf ==
  ASSUME NEW S, NEW s \in Seq(S), NEW l \in DOMAIN s
  PROVE  s[l] \in S
  OBVIOUS

LEMMA BuildMetaTyped ==
  ASSUME NEW h, HeaderOK(h), MetaOk(h)
  PROVE  MetaTyped(BuildMeta(h))
<1>1. PICK a1 \in Int, a2 \in Int, a3 \in Int, a4 \in Int, a5 \in Int, a6 \in Int, half \in {0, 1} :
        /\ half = IF IsPoint(h) THEN 1 ELSE 0
        /\ Affine(h) = <<a1, a2, a3, a4, a5, a6>>
        /\ ExtractGeotransform(h) = <<2 * a1 - half * (a2 + a3), 2 * a2, 2 * a3,
                                      2 * a4 - half * (a5 + a6), 2 * a5, 2 * a6>>
  BY GeotransformIs, Zenon DEF MetaOk
<1>2. /\ 2 * a1 - half * (a2 + a3) \in Int /\ 2 * a2 \in Int /\ 2 * a3 \in Int
      /\ 2 * a4 - half * (a5 + a6) \in Int /\ 2 * a5 \in Int /\ 2 * a6 \in Int
  BY SMT
<1>3. \E g1, g2, g3, g4, g5, g6 \in Int : ExtractGeotransform(h) = <<g1, g2, g3, g4, g5, g6>>
  <2> WITNESS 2 * a1 - half * (a2 + a3) \in Int, 2 * a2 \in Int, 2 * a3 \in Int,
              2 * a4 - half * (a5 + a6) \in Int, 2 * a5 \in Int, 2 * a6 \in Int
  <2> QED
    BY <1>1, Zenon
<1> DEFINE s == h.ifds
           w == [l \in DOMAIN s |-> s[l].w]
           t == [l \in DOMAIN s |-> s[l].h]
<1>4. s \in Seq([w : Nat \ {0}, h : Nat \ {0}, mask : BOOLEAN]) /\ s # <<>>
  BY DEF HeaderOK, MetaOk, Nothing
<1>5. w \in Seq(Nat \ {0}) /\ t \in Seq(Nat \ {0}) /\ Len(w) = Len(s) /\ Len(t) = Len(s) /\ Len(s) > 0
  <2> HIDE DEF s
  <2>1. Len(s) \in Nat /\ DOMAIN s = 1 .. Len(s) /\ Len(s) > 0
    BY <1>4, SMT
  <2>2. \A l \in DOMAIN s : s[l].w \in Nat \ {0} /\ s[l].h \in Nat \ {0}
    <3>1. \A l \in DOMAIN s : s[l] \in [w : Nat \ {0}, h : Nat \ {0}, mask : BOOLEAN]
      BY <1>4, ElementOf, Zenon
    <3> QED
      BY <3>1
  <2>3. /\ DOMAIN w = 1 .. Len(s) /\ DOMAIN t = 1 .. Len(s)
        /\ \A l \in 1 .. Len(s) : w[l] \in Nat \ {0} /\ t[l] \in Nat \ {0}
        /\ w = [l \in 1 .. Len(s) |-> w[l]] /\ t = [l \in 1 .. Len(s) |-> t[l]]
    BY <2>1, <2>2
  <2> HIDE DEF w, t
  <2> QED
    BY <2>1, <2>3, SMT
<1>6. BuildMeta(h).gt = ExtractGeotransform(h) /\ BuildMeta(h).w = w /\ BuildMeta(h).h = t
  BY DEF BuildMeta
<1> HIDE DEF w, t
<1>7. Len(w) = Len(t) /\ Len(w) > 0
  BY <1>5, Zenon
<1> QED
  BY <1>3, <1>5, <1>6, <1>7, Zenon DEF MetaTyped

(* The fields of a grid.                                                   *)
LEMMA GridFields ==
  ASSUME NEW m
  PROVE  Grid(m).gt = m.gt /\ Grid(m).crs = m.crs /\ Grid(m).w = m.w /\ Grid(m).h = m.h
  BY DEF Grid

LEMMA PlanForTyped ==
  ASSUME call \in Calls, NEW i \in Sources, PlannerOf(i) \in DOMAIN metas,
         Grid(metas[PlannerOf(i)]) = Grid(metas[i]), MetaTyped(metas[i])
  PROVE  PlanTyped(PlanFor(i), metas[i]) /\ PlanFor(i) = PlanOn(Grid(metas[i]))
<1> DEFINE m == metas[i]
           g == Grid(m)
           l == Level(g, call.request)
           w == g.w[l]
           h == g.h[l]
           xoff == (call.request.x * w) \div g.w[1]
           yoff == (call.request.y * h) \div g.h[1]
           p == [grid |-> g, level |-> l, xoff |-> xoff, yoff |-> yoff,
                 xsize |-> w - xoff, ysize |-> h - yoff,
                 gt |-> WindowGt(g.gt, g.w[1], g.h[1], w, h, xoff, yoff)]
<1>0. PlanFor(i) = PlanOn(g)
  BY Zenon DEF PlanFor
<1>1. PlanOn(g) = p
  BY Zenon DEF PlanOn
<1>2. /\ g.gt = m.gt /\ g.w = m.w /\ g.h = m.h
      /\ m.w \in Seq(Nat \ {0}) /\ m.h \in Seq(Nat \ {0}) /\ Len(m.w) = Len(m.h) /\ Len(m.w) > 0
  BY GridFields, Zenon DEF MetaTyped
<1> HIDE DEF g, m
<1>3. l \in 1 .. Len(m.w)
  BY <1>2, CallFacts, LevelInFile, Zenon
<1> HIDE DEF l
<1>4. /\ w \in Nat \ {0} /\ h \in Nat \ {0} /\ g.w[1] \in Nat \ {0} /\ g.h[1] \in Nat \ {0}
  BY <1>2, <1>3, SMT
<1>5. call.request.x \in Nat /\ call.request.y \in Nat
  BY CallFacts, Zenon
<1> DEFINE xw == call.request.x * w
           yh == call.request.y * h
<1>6. xw \in Int /\ yh \in Int
  <2> HIDE DEF w, h
  <2> QED
    BY <1>4, <1>5, SMT
<1>7. xoff \in Int /\ yoff \in Int
  <2>1. (xw \div g.w[1]) \in Int /\ (yh \div g.h[1]) \in Int
    <3> HIDE DEF xw, yh
    <3> QED
      BY <1>4, <1>6, FloorFacts, Zenon
  <2> QED
    BY <2>1, Zenon
<1> HIDE DEF xoff, yoff
<1>8. w - xoff \in Int /\ h - yoff \in Int /\ xoff + (w - xoff) = w /\ yoff + (h - yoff) = h
  <2> HIDE DEF w, h
  <2> QED
    BY <1>4, <1>7, SMT
<1>9. /\ p.grid = g /\ p.level = l /\ p.xoff = xoff /\ p.yoff = yoff
      /\ p.xsize = w - xoff /\ p.ysize = h - yoff
      /\ p.gt = WindowGt(g.gt, g.w[1], g.h[1], w, h, xoff, yoff)
  BY Zenon
<1>10. w = m.w[p.level] /\ h = m.h[p.level] /\ g.w[1] = m.w[1] /\ g.h[1] = m.h[1] /\ g.gt = m.gt
  BY <1>2, <1>9, Zenon
<1> HIDE DEF p, w, h
<1>11. p.gt = WindowGt(m.gt, m.w[1], m.h[1], m.w[p.level], m.h[p.level], p.xoff, p.yoff)
  BY <1>9, <1>10, Zenon
<1>12. p.xoff + p.xsize = m.w[p.level] /\ p.yoff + p.ysize = m.h[p.level]
  BY <1>8, <1>9, <1>10, Zenon
<1>13. PlanTyped(p, m)
  BY <1>3, <1>7, <1>8, <1>9, <1>11, <1>12, Zenon DEF PlanTyped, g
<1> QED
  BY <1>0, <1>1, <1>13, Zenon DEF g, m

(* Whoever planned for a source is on its grid.                            *)
LEMMA PlannerOnGrid ==
  ASSUME call \in Calls, Plannable, NEW i \in Sources
  PROVE  PlannerOf(i) \in Sources /\ Grid(metas[PlannerOf(i)]) = Grid(metas[i])
<1>1. Sources = 1 .. Len(call.urls) /\ Len(call.urls) \in Nat /\ 1 \in Sources
  BY CallFacts, Zenon
<1>2. CASE call.trusted
  BY <1>1, <1>2, Zenon DEF Plannable, PlannerOf
<1>3. CASE ~call.trusted
  <2> DEFINE j == Planner(OnGrids, i)
  <2>1. j \in 1 .. i /\ OnGrids[j].grid = OnGrids[i].grid
    BY <1>1, PlannerFirst, Zenon
  <2> HIDE DEF j
  <2>2. j \in Sources
    BY <1>1, <2>1, SMT
  <2>3. OnGrids[j].grid = Grid(metas[j]) /\ OnGrids[i].grid = Grid(metas[i])
    BY <2>2 DEF OnGrids
  <2>4. PlannerOf(i) = j
    BY <1>3, Zenon DEF PlannerOf, j
  <2> QED
    BY <2>1, <2>2, <2>3, <2>4, Zenon
<1> QED
  BY <1>2, <1>3

LEMMA PlanInit ==
  ASSUME SourceInit
  PROVE  PlanInv
<1>1. call \in Calls /\ files = call.files /\ phase = "start" /\ metas = <<>> /\ plans = <<>> /\ headers = <<>>
  BY DEF SourceInit, Nothing
<1>2. \A f \in DOMAIN files : HeaderOK(files[f])
  BY <1>1, CallFacts, Zenon
<1>3. DOMAIN metas = {} /\ DOMAIN plans = {} /\ DOMAIN headers = {}
  BY <1>1, SMT
<1> QED
  BY <1>1, <1>2, <1>3, Zenon DEF PlanInv, JustBuilt, PlansOwn

(* Steps that leave headers, metadata and plans alone and lead to neither  *)
(* a plan nor a fetch nor the end.                                         *)
LEMMA PlanAside ==
  ASSUME PlanInv, UNCHANGED <<call, files, headers, metas, plans>>,
         phase' \in {"readers", "headers", "error"}
  PROVE  PlanInv'
<1>1. phase' # "plan" /\ phase' # "fetch" /\ phase' # "done"
  OBVIOUS
<1>2. JustBuilt' => JustBuilt
  BY <1>1 DEF JustBuilt
<1>3. Sources' = Sources
  BY DEF Sources
<1>4. PlansOwn'
  BY PlansKept DEF PlanInv
<1>5. /\ \A f \in DOMAIN files' : HeaderOK(files'[f])
      /\ \A i \in DOMAIN headers' : HeaderOK(headers'[i])
      /\ \A i \in DOMAIN metas' : MetaTyped(metas'[i])
      /\ \A i \in DOMAIN plans' : PlanTyped(plans'[i], metas'[i])
      /\ plans' # <<>> => metas' # <<>>
  BY Zenon DEF PlanInv
<1>6. JustBuilt' => \A i \in Sources' :
                      i \in DOMAIN headers' /\ MetaOk(headers'[i]) /\ metas'[i] = BuildMeta(headers'[i])
  BY <1>2, <1>3, Zenon DEF PlanInv
<1> QED
  BY <1>1, <1>4, <1>5, <1>6, Zenon DEF PlanInv

LEMMA PlanStep ==
  ASSUME TypeInv, PlanInv, [SourceNext]_sourceVars
  PROVE  PlanInv'
<1>1. /\ call \in Calls
      /\ DOMAIN files = DOMAIN call.files
      /\ DOMAIN headers \subseteq Sources
      /\ metas # <<>> => DOMAIN metas = Sources
      /\ plans # <<>> => DOMAIN plans = Sources
  BY Zenon DEF TypeInv, SourceTypeOK
<1>2. CASE GetRuntime \/ RuntimeFails \/ OpenFails \/ HeaderFails \/ PlanFails
           \/ OpenSigned \/ OpenFresh \/ OpenCached
  <2>1. UNCHANGED <<call, files, headers, metas, plans>> /\ phase' \in {"readers", "headers", "error"}
    BY <1>2 DEF GetRuntime, RuntimeFails, OpenFails, HeaderFails, PlanFails, OpenSigned, OpenFresh,
       OpenCached, AddReader, world
  <2> QED
    BY <2>1, PlanAside
<1>3. CASE Reopen
  <2>1. /\ UNCHANGED <<call, files, metas, plans>> /\ phase' = "readers" /\ call.op = "paths"
        /\ headers' = <<>>
    BY <1>3 DEF Reopen, Nothing, world
  <2>2. ~JustBuilt'
    BY <2>1 DEF JustBuilt
  <2>3. DOMAIN headers' = {} /\ phase' # "plan" /\ phase' # "fetch" /\ phase' # "done"
    BY <2>1, SMT
  <2>4. PlansOwn'
    BY <2>1, PlansKept DEF PlanInv
  <2> QED
    BY <2>1, <2>2, <2>3, <2>4, Zenon DEF PlanInv
<1>4. ASSUME NEW i \in Sources, ReadHeader(i) PROVE PlanInv'
  <2>1. /\ phase = "headers" /\ i \notin DOMAIN headers
        /\ UNCHANGED <<call, phase, files, metas, plans>>
        /\ headers' = Put(headers, i, files[call.urls[i].file])
    BY <1>4, Zenon DEF ReadHeader, world
  <2>2. ~JustBuilt
    BY <1>4, <2>1, Zenon DEF PlanInv
  <2>3. ~JustBuilt' /\ phase' # "done"
    BY <2>1, <2>2 DEF JustBuilt
  <2>4. HeaderOK(files[call.urls[i].file])
    BY <1>1, <1>4, CallFacts, Zenon DEF PlanInv
  <2>5. \A k \in DOMAIN headers' : HeaderOK(headers'[k])
    <3>1. /\ DOMAIN headers' = DOMAIN headers \cup {i}
          /\ headers'[i] = files[call.urls[i].file]
          /\ \A k \in DOMAIN headers : k # i => headers'[k] = headers[k]
      BY <2>1, SMT DEF Put
    <3> QED
      BY <2>1, <2>4, <3>1, Zenon DEF PlanInv
  <2>6. PlansOwn'
    BY <2>1, PlansKept DEF PlanInv
  <2> QED
    BY <2>1, <2>3, <2>5, <2>6, Zenon DEF PlanInv
<1>5. CASE BuildMetas
  <2>1. /\ UNCHANGED <<call, files, headers, plans>> /\ metas = <<>> /\ DOMAIN headers = Sources
        /\ \/ /\ \A i \in Sources : MetaOk(headers[i])
              /\ metas' = [i \in Sources |-> BuildMeta(headers[i])]
              /\ phase' \in {"done", "plan"}
           \/ phase' = "error" /\ metas' = metas
    BY <1>5 DEF BuildMetas, world
  <2>2. plans = <<>> /\ DOMAIN plans = {}
    BY <2>1 DEF PlanInv
  <2>3. PlansOwn'
    BY <2>1, <2>2, Zenon DEF PlansOwn
  <2>4. Sources' = Sources /\ Sources # {}
    BY <1>1, <2>1, CallFacts DEF Sources
  <2>5. phase' # "fetch"
    BY <2>1
  <2>6. CASE \A i \in Sources : MetaOk(headers[i]) /\ metas' = [k \in Sources |-> BuildMeta(headers[k])]
    <3>1. \A i \in Sources : metas'[i] = BuildMeta(headers[i])
      BY <2>6
    <3>2. DOMAIN metas' = Sources /\ metas' # <<>>
      BY <2>4, <2>6
    <3>3. \A i \in DOMAIN metas' : MetaTyped(metas'[i])
      BY <2>1, <2>6, <3>1, <3>2, BuildMetaTyped, Zenon DEF PlanInv
    <3> QED
      BY <2>1, <2>2, <2>3, <2>4, <2>5, <2>6, <3>1, <3>2, <3>3, Zenon DEF PlanInv
  <2>7. CASE phase' = "error" /\ metas' = metas
    <3>1. ~JustBuilt'
      BY <2>1, <2>7 DEF JustBuilt
    <3>2. phase' # "plan"
      BY <2>7
    <3> QED
      BY <2>1, <2>2, <2>3, <2>5, <2>7, <3>1, <3>2, Zenon DEF PlanInv
  <2> QED
    BY <2>1, <2>4, <2>6, <2>7, Zenon
<1>6. CASE Plan
  <2>1. /\ UNCHANGED <<call, files, headers, metas>> /\ phase = "plan" /\ phase' = "fetch" /\ Plannable
        /\ plans' = [i \in Sources |-> PlanFor(i)]
    BY <1>6 DEF Plan, world
  <2>2. metas # <<>> /\ DOMAIN metas = Sources
    BY <1>1, <2>1, Zenon DEF PlanInv
  <2>3. Sources' = Sources /\ Sources # {}
    BY <1>1, <2>1, CallFacts DEF Sources
  <2>4. \A i \in Sources : plans'[i] = PlanFor(i)
    BY <2>1
  <2>5. DOMAIN plans' = Sources /\ plans' # <<>>
    BY <2>1, <2>3
  <2>6. ASSUME NEW i \in Sources
        PROVE  PlanTyped(plans'[i], metas'[i]) /\ plans'[i] = PlanOn(Grid(metas[i]))
    <3>1. PlannerOf(i) \in Sources /\ Grid(metas[PlannerOf(i)]) = Grid(metas[i])
      BY <1>1, <2>1, PlannerOnGrid, Zenon
    <3>2. MetaTyped(metas[i])
      BY <2>2, Zenon DEF PlanInv
    <3> QED
      BY <1>1, <2>1, <2>2, <2>4, <3>1, <3>2, PlanForTyped, Zenon
  <2>7. JustBuilt' => JustBuilt
    BY <2>1, <2>2 DEF JustBuilt
  <2>8. PlansOwn'
    <3>1. \A i \in Sources : plans'[i] = PlanOn(Grid(metas[i]))
      BY <2>6, Zenon
    <3>2. \A i \in DOMAIN plans' : plans'[i] = PlanOn(Grid(metas[i]))
      BY <2>5, <3>1, Zenon
    <3> QED
      BY <2>1, <3>2 DEF PlansOwn, PlanOn
  <2> QED
    BY <2>1, <2>2, <2>3, <2>5, <2>6, <2>7, <2>8, Zenon DEF PlanInv
<1>7. CASE FetchWindows
  <2>1. /\ UNCHANGED <<call, files, headers, metas, plans>> /\ ReadyToFetch
        /\ phase' = IF \A i \in Sources : Servable(i) THEN "done" ELSE "error"
    BY <1>7, Zenon DEF FetchWindows, world
  <2>2. JustBuilt' => JustBuilt
    BY <2>1 DEF JustBuilt
  <2>3. phase' # "plan" /\ phase' # "fetch"
    BY <2>1
  <2>4. plans # <<>> /\ DOMAIN plans = Sources /\ metas # <<>> /\ DOMAIN metas = Sources
    BY <1>1, <2>1, Zenon DEF PlanInv, ReadyToFetch
  <2>6. Sources' = Sources
    BY <2>1, Zenon DEF Sources
  <2>7. PlansOwn'
    BY <2>1, PlansKept DEF PlanInv
  <2> QED
    BY <2>1, <2>2, <2>3, <2>4, <2>6, <2>7, Zenon DEF PlanInv
<1>8. CASE Replace
  <2>1. /\ phase \notin Ended /\ UNCHANGED <<call, phase, headers, metas, plans>>
    BY <1>8, Zenon DEF Replace
  <2>2. PICK f \in DOMAIN files, h \in Headers : files' = [files EXCEPT ![f] = h]
    BY <1>8, Zenon DEF Replace
  <2>3. \A k \in DOMAIN files' : HeaderOK(files'[k])
    <3>1. HeaderOK(h)
      BY SourceAssumption, Zenon
    <3>2. DOMAIN files' = DOMAIN files /\ \A k \in DOMAIN files : files'[k] = IF k = f THEN h ELSE files[k]
      BY <2>2
    <3> QED
      BY <3>1, <3>2, Zenon DEF PlanInv
  <2>4. (JustBuilt' <=> JustBuilt) /\ Sources' = Sources
    BY <2>1, Zenon DEF JustBuilt, Sources
  <2>5. PlansOwn'
    BY <2>1, PlansKept DEF PlanInv
  <2> QED
    BY <2>1, <2>3, <2>4, <2>5, Zenon DEF PlanInv
<1>9. CASE UNCHANGED sourceVars
  <2>1. UNCHANGED <<call, phase, files, headers, metas, plans>>
    BY <1>9 DEF sourceVars, world
  <2>2. (JustBuilt' <=> JustBuilt) /\ Sources' = Sources
    BY <2>1, Zenon DEF JustBuilt, Sources
  <2>3. PlansOwn'
    BY <2>1, PlansKept DEF PlanInv
  <2> QED
    BY <2>1, <2>2, <2>3, Zenon DEF PlanInv
<1> QED
  BY <1>2, <1>3, <1>4, <1>5, <1>6, <1>7, <1>8, <1>9, Zenon DEF SourceNext

-----------------------------------------------------------------------------
(* As long as no file is replaced, what was read of it stays what is in it.*)
FoundInv ==
  replaced = 0 =>
    /\ files = call.files
    /\ \A i \in DOMAIN headers : headers[i] = call.files[call.urls[i].file]
    /\ \A i \in DOMAIN metas : metas[i] = BuildMeta(call.files[call.urls[i].file])

LEMMA FoundInit ==
  ASSUME SourceInit
  PROVE  FoundInv
<1>1. files = call.files /\ metas = <<>> /\ headers = <<>>
  BY DEF SourceInit, Nothing
<1>2. DOMAIN metas = {} /\ DOMAIN headers = {}
  BY <1>1, SMT
<1> QED
  BY <1>1, <1>2, Zenon DEF FoundInv

LEMMA FoundStep ==
  ASSUME TypeInv, FoundInv, [SourceNext]_sourceVars
  PROVE  FoundInv'
<1>1. CASE UNCHANGED <<call, files, replaced, headers, metas>>
  BY <1>1 DEF FoundInv
<1>2. CASE \/ GetRuntime \/ RuntimeFails \/ OpenFails \/ HeaderFails \/ PlanFails
           \/ OpenSigned \/ OpenFresh \/ OpenCached \/ Plan \/ FetchWindows \/ UNCHANGED sourceVars
  <2>1. UNCHANGED <<call, files, replaced, headers, metas>>
    BY <1>2 DEF GetRuntime, RuntimeFails, OpenFails, HeaderFails, PlanFails, OpenSigned, OpenFresh,
       OpenCached, AddReader, Plan, FetchWindows, world, sourceVars
  <2> QED
    BY <1>1, <2>1
<1>3. CASE Reopen
  <2>1. UNCHANGED <<call, files, replaced, metas>> /\ headers' = <<>>
    BY <1>3 DEF Reopen, Nothing, world
  <2>2. DOMAIN headers' = {}
    BY <2>1, SMT
  <2> QED
    BY <2>1, <2>2, Zenon DEF FoundInv
<1>4. ASSUME NEW i \in Sources, ReadHeader(i) PROVE FoundInv'
  <2>1. /\ UNCHANGED <<call, files, replaced, metas>>
        /\ headers' = Put(headers, i, files[call.urls[i].file])
    BY <1>4, Zenon DEF ReadHeader, world
  <2>2. /\ DOMAIN headers' = DOMAIN headers \cup {i}
        /\ headers'[i] = files[call.urls[i].file]
        /\ \A k \in DOMAIN headers : k # i => headers'[k] = headers[k]
    BY <2>1, SMT DEF Put
  <2> QED
    BY <2>1, <2>2, Zenon DEF FoundInv
<1>5. CASE BuildMetas
  <2>1. /\ UNCHANGED <<call, files, replaced, headers>> /\ DOMAIN headers = Sources
        /\ metas' = metas \/ metas' = [i \in Sources |-> BuildMeta(headers[i])]
    BY <1>5 DEF BuildMetas, world
  <2>2. CASE metas' = metas
    BY <1>1, <2>1, <2>2
  <2>3. CASE metas' = [i \in Sources |-> BuildMeta(headers[i])]
    <3>1. DOMAIN metas' = DOMAIN headers /\ \A i \in DOMAIN headers : metas'[i] = BuildMeta(headers[i])
      BY <2>1, <2>3
    <3> QED
      BY <2>1, <3>1, Zenon DEF FoundInv
  <2> QED
    BY <2>1, <2>2, <2>3
<1>6. CASE Replace
  <2>1. replaced' = replaced + 1 /\ replaced \in 0 .. MaxReplaced /\ MaxReplaced \in Nat
    BY <1>6, SourceAssumption, Zenon DEF Replace, TypeInv, SourceTypeOK
  <2>2. replaced' # 0
    BY <2>1, SMT
  <2> QED
    BY <2>2, Zenon DEF FoundInv
<1> QED
  BY <1>2, <1>3, <1>4, <1>5, <1>6, Zenon DEF SourceNext

-----------------------------------------------------------------------------
(* What the invariants say.                                                *)

LEMMA OwnReader ==
  ASSUME TypeInv, CacheInv
  PROVE  ReadersOwn
<1>1. /\ call \in Calls /\ Len(readers) \in Nat /\ DOMAIN readers = 1 .. Len(readers)
      /\ Len(readers) <= Len(call.urls)
  BY SMT DEF TypeInv, SourceTypeOK
<1>2. Sources = 1 .. Len(call.urls) /\ Len(call.urls) \in Nat
  BY <1>1, CallFacts, Zenon
<1>3. ASSUME NEW i \in DOMAIN readers, ~IsPresignedHttp(call.urls[i])
      PROVE  LET u == call.urls[i]
             IN  /\ readers[i].kind = "store"
                 /\ readers[i].store = StoreOf(u) \/ \E j \in 1 .. i - 1 : LentBy(j, i)
                 /\ AzureSasOpt(u) # Nothing =>
                      Credential(readers[i].store) =
                        IF "access_key" \in DOMAIN call.ambient
                        THEN <<"access_key", call.ambient["access_key"]>> ELSE <<"sas", u.query>>
  <2> DEFINE u == call.urls[i]
  <2>1. ReaderFor(i)
    BY <1>3, Zenon DEF CacheInv
  <2>2. readers[i].kind = "store"
    BY <1>3, <2>1, Zenon DEF ReaderFor
  <2>3. PICK j \in 1 .. i : /\ StoreKey(call.urls[j]) = StoreKey(u)
                            /\ readers[i].store = StoreWith(call.urls[j], call.ambient)
    BY <1>3, <2>1, Zenon DEF ReaderFor
  <2> DEFINE v == call.urls[j]
  <2>4. i \in Sources /\ j \in Sources /\ (j = i \/ j \in 1 .. i - 1)
    <3>1. i \in 1 .. Len(readers) /\ j \in 1 .. i
      BY <1>1, <1>3, <2>3, Zenon
    <3> QED
      BY <1>1, <1>2, <3>1, SMT
  <2>5. readers[i].store = StoreFor(u, v.user)
    <3>1. readers[i].store = StoreOf(v)
      BY <2>3, StoreIs, Zenon
    <3> QED
      BY <1>1, <2>3, <2>4, <3>1, KeyDecides, Zenon
  <2>6. readers[i].store = StoreOf(u) \/ \E k \in 1 .. i - 1 : LentBy(k, i)
    <3>1. CASE v.user = u.user
      BY <2>5, <3>1, Zenon DEF StoreOf
    <3>2. CASE v.user # u.user
      BY <2>3, <2>4, <2>5, <3>2, Zenon DEF LentBy
    <3> QED
      BY <3>1, <3>2
  <2>7. ASSUME AzureSasOpt(u) # Nothing
        PROVE  Credential(readers[i].store) =
                 IF "access_key" \in DOMAIN call.ambient
                 THEN <<"access_key", call.ambient["access_key"]>> ELSE <<"sas", u.query>>
    BY <2>5, <2>7, SignedAs, Zenon
  <2> QED
    BY <2>2, <2>6, <2>7, Zenon
<1>4. ASSUME NEW i \in DOMAIN readers, IsPresignedHttp(call.urls[i])
      PROVE  readers[i].kind = "signed" /\ readers[i].query = call.urls[i].query
  BY <1>4, Zenon DEF CacheInv, ReaderFor
<1> QED
  BY <1>3, <1>4, Zenon DEF ReadersOwn

LEMMA PoolsAsKeys ==
  ASSUME CacheInv
  PROVE  PoolsShared
  BY Zenon DEF CacheInv, PoolsShared, Shared

(* A source that is read as it was found has the window of its plan.       *)
LEMMA WindowsThere ==
  ASSUME TypeInv, PlanInv, FoundInv
  PROVE  FetchedAsPlanned
<1> SUFFICES ASSUME ReadyToFetch, call.op = "paths" => replaced = 0, NEW i \in Sources
             PROVE  Servable(i) /\ Grid(BuildMeta(headers[i])) = plans[i].grid
  BY Zenon DEF FetchedAsPlanned, PlanInv, PlansOwn
<1>1. plans # <<>> /\ DOMAIN plans = Sources /\ metas # <<>> /\ DOMAIN metas = Sources
  BY Zenon DEF PlanInv, ReadyToFetch, TypeInv, SourceTypeOK
<1>2. i \in DOMAIN headers /\ metas[i] = BuildMeta(headers[i])
  <2>1. CASE call.op # "paths"
    <3>1. JustBuilt
      BY <1>1, <2>1, Zenon DEF JustBuilt
    <3> QED
      BY <3>1, Zenon DEF PlanInv
  <2>2. CASE call.op = "paths"
    <3>1. DOMAIN headers = Sources
      BY <2>2, Zenon DEF ReadyToFetch
    <3> QED
      BY <1>1, <2>2, <3>1, Zenon DEF FoundInv
  <2> QED
    BY <2>1, <2>2
<1> DEFINE m == metas[i]
           p == plans[i]
           ifds == headers[i].ifds
<1>3. PlanTyped(p, m) /\ MetaTyped(m) /\ HeaderOK(headers[i])
  BY <1>1, <1>2, Zenon DEF PlanInv
<1>4. Grid(BuildMeta(headers[i])) = p.grid
  BY <1>2, <1>3, Zenon DEF PlanTyped
<1>5. /\ m.w = [l \in DOMAIN ifds |-> ifds[l].w] /\ m.h = [l \in DOMAIN ifds |-> ifds[l].h]
      /\ ifds \in Seq([w : Nat \ {0}, h : Nat \ {0}, mask : BOOLEAN])
  BY <1>2, <1>3 DEF BuildMeta, HeaderOK
<1>6. /\ p.level \in 1 .. Len(m.w) /\ m.w \in Seq(Nat \ {0}) /\ m.h \in Seq(Nat \ {0})
      /\ Len(m.w) = Len(m.h)
      /\ p.xoff + p.xsize = m.w[p.level] /\ p.yoff + p.ysize = m.h[p.level]
  BY <1>3, Zenon DEF PlanTyped, MetaTyped
<1> HIDE DEF m, p, ifds
<1>7. DOMAIN m.w = DOMAIN ifds /\ DOMAIN ifds = 1 .. Len(ifds) /\ Len(ifds) \in Nat
  BY <1>5
<1>8. DOMAIN m.w = 1 .. Len(m.w) /\ Len(m.w) \in Nat
  BY <1>6
<1>9. p.level \in DOMAIN ifds /\ p.level <= Len(ifds)
  BY <1>6, <1>7, <1>8
<1>10. m.w[p.level] = ifds[p.level].w /\ m.h[p.level] = ifds[p.level].h
  BY <1>5, <1>9
<1>11. /\ m.w[p.level] \in Nat /\ m.h[p.level] \in Nat
  BY <1>6, <1>7, <1>8, <1>9
<1>12. p.xoff + p.xsize <= ifds[p.level].w /\ p.yoff + p.ysize <= ifds[p.level].h
  <2>1. p.xoff + p.xsize = ifds[p.level].w /\ p.yoff + p.ysize = ifds[p.level].h
    BY <1>6, <1>10, Zenon
  <2>2. ifds[p.level].w \in Nat /\ ifds[p.level].h \in Nat
    BY <1>10, <1>11, Zenon
  <2> QED
    BY <2>1, <2>2, SMT
<1> QED
  BY <1>4, <1>9, <1>12, Zenon DEF Servable, m, p, ifds

LEMMA AllInPlace ==
  ASSUME TypeInv, PlanInv
  PROVE  GeoreferencedRight
<1>1. ASSUME JustBuilt, NEW i \in Sources PROVE PlacedRight(headers[i], metas[i].gt)
  <2>1. HeaderOK(headers[i]) /\ MetaOk(headers[i]) /\ metas[i] = BuildMeta(headers[i])
    BY <1>1, Zenon DEF PlanInv
  <2>2. metas[i].gt = ExtractGeotransform(headers[i])
    BY <2>1 DEF BuildMeta
  <2>3. PlacedRight(headers[i], ExtractGeotransform(headers[i]))
    BY <2>1, GeotransformRight, Zenon DEF MetaOk
  <2> QED
    BY <2>2, <2>3, Zenon
<1>2. ASSUME NEW i \in DOMAIN plans, SkewSafe(plans[i].grid, plans[i].level),
             NEW c \in {0, plans[i].xsize}, NEW r \in {0, plans[i].ysize}
      PROVE  WindowPlaced(metas[i].gt, plans[i].gt, metas[i].w[1], metas[i].h[1],
                          metas[i].w[plans[i].level], metas[i].h[plans[i].level],
                          plans[i].xoff, plans[i].yoff, c, r)
  <2> DEFINE p == plans[i]
             m == metas[i]
             w == m.w[1]
             h == m.h[1]
             wl == m.w[p.level]
             hl == m.h[p.level]
  <2>1. i \in DOMAIN metas
    <3>1. plans # <<>>
      BY <1>2, SMT
    <3> QED
      BY <1>2, <3>1, Zenon DEF PlanInv, TypeInv, SourceTypeOK
  <2>2. MetaTyped(m) /\ PlanTyped(p, m)
    BY <1>2, <2>1, Zenon DEF PlanInv
  <2> HIDE DEF p, m
  <2>3. PICK g1 \in Int, g2 \in Int, g3 \in Int, g4 \in Int, g5 \in Int, g6 \in Int :
          m.gt = <<g1, g2, g3, g4, g5, g6>>
    BY <2>2, Zenon DEF MetaTyped
  <2>4. /\ m.w \in Seq(Nat \ {0}) /\ m.h \in Seq(Nat \ {0}) /\ Len(m.w) = Len(m.h) /\ Len(m.w) > 0
        /\ p.level \in 1 .. Len(m.w) /\ p.xoff \in Int /\ p.yoff \in Int
        /\ p.xsize \in Int /\ p.ysize \in Int
        /\ p.gt = WindowGt(m.gt, w, h, wl, hl, p.xoff, p.yoff)
    BY <2>2, Zenon DEF MetaTyped, PlanTyped
  <2>5. w \in Int /\ h \in Int /\ wl \in Int /\ hl \in Int
    BY <2>4, SMT
  <2>6. c \in Int /\ r \in Int
    <3>1. c \in {0, p.xsize} /\ r \in {0, p.ysize}
      BY <1>2, Zenon DEF p
    <3> QED
      BY <2>4, <3>1, SMT
  <2>7. (m.gt[3] = 0 /\ m.gt[5] = 0) \/ w * hl = h * wl
    <3>1. p.grid.gt = m.gt /\ p.grid.w = m.w /\ p.grid.h = m.h
      BY <2>2, GridFields, Zenon DEF PlanTyped
    <3>2. SkewSafe(p.grid, p.level)
      BY <1>2, Zenon DEF p
    <3> QED
      BY <3>1, <3>2, Zenon DEF SkewSafe
  <2>8. m.gt[3] = g3 /\ m.gt[5] = g5
    BY <2>3, SMT
  <2> HIDE DEF w, h, wl, hl
  <2>9. (g3 = 0 /\ g5 = 0) \/ w * hl = h * wl
    BY <2>7, <2>8, Zenon
  <2>10. WindowPlaced(<<g1, g2, g3, g4, g5, g6>>,
                      WindowGt(<<g1, g2, g3, g4, g5, g6>>, w, h, wl, hl, p.xoff, p.yoff),
                      w, h, wl, hl, p.xoff, p.yoff, c, r)
    BY <2>4, <2>5, <2>6, <2>9, WindowPlacedRight
  <2>11. WindowPlaced(m.gt, p.gt, w, h, wl, hl, p.xoff, p.yoff, c, r)
    BY <2>3, <2>4, <2>10, Zenon
  <2> QED
    BY <2>11, Zenon DEF p, m, w, h, wl, hl
<1> QED
  BY <1>1, <1>2, Zenon DEF GeoreferencedRight

-----------------------------------------------------------------------------
(* The invariants, and what follows from them.                             *)

THEOREM SourceInvariant == SourceSpec => [](TypeInv /\ CacheInv /\ PlanInv /\ FoundInv)
<1>1. SourceInit => TypeInv /\ CacheInv /\ PlanInv /\ FoundInv
  BY TypeInit, CacheInit, PlanInit, FoundInit
<1>2. (TypeInv /\ CacheInv /\ PlanInv /\ FoundInv) /\ [SourceNext]_sourceVars
        => (TypeInv /\ CacheInv /\ PlanInv /\ FoundInv)'
  BY TypeStep, CacheStep, PlanStep, FoundStep
<1> QED
  BY <1>1, <1>2, PTL DEF SourceSpec

(* The types of the opening of sources.                                    *)
THEOREM SourceTyped == SourceSpec => []SourceTypeOK
<1>1. TypeInv => SourceTypeOK
  BY DEF TypeInv
<1> QED
  BY <1>1, SourceInvariant, PTL

(* Whatever is cached, a source is read through what opening it by itself  *)
(* would give but for the user, and a signed Azure URL with its signature  *)
(* unless the environment has an account key.                              *)
THEOREM SourceReadersOwn == SourceSpec => []ReadersOwn
<1>1. TypeInv /\ CacheInv => ReadersOwn
  BY OwnReader
<1> QED
  BY <1>1, SourceInvariant, PTL

(* Connection pools are shared by key, and the client by signed URLs.      *)
THEOREM SourcePoolsShared == SourceSpec => []PoolsShared
<1>1. CacheInv => PoolsShared
  BY PoolsAsKeys
<1> QED
  BY <1>1, SourceInvariant, PTL

(* Sources and the windows staged from them are where the headers say.     *)
THEOREM SourceGeoreferenced == SourceSpec => []GeoreferencedRight
<1>1. TypeInv /\ PlanInv => GeoreferencedRight
  BY AllInPlace
<1> QED
  BY <1>1, SourceInvariant, PTL

(* Plans are the source's own, whoever made them, and a fetch finds the    *)
(* window it was planned for unless a file was replaced on the way.        *)
THEOREM SourceFetchedAsPlanned == SourceSpec => []FetchedAsPlanned
<1>1. TypeInv /\ PlanInv /\ FoundInv => FetchedAsPlanned
  BY WindowsThere
<1> QED
  BY <1>1, SourceInvariant, PTL

(* The CRS of every source is its header's, however the call came by it.   *)
THEOREM SourceCrsRight == SourceSpec => []CrsRight
<1>1. ASSUME PlanInv PROVE CrsRight
  <2> SUFFICES ASSUME JustBuilt, NEW i \in Sources
               PROVE  CrsSaysAll(headers[i], metas[i].crs)
    BY DEF CrsRight
  <2>1. HeaderOK(headers[i]) /\ metas[i] = BuildMeta(headers[i])
    BY <1>1 DEF PlanInv
  <2>2. metas[i].crs = ResolveSrcCrs(headers[i])
    BY <2>1 DEF BuildMeta
  <2> QED
    BY <2>1, <2>2, CrsSaysWhatHeaderSays
<1> QED
  BY <1>1, SourceInvariant, PTL

=============================================================================
