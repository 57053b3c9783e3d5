--------------------------- MODULE TileGrid_proofs ---------------------------
(***************************************************************************)
(* The tile geometry, for every image, tile size and window: the scheduled *)
(* tiles are exactly those with a pixel of the window, they split it, and  *)
(* the offsets into tiles, files and outputs are one-to-one and in bounds. *)
(***************************************************************************)
EXTENDS TileGrid, TLAPS

-----------------------------------------------------------------------------
(* Places in rows: r rows of W and c more.                                 *)

LEMMA RadixDiv ==
  ASSUME NEW W \in Nat \ {0}, NEW r \in Nat, NEW c \in 0 .. W - 1
  PROVE  (r * W + c) \div W = r
  BY SMT

LEMMA RadixMod ==
  ASSUME NEW W \in Nat \ {0}, NEW r \in Nat, NEW c \in 0 .. W - 1
  PROVE  (r * W + c) % W = c
  BY SMT

LEMMA RadixUnique ==
  ASSUME NEW W \in Nat \ {0}, NEW r \in Nat, NEW c \in 0 .. W - 1,
         NEW s \in Nat, NEW d \in 0 .. W - 1,
         r * W + c = s * W + d
  PROVE  r = s /\ c = d
  BY RadixDiv, RadixMod, SMT

LEMMA RadixBound ==
  ASSUME NEW W \in Nat \ {0}, NEW R \in Nat, NEW r \in 0 .. R - 1, NEW c \in 0 .. W - 1
  PROVE  r * W + c \in 0 .. R * W - 1
<1>1. (r + 1) * W <= R * W
  BY SMT
<1>2. (r + 1) * W = r * W + W
  BY SMT
<1>3. r * W \in Nat
  BY SMT
<1> QED
  BY <1>1, <1>2, <1>3, SMT

LEMMA DivFacts ==
  ASSUME NEW W \in Nat \ {0}, NEW g \in Nat
  PROVE  /\ (g \div W) \in Nat
         /\ (g \div W) * W <= g
         /\ g < (g \div W + 1) * W
  BY SMT

LEMMA DivUnique ==
  ASSUME NEW W \in Nat \ {0}, NEW g \in Nat, NEW t \in Nat,
         t * W <= g, g < (t + 1) * W
  PROVE  g \div W = t
  BY SMT

LEMMA DivMonotone ==
  ASSUME NEW W \in Nat \ {0}, NEW a \in Nat, NEW b \in Nat, a <= b
  PROVE  a \div W <= b \div W
  BY SMT

(* A number of tiles that covers n pixels covers every pixel before n.     *)
LEMMA TileBeforeEnd ==
  ASSUME NEW W \in Nat \ {0}, NEW n \in Nat \ {0}, NEW g \in 0 .. n - 1
  PROVE  g \div W \in 0 .. ((n + W - 1) \div W) - 1
<1>1. g \div W \in Nat /\ (g \div W) * W <= g
  BY DivFacts
<1>2. g + W <= n + W - 1
  BY SMT
<1>3. (g + W) \div W = g \div W + 1
  <2>1. (g \div W + 1) * W <= g + W
    BY <1>1, SMT
  <2>2. g < (g \div W + 1) * W
    BY DivFacts
  <2>3. g + W < (g \div W + 1 + 1) * W
    BY <1>1, <2>2, SMT
  <2>4. g + W \in Nat /\ g \div W + 1 \in Nat
    BY <1>1
  <2> QED
    BY <2>1, <2>3, <2>4, DivUnique
<1>4. (g + W) \div W <= (n + W - 1) \div W
  BY <1>2, DivMonotone, SMT
<1> QED
  BY <1>1, <1>3, <1>4, SMT

-----------------------------------------------------------------------------
(* One axis of a window: first pixel a, end e, tiles of W pixels.          *)

LEMMA AxisCovers ==
  ASSUME NEW W \in Nat \ {0}, NEW a \in Nat, NEW e \in Nat, NEW g \in a .. e - 1
  PROVE  /\ g \div W \in (a \div W) .. ((e - 1) \div W)
         /\ g \in Larger((g \div W) * W, a) .. (Smaller((g \div W + 1) * W, e) - 1)
<1>1. g \div W \in Nat /\ (g \div W) * W <= g /\ g < (g \div W + 1) * W
  BY DivFacts
<1>2. a \div W <= g \div W /\ g \div W <= (e - 1) \div W
  BY DivMonotone
<1>3. a \div W \in Nat /\ (e - 1) \div W \in Nat
  BY DivFacts
<1>4. (g \div W) * W \in Nat /\ (g \div W + 1) * W \in Nat
  BY <1>1, SMT
<1> QED
  BY <1>1, <1>2, <1>3, <1>4 DEF Larger, Smaller

LEMMA AxisNonEmpty ==
  ASSUME NEW W \in Nat \ {0}, NEW a \in Nat, NEW e \in Nat, a < e,
         NEW t \in (a \div W) .. ((e - 1) \div W)
  PROVE  /\ t \in Nat
         /\ Larger(t * W, a) \in a .. e - 1
         /\ Larger(t * W, a) \div W = t
<1>1. a \div W \in Nat /\ a < (a \div W + 1) * W
  BY DivFacts
<1>2. (e - 1) \div W \in Nat /\ ((e - 1) \div W) * W <= e - 1
  BY DivFacts
<1>3. t \in Nat
  BY <1>1, <1>2
<1>4. t * W <= ((e - 1) \div W) * W
  BY <1>2, <1>3, SMT
<1>5. (a \div W + 1) * W <= (t + 1) * W
  BY <1>1, <1>3, SMT
<1>6. t * W \in Nat /\ (t + 1) * W \in Nat /\ t * W < (t + 1) * W
  BY <1>3, SMT
<1>7. t * W <= e - 1 /\ a < (t + 1) * W
  BY <1>1, <1>2, <1>4, <1>5, <1>6, SMT
<1>8. /\ Larger(t * W, a) \in a .. e - 1
      /\ t * W <= Larger(t * W, a) /\ Larger(t * W, a) < (t + 1) * W
  BY <1>6, <1>7 DEF Larger
<1> QED
  BY <1>3, <1>8, DivUnique

-----------------------------------------------------------------------------
(* Every pixel of a window lies in one scheduled tile, and in its overlap. *)
THEOREM TilesCoverWindow ==
  ASSUME NEW w \in Windows,
         NEW gx \in w.xoff .. Xend(w) - 1, NEW gy \in w.yoff .. Yend(w) - 1
  PROVE  /\ gx \div TileW \in TilesX(w) /\ gx \in OverlapX(w, gx \div TileW)
         /\ gy \div TileH \in TilesY(w) /\ gy \in OverlapY(w, gy \div TileH)
<1>1. /\ TileW \in Nat \ {0} /\ TileH \in Nat \ {0}
      /\ w.xoff \in Nat /\ Xend(w) \in Nat /\ w.yoff \in Nat /\ Yend(w) \in Nat
  BY GridAssumption DEF Windows, Xend, Yend
<1>2. /\ gx \div TileW \in (w.xoff \div TileW) .. ((Xend(w) - 1) \div TileW)
      /\ gx \in Larger((gx \div TileW) * TileW, w.xoff)
                  .. (Smaller((gx \div TileW + 1) * TileW, Xend(w)) - 1)
  BY <1>1, AxisCovers
<1>3. /\ gy \div TileH \in (w.yoff \div TileH) .. ((Yend(w) - 1) \div TileH)
      /\ gy \in Larger((gy \div TileH) * TileH, w.yoff)
                  .. (Smaller((gy \div TileH + 1) * TileH, Yend(w)) - 1)
  BY <1>1, AxisCovers
<1> QED
  BY <1>2, <1>3 DEF TilesX, TilesY, OverlapX, OverlapY

(* What a tile copies lies in the window and in that tile, so that two     *)
(* tiles never supply the same pixel.                                      *)
THEOREM OverlapsSplitWindow ==
  ASSUME NEW w \in Windows, NEW tx \in Nat, NEW ty \in Nat,
         NEW gx \in OverlapX(w, tx), NEW gy \in OverlapY(w, ty)
  PROVE  /\ gx \in w.xoff .. Xend(w) - 1 /\ gy \in w.yoff .. Yend(w) - 1
         /\ gx \div TileW = tx /\ gy \div TileH = ty
         /\ gx - tx * TileW \in 0 .. TileW - 1
         /\ gy - ty * TileH \in 0 .. TileH - 1
<1>1. /\ TileW \in Nat \ {0} /\ TileH \in Nat \ {0}
      /\ w.xoff \in Nat /\ Xend(w) \in Nat /\ w.yoff \in Nat /\ Yend(w) \in Nat
  BY GridAssumption DEF Windows, Xend, Yend
<1>2. /\ tx * TileW \in Nat /\ (tx + 1) * TileW \in Nat /\ (tx + 1) * TileW = tx * TileW + TileW
      /\ ty * TileH \in Nat /\ (ty + 1) * TileH \in Nat /\ (ty + 1) * TileH = ty * TileH + TileH
  BY <1>1, SMT
<1>3. /\ gx \in Nat /\ w.xoff <= gx /\ gx < Xend(w)
      /\ tx * TileW <= gx /\ gx < (tx + 1) * TileW
  BY <1>1, <1>2 DEF OverlapX, Larger, Smaller
<1>4. /\ gy \in Nat /\ w.yoff <= gy /\ gy < Yend(w)
      /\ ty * TileH <= gy /\ gy < (ty + 1) * TileH
  BY <1>1, <1>2 DEF OverlapY, Larger, Smaller
<1>5. gx \div TileW = tx /\ gy \div TileH = ty
  BY <1>1, <1>3, <1>4, DivUnique
<1> QED
  BY <1>1, <1>2, <1>3, <1>4, <1>5

(* No tile is read for nothing: each has a pixel of the window.            *)
THEOREM TilesAreNeeded ==
  ASSUME NEW w \in Windows, Fits(w), NEW tx \in TilesX(w), NEW ty \in TilesY(w)
  PROVE  /\ tx \in Nat /\ ty \in Nat
         /\ \E gx \in w.xoff .. Xend(w) - 1 : gx \div TileW = tx
         /\ \E gy \in w.yoff .. Yend(w) - 1 : gy \div TileH = ty
<1>1. /\ TileW \in Nat \ {0} /\ TileH \in Nat \ {0}
      /\ w.xoff \in Nat /\ Xend(w) \in Nat /\ w.yoff \in Nat /\ Yend(w) \in Nat
      /\ w.xoff < Xend(w) /\ w.yoff < Yend(w)
  BY GridAssumption DEF Windows, Xend, Yend, Fits
<1>2. tx \in (w.xoff \div TileW) .. ((Xend(w) - 1) \div TileW)
  BY DEF TilesX
<1>3. ty \in (w.yoff \div TileH) .. ((Yend(w) - 1) \div TileH)
  BY DEF TilesY
<1>4. /\ tx \in Nat /\ Larger(tx * TileW, w.xoff) \in w.xoff .. Xend(w) - 1
      /\ Larger(tx * TileW, w.xoff) \div TileW = tx
  BY <1>1, <1>2, AxisNonEmpty
<1>5. /\ ty \in Nat /\ Larger(ty * TileH, w.yoff) \in w.yoff .. Yend(w) - 1
      /\ Larger(ty * TileH, w.yoff) \div TileH = ty
  BY <1>1, <1>3, AxisNonEmpty
<1> QED
  BY <1>4, <1>5

(* The scheduled tiles are tiles of the image: the tile tables have them.  *)
THEOREM TilesExist ==
  ASSUME NEW w \in Windows, Fits(w), NEW tx \in TilesX(w), NEW ty \in TilesY(w)
  PROVE  tx \in 0 .. TilesPerRow - 1 /\ ty \in 0 .. TilesPerCol - 1
<1>1. /\ TileW \in Nat \ {0} /\ TileH \in Nat \ {0}
      /\ ImgW \in Nat \ {0} /\ ImgH \in Nat \ {0}
      /\ w.xoff \in Nat /\ w.yoff \in Nat /\ Xend(w) <= ImgW /\ Yend(w) <= ImgH
      /\ Xend(w) \in Nat /\ Yend(w) \in Nat
  BY GridAssumption DEF Windows, Xend, Yend, Fits
<1>2. PICK gx \in w.xoff .. Xend(w) - 1 : gx \div TileW = tx
  BY TilesAreNeeded
<1>3. PICK gy \in w.yoff .. Yend(w) - 1 : gy \div TileH = ty
  BY TilesAreNeeded
<1>4. gx \in 0 .. ImgW - 1 /\ gy \in 0 .. ImgH - 1
  BY <1>1
<1>5. gx \div TileW \in 0 .. ((ImgW + TileW - 1) \div TileW) - 1
  BY <1>1, <1>4, TileBeforeEnd
<1>6. gy \div TileH \in 0 .. ((ImgH + TileH - 1) \div TileH) - 1
  BY <1>1, <1>4, TileBeforeEnd
<1> QED
  BY <1>2, <1>3, <1>5, <1>6 DEF TilesPerRow, TilesPerCol

(* Where a pixel of the window goes in one band of the output.             *)
LEMMA InBand ==
  ASSUME NEW w \in Windows, NEW gx \in w.xoff .. Xend(w) - 1, NEW gy \in w.yoff .. Yend(w) - 1
  PROVE  /\ w.xsize \in Nat \ {0} /\ w.ysize \in Nat \ {0}
         /\ gx - w.xoff \in 0 .. w.xsize - 1 /\ gy - w.yoff \in 0 .. w.ysize - 1
         /\ BandArea(w) = w.ysize * w.xsize /\ BandArea(w) \in Nat \ {0}
         /\ (gy - w.yoff) * w.xsize + (gx - w.xoff) \in 0 .. BandArea(w) - 1
<1>1. /\ w.xsize \in Nat \ {0} /\ w.ysize \in Nat \ {0}
      /\ gx - w.xoff \in 0 .. w.xsize - 1 /\ gy - w.yoff \in 0 .. w.ysize - 1
  BY DEF Windows, Xend, Yend
<1>2. BandArea(w) = w.ysize * w.xsize
  BY <1>1, SMT DEF BandArea
<1>3. (gy - w.yoff) * w.xsize + (gx - w.xoff) \in 0 .. w.ysize * w.xsize - 1
  BY <1>1, RadixBound
<1>4. w.ysize * w.xsize \in Nat \ {0}
  BY <1>1, SMT
<1> QED
  BY <1>1, <1>2, <1>3, <1>4

(* Two pixels of the output never share a place, and all are in bounds.    *)
THEOREM OutIndexInBounds ==
  ASSUME NEW w \in Windows, NEW n \in Nat, NEW ob \in 0 .. n - 1,
         NEW gx \in w.xoff .. Xend(w) - 1, NEW gy \in w.yoff .. Yend(w) - 1
  PROVE  OutIndex(w, ob, gx, gy) \in 0 .. BandArea(w) * n - 1
<1>1. /\ BandArea(w) \in Nat \ {0}
      /\ (gy - w.yoff) * w.xsize + (gx - w.xoff) \in 0 .. BandArea(w) - 1
  BY InBand
<1>2. ob * BandArea(w) + ((gy - w.yoff) * w.xsize + (gx - w.xoff)) \in 0 .. n * BandArea(w) - 1
  BY <1>1, RadixBound
<1>3. n * BandArea(w) = BandArea(w) * n
  BY <1>1, SMT
<1> QED
  BY <1>2, <1>3 DEF OutIndex

THEOREM OutIndexInjective ==
  ASSUME NEW w \in Windows, NEW a \in Nat, NEW b \in Nat,
         NEW gx \in w.xoff .. Xend(w) - 1, NEW gy \in w.yoff .. Yend(w) - 1,
         NEW hx \in w.xoff .. Xend(w) - 1, NEW hy \in w.yoff .. Yend(w) - 1,
         OutIndex(w, a, gx, gy) = OutIndex(w, b, hx, hy)
  PROVE  a = b /\ gx = hx /\ gy = hy
<1>1. /\ BandArea(w) \in Nat \ {0}
      /\ (gy - w.yoff) * w.xsize + (gx - w.xoff) \in 0 .. BandArea(w) - 1
      /\ (hy - w.yoff) * w.xsize + (hx - w.xoff) \in 0 .. BandArea(w) - 1
  BY InBand
<1>2. a = b /\ (gy - w.yoff) * w.xsize + (gx - w.xoff) = (hy - w.yoff) * w.xsize + (hx - w.xoff)
  <2>1. a * BandArea(w) + ((gy - w.yoff) * w.xsize + (gx - w.xoff))
          = b * BandArea(w) + ((hy - w.yoff) * w.xsize + (hx - w.xoff))
    BY DEF OutIndex
  <2>2. PICK B \in Nat \ {0} : B = BandArea(w)
    BY <1>1
  <2>3. PICK p \in 0 .. B - 1 : p = (gy - w.yoff) * w.xsize + (gx - w.xoff)
    BY <1>1, <2>2
  <2>4. PICK q \in 0 .. B - 1 : q = (hy - w.yoff) * w.xsize + (hx - w.xoff)
    BY <1>1, <2>2
  <2>5. a * B + p = b * B + q
    BY <2>1, <2>2, <2>3, <2>4
  <2>6. a = b /\ p = q
    BY <2>5, RadixUnique
  <2> QED
    BY <2>3, <2>4, <2>6
<1>3. /\ w.xsize \in Nat \ {0}
      /\ gx - w.xoff \in 0 .. w.xsize - 1 /\ gy - w.yoff \in Nat
      /\ hx - w.xoff \in 0 .. w.xsize - 1 /\ hy - w.yoff \in Nat
  BY InBand
<1>4. gy - w.yoff = hy - w.yoff /\ gx - w.xoff = hx - w.xoff
  BY <1>2, <1>3, RadixUnique
<1>5. gx \in Int /\ gy \in Int /\ hx \in Int /\ hy \in Int /\ w.xoff \in Int /\ w.yoff \in Int
  BY DEF Windows, Xend, Yend
<1> QED
  BY <1>2, <1>4, <1>5

=============================================================================
