------------------------- MODULE PooledFetch_proofs -------------------------
(***************************************************************************)
(* For every image, tile size, band count, list of windows and pool size:  *)
(* a pooled fetch that returns has every requested pixel right.  The       *)
(* invariant says that a pixel is right or its tile is still to be         *)
(* blitted; the arithmetic is that of TileGrid_proofs.                     *)
(***************************************************************************)
EXTENDS PooledFetch, TileGrid_proofs

-----------------------------------------------------------------------------
(* Offsets into a tile buffer, read back.                                  *)

LEMMA GridNumbers ==
  /\ TileW \in Nat \ {0} /\ TileH \in Nat \ {0} /\ NBands \in Nat \ {0}
  /\ TileArea \in Nat \ {0} /\ TileArea = TileH * TileW
<1>1. TileW \in Nat \ {0} /\ TileH \in Nat \ {0} /\ NBands \in Nat \ {0}
  BY GridAssumption
<1> QED
  BY <1>1, SMT DEF TileArea

LEMMA InTile ==
  ASSUME NEW c \in 0 .. TileW - 1, NEW r \in 0 .. TileH - 1
  PROVE  /\ r * TileW + c \in 0 .. TileArea - 1
         /\ (r * TileW + c) % TileW = c
         /\ (r * TileW + c) \div TileW = r
<1>1. r * TileW + c \in 0 .. TileH * TileW - 1
  BY GridNumbers, RadixBound
<1>2. r \in Nat
  OBVIOUS
<1> QED
  BY <1>1, <1>2, GridNumbers, RadixDiv, RadixMod

LEMMA PlanarRead ==
  ASSUME NEW n \in Nat, NEW b \in 0 .. n - 1,
         NEW c \in 0 .. TileW - 1, NEW r \in 0 .. TileH - 1
  PROVE  /\ PlanarIndex(b, c, r) \in 0 .. n * TileArea - 1
         /\ Plane(PlanarIndex(b, c, r)) = b
         /\ InPlane(PlanarIndex(b, c, r)) % TileW = c
         /\ InPlane(PlanarIndex(b, c, r)) \div TileW = r
<1>1. PICK A \in Nat \ {0} : A = TileArea
  BY GridNumbers
<1>2. PICK p \in 0 .. A - 1 : p = r * TileW + c
  BY <1>1, InTile
<1>3. PlanarIndex(b, c, r) = b * A + p
  BY <1>1, <1>2 DEF PlanarIndex
<1>4. b * A + p \in 0 .. n * A - 1
  BY RadixBound
<1>5. (b * A + p) \div A = b /\ (b * A + p) % A = p
  BY RadixDiv, RadixMod
<1>6. Plane(PlanarIndex(b, c, r)) = b /\ InPlane(PlanarIndex(b, c, r)) = p
  BY <1>1, <1>3, <1>5 DEF Plane, InPlane
<1>7. p % TileW = c /\ p \div TileW = r
  BY <1>2, InTile
<1> QED
  BY <1>1, <1>3, <1>4, <1>6, <1>7

LEMMA ChunkyRead ==
  ASSUME NEW b \in 0 .. NBands - 1, NEW c \in 0 .. TileW - 1, NEW r \in 0 .. TileH - 1
  PROVE  /\ ChunkyIndex(b, c, r) \in 0 .. NBands * TileArea - 1
         /\ ChunkyIndex(b, c, r) % NBands = b
         /\ (ChunkyIndex(b, c, r) \div NBands) % TileW = c
         /\ (ChunkyIndex(b, c, r) \div NBands) \div TileW = r
<1>1. PICK A \in Nat \ {0} : A = TileArea
  BY GridNumbers
<1>2. PICK p \in 0 .. A - 1 : p = r * TileW + c
  BY <1>1, InTile
<1>3. ChunkyIndex(b, c, r) = p * NBands + b
  BY <1>2 DEF ChunkyIndex
<1>4. p * NBands + b \in 0 .. A * NBands - 1
  BY GridNumbers, RadixBound
<1>5. A * NBands = NBands * A
  BY GridNumbers, SMT
<1>6. (p * NBands + b) \div NBands = p /\ (p * NBands + b) % NBands = b
  BY GridNumbers, RadixDiv, RadixMod
<1>7. p % TileW = c /\ p \div TileW = r
  BY <1>2, InTile
<1> QED
  BY <1>1, <1>3, <1>4, <1>5, <1>6, <1>7

(* The tile tables of a planar image, read back.                           *)
LEMMA TableRead ==
  ASSUME NEW b \in 0 .. NBands - 1,
         NEW tx \in 0 .. TilesPerRow - 1, NEW ty \in 0 .. TilesPerCol - 1
  PROVE  /\ BandTileIndex(b, tx, ty) \in 0 .. NBands * TilesPerBand - 1
         /\ FileBand(BandTileIndex(b, tx, ty)) = b
         /\ FileTx(BandTileIndex(b, tx, ty)) = tx
         /\ FileTy(BandTileIndex(b, tx, ty)) = ty
<1>1. TilesPerRow \in Nat /\ TilesPerCol \in Nat
  <2>1. /\ TileW \in Nat \ {0} /\ TileH \in Nat \ {0}
        /\ ImgW + TileW - 1 \in Nat /\ ImgH + TileH - 1 \in Nat
    BY GridAssumption
  <2> QED
    BY <2>1, DivFacts DEF TilesPerRow, TilesPerCol
<1>2. PICK R \in Nat \ {0} : R = TilesPerRow
  BY <1>1
<1>3. PICK C \in Nat \ {0} : C = TilesPerCol
  BY <1>1
<1>4. PICK A \in Nat \ {0} : A = C * R
  BY SMT
<1>5. TilesPerBand = A
  BY <1>2, <1>3, <1>4, SMT DEF TilesPerBand
<1>6. PICK p \in 0 .. A - 1 : p = ty * R + tx
  <2>1. ty * R + tx \in 0 .. C * R - 1
    BY <1>2, <1>3, RadixBound
  <2> QED
    BY <2>1, <1>4
<1>7. p % R = tx /\ p \div R = ty
  BY <1>2, <1>6, RadixDiv, RadixMod
<1>8. BandTileIndex(b, tx, ty) = b * A + p
  BY <1>2, <1>5, <1>6 DEF BandTileIndex
<1>9. b * A + p \in 0 .. NBands * A - 1
  BY GridNumbers, RadixBound
<1>10. (b * A + p) \div A = b /\ (b * A + p) % A = p
  BY GridNumbers, RadixDiv, RadixMod
<1> QED
  BY <1>2, <1>5, <1>7, <1>8, <1>9, <1>10 DEF FileBand, FileTx, FileTy

-----------------------------------------------------------------------------
(* What a planned call knows.                                              *)

LEMMA BandsFacts ==
  ASSUME PoolTypeOK, BandsValid
  PROVE  /\ NSel \in Nat
         /\ \A ob \in 0 .. NSel - 1 : Bands[ob + 1] \in 0 .. NBands - 1
<1>1. bands0 \in Seq(Nat)
  BY PoolAssumption DEF PoolTypeOK
<1>2. CASE bands0 = <<>>
  <2>1. Bands = [k \in 1 .. NBands |-> k - 1]
    BY <1>2 DEF Bands
  <2>2. Len(Bands) = NBands
    BY <2>1, GridNumbers
  <2> QED
    BY <2>1, <2>2, GridNumbers DEF NSel
<1>3. CASE bands0 # <<>>
  <2>1. Bands = bands0 /\ NSel = Len(bands0)
    BY <1>3 DEF Bands, NSel
  <2>2. \A k \in 1 .. Len(bands0) : bands0[k] \in Nat /\ bands0[k] < NBands
    BY <1>1 DEF BandsValid
  <2> QED
    BY <1>1, <2>1, <2>2, GridNumbers
<1> QED
  BY <1>2, <1>3

LEMMA SomeBand ==
  ASSUME PoolTypeOK
  PROVE  NSel \in Nat \ {0}
<1>1. bands0 \in Seq(Nat)
  BY PoolAssumption DEF PoolTypeOK
<1>2. CASE bands0 = <<>>
  BY <1>2, GridNumbers DEF Bands, NSel
<1>3. CASE bands0 # <<>>
  BY <1>1, <1>3 DEF Bands, NSel
<1> QED
  BY <1>2, <1>3

LEMMA WindowFacts ==
  ASSUME PoolTypeOK, NEW i \in Wins
  PROVE  req[i] \in Windows
  BY PoolAssumption DEF PoolTypeOK

LEMMA TileFacts ==
  ASSUME NEW t \in TileRefs
  PROVE  /\ t[1] \in Wins /\ t[2] \in Nat /\ t[3] \in Nat
         /\ t[2] \in TilesX(req[t[1]]) /\ t[3] \in TilesY(req[t[1]])
         /\ t = <<t[1], t[2], t[3]>>
  BY DEF TileRefs, Tiles

(* A pixel that a tile writes: in the window, and in no other tile.        *)
LEMMA CellFacts ==
  ASSUME PoolTypeOK, NEW t \in TileRefs, NEW x \in Cells(t)
  PROVE  /\ x \in Pixels(t[1])
         /\ TileOf(t[1], x) = t
         /\ x[1] \in 0 .. NSel - 1
         /\ x[2] - t[2] * TileW \in 0 .. TileW - 1
         /\ x[3] - t[3] * TileH \in 0 .. TileH - 1
         /\ x[2] \in Nat /\ x[3] \in Nat
<1>1. /\ t[1] \in Wins /\ t[2] \in Nat /\ t[3] \in Nat /\ t = <<t[1], t[2], t[3]>>
      /\ req[t[1]] \in Windows
  BY TileFacts, WindowFacts
<1>2. /\ x[1] \in 0 .. NSel - 1
      /\ x[2] \in OverlapX(req[t[1]], t[2]) /\ x[3] \in OverlapY(req[t[1]], t[3])
      /\ x = <<x[1], x[2], x[3]>>
  BY DEF Cells
<1>3. /\ x[2] \in req[t[1]].xoff .. Xend(req[t[1]]) - 1
      /\ x[3] \in req[t[1]].yoff .. Yend(req[t[1]]) - 1
      /\ x[2] \div TileW = t[2] /\ x[3] \div TileH = t[3]
      /\ x[2] - t[2] * TileW \in 0 .. TileW - 1
      /\ x[3] - t[3] * TileH \in 0 .. TileH - 1
  BY <1>1, <1>2, OverlapsSplitWindow
<1>4. x[2] \in Nat /\ x[3] \in Nat
  BY <1>1, <1>3 DEF Windows, Xend, Yend
<1> QED
  BY <1>1, <1>2, <1>3, <1>4 DEF Pixels, TileOf

(* A pixel of a window is written by its tile.                             *)
LEMMA PixelFacts ==
  ASSUME PoolTypeOK, NEW i \in Wins, NEW x \in Pixels(i)
  PROVE  /\ TileOf(i, x) \in Tiles(i)
         /\ x \in Cells(TileOf(i, x))
         /\ OutIndex(req[i], x[1], x[2], x[3]) \in OutDomain(i)
<1>1. /\ x[1] \in 0 .. NSel - 1
      /\ x[2] \in req[i].xoff .. Xend(req[i]) - 1 /\ x[3] \in req[i].yoff .. Yend(req[i]) - 1
      /\ x = <<x[1], x[2], x[3]>>
  BY DEF Pixels
<1>2. req[i] \in Windows /\ NSel \in Nat
  BY WindowFacts, SomeBand
<1>3. /\ x[2] \div TileW \in TilesX(req[i]) /\ x[2] \in OverlapX(req[i], x[2] \div TileW)
      /\ x[3] \div TileH \in TilesY(req[i]) /\ x[3] \in OverlapY(req[i], x[3] \div TileH)
  BY <1>1, <1>2, TilesCoverWindow
<1>4. OutIndex(req[i], x[1], x[2], x[3]) \in 0 .. BandArea(req[i]) * NSel - 1
  BY <1>1, <1>2, OutIndexInBounds
<1> QED
  BY <1>1, <1>3, <1>4 DEF Tiles, TileOf, Cells, OutDomain

(* A blit reads, within the tile buffer, the pixel it is about to write.   *)
LEMMA ReadRight ==
  ASSUME PoolTypeOK, BandsValid, NEW t \in TileRefs, Fits(req[t[1]]), NEW x \in Cells(t)
  PROVE  /\ SrcIndex(t, x[1], x[2], x[3]) \in DOMAIN TileData(t)
         /\ TileData(t)[SrcIndex(t, x[1], x[2], x[3])] = ValueOf(t[1], x)
<1>1. PICK c \in 0 .. TileW - 1 : c = x[2] - t[2] * TileW
  BY CellFacts
<1>2. PICK w \in 0 .. TileH - 1 : w = x[3] - t[3] * TileH
  BY CellFacts
<1>3. /\ x[1] \in 0 .. NSel - 1 /\ x[2] \in Nat /\ x[3] \in Nat
      /\ t[2] \in Nat /\ t[3] \in Nat
      /\ NSel \in Nat /\ Bands[x[1] + 1] \in 0 .. NBands - 1
  BY CellFacts, TileFacts, BandsFacts
<1>4. t[2] * TileW + c = x[2] /\ t[3] * TileH + w = x[3]
  <2>1. PICK p \in Nat : p = t[2] * TileW
    BY <1>3, GridNumbers, SMT
  <2>2. PICK q \in Nat : q = t[3] * TileH
    BY <1>3, GridNumbers, SMT
  <2>3. c = x[2] - p /\ w = x[3] - q
    BY <1>1, <1>2, <2>1, <2>2
  <2>4. p + c = x[2] /\ q + w = x[3]
    BY <1>3, <2>3
  <2> QED
    BY <2>1, <2>2, <2>4
<1>5. PICK b \in 0 .. NBands - 1 : b = Bands[x[1] + 1]
  BY <1>3
<1>6. CASE UseBandFetch
  <2>1. PICK d : d = PlanarIndex(x[1], c, w)
    OBVIOUS
  <2>2. SrcIndex(t, x[1], x[2], x[3]) = d
    BY <1>1, <1>2, <1>6, <2>1 DEF SrcIndex, BufBand
  <2>3. /\ d \in 0 .. NSel * TileArea - 1 /\ Plane(d) = x[1]
        /\ InPlane(d) % TileW = c /\ InPlane(d) \div TileW = w
    BY <1>3, <2>1, PlanarRead
  <2>4. t[2] \in 0 .. TilesPerRow - 1 /\ t[3] \in 0 .. TilesPerCol - 1
    BY TileFacts, WindowFacts, TilesExist
  <2>5. PICK k : k = BandTileIndex(b, t[2], t[3])
    OBVIOUS
  <2>6. FileBand(k) = b /\ FileTx(k) = t[2] /\ FileTy(k) = t[3]
    BY <2>4, <2>5, TableRead
  <2>7. BandTileIndex(Bands[Plane(d) + 1], t[2], t[3]) = k
    BY <1>5, <2>3, <2>5
  <2>8. /\ DOMAIN TileData(t) = 0 .. NSel * TileArea - 1
        /\ TileData(t)[d] =
             <<t[1], FileBand(k), FileTx(k) * TileW + (InPlane(d) % TileW),
               FileTy(k) * TileH + (InPlane(d) \div TileW)>>
    BY <1>6, <2>3, <2>7 DEF TileData
  <2> QED
    BY <1>4, <1>5, <2>2, <2>3, <2>6, <2>8 DEF ValueOf
<1>7. CASE ~UseBandFetch /\ planar
  <2>1. PICK d : d = PlanarIndex(b, c, w)
    OBVIOUS
  <2>2. SrcIndex(t, x[1], x[2], x[3]) = d
    BY <1>1, <1>2, <1>5, <1>7, <2>1 DEF SrcIndex, BufBand
  <2>3. /\ d \in 0 .. NBands * TileArea - 1 /\ Plane(d) = b
        /\ InPlane(d) % TileW = c /\ InPlane(d) \div TileW = w
    <3>1. PICK n \in Nat : n = NBands
      BY GridNumbers
    <3>2. b \in 0 .. n - 1
      BY <3>1
    <3>3. d \in 0 .. n * TileArea - 1
      BY <2>1, <3>2, PlanarRead
    <3> QED
      BY <2>1, <3>1, <3>2, <3>3, PlanarRead
  <2>4. /\ DOMAIN TileData(t) = 0 .. NBands * TileArea - 1
        /\ TileData(t)[d] =
             <<t[1], Plane(d), t[2] * TileW + (InPlane(d) % TileW),
               t[3] * TileH + (InPlane(d) \div TileW)>>
    BY <1>7, <2>3 DEF TileData
  <2> QED
    BY <1>4, <1>5, <2>2, <2>3, <2>4 DEF ValueOf
<1>8. CASE ~UseBandFetch /\ ~planar
  <2>1. PICK d : d = ChunkyIndex(b, c, w)
    OBVIOUS
  <2>2. SrcIndex(t, x[1], x[2], x[3]) = d
    BY <1>1, <1>2, <1>5, <1>8, <2>1 DEF SrcIndex, BufBand
  <2>3. /\ d \in 0 .. NBands * TileArea - 1 /\ d % NBands = b
        /\ (d \div NBands) % TileW = c /\ (d \div NBands) \div TileW = w
    BY <2>1, ChunkyRead
  <2>4. /\ DOMAIN TileData(t) = 0 .. NBands * TileArea - 1
        /\ TileData(t)[d] =
             <<t[1], d % NBands, t[2] * TileW + ((d \div NBands) % TileW),
               t[3] * TileH + ((d \div NBands) \div TileW)>>
    BY <1>8, <2>3 DEF TileData
  <2> QED
    BY <1>4, <1>5, <2>2, <2>3, <2>4 DEF ValueOf
<1> QED
  BY <1>6, <1>7, <1>8

(* One blit: its pixels become right, the others stay.                     *)
LEMMA CopiedPixel ==
  ASSUME PoolTypeOK, BandsValid, NEW t \in TileRefs, Fits(req[t[1]]),
         NEW out, DOMAIN out = OutDomain(t[1]), NEW x \in Pixels(t[1])
  PROVE  LET d == OutIndex(req[t[1]], x[1], x[2], x[3])
         IN  Copied(out, t)[d] = IF TileOf(t[1], x) = t THEN ValueOf(t[1], x) ELSE out[d]
<1>1. t[1] \in Wins /\ req[t[1]] \in Windows
  BY TileFacts, WindowFacts
<1>2. PICK d \in OutDomain(t[1]) : d = OutIndex(req[t[1]], x[1], x[2], x[3])
  BY <1>1, PixelFacts
<1>3. PICK S : S = {y \in Cells(t) : OutIndex(req[t[1]], y[1], y[2], y[3]) = d}
  OBVIOUS
<1>4. \A y \in S : y = x
  <2> SUFFICES ASSUME NEW y \in S PROVE y = x
    OBVIOUS
  <2>1. y \in Cells(t) /\ OutIndex(req[t[1]], y[1], y[2], y[3]) = OutIndex(req[t[1]], x[1], x[2], x[3])
    BY <1>2, <1>3
  <2>2. y \in Pixels(t[1])
    BY <2>1, CellFacts
  <2>3. /\ x[1] \in Nat /\ y[1] \in Nat
        /\ x[2] \in req[t[1]].xoff .. Xend(req[t[1]]) - 1
        /\ y[2] \in req[t[1]].xoff .. Xend(req[t[1]]) - 1
        /\ x[3] \in req[t[1]].yoff .. Yend(req[t[1]]) - 1
        /\ y[3] \in req[t[1]].yoff .. Yend(req[t[1]]) - 1
        /\ x = <<x[1], x[2], x[3]>> /\ y = <<y[1], y[2], y[3]>>
    BY <2>2, SomeBand DEF Pixels
  <2>4. x[1] = y[1] /\ x[2] = y[2] /\ x[3] = y[3]
    BY <1>1, <2>1, <2>3, OutIndexInjective
  <2> QED
    BY <2>3, <2>4
<1>5. Copied(out, t)[d] =
        IF S = {} THEN out[d]
        ELSE TileData(t)[SrcIndex(t, (CHOOSE y \in S : TRUE)[1], (CHOOSE y \in S : TRUE)[2],
                                  (CHOOSE y \in S : TRUE)[3])]
  BY <1>2, <1>3 DEF Copied
<1>6. CASE TileOf(t[1], x) = t
  <2>1. x \in Cells(t)
    BY <1>1, <1>6, PixelFacts
  <2>2. x \in S
    BY <1>2, <1>3, <2>1
  <2>3. S # {} /\ (CHOOSE y \in S : TRUE) = x
    BY <1>4, <2>2
  <2>4. TileData(t)[SrcIndex(t, x[1], x[2], x[3])] = ValueOf(t[1], x)
    BY <2>1, ReadRight
  <2> QED
    BY <1>2, <1>5, <1>6, <2>3, <2>4
<1>7. CASE TileOf(t[1], x) # t
  <2>1. S = {}
    <3> SUFFICES ASSUME NEW y \in S PROVE FALSE
      OBVIOUS
    <3>1. x \in Cells(t)
      BY <1>3, <1>4
    <3> QED
      BY <1>7, <3>1, CellFacts
  <2> QED
    BY <1>2, <1>5, <1>7, <2>1
<1> QED
  BY <1>6, <1>7

(* A place that a blit changes is that of one of its pixels.               *)
LEMMA CopiedPlace ==
  ASSUME PoolTypeOK, NEW t \in TileRefs, NEW out, NEW d \in DOMAIN out
  PROVE  \/ Copied(out, t)[d] = out[d]
         \/ \E x \in Pixels(t[1]) :
              TileOf(t[1], x) = t /\ d = OutIndex(req[t[1]], x[1], x[2], x[3])
<1>1. PICK S : S = {y \in Cells(t) : OutIndex(req[t[1]], y[1], y[2], y[3]) = d}
  OBVIOUS
<1>2. CASE S = {}
  BY <1>1, <1>2 DEF Copied
<1>3. CASE S # {}
  <2>1. PICK y \in Cells(t) : OutIndex(req[t[1]], y[1], y[2], y[3]) = d
    BY <1>1, <1>3
  <2> QED
    BY <2>1, CellFacts
<1> QED
  BY <1>2, <1>3

-----------------------------------------------------------------------------
(* The request never changes, nor what is derived from it.                 *)
LEMMA AskedSame ==
  ASSUME UNCHANGED asked
  PROVE  /\ Bands' = Bands /\ NSel' = NSel /\ (BandsValid <=> BandsValid')
         /\ TileRefs' = TileRefs
         /\ \A i : Tiles(i)' = Tiles(i) /\ Pixels(i)' = Pixels(i) /\ OutDomain(i)' = OutDomain(i)
         /\ \A i : req'[i] = req[i]
         /\ \A i, x : ValueOf(i, x)' = ValueOf(i, x)
  BY DEF asked, Bands, NSel, BandsValid, TileRefs, Tiles, Pixels, OutDomain, ValueOf

(* The tiles of the windows are the tiles of their pixels.                 *)
LEMMA TilesOfPixels ==
  ASSUME PoolTypeOK, \A i \in Wins : Fits(req[i])
  PROVE  UNION {Tiles(i) : i \in Wins} = UNION {{TileOf(i, x) : x \in Pixels(i)} : i \in Wins}
<1>1. ASSUME NEW t \in UNION {Tiles(i) : i \in Wins}
      PROVE  t \in UNION {{TileOf(i, x) : x \in Pixels(i)} : i \in Wins}
  <2>1. PICK i \in Wins : t \in Tiles(i)
    BY <1>1
  <2>2. t[2] \in TilesX(req[i]) /\ t[3] \in TilesY(req[i]) /\ t = <<i, t[2], t[3]>>
    BY <2>1 DEF Tiles
  <2>3. req[i] \in Windows /\ Fits(req[i])
    BY WindowFacts
  <2>4. PICK gx \in req[i].xoff .. Xend(req[i]) - 1 : gx \div TileW = t[2]
    BY <2>2, <2>3, TilesAreNeeded
  <2>5. PICK gy \in req[i].yoff .. Yend(req[i]) - 1 : gy \div TileH = t[3]
    BY <2>2, <2>3, TilesAreNeeded
  <2>6. <<0, gx, gy>> \in Pixels(i) /\ TileOf(i, <<0, gx, gy>>) = t
    BY <2>2, <2>4, <2>5, SomeBand DEF Pixels, TileOf
  <2> QED
    BY <2>6
<1>2. ASSUME NEW i \in Wins, NEW x \in Pixels(i)
      PROVE  TileOf(i, x) \in UNION {Tiles(j) : j \in Wins}
  BY <1>2, PixelFacts
<1> QED
  BY <1>1, <1>2

LEMMA PoolInitInv == PoolInit => PoolInv
  BY PoolAssumption DEF PoolInit, PoolInv, PoolTypeOK, Planned, TilesKnown, TilesExact,
     PixelsPending, StagesClean

LEMMA PlanInv == PoolInv /\ Plan => PoolInv'
<1> SUFFICES ASSUME PoolInv, Plan PROVE PoolInv'
  OBVIOUS
<1>1. /\ UNCHANGED asked /\ UNCHANGED <<active, decoded, outs>> /\ phase = "plan"
      /\ active = {} /\ decoded = {} /\ outs = <<>>
  BY DEF Plan, PoolInv, PoolTypeOK, StagesClean
<1>2. CASE BandsValid /\ \A i \in Wins : Fits(req[i])
  <2>1. waiting' = UNION {Tiles(i) : i \in Wins} /\ phase' = "fetch"
    BY <1>2 DEF Plan
  <2>2. \A t \in waiting' : t \in TileRefs /\ t \in Wins \X Nat \X Nat
    <3> SUFFICES ASSUME NEW t \in waiting' PROVE t \in TileRefs /\ t \in Wins \X Nat \X Nat
      OBVIOUS
    <3>1. PICK i \in Wins : t \in Tiles(i)
      BY <2>1
    <3>2. t[1] = i /\ t[2] \in TilesX(req[i]) /\ t[3] \in TilesY(req[i]) /\ t = <<i, t[2], t[3]>>
      BY <3>1 DEF Tiles
    <3>3. req[i] \in Windows /\ Fits(req[i])
      BY <1>2, WindowFacts DEF PoolInv
    <3>4. t[2] \in Nat /\ t[3] \in Nat
      BY <3>2, <3>3, TilesAreNeeded
    <3> QED
      BY <3>1, <3>2, <3>4 DEF TileRefs
  <2>3. waiting' = UNION {{TileOf(i, x) : x \in Pixels(i)} : i \in Wins}
    BY <1>2, <2>1, TilesOfPixels DEF PoolInv
  <2>4. PoolTypeOK'
    BY <1>1, <2>1, <2>2 DEF PoolInv, PoolTypeOK, asked
  <2>5. Planned'
    BY <1>1, <1>2, <2>1 DEF Planned, asked, BandsValid
  <2>6. TilesKnown'
    BY <1>1, <2>2, AskedSame DEF TilesKnown
  <2>7. TilesExact'
    BY <1>1, <2>3, AskedSame DEF TilesExact, TileOf
  <2> QED
    BY <1>1, <2>1, <2>4, <2>5, <2>6, <2>7 DEF PoolInv, PixelsPending, StagesClean
<1>3. CASE ~(BandsValid /\ \A i \in Wins : Fits(req[i]))
  <2>1. waiting' = {} /\ phase' = "error"
    BY <1>3 DEF Plan
  <2> QED
    BY <1>1, <2>1 DEF PoolInv, PoolTypeOK, asked, Planned, TilesKnown, TilesExact,
       PixelsPending, StagesClean
<1> QED
  BY <1>2, <1>3

(* A tile that moves to the next stage of the fetch.                       *)
LEMMA MoveInv ==
  ASSUME PoolInv, phase = "fetch", UNCHANGED <<asked, outs, phase>>,
         waiting' \cup active' \cup decoded' = waiting \cup active \cup decoded,
         waiting' \cap active' = {}, waiting' \cap decoded' = {}, active' \cap decoded' = {}
  PROVE  PoolInv'
<1>1. UNCHANGED asked
  OBVIOUS
<1>2. PoolTypeOK'
  BY DEF PoolInv, PoolTypeOK, asked
<1>3. Planned' /\ TilesKnown'
  BY <1>1, AskedSame DEF PoolInv, Planned, TilesKnown, asked
<1>4. TilesExact'
  BY <1>1, AskedSame DEF PoolInv, TilesExact, TileOf
<1> QED
  BY <1>2, <1>3, <1>4 DEF PoolInv, PixelsPending, StagesClean

LEMMA StartInv == ASSUME NEW t, PoolInv, Start(t) PROVE PoolInv'
<1>1. /\ waiting \cap active = {} /\ waiting \cap decoded = {} /\ active \cap decoded = {}
  BY DEF Start, PoolInv, TilesExact
<1> QED
  BY <1>1, MoveInv DEF Start

LEMMA DecodeInv == ASSUME NEW t, PoolInv, Decode(t) PROVE PoolInv'
<1>1. /\ waiting \cap active = {} /\ waiting \cap decoded = {} /\ active \cap decoded = {}
  BY DEF Decode, PoolInv, TilesExact
<1> QED
  BY <1>1, MoveInv DEF Decode

LEMMA TileFailsInv == ASSUME NEW t, PoolInv, TileFails(t) PROVE PoolInv'
  BY DEF TileFails, PoolInv, PoolTypeOK, asked, Planned, TilesKnown, TilesExact,
     PixelsPending, StagesClean

LEMMA AllocInv == PoolInv /\ Alloc => PoolInv'
<1> SUFFICES ASSUME PoolInv, Alloc PROVE PoolInv'
  OBVIOUS
<1>1. /\ UNCHANGED asked /\ UNCHANGED <<waiting, active, decoded>>
      /\ phase = "fetch" /\ phase' = "blit" /\ waiting = {} /\ active = {}
      /\ outs' = [i \in Wins |-> [d \in OutDomain(i) |-> <<"fill">>]]
  BY DEF Alloc, OutDomain
<1>2. PoolTypeOK'
  <2>1. \A i \in Wins : DOMAIN outs'[i] = OutDomain(i)'
    BY <1>1, AskedSame
  <2> QED
    BY <1>1, <2>1 DEF PoolInv, PoolTypeOK, asked
<1>3. Planned' /\ TilesKnown' /\ TilesExact' /\ StagesClean'
  BY <1>1, AskedSame DEF PoolInv, Planned, TilesKnown, TilesExact, StagesClean, asked
<1>4. PixelsPending'
  <2> SUFFICES ASSUME NEW i \in Wins, NEW x \in Pixels(i)
               PROVE  At(i, x)' = <<"fill">> /\ TileOf(i, x) \in decoded
    BY <1>1, AskedSame DEF PixelsPending, TileOf
  <2>1. OutIndex(req[i], x[1], x[2], x[3]) \in OutDomain(i)
    BY PixelFacts DEF PoolInv
  <2>2. At(i, x)' = <<"fill">>
    BY <1>1, <2>1, AskedSame DEF At
  <2>3. TileOf(i, x) \in decoded
    BY <1>1 DEF PoolInv, TilesExact
  <2> QED
    BY <2>2, <2>3
<1> QED
  BY <1>2, <1>3, <1>4 DEF PoolInv

LEMMA BlitInv == ASSUME NEW t, PoolInv, Blit(t) PROVE PoolInv'
<1>1. /\ UNCHANGED asked /\ UNCHANGED <<waiting, active, phase>> /\ phase = "blit"
      /\ t \in decoded /\ decoded' = decoded \ {t}
      /\ outs' = [outs EXCEPT ![t[1]] = Copied(@, t)]
  BY DEF Blit
<1>2. /\ PoolTypeOK /\ BandsValid /\ t \in TileRefs /\ t[1] \in Wins /\ Fits(req[t[1]])
  BY <1>1, TileFacts DEF PoolInv, Planned, TilesKnown
<1>3. DOMAIN outs = Wins /\ \A i \in Wins : DOMAIN outs[i] = OutDomain(i)
  BY <1>1, <1>2 DEF PoolTypeOK
<1>4. outs'[t[1]] = Copied(outs[t[1]], t) /\ \A i \in Wins \ {t[1]} : outs'[i] = outs[i]
  BY <1>1, <1>2, <1>3
<1>5. DOMAIN outs'[t[1]] = OutDomain(t[1])
  BY <1>2, <1>3, <1>4 DEF Copied
<1>6. PoolTypeOK'
  <2>1. \A i \in Wins : DOMAIN outs'[i] = OutDomain(i)'
    BY <1>1, <1>3, <1>4, <1>5, AskedSame
  <2>2. DOMAIN outs' = Wins
    BY <1>1, <1>3
  <2> QED
    BY <1>1, <1>2, <2>1, <2>2 DEF PoolTypeOK, asked
<1>7. Planned' /\ TilesKnown' /\ TilesExact' /\ StagesClean'
  BY <1>1, AskedSame DEF PoolInv, Planned, TilesKnown, TilesExact, StagesClean, asked
<1>8. PixelsPending'
  <2> SUFFICES ASSUME NEW i \in Wins, NEW x \in Pixels(i)
               PROVE  \/ At(i, x)' = ValueOf(i, x)
                      \/ At(i, x)' = <<"fill">> /\ TileOf(i, x) \in decoded \ {t}
    BY <1>1, AskedSame DEF PixelsPending, TileOf
  <2>1. \/ At(i, x) = ValueOf(i, x)
        \/ At(i, x) = <<"fill">> /\ TileOf(i, x) \in decoded
    BY <1>1 DEF PoolInv, PixelsPending
  <2>2. At(i, x)' = outs'[i][OutIndex(req[i], x[1], x[2], x[3])]
    BY <1>1, AskedSame DEF At
  <2>3. CASE i # t[1]
    <3>1. At(i, x)' = At(i, x)
      BY <1>4, <2>2, <2>3 DEF At
    <3>2. TileOf(i, x) # t
      BY <2>3 DEF TileOf
    <3> QED
      BY <2>1, <3>1, <3>2
  <2>4. CASE i = t[1]
    <3>1. At(i, x)' = IF TileOf(i, x) = t THEN ValueOf(i, x) ELSE At(i, x)
      BY <1>2, <1>3, <1>4, <2>2, <2>4, CopiedPixel DEF At
    <3> QED
      BY <2>1, <3>1
  <2> QED
    BY <2>3, <2>4
<1> QED
  BY <1>6, <1>7, <1>8 DEF PoolInv

LEMMA FinishInv == PoolInv /\ Finish => PoolInv'
<1> SUFFICES ASSUME PoolInv, Finish PROVE PoolInv'
  OBVIOUS
<1>1. /\ UNCHANGED asked /\ UNCHANGED <<waiting, active, decoded, outs>>
      /\ phase = "blit" /\ phase' = "done" /\ decoded = {}
  BY DEF Finish
<1>2. PoolTypeOK'
  BY <1>1, AskedSame DEF PoolInv, PoolTypeOK, asked
<1>3. Planned' /\ TilesKnown' /\ TilesExact' /\ StagesClean'
  BY <1>1, AskedSame DEF PoolInv, Planned, TilesKnown, TilesExact, StagesClean, asked
<1>4. PixelsPending'
  BY <1>1, AskedSame DEF PoolInv, PixelsPending, At, TileOf
<1> QED
  BY <1>2, <1>3, <1>4 DEF PoolInv

LEMMA PoolStepInv == PoolInv /\ [PoolNext]_poolVars => PoolInv'
<1> SUFFICES ASSUME PoolInv, [PoolNext]_poolVars PROVE PoolInv'
  OBVIOUS
<1>1. CASE Plan
  BY <1>1, PlanInv
<1>2. CASE \E t \in waiting : Start(t)
  BY <1>2, StartInv
<1>3. CASE \E t \in active : Decode(t)
  BY <1>3, DecodeInv
<1>4. CASE \E t \in active : TileFails(t)
  BY <1>4, TileFailsInv
<1>5. CASE Alloc
  BY <1>5, AllocInv
<1>6. CASE \E t \in decoded : Blit(t)
  BY <1>6, BlitInv
<1>7. CASE Finish
  BY <1>7, FinishInv
<1>8. CASE UNCHANGED poolVars
  <2>1. UNCHANGED asked /\ UNCHANGED <<waiting, active, decoded, outs, phase>>
    BY <1>8 DEF poolVars
  <2>2. PoolTypeOK'
    BY <2>1, AskedSame DEF PoolInv, PoolTypeOK, asked
  <2>3. Planned' /\ TilesKnown' /\ TilesExact' /\ StagesClean'
    BY <2>1, AskedSame DEF PoolInv, Planned, TilesKnown, TilesExact, StagesClean, asked, TileOf
  <2>4. PixelsPending'
    BY <2>1, AskedSame DEF PoolInv, PixelsPending, At, TileOf
  <2> QED
    BY <2>2, <2>3, <2>4 DEF PoolInv
<1> QED
  BY <1>1, <1>2, <1>3, <1>4, <1>5, <1>6, <1>7, <1>8 DEF PoolNext

(* The invariant of the pool.                                              *)
THEOREM PoolInvariant == PoolSpec => []PoolInv
  BY PoolInitInv, PoolStepInv, PTL DEF PoolSpec

(* Type correctness of fetch_windows_pooled.                               *)
THEOREM PoolTyped == PoolSpec => []PoolTypeOK
<1>1. PoolInv => PoolTypeOK
  BY DEF PoolInv
<1> QED
  BY <1>1, PoolInvariant, PTL

(* Exactly the needed tiles are read, each once.                           *)
THEOREM PoolReadsNeeded == PoolSpec => []TilesExact
<1>1. PoolInv => TilesExact
  BY DEF PoolInv
<1> QED
  BY <1>1, PoolInvariant, PTL

(* When the call returns, every pixel of every window is right.            *)
THEOREM PoolExact == PoolSpec => []WindowExact
<1>1. PoolInv => WindowExact
  <2> SUFFICES ASSUME PoolInv, phase = "done", NEW i \in Wins, NEW x \in Pixels(i)
               PROVE  At(i, x) = ValueOf(i, x)
    BY DEF WindowExact
  <2>1. decoded = {}
    BY DEF PoolInv, StagesClean
  <2> QED
    BY <2>1 DEF PoolInv, PixelsPending
<1> QED
  BY <1>1, PoolInvariant, PTL

(* No blit slices past the end of a tile, a table or an output.            *)
THEOREM PoolBlitSafe == PoolSpec => []NoPanicInBlit
<1>1. PoolInv => NoPanicInBlit
  <2> SUFFICES ASSUME PoolInv, NEW t \in decoded
               PROVE  /\ phase = "blit" =>
                           \A x \in Cells(t) :
                             /\ OutIndex(req[t[1]], x[1], x[2], x[3]) \in DOMAIN outs[t[1]]
                             /\ SrcIndex(t, x[1], x[2], x[3]) \in DOMAIN TileData(t)
                      /\ UseBandFetch =>
                           \A k \in 1 .. NSel :
                             BandTileIndex(Bands[k], t[2], t[3]) \in 0 .. NBands * TilesPerBand - 1
    BY DEF NoPanicInBlit
  <2>1. /\ PoolTypeOK /\ t \in TileRefs /\ t[1] \in Wins
        /\ BandsValid /\ Fits(req[t[1]]) /\ req[t[1]] \in Windows
    BY TileFacts, WindowFacts DEF PoolInv, PoolTypeOK, Planned, TilesKnown, StagesClean
  <2>2. ASSUME phase = "blit", NEW x \in Cells(t)
        PROVE  /\ OutIndex(req[t[1]], x[1], x[2], x[3]) \in DOMAIN outs[t[1]]
               /\ SrcIndex(t, x[1], x[2], x[3]) \in DOMAIN TileData(t)
    <3>1. OutIndex(req[t[1]], x[1], x[2], x[3]) \in OutDomain(t[1])
      BY <2>1, CellFacts, PixelFacts
    <3>2. DOMAIN outs[t[1]] = OutDomain(t[1])
      BY <2>1, <2>2 DEF PoolTypeOK
    <3> QED
      BY <2>1, <3>1, <3>2, ReadRight
  <2>3. ASSUME NEW k \in 1 .. NSel
        PROVE  BandTileIndex(Bands[k], t[2], t[3]) \in 0 .. NBands * TilesPerBand - 1
    <3>1. NSel \in Nat /\ \A ob \in 0 .. NSel - 1 : Bands[ob + 1] \in 0 .. NBands - 1
      BY <2>1, BandsFacts
    <3>2. Bands[k] \in 0 .. NBands - 1
      <4>1. k - 1 \in 0 .. NSel - 1 /\ (k - 1) + 1 = k
        BY <3>1
      <4> QED
        BY <3>1, <4>1
    <3>3. t[2] \in 0 .. TilesPerRow - 1 /\ t[3] \in 0 .. TilesPerCol - 1
      BY <2>1, TileFacts, TilesExist
    <3> QED
      BY <3>2, <3>3, TableRead
  <2> QED
    BY <2>2, <2>3
<1> QED
  BY <1>1, PoolInvariant, PTL

(* A blit never overwrites a pixel with something else.                    *)
THEOREM PoolWritesOnce == PoolSpec => WrittenOnce
<1>1. PoolInv /\ [PoolNext]_poolVars =>
        [phase = "blit" =>
           \A i \in Wins : \A d \in OutDomain(i) :
             outs[i][d] # <<"fill">> => outs'[i][d] = outs[i][d]]_poolVars
  <2> SUFFICES ASSUME PoolInv, PoolNext, phase = "blit",
                      NEW i \in Wins, NEW d \in OutDomain(i), outs[i][d] # <<"fill">>
               PROVE  outs'[i][d] = outs[i][d]
    OBVIOUS
  <2>1. CASE \E t \in decoded : Blit(t)
    <3>1. PICK t \in decoded : Blit(t)
      BY <2>1
    <3>2. /\ PoolTypeOK /\ BandsValid /\ t \in TileRefs /\ t[1] \in Wins /\ Fits(req[t[1]])
          /\ DOMAIN outs = Wins /\ DOMAIN outs[i] = OutDomain(i)
      BY TileFacts DEF PoolInv, PoolTypeOK, Planned, TilesKnown
    <3>3. outs' = [outs EXCEPT ![t[1]] = Copied(@, t)]
      BY <3>1 DEF Blit
    <3>4. CASE i # t[1]
      BY <3>2, <3>3, <3>4
    <3>5. CASE i = t[1]
      <4>1. outs'[i] = Copied(outs[i], t)
        BY <3>2, <3>3, <3>5
      <4>2. CASE Copied(outs[i], t)[d] = outs[i][d]
        BY <4>1, <4>2
      <4>3. CASE \E x \in Pixels(i) : TileOf(i, x) = t /\ d = OutIndex(req[i], x[1], x[2], x[3])
        <5>1. PICK x \in Pixels(i) : TileOf(i, x) = t /\ d = OutIndex(req[i], x[1], x[2], x[3])
          BY <4>3
        <5>2. Copied(outs[i], t)[d] = ValueOf(i, x)
          BY <3>2, <3>5, <5>1, CopiedPixel
        <5>3. outs[i][d] = ValueOf(i, x)
          BY <5>1 DEF PoolInv, PixelsPending, At
        <5> QED
          BY <4>1, <5>2, <5>3
      <4> QED
        BY <3>2, <3>5, <4>2, <4>3, CopiedPlace
    <3> QED
      BY <3>4, <3>5
  <2>2. CASE Finish
    BY <2>2 DEF Finish
  <2> QED
    BY <2>1, <2>2 DEF PoolNext, Plan, Start, Decode, TileFails, Alloc
<1> QED
  BY <1>1, PoolInvariant, PTL DEF PoolSpec, WrittenOnce

(* The f64 blit and the native blit read a tile at the same places.        *)
THEOREM PoolBlitsAgree == PoolSpec => []BlitsAgree
<1>1. PoolInv => BlitsAgree
  <2> SUFFICES ASSUME PoolInv, NEW t \in decoded, NEW x \in Cells(t)
               PROVE  StrideIndex(t, x[1], x[2], x[3]) = SrcIndex(t, x[1], x[2], x[3])
    BY DEF BlitsAgree
  <2>1. PoolTypeOK /\ BandsValid /\ t \in TileRefs
    BY DEF PoolInv, PoolTypeOK, Planned, TilesKnown, StagesClean
  <2>2. PICK c \in 0 .. TileW - 1 : c = x[2] - t[2] * TileW
    BY <2>1, CellFacts
  <2>3. PICK w \in 0 .. TileH - 1 : w = x[3] - t[3] * TileH
    BY <2>1, CellFacts
  <2>4. PICK b \in Nat : b = BufBand(x[1])
    <3>1. /\ x[1] \in 0 .. NSel - 1 /\ NSel \in Nat
          /\ Bands[x[1] + 1] \in 0 .. NBands - 1
      BY <2>1, CellFacts, BandsFacts
    <3>2. x[1] \in Nat /\ Bands[x[1] + 1] \in Nat
      BY <3>1, GridNumbers
    <3> QED
      BY <3>2 DEF BufBand
  <2>5. CASE UseBandFetch \/ planar
    <3>1. StrideIndex(t, x[1], x[2], x[3]) = w * TileW + c * 1 + b * TileArea
      BY <2>2, <2>3, <2>4, <2>5 DEF StrideIndex, Strides
    <3>2. SrcIndex(t, x[1], x[2], x[3]) = b * TileArea + (w * TileW + c)
      BY <2>2, <2>3, <2>4, <2>5 DEF SrcIndex, PlanarIndex
    <3> QED
      BY <3>1, <3>2, GridNumbers, SMT
  <2>6. CASE ~(UseBandFetch \/ planar)
    <3>1. StrideIndex(t, x[1], x[2], x[3]) = w * (TileW * NBands) + c * NBands + b * 1
      BY <2>2, <2>3, <2>4, <2>6 DEF StrideIndex, Strides
    <3>2. SrcIndex(t, x[1], x[2], x[3]) = (w * TileW + c) * NBands + b
      BY <2>2, <2>3, <2>4, <2>6 DEF SrcIndex, ChunkyIndex
    <3> QED
      BY <3>1, <3>2, GridNumbers, SMT
  <2> QED
    BY <2>5, <2>6
<1> QED
  BY <1>1, PoolInvariant, PTL

=============================================================================
