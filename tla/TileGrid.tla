------------------------------ MODULE TileGrid ------------------------------
(***************************************************************************)
(* The tile geometry of src/src/rust/src/window.rs and band_fetch.rs:      *)
(* which COG tiles a window needs, which pixels each of them supplies, and *)
(* where a pixel sits in a decoded tile and in the output buffer.  All     *)
(* coordinates are 0-based, as in the source.                              *)
(*                                                                         *)
(* A window is a record [xoff, yoff, xsize, ysize].                        *)
(***************************************************************************)
EXTENDS Integers

CONSTANTS
  ImgW, ImgH,    (* extent of the level in pixels                         *)
  TileW, TileH,  (* tile size                                             *)
  NBands         (* samples per pixel                                     *)

ASSUME GridAssumption ==
  /\ ImgW \in Nat \ {0} /\ ImgH \in Nat \ {0}
  /\ TileW \in Nat \ {0} /\ TileH \in Nat \ {0}
  /\ NBands \in Nat \ {0}

Windows == [xoff : Nat, yoff : Nat, xsize : Nat, ysize : Nat]

Xend(w) == w.xoff + w.xsize
Yend(w) == w.yoff + w.ysize

(* The guard of plan_tile and fetch_decoded on the window.                 *)
Fits(w) ==
  /\ w.xsize # 0 /\ w.ysize # 0
  /\ Xend(w) <= ImgW /\ Yend(w) <= ImgH

(* tx0 ..= tx1 and ty0 ..= ty1: the tiles scheduled for a window.          *)
TilesX(w) == (w.xoff \div TileW) .. ((Xend(w) - 1) \div TileW)
TilesY(w) == (w.yoff \div TileH) .. ((Yend(w) - 1) \div TileH)

Larger(a, b) == IF a >= b THEN a ELSE b
Smaller(a, b) == IF a <= b THEN a ELSE b

(* gx0 .. gx1 and gy0 .. gy1: the pixels of the window in one tile.        *)
OverlapX(w, tx) ==
  Larger(tx * TileW, w.xoff) .. (Smaller((tx + 1) * TileW, Xend(w)) - 1)
OverlapY(w, ty) ==
  Larger(ty * TileH, w.yoff) .. (Smaller((ty + 1) * TileH, Yend(w)) - 1)

BandArea(w) == w.xsize * w.ysize
TileArea == TileW * TileH

(* Mutant of OutIndex: the bands spaced by a tile's area.                  *)
OutIndex_TileStride(w, ob, gx, gy) ==
  ob * TileArea + ((gy - w.yoff) * w.xsize + (gx - w.xoff))

(* Position of pixel (gx, gy) of the ob-th selected band in the output,    *)
(* which is band-sequential and row-major in each band.                    *)
OutIndex(w, ob, gx, gy) ==
  ob * BandArea(w) + ((gy - w.yoff) * w.xsize + (gx - w.xoff))

(* Position of the pixel (c, r) of band b in a decoded tile: chunky tiles  *)
(* interleave the bands, planar tiles hold one band after the other.       *)
ChunkyIndex(b, c, r) == (r * TileW + c) * NBands + b
PlanarIndex(b, c, r) == b * TileArea + (r * TileW + c)

(* tile_count of an image: partial tiles at the right and bottom count.    *)
TilesPerRow == (ImgW + TileW - 1) \div TileW
TilesPerCol == (ImgH + TileH - 1) \div TileH

(* Where the file keeps the tile of band b of a planar image.              *)
TilesPerBand == TilesPerRow * TilesPerCol
BandTileIndex(b, tx, ty) == b * TilesPerBand + (ty * TilesPerRow + tx)

=============================================================================
