---------------------------- MODULE MCPooledFetch ----------------------------
(***************************************************************************)
(* A small image: 5 x 3 pixels in 2 x 2 tiles, so that the last column and *)
(* the last row of tiles are partial; two windows through one pool.        *)
(***************************************************************************)
EXTENDS PooledFetch

Window(x, y, w, h) == [xoff |-> x, yoff |-> y, xsize |-> w, ysize |-> h]

(* One pixel, a window across four tiles, one up to the image's corner, an *)
(* empty one and one past the edge.                                        *)
MCRequests ==
  {Window(1, 1, 1, 1), Window(1, 1, 2, 2), Window(3, 0, 2, 3),
   Window(0, 0, 0, 1), Window(3, 1, 3, 1)}

(* All bands, a subset, one reordered, one repeated, one out of range.     *)
MCSelections == {<<>>, <<1>>, <<2, 0>>, <<0, 0>>, <<3>>}

=============================================================================
