----------------------------- MODULE MCHttpRange -----------------------------
(***************************************************************************)
(* A 9-byte object with a header and three tiles, two of them neighbours.  *)
(***************************************************************************)
EXTENDS HttpRange

R(lo, hi) == [lo |-> lo, hi |-> hi]

(* Nothing; one range; an empty one; neighbours out of order; one range    *)
(* twice (tiles may share their bytes); an empty one among others; four.   *)
MCRequests ==
  {<<>>, <<R(2, 4)>>, <<R(4, 4)>>, <<R(4, 6), R(2, 4)>>,
   <<R(2, 4), R(2, 4), R(7, 8)>>, <<R(2, 4), R(5, 5), R(7, 8)>>,
   <<R(7, 8), R(4, 6), R(2, 4), R(0, 2)>>}

=============================================================================
