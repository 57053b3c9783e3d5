----------------------------- MODULE MCStackCall -----------------------------
(***************************************************************************)
(* Three sources out of four headers: two that share a grid and differ in  *)
(* nodata, type and bands, one of them of a type readBin has not, one      *)
(* further east, one with rows going north and overviews of an odd size.   *)
(* A pixel is 4 units.                                                     *)
(***************************************************************************)
EXTENDS StackCall

West == [x0 |-> 0, y0 |-> 16, px |-> 4, dir |-> -1, w |-> <<6, 3>>, h |-> <<4, 2>>]
East == [x0 |-> 24, y0 |-> 16, px |-> 4, dir |-> -1, w |-> <<6, 3>>, h |-> <<4, 2>>]
North == [x0 |-> 8, y0 |-> 0, px |-> 4, dir |-> 1, w |-> <<5, 3, 2>>, h |-> <<5, 3, 2>>]

MCMetas ==
  {[grid |-> West, nodata |-> "a", nbands |-> 1, bytes |-> 1, exotic |-> FALSE],
   [grid |-> West, nodata |-> "b", nbands |-> 2, bytes |-> 4, exotic |-> TRUE],
   [grid |-> East, nodata |-> "a", nbands |-> 1, bytes |-> 1, exotic |-> FALSE],
   [grid |-> North, nodata |-> "none", nbands |-> 1, bytes |-> 2, exotic |-> FALSE]}

Request(te, res, identity, margin, maxbytes, bands, labels) ==
  [te |-> te, res |-> res, identity |-> identity, margin |-> margin, overview |-> 0,
   maxbytes |-> maxbytes, bands |-> bands, labels |-> labels,
   config |-> <<"threads", "cache">>, refused |-> 0]

(* An extent in the west, GDAL_NUM_THREADS given twice; the same with a    *)
(* limit its window keeps and its array does not; one across both;         *)
(* the west again from an overview and with a margin; a fixed number of    *)
(* names, and no option; all of every source; one far away, with an option *)
(* that is refused; a size limit; an overview asked for.                   *)
MCRequests ==
  {[Request(<<2, 3, 13, 9>>, 0, TRUE, 2, 999, <<>>, 0) EXCEPT !.config = <<"threads", "threads", "cache">>],
   Request(<<2, 3, 13, 9>>, 0, TRUE, 2, 90, <<1>>, 0),
   Request(<<18, 5, 31, 14>>, 0, FALSE, 0, 999, <<1>>, 0),
   Request(<<9, 2, 19, 10>>, 7, TRUE, 2, 999, <<>>, 0),
   [Request(<<9, 2, 15, 10>>, 9, TRUE, 1, 999, <<>>, 3) EXCEPT !.config = <<>>],
   Request(<<>>, 0, TRUE, 1, 60, <<1, 1>>, 0),
   [Request(<<90, 90, 95, 95>>, 0, FALSE, 1, 999, <<>>, 0) EXCEPT !.refused = 2],
   [Request(<<1, 1, 22, 15>>, 4, TRUE, 0, 200, <<1>>, 2) EXCEPT !.overview = 3]}

=============================================================================
