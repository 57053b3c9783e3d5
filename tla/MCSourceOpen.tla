---------------------------- MODULE MCSourceOpen ----------------------------
(***************************************************************************)
(* Calls of four kinds: every pair of a dozen URLs, and triples of some,   *)
(* for the cache; one source with every kind of header; two sources that   *)
(* are planned, fetched and replaced on the way; a file with a mask.       *)
(***************************************************************************)
EXTENDS SourceOpen, TLC

CONSTANT Masks   (* a call reads a file with a mask *)

(* The names in each query, and the host that is Azure's.                  *)
KeysIn ==
  [none |-> {}, plain |-> {"v"}, sas1 |-> {"sig"}, sas2 |-> {"sig"},
   obs |-> {"AccessKeyId", "Signature"}, aws |-> {"X-Amz-Signature"},
   gcs |-> {"X-Goog-Signature"}, half |-> {"Signature"}]

Url(scheme, host, container, query) ==
  [scheme |-> scheme, host |-> host, port |-> 0, user |-> "", container |-> container,
   query |-> query, keys |-> KeysIn[query], azure |-> host = "azure", file |-> "f"]
Abfss(container) == [Url("abfss", "azure", "dir", "none") EXCEPT !.user = container]

Plain == Url("https", "h", "c", "none")
Azure(container, query) == Url("https", "azure", container, query)
Signed(query) == Url("https", "s", "c", query)

Urls ==
  {Plain, [Plain EXCEPT !.user = "u"], [Plain EXCEPT !.port = 8080], Url("https", "h", "c", "plain"),
   Azure("c", "sas1"), Azure("c", "sas2"), Azure("d", "sas1"), Azure("c", "none"),
   Signed("obs"), Signed("aws"), Signed("half"), Url("s3", "b", "c", "none"), Url("", "", "", "none"),
   Abfss("c"), Abfss("d")}

-----------------------------------------------------------------------------
(* An 8 x 8 file with an overview, north up, in EPSG:1.                    *)
Dir(n) == [w |-> n, h |-> n, mask |-> FALSE]
Matrix(a, b, d, e) == <<a, b, 0, 16, d, e, 0, 32, 0, 0, 0, 0, 0, 0, 0, 1>>
Base ==
  [ifds |-> <<Dir(8), Dir(4)>>, geo |-> TRUE, keys |-> [epsg |-> 1], cits |-> <<>>,
   transform |-> <<>>, scale |-> <<4, 4, 0>>, tie |-> <<0, 0, 0, 16, 32, 0>>,
   format |-> "Uint", bits |-> 8, bands |-> 2, nodata |-> "none", items |-> <<>>]
Flat == [Base EXCEPT !.ifds = <<Dir(8)>>]
Odd == [Base EXCEPT !.ifds = <<[w |-> 7, h |-> 8, mask |-> FALSE], Dir(4)>>]
NoKeys == [Base EXCEPT !.geo = FALSE]
Shifted == [Base EXCEPT !.tie = <<1, 2, 0, 16, 32, 0>>]
Small == [Base EXCEPT !.ifds = <<Dir(6), Dir(3)>>]
Masked ==
  [Base EXCEPT !.ifds = <<Dir(8), [Dir(8) EXCEPT !.mask = TRUE], Dir(4), [Dir(4) EXCEPT !.mask = TRUE]>>]

Rotated(h) == [h EXCEPT !.transform = Matrix(3, 1, 1, -3)]
Placements ==
  {[g EXCEPT !.keys = k] :
     g \in {Base, Shifted, [Base EXCEPT !.transform = Matrix(4, 0, 0, -4)],
            Rotated(Base),
            [Base EXCEPT !.transform = <<4, 0>>], [Base EXCEPT !.scale = <<>>]},
     k \in {[epsg |-> 1], [epsg |-> 1, raster_type |-> 1], [epsg |-> 1, raster_type |-> 2]}}

Wkt(n) == [n |-> n, wkt |-> TRUE]
Text(n) == [n |-> n, wkt |-> FALSE]
Conic == [epsg |-> 32767, coord_trans |-> 8, parallel1 |-> 40, parallel2 |-> 50,
          false_origin_easting |-> 7, false_origin_lat |-> 3]
CrsKeys ==
  {[epsg |-> 0], [coord_trans |-> 8, parallel1 |-> 40], [coord_trans |-> 99], Conic,
   [Conic EXCEPT !.coord_trans = 11] @@ [meridian |-> 8903, semi_major |-> 6, semi_minor |-> 5],
   [coord_trans |-> 1, nat_origin_long |-> 9, center_long |-> 8, false_northing |-> 2, scale |-> 2,
    meridian |-> 1, meridian_long |-> 3, semi_major |-> 6, inv_flattening |-> 298],
   [coord_trans |-> 7, parallel1 |-> 40, ellipsoid |-> 7019, meridian |-> 8901],
   [coord_trans |-> 15, vert_pole_long |-> 5, ellipsoid |-> 1],
   [coord_trans |-> 17, meridian_long |-> 0], [coord_trans |-> 10, center_lat |-> 4]}
Crss ==
  {[Base EXCEPT !.keys = k, !.cits = c] :
     k \in CrsKeys, c \in {<<>>, <<Text(1), Text(2)>>, <<Text(1), Wkt(2), Wkt(3)>>}}
    \cup {[Base EXCEPT !.keys = [coord_trans |-> p[1]] @@ k] :
            p \in Projections,
            k \in {Nothing, [scale |-> 2, parallel1 |-> 40, parallel2 |-> 50, semi_major |-> 6]}}

Item(sample, description, closed) == [sample |-> sample, description |-> description, closed |-> closed]
Others ==
  {[Base EXCEPT !.ifds = <<>>], NoKeys,
   [Base EXCEPT !.format = "Float", !.bits = 32,
      !.items = <<Item(0, TRUE, TRUE), Item(0, TRUE, TRUE), Item(7, TRUE, TRUE), Item(1, TRUE, FALSE)>>],
   [Base EXCEPT !.format = "Int", !.bits = 16], [Base EXCEPT !.format = "Float", !.bits = 16],
   [Base EXCEPT !.bits = 64, !.items = <<Item(1, FALSE, TRUE)>>]}

MCHeaders == {Base, Small}

-----------------------------------------------------------------------------
Full == [res |-> 0, overview |-> 0, x |-> 0, y |-> 0]
Coarse == [res |-> 9, overview |-> 0, x |-> 3, y |-> 5]
Level2 == [res |-> 0, overview |-> 2, x |-> 2, y |-> 1]

Call(op, urls, contents, ambient, trusted, request) ==
  [op |-> op, urls |-> urls, files |-> contents, ambient |-> ambient,
   trusted |-> trusted, request |-> request]

Ambients == {Nothing, [sas |-> "z"], [access_key |-> "k"], [sas |-> "z", access_key |-> "k"]}

OpenCalls ==
  {Call("info", <<u, v>>, [f |-> Base], a, FALSE, Full) : u \in Urls, v \in Urls, a \in Ambients}
    \cup {Call("batch", <<u, v, w>>, [f |-> Base], [sas |-> "z"], TRUE, Full) :
            u \in {Plain, Azure("c", "sas1")}, v \in {Azure("c", "sas2"), Signed("gcs")},
            w \in {Plain, Azure("c", "sas1"), Signed("aws")}}

HeaderCalls ==
  {Call("info", <<u>>, [f |-> h], Nothing, FALSE, Full) :
     u \in {Plain, Signed("aws")}, h \in Placements \cup Crss \cup Others}

Second == [Plain EXCEPT !.file = "g"]
PlanCalls ==
  {Call(op, <<Plain, Second>>, [f |-> g, g |-> h], Nothing, t, r) :
     op \in {"paths", "batch"}, g \in {Base, Flat}, h \in {Base, Flat, Shifted, Small, NoKeys},
     t \in BOOLEAN, r \in {Full, Coarse, Level2}}
    \cup {Call("handle", <<Plain>>, [f |-> h], Nothing, FALSE, r) :
            h \in {Base, Odd, Rotated(Base), Rotated(Odd), [Base EXCEPT !.keys = [epsg |-> 0]]}, r \in {Full, Coarse, Level2}}

MaskCalls ==
  {Call("batch", <<Plain>>, [f |-> Masked], Nothing, t, r) : t \in BOOLEAN, r \in {Full, Coarse}}

(* Only ck_batch takes sanitise = FALSE for its sources' grids.            *)
MCCalls ==
  IF Masks THEN MaskCalls
  ELSE OpenCalls \cup HeaderCalls \cup {c \in PlanCalls : c.trusted => c.op = "batch"}

=============================================================================
