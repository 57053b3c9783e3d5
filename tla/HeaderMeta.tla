----------------------------- MODULE HeaderMeta -----------------------------
(***************************************************************************)
(* From the directories of a TIFF file to the metadata R plans with        *)
(* (src/src/rust/src/meta.rs and build_meta in lib.rs): geotransform, CRS, *)
(* type, band names and levels.                                            *)
(*                                                                         *)
(* A header is [ifds, geo, keys, cits, transform, scale, tie, format,      *)
(* bits, bands, nodata, items]: its directories, each [w, h, mask]; whether*)
(* there is a GeoKey directory, its numeric keys (a function of those that *)
(* are there) and its citations; the georeferencing tags (<<>> if absent). *)
(* Numbers are integers.  Text is taken apart as far as the code does.     *)
(***************************************************************************)
EXTENDS Integers, Sequences, FiniteSets, FiniteSetsExt

(* What the header does not give.                                          *)
Nothing == <<>>

(* The directories have pixels, the tags are numbers, and a citation is WKT*)
(* or another text.                                                        *)
HeaderOK(h) ==
  /\ h.ifds \in Seq([w : Nat \ {0}, h : Nat \ {0}, mask : BOOLEAN])
  /\ h.transform \in Seq(Int) /\ h.scale \in Seq(Int) /\ h.tie \in Seq(Int)
  /\ h.cits \in Seq([n : Nat, wkt : BOOLEAN])

-----------------------------------------------------------------------------
(* The affine coefficients of the tags, or Nothing if they are missing or  *)
(* too short.                                                              *)
Affine(h) ==
  LET m == h.transform
      s == h.scale
      t == h.tie
  IN  IF m # Nothing
      THEN IF Len(m) < 16 THEN Nothing ELSE <<m[4], m[1], m[2], m[8], m[5], m[6]>>
      ELSE IF Len(s) < 3 \/ Len(t) < 6 THEN Nothing
      ELSE <<t[4] - t[1] * s[1], s[1], 0, t[5] + t[2] * s[2], 0, -s[2]>>

IsPoint(h) == "raster_type" \in DOMAIN h.keys /\ h.keys["raster_type"] = 2

(* Mutant of ExtractGeotransform: the shift is left out for rotated files. *)
ExtractGeotransform_AxisOnly(h) ==
  LET a == Affine(h)
      shift == IF IsPoint(h) THEN 1 ELSE 0
  IN  IF a = Nothing THEN Nothing
      ELSE <<2 * a[1] - shift * a[2], 2 * a[2], 2 * a[3],
             2 * a[4] - shift * a[6], 2 * a[5], 2 * a[6]>>

(* extract_geotransform, every coefficient doubled so that half a pixel is *)
(* an integer: a PixelIsPoint origin moves from the centre to the corner.  *)
ExtractGeotransform(h) ==
  LET a == Affine(h)
      shift == IF IsPoint(h) THEN 1 ELSE 0
  IN  IF a = Nothing THEN Nothing
      ELSE <<2 * a[1] - shift * (a[2] + a[3]), 2 * a[2], 2 * a[3],
             2 * a[4] - shift * (a[5] + a[6]), 2 * a[5], 2 * a[6]>>

(* ovr_gt and win_gt of .plan_from_meta: the geotransform of a window that *)
(* begins at (xoff, yoff) of a wl x hl level of a w x h image, in units of *)
(* 1 / (wl * hl).  Both column factors are w / wl, row factors h / hl.     *)
WindowGt(gt, w, h, wl, hl, xoff, yoff) ==
  LET ovr == <<gt[1] * wl * hl, gt[2] * w * hl, gt[3] * w * hl,
               gt[4] * wl * hl, gt[5] * h * wl, gt[6] * h * wl>>
  IN  <<ovr[1] + xoff * ovr[2] + yoff * ovr[3], ovr[2], ovr[3],
        ovr[4] + xoff * ovr[5] + yoff * ovr[6], ovr[5], ovr[6]>>

-----------------------------------------------------------------------------
(* A proj string is the set of its parameters, <<name, value>>.            *)

(* Mutant of Param: only the first key is looked for.                      *)
Param_FirstOnly(keys, param, names) ==
  {<<param, keys[name]>> : name \in {names[1]} \cap DOMAIN keys}

(* "+param=" with the first of the keys that is there; nothing if none is. *)
Param(keys, param, names) ==
  LET given == {n \in DOMAIN names : names[n] \in DOMAIN keys}
  IN  IF given = {} THEN {} ELSE {<<param, keys[names[Min(given)]]>>}

(* The keys each placement parameter is taken from, in order.              *)
OriginKeys ==
  [lon_0 |-> <<"nat_origin_long", "center_long", "false_origin_long", "vert_pole_long">>,
   lat_0 |-> <<"nat_origin_lat", "center_lat", "false_origin_lat">>,
   x_0 |-> <<"false_easting", "false_origin_easting">>,
   y_0 |-> <<"false_northing", "false_origin_northing">>]

(* Origin, offsets and central meridian, as far as there are keys for them.*)
Origins(keys) == UNION {Param(keys, origin, OriginKeys[origin]) : origin \in DOMAIN OriginKeys}

Parallels == {"parallel1", "parallel2"}

(* Coordinate transformations with a name of their own and what else they  *)
(* take: a scale, the latitude of true scale, both parallels, or nothing.  *)
Projections ==
  {<<1, "tmerc", "scale">>, <<7, "merc", "true_scale">>, <<8, "lcc", "parallels">>,
   <<9, "lcc", "scale">>, <<10, "laea", "none">>, <<11, "aea", "parallels">>,
   <<12, "aeqd", "none">>, <<13, "eqdc", "parallels">>, <<14, "stere", "scale">>,
   <<15, "stere", "true_scale">>, <<16, "sterea", "scale">>, <<17, "eqc", "latitude">>,
   <<19, "gnom", "none">>, <<21, "ortho", "none">>, <<24, "sinu", "none">>,
   <<28, "cea", "latitude">>}

ScaleOf(keys) == {<<"k_0", IF "scale" \in DOMAIN keys THEN keys["scale"] ELSE 1>>}

Extras(keys, takes) ==
  CASE takes = "scale" -> ScaleOf(keys)
    [] takes = "true_scale" ->
         IF "parallel1" \in DOMAIN keys THEN {<<"lat_ts", keys["parallel1"]>>} ELSE ScaleOf(keys)
    [] takes = "latitude" -> Param(keys, "lat_ts", <<"parallel1">>)
    [] takes = "parallels" -> {<<"lat_1", keys["parallel1"]>>, <<"lat_2", keys["parallel2"]>>}
    [] takes = "none" -> {}

(* prime_meridian_param: 8901 is Greenwich, 8902 to 8913 have names, any   *)
(* other code gives way to the longitude.                                  *)
PrimeMeridian(keys) ==
  LET code == IF "meridian" \in DOMAIN keys THEN keys["meridian"] ELSE 0
  IN  IF code \in 8901 .. 8913
      THEN IF code = 8901 THEN {} ELSE {<<"pm_name", code>>}
      ELSE IF "meridian_long" \in DOMAIN keys /\ keys["meridian_long"] # 0
      THEN {<<"pm", keys["meridian_long"]>>} ELSE {}

EllipsoidNames == {7001, 7002, 7003, 7004, 7008, 7012, 7019, 7022, 7030, 7035, 7043}

(* ellipsoid_param: by name, by its axes, or WGS84.                        *)
Ellipsoid(keys) ==
  IF "ellipsoid" \in DOMAIN keys /\ keys["ellipsoid"] \in EllipsoidNames
  THEN {<<"ellps", keys["ellipsoid"]>>}
  ELSE IF "semi_major" \notin DOMAIN keys THEN {<<"ellps", 7030>>}
  ELSE {<<"a", keys["semi_major"]>>} \cup
       (IF "inv_flattening" \in DOMAIN keys THEN {<<"rf", keys["inv_flattening"]>>}
        ELSE Param(keys, "b", <<"semi_minor">>))

(* A projection with a name and all it cannot do without.                  *)
IsProjection(keys, p) ==
  /\ "coord_trans" \in DOMAIN keys
  /\ keys["coord_trans"] = p[1]
  /\ p[3] = "parallels" => Parallels \subseteq DOMAIN keys

ProjectionKnown(keys) == \E p \in Projections : IsProjection(keys, p)

(* build_proj_string_from_geokeys: the parameters of the proj string.      *)
ProjString(keys) ==
  LET p == CHOOSE t \in Projections : IsProjection(keys, t)
  IN  {<<"proj", p[2]>>} \cup Extras(keys, p[3]) \cup Origins(keys)
        \cup PrimeMeridian(keys) \cup Ellipsoid(keys)

UserDefined == 32767
EpsgUsable(keys) == "epsg" \in DOMAIN keys /\ keys["epsg"] \notin {0, UserDefined}

(* resolve_src_crs: a code, the first citation that is WKT, or a proj      *)
(* string; Nothing when the header gives none of them.                     *)
ResolveSrcCrs(h) ==
  IF EpsgUsable(h.keys) THEN <<"EPSG", h.keys["epsg"]>>
  ELSE IF \E n \in DOMAIN h.cits : h.cits[n].wkt
  THEN <<"WKT", h.cits[Min({n \in DOMAIN h.cits : h.cits[n].wkt})]>>
  ELSE IF ProjectionKnown(h.keys) THEN <<"proj", ProjString(h.keys)>>
  ELSE Nothing

-----------------------------------------------------------------------------
(* gdal_dtype_name, and the size R takes it to have (.dtype_bytes).        *)
GdalDtypeName(h) ==
  CASE h.format = "Uint" /\ h.bits \in {1, 8} -> <<"Byte", 1>>
    [] h.format = "Uint" /\ h.bits \in {16, 32, 64} -> <<"UInt", h.bits \div 8>>
    [] h.format = "Int" /\ h.bits \in {8, 16, 32, 64} -> <<"Int", h.bits \div 8>>
    [] h.format = "Float" /\ h.bits \in {32, 64} -> <<"Float", h.bits \div 8>>
    [] OTHER -> <<"Float", 8>>

(* walk_items up to the first item that is not closed, and of the          *)
(* descriptions the last one of each band; a default name otherwise.       *)
BandDescriptions(h) ==
  LET closed == {n \in DOMAIN h.items : \A m \in 1 .. n : h.items[m].closed}
      named(b) == {n \in closed : h.items[n].description /\ h.items[n].sample = b - 1}
  IN  [b \in 1 .. h.bands |->
        IF named(b) = {} THEN <<"band", b>>
        ELSE <<"item", CHOOSE n \in named(b) : \A m \in named(b) : m <= n>>]

-----------------------------------------------------------------------------
(* build_meta fails on a file without directories, GeoKeys or transform.   *)
MetaOk(h) == h.ifds # Nothing /\ h.geo /\ ExtractGeotransform(h) # Nothing

(* build_meta: all that is known of the file is its first directory's, but *)
(* for the sizes, which are those of every directory.                      *)
BuildMeta(h) ==
  [gt |-> ExtractGeotransform(h), crs |-> ResolveSrcCrs(h), nbands |-> h.bands,
   dtype |-> GdalDtypeName(h), nodata |-> h.nodata, names |-> BandDescriptions(h),
   w |-> [l \in DOMAIN h.ifds |-> h.ifds[l].w],
   h |-> [l \in DOMAIN h.ifds |-> h.ifds[l].h]]

-----------------------------------------------------------------------------
(* The tiepoints of a header, as a raster position and its ground          *)
(* coordinates: the file's own, or three positions of its matrix.          *)
Tiepoints(h) ==
  LET m == h.transform
  IN  IF m = Nothing THEN {[c |-> h.tie[1], r |-> h.tie[2], x |-> h.tie[4], y |-> h.tie[5]]}
      ELSE {[c |-> 0, r |-> 0, x |-> m[4], y |-> m[8]],
            [c |-> 1, r |-> 0, x |-> m[4] + m[1], y |-> m[8] + m[5]],
            [c |-> 0, r |-> 1, x |-> m[4] + m[2], y |-> m[8] + m[6]]}

(* Four times the ground coordinates of a position given in half pixels.   *)
GroundX(gt, c2, r2) == 2 * gt[1] + c2 * gt[2] + r2 * gt[3]
GroundY(gt, c2, r2) == 2 * gt[4] + c2 * gt[5] + r2 * gt[6]

(* A geotransform in the corner convention puts every tiepoint where the   *)
(* header says it is: at the corner of its pixel, or, for PixelIsPoint, at *)
(* the centre.                                                             *)
PlacedRight(h, gt) ==
  LET half == IF IsPoint(h) THEN 1 ELSE 0
  IN  \A t \in Tiepoints(h) :
        /\ GroundX(gt, 2 * t.c + half, 2 * t.r + half) = 4 * t.x
        /\ GroundY(gt, 2 * t.c + half, 2 * t.r + half) = 4 * t.y

(* Pixel (c, r) of the window lies where pixel (xoff + c, yoff + r) of the *)
(* level does, which is (xoff + c) * w / wl columns and (yoff + r) * h / hl*)
(* rows into the image.                                                    *)
WindowPlaced(gt, win, w, h, wl, hl, xoff, yoff, c, r) ==
  /\ win[1] + c * win[2] + r * win[3] =
       gt[1] * wl * hl + (xoff + c) * w * hl * gt[2] + (yoff + r) * h * wl * gt[3]
  /\ win[4] + c * win[5] + r * win[6] =
       gt[4] * wl * hl + (xoff + c) * w * hl * gt[5] + (yoff + r) * h * wl * gt[6]

(* What a proj string has of a parameter.                                  *)
Said(params, param) == {q \in params : q[1] = param}

(* A proj string says a parameter once, and of the keys that may give it it*)
(* says the first one there is; it says nothing of one no key gives.       *)
SaysParam(params, keys, param, names) ==
  LET given == {n \in DOMAIN names : names[n] \in DOMAIN keys}
      said == Said(params, param)
  IN  /\ given = {} <=> said = {}
      /\ \A n \in given : said = {<<param, keys[names[n]]>>} \/ \E m \in given : m < n

(* It has the value of its one key where it is called for, and else none.  *)
SaysKey(params, keys, param, key, wanted) ==
  Said(params, param) = IF key \in DOMAIN keys /\ wanted THEN {<<param, keys[key]>>} ELSE {}

(* The projection's name, and by its code: both parallels of a conic with  *)
(* two, the latitude of true scale, or a scale, 1 unless there is a key.   *)
SaysProjection(params, keys) ==
  LET code == keys["coord_trans"]
      conic == code \in {8, 11, 13}
      scaled == code \in {1, 9, 14, 16} \/ (code \in {7, 15} /\ "parallel1" \notin DOMAIN keys)
      scale == IF "scale" \in DOMAIN keys THEN keys["scale"] ELSE 1
  IN  /\ \E p \in Projections : p[1] = code /\ Said(params, "proj") = {<<"proj", p[2]>>}
      /\ conic => Parallels \subseteq DOMAIN keys
      /\ SaysKey(params, keys, "lat_1", "parallel1", conic)
      /\ SaysKey(params, keys, "lat_2", "parallel2", conic)
      /\ SaysKey(params, keys, "lat_ts", "parallel1", code \in {7, 15, 17, 28})
      /\ Said(params, "k_0") = IF scaled THEN {<<"k_0", scale>>} ELSE {}

(* The ellipsoid by its name, else by its axes, else WGS84; the meridian by*)
(* its name, else by its longitude, unless that is Greenwich's.            *)
SaysDatum(params, keys) ==
  LET named == "ellipsoid" \in DOMAIN keys /\ keys["ellipsoid"] \in EllipsoidNames
      axes == ~named /\ "semi_major" \in DOMAIN keys
      known == "meridian" \in DOMAIN keys /\ keys["meridian"] \in 8901 .. 8913
  IN  /\ Said(params, "ellps") =
           IF named THEN {<<"ellps", keys["ellipsoid"]>>} ELSE IF axes THEN {} ELSE {<<"ellps", 7030>>}
      /\ SaysKey(params, keys, "a", "semi_major", axes)
      /\ SaysKey(params, keys, "rf", "inv_flattening", axes)
      /\ SaysKey(params, keys, "b", "semi_minor", axes /\ "inv_flattening" \notin DOMAIN keys)
      /\ SaysKey(params, keys, "pm_name", "meridian", known /\ keys["meridian"] # 8901)
      /\ SaysKey(params, keys, "pm", "meridian_long", ~known /\ keys["meridian_long"] # 0)

ParamNames ==
  DOMAIN OriginKeys \cup
    {"proj", "k_0", "lat_ts", "lat_1", "lat_2", "ellps", "a", "rf", "b", "pm_name", "pm"}

(* A CRS is the header's code unless that is a sentinel, else its first    *)
(* WKT, else a proj string that says every parameter its projection takes, *)
(* once, with the value of the right one of the keys that could give it,   *)
(* and no other parameter; and it is Nothing only if there is no code, no  *)
(* WKT and no projection with a name and the parallels it needs.  Two      *)
(* values are not the header's: a scale of 1 and WGS84, where it has none. *)
CrsSaysAll(h, crs) ==
  LET wkts == {n \in DOMAIN h.cits : h.cits[n].wkt}
  IN  IF EpsgUsable(h.keys) THEN crs = <<"EPSG", h.keys["epsg"]>> /\ crs[2] \notin {0, UserDefined}
      ELSE IF wkts # {}
      THEN crs[1] = "WKT" /\ \E n \in wkts : crs[2] = h.cits[n] /\ \A m \in wkts : n <= m
      ELSE IF crs = Nothing
      THEN \/ "coord_trans" \notin DOMAIN h.keys
           \/ \A p \in Projections : h.keys["coord_trans"] = p[1] =>
                p[1] \in {8, 11, 13} /\ ~(Parallels \subseteq DOMAIN h.keys)
      ELSE /\ crs[1] = "proj" /\ "coord_trans" \in DOMAIN h.keys
           /\ \A q \in crs[2] : q[1] \in ParamNames
           /\ SaysProjection(crs[2], h.keys) /\ SaysDatum(crs[2], h.keys)
           /\ \A p \in DOMAIN OriginKeys : SaysParam(crs[2], h.keys, p, OriginKeys[p])

=============================================================================
