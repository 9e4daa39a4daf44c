------------------------------- MODULE Coverages -------------------------------
(***************************************************************************)
(* Coverages: how files of rasters are read (utils/geotiff.rs,             *)
(* worldimage.rs, arcgrid.rs), put together (mosaic.rs, pyramid.rs),       *)
(* described, and cut by WCS (services/wcs.rs, handlers/wcs_handler.rs)    *)
(* and by the OGC API (handlers/ogc_coverages_handler.rs).                 *)
(*                                                                         *)
(* A box is [x, y], two spans [lo, hi] in whole units; y grows to the      *)
(* north, rows are counted from there. A file is [id, kind, readable, w,   *)
(* h, step, tie]: its pixels, all of step by step units, and the points    *)
(* that tie them to the world, <<>> or <<[x, y, col, row]>>. An image is   *)
(* [w, h, px], each of its pixels the pixel or the granule that it shows,  *)
(* 0 if it is transparent. An answer is [of, w, h, bands]: the image that  *)
(* is scaled to w by h, and which of its bands are seen, or [test, w, h],  *)
(* the test image. What is absent is <<>>. Ratios are exact, granules are   *)
(* opaque, sizes and resolutions positive.                                 *)
(***************************************************************************)
EXTENDS Rendering

CONSTANT CoverageSize   \* 512, the longer side of a mosaic for which no size is given

Box(x0, x1, y0, y1) == [x |-> [lo |-> x0, hi |-> x1], y |-> [lo |-> y0, hi |-> y1]]

\* The tie point is taken for the corner of the first pixel, wherever it is.
read_geotiff_tags(f) ==
    [n \in DOMAIN f.tie |-> Box(f.tie[n].x, f.tie[n].x + f.w * f.step, f.tie[n].y - f.h * f.step, f.tie[n].y)]

\* A world file names the centre of the first pixel.
read_worldimage(f) ==
    LET From(minx, maxy) == Box(minx, minx + f.w * f.step, maxy - f.h * f.step, maxy)
    IN  [n \in DOMAIN f.tie |-> From(f.tie[n].x - f.step \div 2, f.tie[n].y + f.step \div 2)]

\* The lower left corner, or 0, 0; a centre (xllcenter) is taken for one.
read_arcgrid(f) ==
    LET From(x, y) == Box(x, x + f.w * f.step, y, y + f.h * f.step)
    IN  IF f.tie = <<>> THEN <<From(0, 0)>> ELSE <<From(f.tie[1].x, f.tie[1].y)>>

BoundsOf(f) ==
    CASE f.kind = "geotiff"    -> read_geotiff_tags(f)
      [] f.kind = "worldimage" -> read_worldimage(f)
      [] f.kind = "arcgrid"    -> read_arcgrid(f)

\* A world image cannot be read without its world file.
Opens(f) == f.readable /\ (f.kind = "worldimage" => f.tie # <<>>)

ImageOf(f) == [w |-> f.w, h |-> f.h, px |-> [p \in (0 .. f.w - 1) \X (0 .. f.h - 1) |-> p]]

-----------------------------------------------------------------------------
\* Cuts, along one axis and of an image; a part of a pixel counts as one if up.
North(span) == [lo |-> -span.hi, hi |-> -span.lo]
Apart(span, want) == want.lo >= span.hi \/ want.hi <= span.lo

Rounded(a, b, up) == IF up THEN CeilDiv(a, b) ELSE a \div b

Cropped(n, span, want, up) ==
    LET lo == Greatest({want.lo, span.lo})
        from == ((lo - span.lo) * n) \div (span.hi - span.lo)
    IN  [from |-> from,
         count |-> Least({Rounded((Least({want.hi, span.hi}) - lo) * n, span.hi - span.lo, up), n - from})]

Cut(img, box, want, up) ==
    LET Part(x, y) ==
            IF x.count <= 0 \/ y.count <= 0 THEN <<>>
            ELSE <<[w |-> x.count, h |-> y.count,
                    px |-> [p \in (0 .. x.count - 1) \X (0 .. y.count - 1) |-> img.px[<<x.from + p[1], y.from + p[2]>>]]]>>
    IN  IF Apart(box.x, want.x) \/ Apart(box.y, want.y) THEN <<>>
        ELSE Part(Cropped(img.w, box.x, want.x, up), Cropped(img.h, North(box.y), North(want.y), up))

\* WCS: what has no place is not cut.
crop_coverage(img, box, want) == IF box = <<>> THEN <<img>> ELSE Cut(img, box[1], want, FALSE)

\* The OGC API.
crop_raster_by_bounds(img, box, want) == IF box = <<>> THEN <<>> ELSE Cut(img, box[1], want, TRUE)

-----------------------------------------------------------------------------
\* SUBSET, as axis(a,b,c) or axis(a:b:c), or as axis,a,b,c: its parts are sets, {}
\* what is no number. The name of a reference system may stand before the resolution
\* if there are no brackets. A single position cuts nothing.
Interval(axis, lo, hi, res) == <<[axis |-> axis, lo |-> lo, hi |-> hi, res |-> res]>>

parse_subset(v) ==
    LET n == Len(v.parts)
        OrZero(S) == IF S = {} THEN 0 ELSE Greatest(S)
    IN  IF v.brackets /\ n >= 2
        THEN Interval(v.axis, OrZero(v.parts[1]), OrZero(v.parts[2]), IF n = 2 THEN {} ELSE v.parts[3])
        ELSE IF ~v.brackets /\ n >= 2 /\ v.parts[1] # {} /\ v.parts[2] # {}
        THEN Interval(v.axis, Greatest(v.parts[1]), Greatest(v.parts[2]), IF n = 2 THEN {} ELSE v.parts[Least({n, 4})])
        ELSE <<>>

parse_wcs_request(values) == FlattenSeq([i \in DOMAIN values |-> parse_subset(values[i])])

XAxes == {"x", "long", "longitude", "i"}
YAxes == {"y", "lat", "latitude", "j"}
BandAxes == "r" :> 0 @@ "red" :> 0 @@ "g" :> 1 @@ "green" :> 1 @@ "b" :> 2 @@ "blue" :> 2 @@ "a" :> 3 @@ "alpha" :> 3

\* The last of the subsets that name one of the axes counts.
LastOf(subsets, axes) ==
    LET of == SelectSeq(subsets, LAMBDA s : s.axis \in axes)
    IN  IF of = <<>> THEN <<>> ELSE <<of[Len(of)]>>

\* Bands are counted from 1, but the axes named for colours count from 0, and all
\* from 1 are taken for the former.
select_bands(lo, hi) ==
    LET less == IF lo >= 1 /\ hi >= 1 THEN 1 ELSE 0
        bands == lo - less .. hi - less
    IN  IF {lo, hi} \subseteq 0 .. 3 /\ bands # {} THEN bands ELSE 0 .. 3

BandsOf(subsets) ==
    LET Chosen(s) == IF s.axis \in DOMAIN BandAxes THEN select_bands(BandAxes[s.axis], BandAxes[s.axis])
                     ELSE select_bands(s.lo, s.hi)
        asked == LastOf(subsets, {"band", "range", "bands"} \cup DOMAIN BandAxes)
    IN  IF asked = <<>> THEN 0 .. 3 ELSE Chosen(asked[1])

Shows(img, w, h, bands) == [of |-> img, w |-> w, h |-> h, bands |-> bands]

Sized(size) == Len(size) >= 2

calculate_output_size(answer, size) == IF Sized(size) THEN [answer EXCEPT !.w = size[1], !.h = size[2]] ELSE answer

\* A resolution scales the part to the size that the whole would have. What is cut
\* has all its bands; what cannot be cut is shown whole.
apply_coverage_subsets(img, box, subsets) ==
    LET x == LastOf(subsets, XAxes)
        y == LastOf(subsets, YAxes)
        fine == LastOf(SelectSeq(subsets, LAMBDA s : s.res # {}), XAxes \cup YAxes)
        Side(span) == (span.hi - span.lo) \div Greatest(fine[1].res)
        Scaled(part) == IF fine = <<>> \/ box = <<>> THEN Shows(part, part.w, part.h, 0 .. 3)
                        ELSE IF Side(box[1].x) = 0 \/ Side(box[1].y) = 0 THEN Shows(part, part.w, part.h, 0 .. 3)
                        ELSE Shows(part, Side(box[1].x), Side(box[1].y), 0 .. 3)
        Either(part) == IF part = <<>> THEN Shows(img, img.w, img.h, BandsOf(subsets)) ELSE Scaled(part[1])
    IN  Either(IF x = <<>> \/ y = <<>> THEN <<>>
               ELSE crop_coverage(img, box, Box(x[1].lo, x[1].hi, y[1].lo, y[1].hi)))

-----------------------------------------------------------------------------
\* A mosaic: the files of a directory by name, those with a place in the world.
load_mosaic(files) == SortSeq(SelectSeq(files, LAMBDA f : Opens(f) /\ BoundsOf(f) # <<>>), LAMBDA f, g : f.id < g.id)

mosaic_bounds(granules) ==
    LET boxes == {BoundsOf(granules[i])[1] : i \in DOMAIN granules}
    IN  IF boxes = {} THEN <<>>
        ELSE <<Box(Least({b.x.lo : b \in boxes}), Greatest({b.x.hi : b \in boxes}),
                   Least({b.y.lo : b \in boxes}), Greatest({b.y.hi : b \in boxes}))>>

\* Where a granule is put on an image of w by h over the target.
Tile(g, target, w, h) ==
    LET box == BoundsOf(g)[1]
        x == render_raster_to_map(box.x, g.w, target.x, w)
        y == render_raster_to_map(North(box.y), g.h, North(target.y), h)
        Put(a, n) == a.at .. Least({a.at + a.size, n}) - 1
    IN  IF target.x.lo >= target.x.hi \/ target.y.lo >= target.y.hi \/ x = <<>> \/ y = <<>> THEN {}
        ELSE Put(x[1], w) \X Put(y[1], h)

composite(px, cells, id) == [p \in DOMAIN px |-> IF p \in cells THEN id ELSE px[p]]

\* The later granules lie on top.
render_mosaic(granules, target, w, h) ==
    LET clear == [p \in (0 .. w - 1) \X (0 .. h - 1) |-> 0]
    IN  IF \A i \in DOMAIN granules : Tile(granules[i], target, w, h) = {} THEN <<>>
        ELSE <<[w |-> w, h |-> h,
                px |-> FoldLeft(LAMBDA px, g : composite(px, Tile(g, target, w, h), g.id), clear, granules)]>>

\* The part of the bounds that is asked for, and the size of the image.
mosaic_target(bounds, subsets) ==
    LET Within(span, asked) == IF asked = <<>> THEN span
                               ELSE [lo |-> Greatest({asked[1].lo, span.lo}), hi |-> Least({asked[1].hi, span.hi})]
    IN  [x |-> Within(bounds.x, LastOf(subsets, XAxes)), y |-> Within(bounds.y, LastOf(subsets, YAxes))]

mosaic_size(target, size) ==
    LET x == Greatest({target.x.hi - target.x.lo, 0})
        y == Greatest({target.y.hi - target.y.lo, 0})
        Short(a, b) == IF a = 0 THEN 1 ELSE Greatest({(CoverageSize * a) \div b, 1})
    IN  IF Sized(size) THEN <<size[1], size[2]>>
        ELSE IF x >= y THEN <<CoverageSize, IF x = 0 THEN CoverageSize ELSE Short(y, x)>> ELSE <<Short(x, y), CoverageSize>>

\* A pyramid: a directory for each level, of which as many are read as its
\* properties say, or as there are; the finest is level 0. A level is as fine as
\* its first granule, whose pixels are as wide as they are high.
level_count(dir) == IF dir.levels = <<>> \/ dir.levels = <<0>> THEN Cardinality(DOMAIN dir.files) ELSE dir.levels[1]

load_pyramid(dir) ==
    SelectSeq([n \in 1 .. level_count(dir) |-> IF n - 1 \in DOMAIN dir.files THEN load_mosaic(dir.files[n - 1]) ELSE <<>>],
              LAMBDA granules : granules # <<>>)

level_resolution(granules) == granules[1].step

\* The coarsest that is fine enough for width / pixels, or the first of all.
select_level(levels, width, pixels) ==
    LET i == SelectLastInSeq(levels, LAMBDA granules : level_resolution(granules) * pixels <= width)
    IN  levels[IF i = 0 THEN 1 ELSE i]

-----------------------------------------------------------------------------
\* A source is [kind, there, files, levels]: one file, the files of a mosaic, or the
\* levels of a pyramid; there: its path exists. A mosaic or pyramid of which nothing
\* can be shown is the test image, and so is what is not there.
Directories == {"image_mosaic", "image_pyramid"}

Granules(ds) == IF ds.kind = "image_mosaic" THEN load_mosaic(ds.files) ELSE FlattenSeq(load_pyramid(ds))

TestImage(size) == IF Sized(size) THEN [test |-> TRUE, w |-> size[1], h |-> size[2]]
                   ELSE [test |-> TRUE, w |-> CoverageSize, h |-> CoverageSize]

handle_get_coverage(ds, values, size) ==
    LET subsets == parse_wcs_request(values)
        Drawn(img) == IF img = <<>> THEN TestImage(size) ELSE Shows(img[1], img[1].w, img[1].h, 0 .. 3)
        Rendered(target, wh) ==
            Drawn(render_mosaic(IF ds.kind = "image_mosaic" THEN load_mosaic(ds.files)
                                ELSE select_level(load_pyramid(ds), Greatest({target.x.hi - target.x.lo, 0}), wh[1]),
                                target, wh[1], wh[2]))
        Aimed(target) == Rendered(target, mosaic_size(target, size))
    IN  IF ~ds.there THEN TestImage(size)
        ELSE IF ds.kind \in Directories
        THEN IF Granules(ds) = <<>> THEN TestImage(size) ELSE Aimed(mosaic_target(mosaic_bounds(Granules(ds))[1], subsets))
        ELSE IF Opens(ds.files[1])
        THEN calculate_output_size(apply_coverage_subsets(ImageOf(ds.files[1]), BoundsOf(ds.files[1]), subsets), size)
        ELSE TestImage(size)

\* What DescribeCoverage and the collections of the OGC API say: the size of a mosaic
\* is all its columns in one row. The world is the place of what has none. Of a grid
\* only the head is read.
handle_describe_coverage(ds) ==
    LET Said(box, w, h, bands) == [box |-> box, w |-> w, h |-> h, bands |-> bands]
        File(f) == Said(BoundsOf(f), f.w, f.h, CASE f.kind = "geotiff" -> 3 [] f.kind = "arcgrid" -> 1 [] f.kind = "worldimage" -> 4)
        Columns(gs) == FoldLeft(LAMBDA n, g : n + g.w, 0, gs)
    IN  IF ~ds.there THEN <<>>
        ELSE CASE ds.kind = "image_mosaic"  -> <<Said(mosaic_bounds(Granules(ds)), Greatest({Columns(Granules(ds)), 1}), 1, 4)>>
               [] ds.kind = "image_pyramid" -> <<Said(mosaic_bounds(Granules(ds)), 2 * CoverageSize, 2 * CoverageSize, 4)>>
               [] OTHER -> IF Opens(ds.files[1]) \/ ds.files[1].kind = "arcgrid" THEN <<File(ds.files[1])>> ELSE <<>>

\* The whole raster: for maps and for the OGC API, a mosaic in its own size.
read_raster_image(ds) ==
    LET n == 2 * CoverageSize
        Placed(img, box) == [i \in DOMAIN img |-> [img |-> img[i], box |-> box]]
        Whole(gs, box) == IF box = <<>> THEN <<>> ELSE Placed(render_mosaic(gs, box[1], n, n), box)
    IN  CASE ds.kind = "image_mosaic"  -> Whole(Granules(ds), mosaic_bounds(Granules(ds)))
          [] ds.kind = "image_pyramid" -> IF Granules(ds) = <<>> THEN <<>>
                                          ELSE Whole(select_level(load_pyramid(ds), 0, 1), mosaic_bounds(Granules(ds)))
          [] OTHER -> IF Opens(ds.files[1]) THEN <<[img |-> ImageOf(ds.files[1]), box |-> BoundsOf(ds.files[1])]>> ELSE <<>>

\* A map shows only what has a place.
load_raster_layer(ds) == SelectSeq(IF ds.there THEN read_raster_image(ds) ELSE <<>>, LAMBDA r : r.box # <<>>)

handle_ogc_coverages_coverage(ds, bbox, size) ==
    LET Encoded(img) == calculate_output_size(Shows(img, img.w, img.h, 0 .. 3), size)
        Part(img) == IF img = <<>> THEN [answer |-> "bad request"] ELSE Encoded(img[1])
        Answered(raster) ==
            IF raster = <<>> THEN [answer |-> "failed"]
            ELSE IF bbox = <<>> THEN Encoded(raster[1].img)
            ELSE Part(crop_raster_by_bounds(raster[1].img, raster[1].box, bbox[1]))
    IN  IF ds.there THEN Answered(read_raster_image(ds)) ELSE [answer |-> "not found"]
=============================================================================
