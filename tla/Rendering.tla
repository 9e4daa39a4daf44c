------------------------------- MODULE Rendering -------------------------------
(***************************************************************************)
(* What becomes of the items of a map (utils/rendering.rs, and the end of  *)
(* GetMap in handlers/wms_handler.rs): the order in which they are drawn,  *)
(* where their labels find room, which points of an area are painted, the  *)
(* part of a raster that is shown, and what each format writes of a        *)
(* geometry.                                                               *)
(*                                                                         *)
(* A geometry is [kind, parts]; the parts of a collection are geometries.  *)
(* Colours, widths, marks and the text around the coordinates are left     *)
(* out; a pixel is painted or it is not.                                   *)
(***************************************************************************)
EXTENDS Integers, Sequences, SequencesExt, TLC

Areas == {"Polygon", "MultiPolygon"}
Lines == {"LineString", "MultiLineString"}
Points == {"Point", "MultiPoint"}

\* The later ranks lie on top.
RECURSIVE geometry_type_rank(_)
geometry_type_rank(g) ==
    CASE g.kind \in Areas  -> 0
      [] g.kind \in Lines  -> 1
      [] g.kind \in Points -> 2
      [] OTHER -> FoldLeft(LAMBDA r, sub : IF geometry_type_rank(sub) > r THEN geometry_type_rank(sub) ELSE r,
                           0, g.parts)

\* The map from the bottom to the top: paper, unless it is transparent, then the
\* items by z and rank, and as they were listed within these. An empty map that
\* is transparent is painted grey.
ZOrders == <<-1, 0, 1>>

render(items, transparent) ==
    LET Level(z, rank) == SelectSeq(items, LAMBDA i : i.z = z /\ geometry_type_rank(i.geometry) = rank)
    IN  (IF ~transparent THEN <<[paper |-> "white"]>> ELSE IF items = <<>> THEN <<[paper |-> "grey"]>> ELSE <<>>)
        \o FlattenSeq([n \in 1 .. 3 * Len(ZOrders) |-> Level(ZOrders[(n + 2) \div 3], (n - 1) % 3)])

\* An image over another one: paper hides what is beneath.
composite_image(under, over) ==
    IF over # <<>> /\ "paper" \in DOMAIN over[1] THEN over ELSE under \o over

-----------------------------------------------------------------------------
\* Labels, boxes [x0, x1, y0, y1] in the order in which the items are drawn: one
\* is placed if it is on the canvas and meets none that was placed before.
Meets(a, b) == a.x0 < b.x1 /\ a.x1 > b.x0 /\ a.y0 < b.y1 /\ a.y1 > b.y0

render_labels(labels, w, h) ==
    FoldLeft(LAMBDA placed, l :
                IF \/ l.x1 < 0 \/ l.y1 < 0 \/ l.x0 >= w \/ l.y0 >= h
                   \/ \E i \in DOMAIN placed : Meets(l, placed[i])
                THEN placed ELSE Append(placed, l),
             <<>>, labels)

-----------------------------------------------------------------------------
\* A ring is a sequence of points <<x, y>>; its edges lead from each point to the
\* next one and from the last to the first.
To(ring, i) == ring[(i % Len(ring)) + 1]

Crosses(ring, i, y) == (ring[i][2] <= y) # (To(ring, i)[2] <= y)

\* Where edge i is at the height y, the fraction num / den.
Meeting(ring, i, y) ==
    LET p == ring[i]
        q == To(ring, i)
        s == IF q[2] > p[2] THEN 1 ELSE -1
    IN  [num |-> s * (p[1] * (q[2] - p[2]) + (y - p[2]) * (q[1] - p[1])), den |-> s * (q[2] - p[2])]

\* The click: inside the ring, holes apart.
point_in_ring(x, y, ring) ==
    Cardinality({i \in DOMAIN ring : Crosses(ring, i, y) /\ x * Meeting(ring, i, y).den < Meeting(ring, i, y).num}) % 2 = 1

\* The cell of a UTFGrid: inside the outer ring and in none of its holes.
point_in_rings(x, y, rings) ==
    /\ point_in_ring(x, y, rings[1])
    /\ \A h \in 2 .. Len(rings) : ~point_in_ring(x, y, rings[h])

\* Where the edges of all the rings meet the line of pixels y, in whole pixels.
Meetings(rings, y) ==
    SortSeq(FlattenSeq([r \in DOMAIN rings |->
                LET ring == rings[r]
                    edges == SelectSeq([i \in DOMAIN ring |-> i], LAMBDA i : Crosses(ring, i, y))
                IN  IF Len(ring) < 3 THEN <<>>
                    ELSE [k \in DOMAIN edges |-> Meeting(ring, edges[k], y).num \div Meeting(ring, edges[k], y).den]]),
            LAMBDA a, b : a < b)

\* Slip: every second pair of meetings is filled, holes apart.
fill_polygon_rings_outer(rings, x, y) ==
    LET xs == Meetings(<<rings[1]>>, y)
    IN  \E k \in 1 .. Len(xs) - 1 : k % 2 = 1 /\ xs[k] <= x /\ x <= xs[k + 1]

fill_polygon_rings(rings, x, y) ==
    /\ Len(rings[1]) >= 3
    /\ LET xs == Meetings(rings, y)
       IN  \E k \in 1 .. Len(xs) - 1 : k % 2 = 1 /\ xs[k] <= x /\ x <= xs[k + 1]

\* The map turned upside down, as pixels are counted, one to a unit.
world_to_pixel(rings, h) == [r \in DOMAIN rings |-> [i \in DOMAIN rings[r] |-> <<rings[r][i][1], h - rings[r][i][2]>>]]

painted(rings, x, y, h) == fill_polygon_rings(world_to_pixel(rings, h), x, h - y)

\* The cells of a grid of w by h, each of two units, whose centre is inside; only
\* those are tried that the box of the outer ring meets.
Least(S) == CHOOSE a \in S : \A b \in S : a <= b
Greatest(S) == CHOOSE a \in S : \A b \in S : a >= b

polygon_cells(rings, minx, maxy, w, h) ==
    LET xs == {rings[1][i][1] : i \in DOMAIN rings[1]}
        ys == {rings[1][i][2] : i \in DOMAIN rings[1]}
        From(a) == Greatest({a \div 2, 0})
        Upto(a, n) == Greatest({Least({a \div 2, n - 1}), 0})
    IN  {c \in (From(Least(xs) - minx) .. Upto(Greatest(xs) - minx, w))
                \X (From(maxy - Greatest(ys)) .. Upto(maxy - Least(ys), h)) :
            point_in_rings(minx + 2 * c[1] + 1, maxy - 2 * c[2] - 1, rings)}

\* A cell of a UTFGrid that features hit, some of them more than once, in this
\* order: 0 is the empty cell. It is named again by the next one after two.
render_to_utfgrid(hits) ==
    FoldLeft(LAMBDA cell, id : IF cell = 0 THEN id ELSE IF cell # id THEN 0 ELSE cell, 0, hits)

-----------------------------------------------------------------------------
\* Along one axis: where a raster of n pixels over [lo, hi] is put on a map of w
\* pixels over [lo, hi], and which of its pixels are put there.
CeilDiv(a, b) == -((-a) \div b)

render_raster_to_map(raster, n, map, w) ==
    LET lo == Greatest({map.lo, raster.lo})
        hi == Least({map.hi, raster.hi})
        d0 == ((lo - map.lo) * w) \div (map.hi - map.lo)
        d1 == ((hi - map.lo) * w) \div (map.hi - map.lo)
        s0 == ((lo - raster.lo) * n) \div (raster.hi - raster.lo)
        s1 == CeilDiv((hi - raster.lo) * n, raster.hi - raster.lo)
    IN  IF map.lo >= raster.hi \/ map.hi <= raster.lo THEN <<>>
        ELSE <<[at |-> d0, size |-> Greatest({d1 - d0, 1}),
                from |-> s0, count |-> Least({Greatest({s1 - s0, 1}), n - Least({s0, n - 1})})]>>

-----------------------------------------------------------------------------
\* What each format writes of a geometry, its parts one after the other.
FirstPart(g) == SubSeq(g.parts, 1, 1)

RECURSIVE AllParts(_)
AllParts(g) ==
    IF g.kind = "GeometryCollection" THEN FlattenSeq([i \in DOMAIN g.parts |-> AllParts(g.parts[i])])
    ELSE g.parts

\* The image.
render_feature(g) == AllParts(g)

\* SVG: a collection is written part by part, within the same document.
render_features_svg(g) == AllParts(g)

\* UTFGrid.
feature_cells(g) == AllParts(g)

\* KML has no points in numbers; lines in numbers become one line.
RECURSIVE geometry_to_kml(_)
geometry_to_kml(g) ==
    CASE g.kind = "MultiPoint" -> FirstPart(g)
      [] g.kind = "GeometryCollection" ->
            FlattenSeq([i \in DOMAIN g.parts |-> geometry_to_kml(g.parts[i])])
      [] OTHER -> g.parts

\* GeoRSS, and Atom with it, has nothing in numbers, and collections not at all.
geometry_to_georss(g) == IF g.kind = "GeometryCollection" THEN <<>> ELSE FirstPart(g)

\* GML, that of WFS too, has only what is single.
geometry_to_gml(g) == IF g.kind \in {"Point", "LineString", "Polygon"} THEN g.parts ELSE <<>>

\* Features of the layers, one after the other.
render_to_svg(fs) == [i \in DOMAIN fs |-> [key |-> fs[i].key, parts |-> render_features_svg(fs[i].geometry)]]
render_to_kml(fs) == [i \in DOMAIN fs |-> [key |-> fs[i].key, parts |-> geometry_to_kml(fs[i].geometry)]]
render_to_georss(fs) == [i \in DOMAIN fs |-> [key |-> fs[i].key, parts |-> geometry_to_georss(fs[i].geometry)]]
render_to_atom(fs) == [i \in DOMAIN fs |-> [key |-> fs[i].key, parts |-> geometry_to_georss(fs[i].geometry)]]
render_to_gml(fs) == [i \in DOMAIN fs |-> [key |-> fs[i].key, parts |-> geometry_to_gml(fs[i].geometry)]]
GeoJson(fs) == [i \in DOMAIN fs |-> [key |-> fs[i].key, parts |-> AllParts(fs[i].geometry)]]

\* PDF is an image of the items on paper.
render_to_pdf(fs) ==
    LET drawn == Tail(render(fs, FALSE))
    IN  [i \in DOMAIN drawn |-> [key |-> drawn[i].key, parts |-> render_feature(drawn[i].geometry)]]

-----------------------------------------------------------------------------
\* A format is the set of the words it contains; the first of these that it does
\* contain decides, and an image in PNG is made if it has none.
Writers == <<"svg", "kml", "utfgrid", "json", "rss", "atom", "gml", "pdf", "png", "jpeg", "gif", "webp", "tiff">>

writer(format) ==
    LET i == SelectInSeq(Writers, LAMBDA word : word \in format)
    IN  IF i = 0 THEN "png" ELSE Writers[i]

\* What a cascaded server is asked for instead.
remote_format(format) ==
    LET words == <<"png", "jpeg", "gif", "json", "svg">>
        i == SelectInSeq(words, LAMBDA word : word \in format)
    IN  IF i = 0 THEN "png" ELSE words[i]

\* The formats that capabilities lists for GetMap.
Advertised ==
    {{w} : w \in {"png", "jpeg", "gif", "webp", "tiff", "svg", "kml", "json", "pdf", "rss", "atom", "gml"}}
    \cup {{"json", "utfgrid"}}
=============================================================================
