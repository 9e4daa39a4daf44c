-------------------------------- MODULE TileGrid --------------------------------
(***************************************************************************)
(* The arithmetic of the tile grids, utils/tile_grid.rs: levels of tiles   *)
(* for EPSG:4326 ("geodetic"), EPSG:3857 ("mercator") and the grids that   *)
(* are registered at run time. A grid is [kind, spans], where spans are    *)
(* the widths of the tiles of the levels of a registered grid. An absent   *)
(* answer is <<>>, a present one <<answer>>.                               *)
(*                                                                         *)
(* Lengths are whole numbers, World of them for 360 degrees; x counts from *)
(* the west, y from the south pole. A box is [minx, miny, maxx, maxy].     *)
(***************************************************************************)
EXTENDS Integers, Sequences, SequencesExt, FiniteSetsExt

CONSTANTS
    World,      \* 360 degrees
    MAX_ZOOM,
    Clamp       \* the latitude of the upper edge of mercator, above the equator

NoTile == <<>>
Height == World \div 2

IsCustom(grid) == grid.kind = "custom"

PowerOfTwo[k \in 0 .. 31] == IF k = 0 THEN 1 ELSE 2 * PowerOfTwo[k - 1]

\* 1u32 << z in a build without overflow checks
ShiftOne(z) == PowerOfTwo[z % 32]

\* The tiles of every level divide the world.
ASSUME WorldAssumption ==
    /\ World \in Nat /\ MAX_ZOOM \in 0 .. 30 /\ Clamp \in 1 .. World \div 4
    /\ \A z \in 0 .. MAX_ZOOM : World % (2 * ShiftOne(z)) = 0

\* The width of a tile of a registered grid, 0 where it has no such level.
Span(grid, z) == IF z + 1 \in DOMAIN grid.spans THEN grid.spans[z + 1] ELSE 0

CeilDiv(a, b) == (a + b - 1) \div b

matrix_width(grid, z) ==
    CASE grid.kind = "geodetic" -> 2 * ShiftOne(z)
      [] grid.kind = "mercator" -> ShiftOne(z)
      [] IsCustom(grid) -> IF Span(grid, z) = 0 THEN 0 ELSE CeilDiv(World, Span(grid, z))

matrix_height(grid, z) ==
    IF ~IsCustom(grid) THEN ShiftOne(z)
    ELSE IF Span(grid, z) = 0 THEN 0 ELSE CeilDiv(Height, Span(grid, z))

\* The width of a tile; a pixel is a 256th of it.
units_per_pixel(grid, z) ==
    IF IsCustom(grid) THEN Span(grid, z) ELSE World \div matrix_width(grid, z)

\* The latitude, above or below the equator, of the line after k of n rows of
\* mercator, as the formula has it, for n = 1, 2 and 4; of more rows, where no
\* property looks at it, it is some other latitude. It does not tell north from
\* south. Beyond 90 degrees of the argument it is no number, which leaves the
\* limit; at 90 degrees it is beyond the limit.
mercator_lat(k, n, limit) ==
    LET q == IF n >= 2 * k THEN n - 2 * k ELSE 2 * k - n
    IN  IF 2 * q > n THEN limit ELSE IF q = 0 THEN 0 ELSE Clamp + 1

AtMost(a, b) == IF a < b THEN a ELSE b
AtLeast(a, b) == IF a > b THEN a ELSE b

\* Rows count from the north, of EPSG:4326 from the south.
tile_bounds(grid, z, col, row) ==
    LET w == World \div matrix_width(grid, z)
        h == Height \div matrix_height(grid, z)
        s == Span(grid, z)
        n == ShiftOne(z)
    IN  IF z > MAX_ZOOM \/ col >= matrix_width(grid, z) \/ row >= matrix_height(grid, z)
        THEN NoTile
        ELSE CASE grid.kind = "geodetic" ->
                    <<[minx |-> col * w, maxx |-> (col + 1) * w,
                       miny |-> row * h, maxy |-> (row + 1) * h]>>
               [] grid.kind = "mercator" ->
                    <<[minx |-> col * w, maxx |-> (col + 1) * w,
                       miny |-> World \div 4 + AtLeast(mercator_lat(row + 1, n, -Clamp), -Clamp),
                       maxy |-> World \div 4 + AtMost(mercator_lat(row, n, Clamp), Clamp)]>>
               [] IsCustom(grid) ->
                    <<[minx |-> col * s, maxx |-> (col + 1) * s,
                       maxy |-> Height - row * s, miny |-> Height - (row + 1) * s]>>

\* Slip: counts from one.
tms_row_to_slippy_from_one(grid, z, y) ==
    IF y >= matrix_height(grid, z) THEN NoTile ELSE <<matrix_height(grid, z) - y>>

tms_row_to_slippy(grid, z, y) ==
    IF y >= matrix_height(grid, z) THEN NoTile ELSE <<matrix_height(grid, z) - 1 - y>>

Distance(a, b) == IF a < b THEN b - a ELSE a - b

\* The level whose resolution is the nearest to res: of the grids of powers by
\* its logarithm, which rounds up from the half; of the others by difference.
zoom_for_resolution(grid, res) ==
    IF IsCustom(grid)
    THEN IF grid.spans = <<>> THEN 0
         ELSE Min({k - 1 : k \in {k \in DOMAIN grid.spans : \A j \in DOMAIN grid.spans :
                    Distance(grid.spans[k], res) <= Distance(grid.spans[j], res)}})
    ELSE LET base  == World \div matrix_width(grid, 0)
             \* 2^(z - 1/2) <= base / res < 2^(z + 1/2), squared
             Near(z) == LET r == ShiftOne(z) * res
                        IN  r * r <= 2 * base * base /\ 2 * base * base < 4 * r * r
         IN  IF base <= res THEN 0
             ELSE IF \E z \in 0 .. MAX_ZOOM : Near(z) THEN CHOOSE z \in 0 .. MAX_ZOOM : Near(z)
             ELSE MAX_ZOOM

\* The tile of a box, by the north-western corner. Boxes of mercator are in
\* meters, where the world is a square. Registered grids are divided evenly,
\* though their last tiles may reach beyond the world. What is west or north
\* of the world is converted to 0.
tile_for_bbox(grid, z, box) ==
    LET mw   == matrix_width(grid, z)
        mh   == matrix_height(grid, z)
        tall == IF grid.kind = "mercator" THEN World ELSE Height
        col  == AtLeast((box.minx * mw) \div World, 0)
        row  == AtLeast(((tall - box.maxy) * mh) \div tall, 0)
    IN  IF col < mw /\ row < mh THEN <<col, row>> ELSE NoTile

\* WMS-C: the level from the width of the box, which a picture as wide as a
\* tile is asked for, then the tile.
handle_tiled_get_map(grid, box) ==
    LET z    == zoom_for_resolution(grid, box.maxx - box.minx)
        tile == tile_for_bbox(grid, z, box)
    IN  IF tile = NoTile THEN NoTile ELSE <<z, tile[1], tile[2]>>

\* TMS: the box that is drawn for row y from the south.
render_tms_tile(grid, z, x, y) ==
    LET row == tms_row_to_slippy(grid, z, y)
    IN  IF row = NoTile THEN NoTile ELSE tile_bounds(grid, z, x, row[1])

-----------------------------------------------------------------------------
\* The grid a capabilities document describes: the box, in the units of the
\* grid, of column col and of row row from the north.
GridBox(grid, z, col, row) ==
    LET w    == IF IsCustom(grid) THEN Span(grid, z) ELSE World \div matrix_width(grid, z)
        tall == IF grid.kind = "mercator" THEN World ELSE Height
    IN  [minx |-> col * w, maxx |-> (col + 1) * w,
         maxy |-> tall - row * w, miny |-> tall - (row + 1) * w]

\* The same box in degrees; of mercator where the halves of the world meet.
DegreeBox(grid, z, col, row) ==
    LET box    == GridBox(grid, z, col, row)
        Lat(y) == CASE y = 0 -> Height \div 2 - Clamp
                    [] y = World \div 2 -> Height \div 2
                    [] y = World -> Height \div 2 + Clamp
    IN  IF grid.kind = "mercator"
        THEN [minx |-> box.minx, maxx |-> box.maxx, miny |-> Lat(box.miny), maxy |-> Lat(box.maxy)]
        ELSE box
=============================================================================
