----------------------------- MODULE MapDrawing -----------------------------
(* The pixels of a map: the tile pyramid a map pack must hold, the overlay's *)
(* stitching of the level-zero tiles into one raster, and the decoding of    *)
(* the bitmap that a preview uses instead.  A pixel of the source picture is *)
(* its own coordinates, so a pixel in the wrong place is visible.            *)
EXTENDS Integers, Sequences, FiniteSets, SequencesExt

CONSTANTS MaxSide,   \* bound on the sides of a picture
          Cores,     \* tile core sizes (512 in the program)
          Gutter,    \* border a tile carries on every side (2 in the program)
          MaxHeader, \* bound on the pixel offset of a bitmap
          Blank

VARIABLES width, height, core,
          tile,      \* the next tile, a pair; <<>> when the raster is whole
          raster,    \* [0..width-1 \X 0..height-1 -> pixel]
          bitmap     \* the decoded bitmap, or Blank

tilesVars == <<width, height, core, tile, raster, bitmap>>

CeilDiv(a, b) == (a + b - 1) \div b
MinOf(a, b) == IF a < b THEN a ELSE b

Pixels(w, h) == (0..(w - 1)) \X (0..(h - 1))

-----------------------------------------------------------------------------
(* The pyramid: every level halves the one below, rounding up, until one    *)
(* tile holds it.                                                           *)

LevelSides(w, h, c) ==
    LET sides[l \in 0..8] == IF l = 0 THEN <<w, h>>
                             ELSE <<CeilDiv(sides[l - 1][1], 2), CeilDiv(sides[l - 1][2], 2)>>
        last == CHOOSE l \in 0..8 :
                   /\ sides[l][1] <= c /\ sides[l][2] <= c
                   /\ \A k \in 0..(l - 1) : sides[k][1] > c \/ sides[k][2] > c
    IN  [l \in 0..last |-> sides[l]]

\* expected_keys of one level: the grid of its tiles.
Grid(sides, c) == (0..(CeilDiv(sides[1], c) - 1)) \X (0..(CeilDiv(sides[2], c) - 1))

\* expected_map_rect: the part of the level-zero map a tile shows.
MapRect(level, key, w, h, c) ==
    LET span == c * 2^level
    IN  [minX |-> key[1] * span, minY |-> key[2] * span,
         maxX |-> MinOf((key[1] + 1) * span, w), maxY |-> MinOf((key[2] + 1) * span, h)]

InsideRect(r, p) == r.minX <= p[1] /\ p[1] < r.maxX /\ r.minY <= p[2] /\ p[2] < r.maxY

-----------------------------------------------------------------------------
(* Stitching.                                                               *)

\* What the publisher's level-zero tile holds at (x, y): the core and a
\* gutter of neighbouring pixels, the picture's edge repeated.
Clamp(v, n) == IF v < 0 THEN 0 ELSE IF v > n - 1 THEN n - 1 ELSE v
TilePixel(key, x, y) ==
    <<Clamp(key[1] * core + x - Gutter, width), Clamp(key[2] * core + y - Gutter, height)>>

\* copy_tile_core.
CopyTileCore(key) ==
    LET copyWidth  == MinOf(core, width - key[1] * core)
        copyHeight == MinOf(core, height - key[2] * core)
    IN  [p \in Pixels(width, height) |->
            LET lx == p[1] - key[1] * core
                ly == p[2] - key[2] * core
            IN  IF lx \in 0..(copyWidth - 1) /\ ly \in 0..(copyHeight - 1)
                THEN TilePixel(key, Gutter + lx, Gutter + ly) ELSE raster[p]]

\* Row by row, as stitch_level_zero_tiles walks the grid.
NextTile(key) ==
    IF key[1] + 1 < CeilDiv(width, core) THEN <<key[1] + 1, key[2]>>
    ELSE IF key[2] + 1 < CeilDiv(height, core) THEN <<0, key[2] + 1>>
    ELSE <<>>

StitchTile ==
    /\ tile # <<>>
    /\ raster' = CopyTileCore(tile)
    /\ tile' = NextTile(tile)
    /\ UNCHANGED <<width, height, core, bitmap>>

-----------------------------------------------------------------------------
(* Bitmaps: rows are padded to four bytes and stored bottom up unless the   *)
(* height is negative.                                                      *)

RowStride(w, bytes) == 4 * CeilDiv(w * bytes, 4)

\* The offset of the pixel the file format puts at (x, y).
BitmapOffset(w, h, bytes, offset, topDown, p) ==
    offset + (IF topDown THEN p[2] ELSE h - 1 - p[2]) * RowStride(w, bytes) + p[1] * bytes

\* decode_bmp: the offset every pixel is read from, first byte.
DecodeBmp(bytes, offset, topDown) ==
    LET stride == ((width * bytes + 3) \div 4) * 4
    IN  [p \in Pixels(width, height) |->
            LET sourceY == IF topDown THEN p[2] ELSE height - p[2] - 1
            IN  offset + sourceY * stride + p[1] * bytes]

\* The file is accepted when the padded rows fit behind the header.
Decode(bytes, offset, topDown, length) ==
    /\ tile = <<>>
    /\ bitmap = Blank
    /\ offset + RowStride(width, bytes) * height <= length
    /\ bitmap' = [bytes |-> bytes, offset |-> offset, topDown |-> topDown, length |-> length,
                  reads |-> DecodeBmp(bytes, offset, topDown)]
    /\ UNCHANGED <<width, height, core, tile, raster>>

TilesInit ==
    /\ width \in 1..MaxSide
    /\ height \in 1..MaxSide
    /\ core \in Cores
    /\ tile = <<0, 0>>
    /\ raster = [p \in Pixels(width, height) |-> Blank]
    /\ bitmap = Blank

TilesNext ==
    \/ StitchTile
    \/ \E bytes \in {3, 4}, offset \in 0..MaxHeader, topDown \in BOOLEAN, slack \in 0..1 :
          Decode(bytes, offset, topDown,
                 MaxHeader + RowStride(width, bytes) * height - slack)

TilesSpec == TilesInit /\ [][TilesNext]_tilesVars

-----------------------------------------------------------------------------
\* On every level of the pyramid each point of the map lies in exactly one
\* tile's rectangle, and no rectangle is empty: sides that are no multiple of
\* the tile size included.
TilesPartitionTheMap ==
    \A l \in DOMAIN LevelSides(width, height, core) :
        LET keys == Grid(LevelSides(width, height, core)[l], core)
            rect(k) == MapRect(l, k, width, height, core)
        IN  /\ \A p \in Pixels(width, height) :
                  Cardinality({k \in keys : InsideRect(rect(k), p)}) = 1
            /\ \A k \in keys : rect(k).minX < rect(k).maxX /\ rect(k).minY < rect(k).maxY

\* The stitched raster is the picture: every pixel is copied, from its own
\* place and not from a gutter.
StitchedIsThePicture ==
    tile = <<>> => \A p \in Pixels(width, height) : raster[p] = p

\* Every pixel of a bitmap is read where the format stores it, and all its
\* bytes lie inside the file.
BitmapReadsItsPixels ==
    bitmap # Blank =>
        \A p \in Pixels(width, height) :
            /\ bitmap.reads[p] = BitmapOffset(width, height, bitmap.bytes, bitmap.offset,
                                              bitmap.topDown, p)
            /\ bitmap.reads[p] + bitmap.bytes <= bitmap.length

-----------------------------------------------------------------------------
(* The view of the map (MapView) and the three pieces of code that have to   *)
(* agree about it: dragging it, rasterizing the map under it and projecting  *)
(* markers onto it.  Rotations are quarter turns, where sine and cosine are  *)
(* integers; map coordinates are doubled, so that half pixels are integers.  *)

CONSTANTS MapWidth, MapHeight,    \* the raster
          Sizes,                  \* viewport sizes, pairs
          Scales,                 \* source pixels per screen pixel
          Deltas,                 \* screen pixels a drag covers in a step
          Marks                   \* doubled map coordinates of search results

VARIABLES center,     \* [x, y], doubled map coordinates
          scale, turn,
          size,       \* the viewport
          player,     \* the player's doubled map coordinates, a set of one or {}
          highlight

viewVars == <<center, scale, turn, size, player, highlight>>

Abs(v) == IF v < 0 THEN -v ELSE v
Cos(t) == <<1, 0, -1, 0>>[t + 1]
Sin(t) == <<0, 1, 0, -1>>[t + 1]

Turned(t, p) == [x |-> Cos(t) * p.x - Sin(t) * p.y, y |-> Sin(t) * p.x + Cos(t) * p.y]

\* project_map_point: the doubled offset from the viewport's centre, times
\* the scale, at which a map point is drawn.
DrawnAt(c, t, m) == Turned(t, [x |-> m.x - c.x, y |-> m.y - c.y])

\* rasterize_with_pois: the doubled map coordinates that pixel (x, y) shows;
\* the offset of its middle from the viewport's centre is turned back.
SampledFrom(c, t, s, vw, vh, x, y) ==
    LET local == [x |-> 2 * x + 1 - vw, y |-> 2 * y + 1 - vh]
        back == Turned((4 - t) % 4, local)
    IN  [x |-> c.x + s * back.x, y |-> c.y + s * back.y]

\* clamp_map_center, doubled: half is the doubled half extent.
ClampMapCenter(v, half, extent) ==
    IF half >= extent THEN extent
    ELSE IF v < half THEN half ELSE IF v > 2 * extent - half THEN 2 * extent - half ELSE v

\* The doubled half extents of the viewport in the map.
HalfExtentX == (Abs(Cos(turn)) * size[1] + Abs(Sin(turn)) * size[2]) * scale
HalfExtentY == (Abs(Sin(turn)) * size[1] + Abs(Cos(turn)) * size[2]) * scale

SourceDelta(dx, dy) ==
    [x |-> 2 * scale * (Cos(turn) * dx + Sin(turn) * dy),
     y |-> 2 * scale * (-Sin(turn) * dx + Cos(turn) * dy)]

\* panned_by_raster_delta before clamping.
Dragged(dx, dy) ==
    [x |-> center.x - SourceDelta(dx, dy).x, y |-> center.y - SourceDelta(dx, dy).y]

ClampView(c) ==
    [x |-> ClampMapCenter(c.x, HalfExtentX, MapWidth),
     y |-> ClampMapCenter(c.y, HalfExtentY, MapHeight)]

-----------------------------------------------------------------------------
Middle == [x |-> MapWidth, y |-> MapHeight]

\* MapView::browse: no player.
ViewInit ==
    /\ center = Middle
    /\ scale \in Scales
    /\ turn = 0
    /\ size \in Sizes
    /\ player = {} /\ highlight = {}

Pan(dx, dy) ==
    /\ center' = ClampView(Dragged(dx, dy))
    /\ UNCHANGED <<scale, turn, size, player, highlight>>

\* with_raster_transform keeps the centre of a retained view.
SetTransform(s, t) ==
    /\ scale' = s /\ turn' = t
    /\ UNCHANGED <<center, size, player, highlight>>

\* with_rotations: a view that follows the player.
Follow(m, s, t) ==
    /\ center' = m /\ scale' = s /\ turn' = t
    /\ player' = {m} /\ highlight' = {}
    /\ UNCHANGED size

\* with_player_map_pose and without_player_marker.
SetPlayer(ms) ==
    /\ player' = ms
    /\ UNCHANGED <<center, scale, turn, size, highlight>>

\* search_focus: unturned, without the player.
SearchFocus(m, s) ==
    /\ center' = m /\ scale' = s /\ turn' = 0
    /\ player' = {} /\ highlight' = {m}
    /\ UNCHANGED size

Resize(v) ==
    /\ size' = v
    /\ UNCHANGED <<center, scale, turn, player, highlight>>

MapMarks == [x : {m \in Marks : m <= 2 * MapWidth}, y : {m \in Marks : m <= 2 * MapHeight}]

ViewNext ==
    \/ \E dx, dy \in Deltas : Pan(dx, dy)
    \/ \E s \in Scales, t \in 0..3 : SetTransform(s, t)
    \/ \E m \in MapMarks, s \in Scales, t \in 0..3 : Follow(m, s, t)
    \/ \E m \in MapMarks : SetPlayer({m})
    \/ SetPlayer({})
    \/ \E m \in MapMarks, s \in Scales : SearchFocus(m, s)
    \/ \E v \in Sizes : Resize(v)

ViewSpec == ViewInit /\ [][ViewNext]_viewVars

-----------------------------------------------------------------------------
\* A marker is drawn on the pixel that shows the map point it stands for:
\* the projection of markers undoes the sampling of the raster, at every
\* rotation and scale.
MarkerOnItsPixel ==
    \A x \in 0..(size[1] - 1), y \in 0..(size[2] - 1) :
        DrawnAt(center, turn, SampledFrom(center, turn, scale, size[1], size[2], x, y)) =
            [x |-> scale * (2 * x + 1 - size[1]), y |-> scale * (2 * y + 1 - size[2])]

\* A drag that meets no edge moves every marker by exactly the pointer's
\* delta, whatever the rotation: "a positive X delta means the map image
\* follows the pointer to the right".
DragFollowsPointer ==
  \A dx, dy \in Deltas : Pan(dx, dy) /\ center' = Dragged(dx, dy) =>
     \A m \in MapMarks :
        /\ DrawnAt(center', turn, m).x = DrawnAt(center, turn, m).x + 2 * scale * dx
        /\ DrawnAt(center', turn, m).y = DrawnAt(center, turn, m).y + 2 * scale * dy

\* After a drag no pixel lies outside the map along a side on which the
\* viewport fits: "a rotated viewport cannot be dragged beyond the map's
\* renderable bounds".
DragStaysOnMap ==
  (\E dx, dy \in Deltas : Pan(dx, dy)) =>
     \A x \in {0, size[1] - 1}, y \in {0, size[2] - 1} :
        LET at == SampledFrom(center', turn, scale, size[1], size[2], x, y)
        IN  /\ HalfExtentX <= MapWidth => at.x \in 0..(2 * MapWidth)
            /\ HalfExtentY <= MapHeight => at.y \in 0..(2 * MapHeight)

-----------------------------------------------------------------------------
(* The markers of one frame of the map (CpuMapSurface::draw_pois).  Kinds   *)
(* are drawn in a fixed order of importance; a marker that would overlap    *)
(* one already drawn is left out.  Overlaps are looked up in a grid whose   *)
(* cells have the side of the least separation and remember one marker.     *)

CONSTANTS Width, Height,   \* the surface; equal sides are the minimap
          Separation,      \* minimum_separation
          Edge,            \* edge_margin
          Spots,           \* screen coordinates a marker is projected to
          Species,         \* <<..., name>>: a spawn's name split at underscores
          Layers,          \* supplemental layers
          MaxPois          \* bound on the POIs considered in a frame

KindOrder == <<"boss", "wanted", "fastTravel", "dungeon", "palSpawn", "supplemental">>
VARIABLES filters,     \* the user's filters
          rank,        \* the kind being drawn
          drawn,       \* visible_poi_centers, with the rank of each marker
          occupancy,   \* the cell's marker, 0 for none
          dropped,     \* markers left out, for the properties
          considered

markersVars == <<filters, rank, drawn, occupancy, dropped, considered>>

Compact == Width = Height

Filters == [kinds : SUBSET {"boss", "wanted", "fastTravel", "dungeon"},
            pals : SUBSET {Last(s) : s \in Species},
            night : BOOLEAN,
            layers : SUBSET Layers]

\* pal_spawn_filter_enabled: a selected name is the species or its last part.
PalSelected(f, species) == Last(species) \in f.pals

KindEnabled(f, kind) ==
    CASE kind = "palSpawn"     -> ~Compact /\ f.pals # {}
      [] kind = "supplemental" -> ~Compact /\ f.layers # {}
      [] OTHER                 -> kind \in f.kinds

PoiEnabled(f, poi) ==
    /\ KindEnabled(f, poi.kind)
    /\ poi.kind = "palSpawn" => PalSelected(f, poi.species) /\ (f.night => poi.night)
    /\ poi.kind = "supplemental" => poi.layer \in f.layers

\* Markers outside the surface and its margin are culled; on the minimap the
\* others are pulled into the circle inside the bezel.
OnSurface(poi) ==
    /\ poi.x \in (-Edge)..(Width + Edge)
    /\ poi.y \in (-Edge)..(Height + Edge)
    /\ Compact => (2 * poi.x - Width)^2 + (2 * poi.y - Width)^2 <= (Width - 2 * Edge)^2

Cell(v) == (v + Edge) \div Separation + 1

OccupancySide(side) == (side + 2 * Edge) \div Separation + 3

Cells == (0..(OccupancySide(Width) - 1)) \X (0..(OccupancySide(Height) - 1))

Near(a, b) == (a.x - b.x)^2 + (a.y - b.y)^2 < Separation^2

\* The markers the cells around (cx, cy) remember.
Neighbours(cx, cy) ==
    {occupancy[c] : c \in {c \in Cells : c[1] \in (cx - 1)..(cx + 1) /\ c[2] \in (cy - 1)..(cy + 1)}}
        \ {0}

OverlapsDrawn(poi) ==
    \E owner \in Neighbours(Cell(poi.x), Cell(poi.y)) : Near(drawn[owner], poi)

MarkersInit ==
    /\ filters \in Filters
    /\ rank = 1
    /\ drawn = <<>>
    /\ occupancy = [c \in Cells |-> 0]
    /\ dropped = {}
    /\ considered = 0

Marker(poi) == [x |-> poi.x, y |-> poi.y, kind |-> poi.kind, rank |-> rank]

\* One POI of the current kind.
DrawPoi(poi) ==
    /\ poi.kind = KindOrder[rank]
    /\ considered < MaxPois
    /\ considered' = considered + 1
    /\ PoiEnabled(filters, poi) /\ OnSurface(poi)
    /\ IF OverlapsDrawn(poi)
       THEN /\ dropped' = dropped \cup {Marker(poi)}
            /\ UNCHANGED <<drawn, occupancy>>
       ELSE /\ drawn' = Append(drawn, Marker(poi))
            /\ occupancy' = [occupancy EXCEPT ![<<Cell(poi.x), Cell(poi.y)>>] = Len(drawn) + 1]
            /\ UNCHANGED dropped
    /\ UNCHANGED <<filters, rank>>

NextKind ==
    /\ rank < Len(KindOrder)
    /\ rank' = rank + 1
    /\ UNCHANGED <<filters, drawn, occupancy, dropped, considered>>

Pois == [kind : ToSet(KindOrder), x : Spots, y : Spots,
         species : Species, night : BOOLEAN, layer : Layers]

\* Of a POI only the fields of its kind matter.
RelevantPois ==
    LET aSpecies == CHOOSE s \in Species : TRUE
        aLayer == CHOOSE l \in Layers : TRUE
    IN  {p \in Pois : /\ p.kind # "palSpawn" => p.species = aSpecies /\ ~p.night
                      /\ p.kind # "supplemental" => p.layer = aLayer}

MarkersNext == (\E poi \in RelevantPois : DrawPoi(poi)) \/ NextKind

MarkersSpec == MarkersInit /\ [][MarkersNext]_markersVars

-----------------------------------------------------------------------------
\* Every marker the frame draws or looks up falls on a cell of the grid,
\* neighbours included, so the occupancy vector is never indexed past its
\* end: on the margins and in the corners too.
GridHoldsEveryMarker ==
    \A i \in DOMAIN drawn :
        /\ Cell(drawn[i].x) \in 1..(OccupancySide(Width) - 2)
        /\ Cell(drawn[i].y) \in 1..(OccupancySide(Height) - 2)

\* A marker is left out only for one of the same or of a more important kind
\* that is really closer than the separation.
DroppedIsCovered ==
    \A m \in dropped : \E i \in DOMAIN drawn : drawn[i].rank <= m.rank /\ Near(drawn[i], m)

=============================================================================
