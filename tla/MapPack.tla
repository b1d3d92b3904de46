------------------------------ MODULE MapPack ------------------------------
(* A map pack is published as an immutable directory under .versions and a  *)
(* pointer file, <build>.active.json, that names the directory and the hash *)
(* of its manifest.  Publishers build, validate, move and activate a pack;  *)
(* pal-core verifies the active pack before it starts the overlay, and the  *)
(* overlay opens it again and reads every tile a second time.  Publishers   *)
(* may crash between any two steps and a file may be damaged at any time.   *)
(* A file's content is the pack it belongs to, and so is its hash.          *)
EXTENDS Naturals, Sequences, FiniteSets, Integers, SequencesExt

CONSTANTS Packs,        \* what a publisher may build
          Publishers,   \* runs of the publishing tool
          Components,   \* the files of a pack, in the order open reads them
          Tiles,        \* the ones that are tiles
          MaxVersions,  \* bound on directories under .versions
          MaxDamage,    \* bound on damaged files
          Damaged, None

Files == {Components[i] : i \in DOMAIN Components}

Readers == {"core", "overlay"}

VARIABLES pointer,      \* None, or the version and manifest hash it names
          versions,     \* the directories under .versions
          publisher,    \* per run: its step, staging directory, version, hash
          reader,       \* per process: its step and what it holds
          spoilt,       \* versions damaged after they were moved into place
          activated,    \* packs a pointer has named, the history
          damages

storeVars == <<pointer, versions, publisher, reader, spoilt, activated, damages>>

Whole(pack) == [manifest |-> pack, files |-> [f \in Files |-> pack]]

\* MapPackValidator.IsValid: the manifest parses and every file it indexes
\* has the hash it gives.
Valid(dir) ==
    /\ dir.manifest # Damaged
    /\ \A f \in Files : dir.files[f] = dir.manifest

IdlePublisher == [pc |-> "idle", dir |-> None, version |-> 0, hash |-> None]
IdleReader == [pc |-> "idle", version |-> 0, hash |-> None, manifest |-> None,
               next |-> 0, raster |-> [t \in Tiles |-> None]]

StoreInit ==
    /\ pointer = None
    /\ versions = <<>>
    /\ publisher = [p \in Publishers |-> IdlePublisher]
    /\ reader = [r \in Readers |-> IdleReader]
    /\ spoilt = {}
    /\ activated = {}
    /\ damages = 0

-----------------------------------------------------------------------------
(* The publishing tool.                                                     *)

SetPublisher(p, state) == publisher' = [publisher EXCEPT ![p] = state]

BuildStaging(p) ==
    /\ publisher[p].pc = "idle"
    /\ \E pack \in Packs :
          SetPublisher(p, [IdlePublisher EXCEPT !.pc = "staged", !.dir = Whole(pack)])
    /\ UNCHANGED <<pointer, versions, reader, spoilt, activated, damages>>

ValidateStaging(p) ==
    /\ publisher[p].pc = "staged"
    /\ SetPublisher(p, IF Valid(publisher[p].dir)
                       THEN [publisher[p] EXCEPT !.pc = "validated"]
                       ELSE IdlePublisher)
    /\ UNCHANGED <<pointer, versions, reader, spoilt, activated, damages>>

\* ResolveActivePath: the manifest the pointer names still has its hash.
PointerResolves ==
    /\ pointer # None
    /\ versions[pointer.version].manifest = pointer.hash

\* An existing active pack has to be intact before it is replaced.
ActivePackAllows == pointer = None \/ (PointerResolves /\ Valid(versions[pointer.version]))

\* The hash of the manifest is taken and the directory is moved, never
\* replacing another, to a fresh name.
Install(p) ==
    /\ publisher[p].pc = "validated"
    /\ IF ActivePackAllows
       THEN /\ Len(versions) < MaxVersions
            /\ versions' = Append(versions, publisher[p].dir)
            /\ SetPublisher(p, [pc |-> "moved", dir |-> None,
                                version |-> Len(versions) + 1,
                                hash |-> publisher[p].dir.manifest])
       ELSE /\ SetPublisher(p, IdlePublisher)
            /\ UNCHANGED versions
    /\ UNCHANGED <<pointer, reader, spoilt, activated, damages>>

ValidateInstalled(p) ==
    /\ publisher[p].pc = "moved"
    /\ SetPublisher(p, IF Valid(versions[publisher[p].version])
                       THEN [publisher[p] EXCEPT !.pc = "installed"]
                       ELSE IdlePublisher)
    /\ UNCHANGED <<pointer, versions, reader, spoilt, activated, damages>>

\* Mutant: the installed directory is not validated before it is activated.
ActivateUnchecked(p) ==
    /\ publisher[p].pc \in {"moved", "installed"}
    /\ pointer' = [version |-> publisher[p].version, hash |-> publisher[p].hash]
    /\ activated' = activated \cup {publisher[p].hash}
    /\ SetPublisher(p, [publisher[p] EXCEPT !.pc = "activated"])
    /\ UNCHANGED <<versions, reader, spoilt, damages>>

\* The pointer is written to a temporary file and replaces the old one.
Activate(p) ==
    /\ publisher[p].pc = "installed"
    /\ pointer' = [version |-> publisher[p].version, hash |-> publisher[p].hash]
    /\ activated' = activated \cup {publisher[p].hash}
    /\ SetPublisher(p, [publisher[p] EXCEPT !.pc = "activated"])
    /\ UNCHANGED <<versions, reader, spoilt, damages>>

\* The post-swap validation only decides what the tool reports.
ConfirmActive(p) ==
    /\ publisher[p].pc = "activated"
    /\ SetPublisher(p, IdlePublisher)
    /\ UNCHANGED <<pointer, versions, reader, spoilt, activated, damages>>

Crash(p) ==
    /\ publisher[p].pc # "idle"
    /\ SetPublisher(p, IdlePublisher)
    /\ UNCHANGED <<pointer, versions, reader, spoilt, activated, damages>>

-----------------------------------------------------------------------------
(* MapPackStore::open_published, for pal-core and for the overlay.          *)

SetReader(r, state) == reader' = [reader EXCEPT ![r] = state]
ReaderOnly == UNCHANGED <<pointer, versions, publisher, spoilt, activated, damages>>

\* pal-core starts the overlay only after the pack has verified.
MayStart(r) == r = "core" \/ reader["core"].pc = "open"

ReadPointer(r) ==
    /\ reader[r].pc = "idle"
    /\ MayStart(r)
    /\ pointer # None
    /\ SetReader(r, [IdleReader EXCEPT !.pc = "pointed", !.version = pointer.version,
                                       !.hash = pointer.hash])
    /\ ReaderOnly

CheckManifest(r) ==
    /\ reader[r].pc = "pointed"
    /\ SetReader(r, IF versions[reader[r].version].manifest = reader[r].hash
                    THEN [reader[r] EXCEPT !.pc = "bound"]
                    ELSE IdleReader)
    /\ ReaderOnly

\* open reads manifest.json again.
ReadManifest(r) ==
    /\ reader[r].pc = "bound"
    /\ LET manifest == versions[reader[r].version].manifest
       IN  SetReader(r, IF manifest # Damaged
                        THEN [reader[r] EXCEPT !.pc = "opening", !.manifest = manifest,
                                               !.next = 1]
                        ELSE IdleReader)
    /\ ReaderOnly

\* read_hashed, verify_streaming_file: a file is taken when its hash is the
\* one the manifest (for a tile, the tile index) gives.
Authentic(r, file) == versions[reader[r].version].files[file] = reader[r].manifest

ReadComponent(r) ==
    /\ reader[r].pc = "opening"
    /\ SetReader(r, IF ~Authentic(r, Components[reader[r].next])
                    THEN IdleReader
                    ELSE IF reader[r].next = Len(Components)
                         THEN [reader[r] EXCEPT !.pc = "open", !.next = 0]
                         ELSE [reader[r] EXCEPT !.next = @ + 1])
    /\ ReaderOnly

\* read_verified_tile, in stitch_level_zero_tiles.
StitchTile(r, t) ==
    /\ r = "overlay"
    /\ reader[r].pc = "open"
    /\ reader[r].raster[t] = None
    /\ SetReader(r, IF Authentic(r, t)
                    THEN [reader[r] EXCEPT !.raster[t] = versions[reader[r].version].files[t]]
                    ELSE IdleReader)
    /\ ReaderOnly

Close(r) ==
    /\ reader[r].pc = "open"
    /\ SetReader(r, IdleReader)
    /\ ReaderOnly

-----------------------------------------------------------------------------
\* A file of an installed or staged directory goes bad.
DamageVersion(v, f) ==
    /\ damages < MaxDamage
    /\ damages' = damages + 1
    /\ versions' = [versions EXCEPT ![v] =
          IF f = "manifest" THEN [@ EXCEPT !.manifest = Damaged]
                            ELSE [@ EXCEPT !.files[f] = Damaged]]
    /\ spoilt' = spoilt \cup {v}
    /\ UNCHANGED <<pointer, publisher, reader, activated>>

DamageStaging(p, f) ==
    /\ damages < MaxDamage
    /\ publisher[p].dir # None
    /\ damages' = damages + 1
    /\ SetPublisher(p, [publisher[p] EXCEPT !.dir =
          IF f = "manifest" THEN [@ EXCEPT !.manifest = Damaged]
                            ELSE [@ EXCEPT !.files[f] = Damaged]])
    /\ UNCHANGED <<pointer, versions, reader, spoilt, activated>>

StoreNext ==
    \/ \E p \in Publishers :
          \/ BuildStaging(p) \/ ValidateStaging(p) \/ Install(p) \/ ValidateInstalled(p)
          \/ Activate(p) \/ ConfirmActive(p) \/ Crash(p)
    \/ \E r \in Readers :
          \/ ReadPointer(r) \/ CheckManifest(r) \/ ReadManifest(r) \/ ReadComponent(r)
          \/ Close(r)
          \/ \E t \in Tiles : StitchTile(r, t)
    \/ \E f \in Files \cup {"manifest"} :
          \/ \E v \in DOMAIN versions : DamageVersion(v, f)
          \/ \E p \in Publishers : DamageStaging(p, f)

StoreSpec == StoreInit /\ [][StoreNext]_storeVars

-----------------------------------------------------------------------------
\* Whatever publish step is interrupted, and however publishers interleave,
\* the pointer names a directory that is in place, whole and bound to the
\* pointer's hash, unless that directory was damaged afterwards.
ActiveIsWhole ==
    pointer # None /\ pointer.version \notin spoilt =>
        /\ Valid(versions[pointer.version])
        /\ PointerResolves

\* What the overlay draws is one pack that was activated: no tile of another
\* version and no damaged tile, although pointer, manifest and tiles are read
\* at different times.
DrawnIsOnePack ==
    \A r \in Readers : reader[r].pc = "open" =>
        /\ reader[r].manifest = reader[r].hash
        /\ reader[r].manifest \in activated
        /\ \A t \in Tiles : reader[r].raster[t] \in {None, reader[r].manifest}

-----------------------------------------------------------------------------
(* What MapPackStore::open makes of a pack's manifest and of its POI file:  *)
(* the regions of the world, which region owns a world point, and the       *)
(* bucketed index of the POIs of every region.  The overlay repeats the     *)
(* choice of a region with its own projection.  Coordinates are integers;   *)
(* a map pixel is a world unit, so the authoritative matrix is exact.       *)

CONSTANTS Authoritative,  \* the rows a manifest has to hold, by priority
          RawRegions,     \* the rows a manifest may hold
          WorldPoints,    \* where the POI file may put a POI
          Kinds,          \* kinds of POI in their order, a sequence
          Required,       \* the kinds a POI file must contain
          BucketSize,     \* BUCKET_SIZE_PX
          MaxRaw,         \* bound on the POIs of a file
          Sides           \* where a query rectangle may begin or end

VARIABLES regions,   \* the parsed regions, a sequence sorted by priority
          raw,       \* the POIs read so far, records of the file
          indexes,   \* per region the records in the order of their handles
          query,     \* the rectangle and kinds last asked for
          visible,   \* the answer, a set of handles
          stage

indexVars == <<regions, raw, indexes, query, visible, stage>>

MaxOf(a, b) == IF a > b THEN a ELSE b
MinOf(a, b) == IF a < b THEN a ELSE b

RegionContains(r, p) ==
    /\ p.x \in r.minX..r.maxX
    /\ p.y \in r.minY..r.maxY

Overlaps(r, s) ==
    /\ r.minX <= s.maxX /\ s.minX <= r.maxX
    /\ r.minY <= s.maxY /\ s.minY <= r.maxY

\* parse_map_regions: distinct identifiers, a positive area, no two regions
\* of one priority that overlap, and exactly the authoritative rows.
RegionsAccepted(rows) ==
    LET sorted == SetToSortSeq(rows, LAMBDA r, s : r.priority < s.priority)
    IN  /\ rows # {}
        /\ \A r \in rows : r.minX < r.maxX /\ r.minY < r.maxY
        /\ \A r, s \in rows : r # s => /\ r.id # s.id
                                       /\ ~(r.priority = s.priority /\ Overlaps(r, s))
        /\ sorted = Authoritative

\* select_map_region: the one region of the highest priority that contains
\* the point, "outside" or "ambiguous".
Highest(rs, p) ==
    LET holders == {i \in DOMAIN rs : RegionContains(rs[i], p)}
    IN  {i \in holders : \A j \in holders : rs[j].priority <= rs[i].priority}

SelectMapRegion(rs, p) ==
    LET best == Highest(rs, p)
    IN  IF best = {} THEN "outside"
        ELSE IF Cardinality(best) > 1 THEN "ambiguous"
        ELSE rs[CHOOSE i \in best : TRUE].id

MapWidth(r) == r.maxY - r.minY
MapHeight(r) == r.maxX - r.minX

\* authoritative_bounds_matrix and project: world y goes right, world x up.
Project(r, p) == [x |-> p.y - r.minY, y |-> r.maxX - p.x]

\* The overlay's projection: nothing outside the bounds.
ProjectWithinBounds(r, p) ==
    IF p.x \in r.minX..r.maxX /\ p.y \in r.minY..r.maxY THEN {Project(r, p)} ELSE {}

\* PreparedApprovedMapPack::select_region_index.
OverlaySelect(rs, p) ==
    LET holders == {i \in DOMAIN rs : ProjectWithinBounds(rs[i], p) # {}}
        best == {i \in holders : \A j \in holders : rs[j].priority <= rs[i].priority}
    IN  IF Cardinality(best) = 1 THEN rs[CHOOSE i \in best : TRUE].id ELSE "outside"

-----------------------------------------------------------------------------
NoQuery == [minX |-> 0, minY |-> 0, maxX |-> 0, maxY |-> 0, kinds |-> {}, region |-> 0]

IndexInit ==
    /\ regions = <<>> /\ raw = <<>> /\ indexes = <<>>
    /\ query = NoQuery /\ visible = {}
    /\ stage = "manifest"

ParseManifest(rows) ==
    /\ stage = "manifest"
    /\ stage' = IF RegionsAccepted(rows) THEN "pois" ELSE "refused"
    /\ regions' = IF RegionsAccepted(rows)
                  THEN SetToSortSeq(rows, LAMBDA r, s : r.priority < s.priority)
                  ELSE <<>>
    /\ UNCHANGED <<raw, indexes, query, visible>>

RegionIndex(id) == CHOOSE i \in DOMAIN regions : regions[i].id = id

\* The checks of one POI: the region it names owns its world point, and the
\* map point is where the region's transform puts it.
PoiAccepted(poi) ==
    /\ \E i \in DOMAIN regions : regions[i].id = poi.region
    /\ SelectMapRegion(regions, poi.world) = poi.region
    /\ LET r == regions[RegionIndex(poi.region)]
       IN  /\ RegionContains(r, poi.world)
           /\ poi.map.x \in 0..MapWidth(r) /\ poi.map.y \in 0..MapHeight(r)
           /\ poi.map = Project(r, poi.world)

ReadPoi(poi) ==
    /\ stage = "pois"
    /\ Len(raw) < MaxRaw
    /\ IF PoiAccepted(poi) THEN raw' = Append(raw, poi) /\ UNCHANGED stage
                           ELSE stage' = "refused" /\ UNCHANGED raw
    /\ UNCHANGED <<regions, indexes, query, visible>>

KindRank(k) == CHOOSE i \in DOMAIN Kinds : Kinds[i] = k

\* from_records: handles are the positions after sorting by kind and id.
FromRecords(id) ==
    SetToSortSeq({i \in DOMAIN raw : raw[i].region = id},
                 LAMBDA i, j : \/ KindRank(raw[i].kind) < KindRank(raw[j].kind)
                               \/ raw[i].kind = raw[j].kind /\ i < j)

SealIndex ==
    /\ stage = "pois"
    /\ Len(raw) >= 3
    /\ IF Required \subseteq {raw[i].kind : i \in DOMAIN raw}
       THEN /\ stage' = "open"
            /\ indexes' = [k \in DOMAIN regions |-> FromRecords(regions[k].id)]
       ELSE /\ stage' = "refused"
            /\ UNCHANGED indexes
    /\ UNCHANGED <<regions, raw, query, visible>>

Bucket(v) == MaxOf(v, 0) \div BucketSize

\* The handles filed under bucket (by, bx).
Filed(k, by, bx) ==
    {h \in DOMAIN indexes[k] : LET poi == raw[indexes[k][h]]
                               IN  Bucket(poi.map.y) = by /\ Bucket(poi.map.x) = bx}

InRect(q, p) == p.x \in q.minX..q.maxX /\ p.y \in q.minY..q.maxY

\* visible_into: the buckets the clipped rectangle touches, filtered.
VisibleInto(k, q) ==
    LET r == regions[k]
        loX == MaxOf(q.minX, 0)  hiX == MinOf(q.maxX, MapWidth(r))
        loY == MaxOf(q.minY, 0)  hiY == MinOf(q.maxY, MapHeight(r))
    IN  IF q.kinds = {} \/ loX > hiX \/ loY > hiY THEN {}
        ELSE {h \in UNION {Filed(k, y, x) : y \in Bucket(loY)..Bucket(hiY),
                                            x \in Bucket(loX)..Bucket(hiX)} :
                 LET poi == raw[indexes[k][h]]
                 IN  poi.kind \in q.kinds /\ InRect(q, poi.map)}

Ask(q) ==
    /\ stage = "open"
    /\ query = NoQuery
    /\ query' = q
    /\ visible' = VisibleInto(q.region, q)
    /\ UNCHANGED <<regions, raw, indexes, stage>>

Forget ==
    /\ query # NoQuery
    /\ query' = NoQuery /\ visible' = {}
    /\ UNCHANGED <<regions, raw, indexes, stage>>

Regions == {Authoritative[i].id : i \in DOMAIN Authoritative}

\* A POI of the file: placed by the transform of the region it names, right
\* or one pixel off.
RawPois ==
    {[region |-> Authoritative[i].id, kind |-> k, world |-> p,
      map |-> [x |-> Project(Authoritative[i], p).x + off, y |-> Project(Authoritative[i], p).y]] :
        i \in DOMAIN Authoritative, k \in ToSet(Kinds), p \in WorldPoints, off \in {0, 1}}

Queries ==
    {q \in [minX : Sides, minY : Sides, maxX : Sides, maxY : Sides,
            kinds : {{}, {Kinds[1]}, ToSet(Kinds)}, region : DOMAIN Authoritative] :
        q.minX <= q.maxX /\ q.minY <= q.maxY}

IndexNext ==
    \/ \E rows \in SUBSET RawRegions : ParseManifest(rows)
    \/ \E poi \in RawPois : ReadPoi(poi)
    \/ SealIndex
    \/ \E q \in Queries : Ask(q)
    \/ Forget

IndexSpec == IndexInit /\ [][IndexNext]_indexVars

-----------------------------------------------------------------------------
World == {[x |-> x, y |-> y] : x \in 0..10, y \in 0..10}

\* The overlay shows a player on the region the store assigns the point to,
\* on the shared edges and in the overlap of the two regions too, and no
\* point of an accepted manifest is ambiguous.
SelectionsAgree ==
    regions # <<>> /\ raw = <<>> =>
        \A p \in World : OverlaySelect(regions, p) = SelectMapRegion(regions, p)

\* A POI is filed under the region the overlay selects for its world point
\* and lies at the pixel where the overlay projects that point.
PoiWhereThePlayerIs ==
    \A k \in DOMAIN indexes : \A h \in DOMAIN indexes[k] :
        LET poi == raw[indexes[k][h]]
        IN  /\ OverlaySelect(regions, poi.world) = regions[k].id
            /\ ProjectWithinBounds(regions[k], poi.world) = {poi.map}

\* The bucketed query answers exactly the POIs of the asked kinds inside the
\* closed rectangle, on bucket edges and for rectangles outside the map too.
VisibleIsExact ==
    query # NoQuery =>
        visible = {h \in DOMAIN indexes[query.region] :
                     LET poi == raw[indexes[query.region][h]]
                     IN  poi.kind \in query.kinds /\ InRect(query, poi.map)}
=============================================================================
