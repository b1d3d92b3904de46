------------------------------ MODULE MCTools ------------------------------
(***************************************************************************)
(* The desktop's own work, one component at a time: its documents and      *)
(* credentials, the saves it discovers, inspects and synchronises, the map *)
(* packs it publishes and opens with the index of their points, the tiles, *)
(* view and markers that are drawn from them, the layers a search shows,   *)
(* and the probe of the server that the gate decides on. The components    *)
(* share no variable; every behaviour observes one of them.                *)
(***************************************************************************)
EXTENDS Naturals, Integers, Sequences, FiniteSets, TLC

\* The components a run observes.
CONSTANT Parts
CONSTANTS Absent, Damaged, Blank

VARIABLE part    \* the component this behaviour observes
\* The variables of the components: one that several of them have belongs
\* to the one observed.
VARIABLES disk, creds, tasks, app, appTemp, appTasks, confirmed
VARIABLES lock
VARIABLES crashes
VARIABLES parent, level, link, players, queue, scanned, warnings, result
VARIABLES candidates
VARIABLES pc, req, child, got, elapsed, answer, damaged, asks, faults
VARIABLES remote, saving, clock, saves, restores, status, dirs, stagings,
    job, syncFaults, rot, moments, fetched
VARIABLES pointer, versions, publisher, reader, spoilt, activated, damages
VARIABLES regions, raw, indexes, query, visible
VARIABLES stage
VARIABLES width, height, core, tile, raster, bitmap
VARIABLES center, scale, turn, size, player, highlight
VARIABLES filters
VARIABLES rank, drawn, occupancy, dropped, considered
VARIABLES terms, points, rules, pois, entries, selected
VARIABLES builder, first, candidate, counted, failedAt, phase, report,
    imported
VARIABLES rotation, markers

\* All trees of five directories, any of them worlds or links.
SaveTrees == {p \in [2..5 -> 1..5] : \A d \in 2..5 : p[d] < d}
SavedPal(i, o) == [inst |-> i, owner |-> o]
SaveCopies == <<{SavedPal(1, "ann"), SavedPal(2, "bob")},
                {SavedPal(3, "bob"), SavedPal(4, "ann"), SavedPal(5, "ann")}>>

\* Two regions that overlap, wrong forms of their rows, and points in one
\* region only, in the overlap, on a shared edge and outside.
MainRegion == [id |-> "main", minX |-> 0, maxX |-> 6, minY |-> 2, maxY |-> 9, priority |-> 0]
TreeRegion == [id |-> "tree", minX |-> 5, maxX |-> 9, minY |-> 0, maxY |-> 5, priority |-> 1]
RowsOfManifest == {MainRegion, TreeRegion, [MainRegion EXCEPT !.priority = 1],
                   [TreeRegion EXCEPT !.id = "main"], [TreeRegion EXCEPT !.maxX = 5]}
PointsOfFile == {[x |-> 0, y |-> 9], [x |-> 5, y |-> 5],
                 [x |-> 8, y |-> 0], [x |-> 10, y |-> 4]}
PoiKinds == <<"fast_travel", "boss", "dungeon">>

\* A region of four pixels, two layers, two species and two spawners.
SpawnRows == {[id |-> 1, spawner |-> "s1", at |-> <<1, 2>>],
              [id |-> 2, spawner |-> "s1", at |-> <<6, 2>>],
              [id |-> 3, spawner |-> "s2", at |-> <<3, 0>>]}
PackPois == {[kind |-> "boss", at |-> <<1, 1>>], [kind |-> "dungeon", at |-> <<2, 3>>]}

Documents == INSTANCE DesktopDocuments WITH
    Tasks <- {"t1", "t2"}, AppTasks <- {"a1"}, Ids <- {"p1"},
    Endpoints <- {"e1", "e2"}, Passwords <- {"w1"},
    Failures <- {"set", "temp", "remove"}, MaxProfiles <- 2, MaxVersion <- 4,
    MaxAppVersion <- 2, MaxCrashes <- 1

Saves == INSTANCE SaveImport WITH
    Root <- 1, Dirs <- 1..5, Trees <- SaveTrees, PlayerFiles <- {0, 2, 3},
    MaxDepth <- 2, MaxScanned <- 4, MaxPlayers <- 2, Callers <- {"c1", "c2"},
    Copies <- SaveCopies, Owners <- {"ann"}, NoOwner <- "nobody",
    Outputs <- {1, 4}, Limit <- 2, Pipe <- 2, Timeout <- 1, MaxPals <- 2,
    MaxAsks <- 3, MaxWaitFaults <- 0, MaxDamage <- 1, Worlds <- {1},
    Files <- {1, 2}, Sizes <- {1, 2}, LocalCopies <- {[f \in {1, 2} |-> 1]},
    MaxClock <- 2, MaxSaves <- 2, MaxRestores <- 0, MaxFaults <- 1,
    MaxCrashes <- 1, MaxRot <- 0

Restored == INSTANCE SaveImport WITH
    Root <- 1, Dirs <- 1..5, Trees <- SaveTrees, PlayerFiles <- {0, 2, 3},
    MaxDepth <- 2, MaxScanned <- 4, MaxPlayers <- 2, Callers <- {"c1", "c2"},
    Copies <- SaveCopies, Owners <- {"ann"}, NoOwner <- "nobody",
    Outputs <- {1, 4}, Limit <- 2, Pipe <- 2, Timeout <- 1, MaxPals <- 2,
    MaxAsks <- 3, MaxWaitFaults <- 0, MaxDamage <- 1, Worlds <- {1},
    Files <- {1, 2}, Sizes <- {1}, LocalCopies <- {[f \in {1, 2} |-> 1]},
    MaxClock <- 2, MaxSaves <- 2, MaxRestores <- 1, MaxFaults <- 0,
    MaxCrashes <- 0, MaxRot <- 1

Pack == INSTANCE MapPack WITH
    Packs <- {"p1", "p2"}, Publishers <- {"a", "b"},
    Components <- <<"pois", "tile">>, Tiles <- {"tile"}, MaxVersions <- 2,
    MaxDamage <- 1, Damaged <- Damaged,
    Authoritative <- <<MainRegion, TreeRegion>>,
    RawRegions <- RowsOfManifest, WorldPoints <- PointsOfFile,
    Kinds <- PoiKinds, Required <- {"fast_travel", "boss", "dungeon"},
    BucketSize <- 2, MaxRaw <- 3, Sides <- {-1, 1, 5}, None <- Absent

Drawing == INSTANCE MapDrawing WITH
    MaxSide <- 7, Cores <- {2, 3}, Gutter <- 1, MaxHeader <- 2,
    Blank <- Blank, MapWidth <- 7, MapHeight <- 5,
    Sizes <- {<<4, 2>>, <<3, 3>>}, Scales <- {1, 2}, Deltas <- {-2, 1},
    Marks <- {3}, Width <- 8, Height <- 7, Separation <- 3, Edge <- 1,
    Spots <- {-1, 0, 3}, Species <- {<<"lamball">>, <<"boss", "lamball">>},
    Layers <- {"ore"}, MaxPois <- 2

Layers == INSTANCE MapLayers WITH
    Side <- 4, Spots <- {<<1, 1>>, <<4, 2>>}, Layers <- {"boss", "ore"},
    SpeciesOrder <- <<"foxparks", "lamball">>,
    Placements <- SpawnRows, CorePois <- PackPois, MaxPals <- 1,
    Precision <- 1000, MaxPoints <- 1, MaxRules <- 2, None <- Absent

Load == INSTANCE GateProbe WITH
    Intervals <- <<1000, 500>>, PairCount <- 2, MinSamples <- 1,
    CriticalSquared <- 161442, ServerFps <- {100}, FrameTimes <- {100, 103},
    MaxAttempts <- 2, MaxErrors <- 1, Observed <- {0, 85, 185, 270, 345},
    Lags <- {1500, 1700}, MinRotation <- 3, MinCardinal <- 1,
    MinMarkers <- 1, PresencePercent <- 80, MedianMax <- 10, ErrorMax <- 20,
    LagMax <- 1500, MaxObservations <- 4, MaxMarkers <- 0

Fps == INSTANCE GateProbe WITH
    Intervals <- <<500>>, PairCount <- 5, MinSamples <- 1,
    CriticalSquared <- 7706, ServerFps <- {100, 99, 97},
    FrameTimes <- {100, 103}, MaxAttempts <- 1, MaxErrors <- 0,
    Observed <- {0}, Lags <- {1500, 1700}, MinRotation <- 3,
    MinCardinal <- 1, MinMarkers <- 5, PresencePercent <- 80,
    MedianMax <- 10, ErrorMax <- 20, LagMax <- 1500, MaxObservations <- 0,
    MaxMarkers <- 42

\* A component that is not observed is idle from the start.
Unused == "unused"
IdleAtFirst ==
  /\ IF part = "documents" THEN TRUE ELSE
       disk = Unused /\ creds = Unused /\ tasks = Unused /\ app = Unused /\
       appTemp = Unused /\ appTasks = Unused /\ confirmed = Unused
  /\ IF part \in {"documents", "inspection"} THEN TRUE ELSE
       lock = Unused
  /\ IF part \in {"documents", "sync", "restored"} THEN TRUE ELSE
       crashes = Unused
  /\ IF part = "discovery" THEN TRUE ELSE
       parent = Unused /\ level = Unused /\ link = Unused /\
       players = Unused /\ queue = Unused /\ scanned = Unused /\
       warnings = Unused /\ result = Unused
  /\ IF part \in {"discovery", "load", "fps"} THEN TRUE ELSE
       candidates = Unused
  /\ IF part = "inspection" THEN TRUE ELSE
       pc = Unused /\ req = Unused /\ child = Unused /\ got = Unused /\
       elapsed = Unused /\ answer = Unused /\ damaged = Unused /\
       asks = Unused /\ faults = Unused
  /\ IF part \in {"sync", "restored"} THEN TRUE ELSE
       remote = Unused /\ saving = Unused /\ clock = Unused /\
       saves = Unused /\ restores = Unused /\ status = Unused /\
       dirs = Unused /\ stagings = Unused /\ job = Unused /\
       syncFaults = Unused /\ rot = Unused /\ moments = Unused /\
       fetched = Unused
  /\ IF part = "store" THEN TRUE ELSE
       pointer = Unused /\ versions = Unused /\ publisher = Unused /\
       reader = Unused /\ spoilt = Unused /\ activated = Unused /\
       damages = Unused
  /\ IF part = "index" THEN TRUE ELSE
       regions = Unused /\ raw = Unused /\ indexes = Unused /\
       query = Unused /\ visible = Unused
  /\ IF part \in {"index", "layers"} THEN TRUE ELSE
       stage = Unused
  /\ IF part = "tiles" THEN TRUE ELSE
       width = Unused /\ height = Unused /\ core = Unused /\ tile = Unused /\
       raster = Unused /\ bitmap = Unused
  /\ IF part = "view" THEN TRUE ELSE
       center = Unused /\ scale = Unused /\ turn = Unused /\ size = Unused /\
       player = Unused /\ highlight = Unused
  /\ IF part \in {"markers", "layers"} THEN TRUE ELSE
       filters = Unused
  /\ IF part = "markers" THEN TRUE ELSE
       rank = Unused /\ drawn = Unused /\ occupancy = Unused /\
       dropped = Unused /\ considered = Unused
  /\ IF part = "layers" THEN TRUE ELSE
       terms = Unused /\ points = Unused /\ rules = Unused /\
       pois = Unused /\ entries = Unused /\ selected = Unused
  /\ IF part \in {"load", "fps"} THEN TRUE ELSE
       builder = Unused /\ first = Unused /\ candidate = Unused /\
       counted = Unused /\ failedAt = Unused /\ phase = Unused /\
       report = Unused /\ imported = Unused
  /\ IF part \in {"rotation", "movement"} THEN TRUE ELSE
       rotation = Unused /\ markers = Unused
StaysIdle ==
  /\ part' = part
  /\ IF part = "documents" THEN TRUE ELSE
       UNCHANGED <<disk, creds, tasks, app, appTemp, appTasks, confirmed>>
  /\ IF part \in {"documents", "inspection"} THEN TRUE ELSE
       UNCHANGED <<lock>>
  /\ IF part \in {"documents", "sync", "restored"} THEN TRUE ELSE
       UNCHANGED <<crashes>>
  /\ IF part = "discovery" THEN TRUE ELSE
       UNCHANGED <<parent, level, link, players, queue, scanned, warnings,
         result>>
  /\ IF part \in {"discovery", "load", "fps"} THEN TRUE ELSE
       UNCHANGED <<candidates>>
  /\ IF part = "inspection" THEN TRUE ELSE
       UNCHANGED <<pc, req, child, got, elapsed, answer, damaged, asks,
         faults>>
  /\ IF part \in {"sync", "restored"} THEN TRUE ELSE
       UNCHANGED <<remote, saving, clock, saves, restores, status, dirs,
         stagings, job, syncFaults, rot, moments, fetched>>
  /\ IF part = "store" THEN TRUE ELSE
       UNCHANGED <<pointer, versions, publisher, reader, spoilt, activated,
         damages>>
  /\ IF part = "index" THEN TRUE ELSE
       UNCHANGED <<regions, raw, indexes, query, visible>>
  /\ IF part \in {"index", "layers"} THEN TRUE ELSE
       UNCHANGED <<stage>>
  /\ IF part = "tiles" THEN TRUE ELSE
       UNCHANGED <<width, height, core, tile, raster, bitmap>>
  /\ IF part = "view" THEN TRUE ELSE
       UNCHANGED <<center, scale, turn, size, player, highlight>>
  /\ IF part \in {"markers", "layers"} THEN TRUE ELSE
       UNCHANGED <<filters>>
  /\ IF part = "markers" THEN TRUE ELSE
       UNCHANGED <<rank, drawn, occupancy, dropped, considered>>
  /\ IF part = "layers" THEN TRUE ELSE
       UNCHANGED <<terms, points, rules, pois, entries, selected>>
  /\ IF part \in {"load", "fps"} THEN TRUE ELSE
       UNCHANGED <<builder, first, candidate, counted, failedAt, phase,
         report, imported>>
  /\ IF part \in {"rotation", "movement"} THEN TRUE ELSE
       UNCHANGED <<rotation, markers>>

documentSteps == Documents!vars
offerSteps == Saves!syncVars
viewSteps == Drawing!viewVars

DocumentsStarts == part = "documents" /\ Documents!DesktopInit
DocumentsRuns == part = "documents" /\ Documents!DesktopNext /\ StaysIdle

DiscoveryStarts == part = "discovery" /\ Saves!DiscoveryInit
DiscoveryRuns == part = "discovery" /\ Saves!DiscoveryNext /\ StaysIdle

InspectionStarts == part = "inspection" /\ Saves!InspectionInit
InspectionRuns == part = "inspection" /\ Saves!InspectionNext /\ StaysIdle

SyncStarts == part = "sync" /\ Saves!SyncInit
SyncRuns == part = "sync" /\ Saves!SyncNext /\ StaysIdle

RestoredStarts == part = "restored" /\ Restored!SyncInit
RestoredRuns == part = "restored" /\ Restored!SyncNext /\ StaysIdle

StoreStarts == part = "store" /\ Pack!StoreInit
StoreRuns == part = "store" /\ Pack!StoreNext /\ StaysIdle

IndexStarts == part = "index" /\ Pack!IndexInit
IndexRuns == part = "index" /\ Pack!IndexNext /\ StaysIdle

TilesStarts == part = "tiles" /\ Drawing!TilesInit
TilesRuns == part = "tiles" /\ Drawing!TilesNext /\ StaysIdle

ViewStarts == part = "view" /\ Drawing!ViewInit
ViewRuns == part = "view" /\ Drawing!ViewNext /\ StaysIdle

MarkersStarts == part = "markers" /\ Drawing!MarkersInit
MarkersRuns == part = "markers" /\ Drawing!MarkersNext /\ StaysIdle

LayersStarts == part = "layers" /\ Layers!Init
LayersRuns == part = "layers" /\ Layers!Next /\ StaysIdle

LoadStarts == part = "load" /\ Load!ProbeInit
LoadRuns == part = "load" /\ Load!ProbeNext /\ StaysIdle

FpsStarts == part = "fps" /\ Fps!ProbeInit
FpsRuns == part = "fps" /\ Fps!ProbeNext /\ StaysIdle

RotationStarts == part = "rotation" /\ Load!EvidenceInit
RotationRuns == part = "rotation" /\ Load!EvidenceNext /\ StaysIdle

MovementStarts == part = "movement" /\ Fps!EvidenceInit
MovementRuns == part = "movement" /\ Fps!EvidenceNext /\ StaysIdle

Init ==
  /\ part \in Parts
  /\ \/ DocumentsStarts
     \/ DiscoveryStarts
     \/ InspectionStarts
     \/ SyncStarts
     \/ RestoredStarts
     \/ StoreStarts
     \/ IndexStarts
     \/ TilesStarts
     \/ ViewStarts
     \/ MarkersStarts
     \/ LayersStarts
     \/ LoadStarts
     \/ FpsStarts
     \/ RotationStarts
     \/ MovementStarts
  /\ IdleAtFirst

Next ==
  \/ DocumentsRuns
  \/ DiscoveryRuns
  \/ InspectionRuns
  \/ SyncRuns
  \/ RestoredRuns
  \/ StoreRuns
  \/ IndexRuns
  \/ TilesRuns
  \/ ViewRuns
  \/ MarkersRuns
  \/ LayersRuns
  \/ LoadRuns
  \/ FpsRuns
  \/ RotationRuns
  \/ MovementRuns

vars == <<part, disk, creds, tasks, app, appTemp, appTasks, confirmed, lock,
    crashes, parent, level, link, players, queue, scanned, warnings, result,
    candidates, pc, req, child, got, elapsed, answer, damaged, asks, faults,
    remote, saving, clock, saves, restores, status, dirs, stagings, job,
    syncFaults, rot, moments, fetched, pointer, versions, publisher, reader,
    spoilt, activated, damages, regions, raw, indexes, query, visible, stage,
    width, height, core, tile, raster, bitmap, center, scale, turn, size,
    player, highlight, filters, rank, drawn, occupancy, dropped, considered,
    terms, points, rules, pois, entries, selected, builder, first, candidate,
    counted, failedAt, phase, report, imported, rotation, markers>>

Spec == Init /\ [][Next]_vars

-----------------------------------------------------------------------------
\* A profile command that fails, or ends with the process, leaves document and
\* credentials as they were or as they are to be: no secret without a profile,
\* no endpoint the user did not confirm, no form refused for what it was given,
\* and a command replaces only what it read.
DocumentsAreRestored ==
  /\ [](part = "documents" =>
          /\ Documents!FailureRestores
          /\ Documents!ConsentWasGiven
          /\ Documents!FormIsNeverRefused
          /\ Documents!SecretsHaveProfiles)
  /\ [][part = "documents" => Documents!CommandReplacesCompared]_documentSteps

\* A save is offered, inspected and found only as it is on the server: a
\* revision that was downloaded whole and staged intact, never an older one
\* than was offered before, with the Pals of the selected player and no
\* others, from the outermost worlds of a tree and with a warning where the
\* limits cut the search short.
SavesAreWhole ==
  /\ [](/\ part = "discovery" => Saves!FindsOutermostWorlds /\ Saves!LimitIsHonest
        /\ part = "inspection" => Saves!AnswerIsOwners /\ Saves!AnswerIsWhole /\ Saves!OneParser
        /\ part = "sync" => Saves!RevisionWasDownloaded /\ Saves!OfferedIsIntact
        /\ part = "restored" => Restored!RevisionWasDownloaded /\ Restored!OfferedIsIntact)
  /\ [][(part \in {"sync", "restored"}) => Saves!OfferNeverGoesBack]_offerSteps

\* The map drawn is one whole pack, with every point where the player would
\* stand on it: tiles stitched back into the picture, markers and the dragged
\* view on their pixels, no marker lost to another that does not cover it, and
\* what the user searched for on the map.
MapsAreWhole ==
  /\ [](/\ part = "store" => Pack!ActiveIsWhole /\ Pack!DrawnIsOnePack
        /\ part = "index" => Pack!SelectionsAgree /\ Pack!PoiWhereThePlayerIs /\ Pack!VisibleIsExact
        /\ part = "tiles" =>
             /\ Drawing!TilesPartitionTheMap
             /\ Drawing!StitchedIsThePicture
             /\ Drawing!BitmapReadsItsPixels
        /\ part = "view" => Drawing!MarkerOnItsPixel
        /\ part = "markers" => Drawing!GridHoldsEveryMarker /\ Drawing!DroppedIsCovered
        /\ part = "layers" => Layers!SelectedIsShown /\ Layers!NightPlacesAreShown)
  /\ [][part = "view" => Drawing!DragFollowsPointer /\ Drawing!DragStaysOnMap]_viewSteps

\* The gate's decision follows from what was measured: an interval it selects
\* had no failed request and cost the server no frames, against a baseline
\* that was not polled, and rotation and movement are judged on all there is.
GateIsHonest ==
  /\ part = "load" =>
       /\ Load!RunnerKeepsPlan
       /\ Load!SelectedIsClean
       /\ Load!BaselineIsUnpolled
       /\ Load!AgentTakesCompleteRuns
  /\ part = "fps" => Fps!SelectedKeepsFps
  /\ part = "rotation" => Load!AggregateIsConsistent /\ Load!RotationIsJudgedWhole
  /\ part = "movement" => Fps!MovementIsJudgedWhole
=============================================================================
