---------------------------- MODULE OverlayLoop ----------------------------
(***************************************************************************)
(* The render loop of the overlay process with several map regions:        *)
(* run_local_position_preview in                                           *)
(* crates/pal-overlay-win/src/bin/pal-overlay.rs.                          *)
(*                                                                         *)
(* One iteration handles the input that is waiting (settings, search,      *)
(* pan, recenter, window events), ticks the map runtime, follows the       *)
(* player into another region (which ticks a second time), refreshes the   *)
(* surface and decides whether the overlay window shows.  Producer steps   *)
(* and time interleave with it; the properties speak of the states between *)
(* two iterations (phase "idle").                                          *)
(*                                                                         *)
(* Left out: browse-only mode, POI filters, opacity, diameter and the      *)
(* message pump.                                                           *)
(***************************************************************************)
EXTENDS MapPreview, TLAPS

CONSTANTS
  FirstRegion,      \* map_surfaces[0]
  SelectRegion,     \* select_local_map_surface_index, NoRegion for None
  NoRegion,
  EnabledSettings,  \* settings with enabled = true
  ExpandedSettings  \* settings with display_mode = ExpandedMap

VARIABLES
  attached,        \* the exact game window is tracked
  running,         \* runtime is Some
  loopSettings,    \* overlay_settings
  loopVersion,     \* runtime_settings_version
  active,          \* active_surface_index
  searchFocus,     \* search_focus is Some
  manualPan,       \* manual_pan_active
  firstTick,       \* visibility_tick
  presented,       \* last_presented_view
  applied,         \* map_surface_applied
  refresh,         \* surface_refresh_needed
  surface,         \* the view the applied surface was rasterised from
  gate,            \* PreviewVisibilityGate.requested_visible
  visible,         \* the overlay window's requested visibility
  positionLive     \* the position-live health signal

navVars == <<active, searchFocus, manualPan, presented, applied, refresh>>
shownVars == <<surface, gate, visible, positionLive>>
loopVars == <<attached, running, loopSettings, loopVersion, navVars,
              firstTick, shownVars>>
overlayVars == <<previewVars, loopVars>>

-----------------------------------------------------------------------------
Navigating == searchFocus \/ manualPan

\* runtime_overlay_visible
RuntimeOverlayVisible(fresh, surfaceApplied, navigating) ==
  /\ loopSettings \in EnabledSettings
  /\ surfaceApplied
  /\ fresh \/ (navigating /\ attached)

SearchView(r) == [center |-> "Search", region |-> r, marker |-> FALSE]

RuntimeReset ==
  /\ region' = FirstRegion
  /\ version' = 2
  /\ frameKey' = NoKey
  /\ frameView' = NoView
  /\ lastFreshness' = "None"
  /\ lastAvailable' = "None"
  /\ nextCheck' = NoTime

HandoffReset ==
  /\ generation' = 0 /\ connected' = FALSE /\ generationHasSample' = FALSE
  /\ activeBoot' = NoBoot /\ retiredBits' = {} /\ lastSequence' = 0
  /\ lastReceived' = NoTime /\ pendingControls' = <<>>
  /\ pendingSample' = NoEvent /\ accepted' = 0 /\ missing' = 0
  /\ highest' = [b \in Boots |-> 0]
  /\ rGeneration' = 0 /\ rConnected' = FALSE /\ rBoot' = NoBoot
  /\ rSequence' = 0 /\ position' = NoEvent /\ clockValid' = FALSE
  /\ headingAvailable' = FALSE

OverlayInit ==
  /\ HandoffInit
  /\ now = 0 /\ tickNow = 0
  /\ phase = "idle" /\ polled = 0 /\ tick = Unchanged
  /\ loopSettings \in MapSettings
  /\ RuntimeInit(FirstRegion, loopSettings)
  /\ attached = FALSE /\ running = FALSE
  /\ loopVersion = 2
  /\ active = FirstRegion
  /\ searchFocus = FALSE /\ manualPan = FALSE
  /\ firstTick = Unchanged
  /\ presented = NoView /\ surface = NoView
  /\ applied = FALSE /\ refresh = FALSE
  /\ gate = FALSE /\ visible = FALSE /\ positionLive = FALSE

-----------------------------------------------------------------------------
(* The environment: the producer's thread and the clock.                   *)

Produce ==
  /\ running
  /\ \/ \E g \in Generations : Connect(g)
     \/ \E frame \in Frames : PublishPosition(frame, now)
     \/ \E g \in Generations :
          Unavailable(g) \/ Disconnect(g) \/ ClockInvalid(g)
  /\ UNCHANGED <<reducerVars, now, runtimeVars, tickVars, loopVars>>

Elapse ==
  /\ running
  /\ now + 1 \in Times
  /\ now' = now + 1
  /\ UNCHANGED <<handoffVars, runtimeVars, tickVars, loopVars>>

-----------------------------------------------------------------------------
(* Input handled at the start of an iteration; each starts the iteration.  *)

StartIteration == IF running THEN BeginTick ELSE /\ phase' = "ticked"
                                                 /\ UNCHANGED <<tickNow, polled>>

NoInput ==
  /\ phase = "idle"
  /\ StartIteration
  /\ tick' = Unchanged
  /\ UNCHANGED <<handoffVars, now, runtimeVars, loopVars>>

\* A settings event of the control client or of the control-file watcher.
SettingsInput(s) ==
  /\ phase = "idle"
  /\ loopVersion < MaxSettingsVersion
  /\ StartIteration
  /\ tick' = Unchanged
  /\ loopVersion' = loopVersion + 1
  /\ loopSettings' = s
  /\ IF running THEN ApplySettings(loopVersion + 1, s)
                ELSE UNCHANGED <<version, settings, nextCheck>>
  /\ searchFocus' = (searchFocus /\ s \in ExpandedSettings)
  /\ manualPan' = (manualPan /\ s \in ExpandedSettings)
  /\ refresh' = (refresh \/ s # loopSettings)
  /\ visible' = (/\ s \in EnabledSettings
                 /\ applied
                 /\ gate \/ (attached /\ (searchFocus' \/ manualPan')))
  /\ UNCHANGED <<handoffVars, now, region, frameKey, frameView, lastFreshness,
                 lastAvailable, attached, running, active, presented, applied,
                 firstTick, surface, gate, positionLive>>

\* The user picks a search result that lies in region r.
SearchInput(r) ==
  /\ phase = "idle"
  /\ StartIteration
  /\ tick' = Unchanged
  /\ active' = r
  /\ searchFocus' = TRUE
  /\ manualPan' = FALSE
  /\ presented' = SearchView(r)
  /\ applied' = (applied /\ active = r)
  /\ surface' = IF active = r THEN surface ELSE NoView
  /\ refresh' = TRUE
  /\ visible' = RuntimeOverlayVisible(gate, applied', TRUE)
  /\ UNCHANGED <<handoffVars, now, runtimeVars, attached, running,
                 loopSettings, loopVersion, firstTick, gate, positionLive>>

PanInput ==
  /\ phase = "idle"
  /\ loopSettings \in ExpandedSettings
  /\ presented # NoView /\ applied
  /\ StartIteration
  /\ tick' = Unchanged
  /\ manualPan' = TRUE
  /\ presented' = [presented EXCEPT !.center = "Panned"]
  /\ refresh' = TRUE
  /\ UNCHANGED <<handoffVars, now, runtimeVars, attached, running,
                 loopSettings, loopVersion, active, searchFocus, applied,
                 firstTick, shownVars>>

RecenterInput ==
  /\ phase = "idle"
  /\ running /\ LastLiveTrackingView # NoView
  /\ StartIteration
  /\ tick' = Unchanged
  /\ searchFocus' = FALSE
  /\ manualPan' = FALSE
  /\ presented' = LastLiveTrackingView
  /\ refresh' = TRUE
  /\ UNCHANGED <<handoffVars, now, runtimeVars, attached, running,
                 loopSettings, loopVersion, active, applied, firstTick,
                 shownVars>>

\* The game window is moved or resized.
ResizeInput ==
  /\ phase = "idle"
  /\ attached
  /\ StartIteration
  /\ tick' = Unchanged
  /\ refresh' = TRUE
  /\ UNCHANGED <<handoffVars, now, runtimeVars, attached, running,
                 loopSettings, loopVersion, active, searchFocus, manualPan,
                 presented, applied, firstTick, shownVars>>

\* What the loss of a session resets: runtime and worker are dropped.
SessionLost ==
  /\ running' = FALSE
  /\ HandoffReset /\ RuntimeReset
  /\ presented' = NoView /\ surface' = NoView
  /\ applied' = FALSE
  /\ searchFocus' = FALSE /\ manualPan' = FALSE
  /\ gate' = FALSE /\ visible' = FALSE /\ positionLive' = FALSE
  /\ phase' = "ticked" /\ tick' = Unchanged
  /\ now' = 0 /\ tickNow' = 0
  /\ UNCHANGED <<settings, polled, loopSettings, loopVersion, firstTick>>

\* The window of another game process appears: a new session, whose worker
\* is still starting.
AttachInput ==
  /\ phase = "idle"
  /\ SessionLost
  /\ attached' = TRUE
  /\ active' = FirstRegion
  /\ refresh' = TRUE

DetachInput ==
  /\ phase = "idle"
  /\ attached
  /\ SessionLost
  /\ attached' = FALSE
  /\ refresh' = FALSE
  /\ UNCHANGED active

\* The worker reports its position source: the runtime is created, and the
\* iteration goes on with it.  Its clock starts with the worker.
WorkerReady ==
  /\ phase = "idle"
  /\ attached /\ ~running
  /\ running' = TRUE
  /\ now' = 0 /\ tickNow' = 0
  /\ region' = active
  /\ settings' = loopSettings
  /\ phase' = "drain" /\ polled' = 0 /\ tick' = Unchanged
  /\ UNCHANGED <<handoffVars, version, frameKey, frameView, lastFreshness,
                 lastAvailable, nextCheck, attached, loopSettings,
                 loopVersion, navVars, firstTick, shownVars>>

-----------------------------------------------------------------------------
(* The rest of the iteration.                                              *)

PollEvents == PollOne /\ UNCHANGED loopVars

\* visibility_tick is the first tick's result.
Tick ==
  /\ FinishTick(MapSize[active])
  /\ firstTick' = IF phase = "drain" THEN tick' ELSE firstTick
  /\ UNCHANGED <<attached, running, loopSettings, loopVersion, navVars,
                 shownVars>>

\* The player's region if the loop must switch to it, else NoRegion.
SwitchTo ==
  IF running /\ position # NoEvent /\ ~Navigating
     /\ SelectRegion[Pose] # active
    THEN SelectRegion[Pose] ELSE NoRegion

\* Follow the player into another region: select its map and tick again.
FollowRegion ==
  /\ phase = "ticked"
  /\ SwitchTo # NoRegion
  /\ active' = SwitchTo
  /\ SelectWorldToImage(SwitchTo)
  /\ applied' = FALSE
  /\ presented' = NoView /\ surface' = NoView
  /\ refresh' = TRUE
  /\ phase' = "redrain" /\ polled' = 0
  /\ UNCHANGED <<handoffVars, now, tickNow, tick, attached, running,
                 loopSettings, loopVersion, searchFocus, manualPan, firstTick,
                 gate, visible, positionLive>>

\* merge_live_player_marker on the view a search or pan retains.
NavigatedView ==
  IF Navigating /\ presented # NoView
    THEN [presented EXCEPT !.marker = /\ running
                                      /\ LastLivePose
                                      /\ Pose \in InRegion[active]]
    ELSE presented

\* Present, refresh or retain the surface; then update gate, window and
\* health signal.  tick, firstTick and polled are locals and end here.
FinishIteration ==
  LET presents == ~Navigating /\ tick.kind = "Present"
      outdated == refresh \/ NavigatedView # presented
      applies == Navigating /\ attached /\ ~applied /\ NavigatedView # NoView
      redraws == outdated /\ applied /\ NavigatedView # NoView
  IN  /\ \/ phase = "ticked" /\ SwitchTo = NoRegion
         \/ phase = "reticked"
      /\ presented' = IF presents THEN tick.view ELSE NavigatedView
      /\ surface' = IF presents THEN tick.view
                    ELSE IF applies \/ redraws THEN NavigatedView
                    ELSE surface
      /\ applied' = (applied \/ applies \/ presents)
      /\ refresh' = (outdated /\ ~presents /\ ~applies /\ ~redraws)
      /\ gate' = GateAfter(gate, firstTick)
      /\ positionLive' = (running /\ LastLivePose /\ applied')
      /\ visible' = RuntimeOverlayVisible(gate', applied', Navigating)
      /\ phase' = "idle" /\ polled' = 0
      /\ tick' = Unchanged /\ firstTick' = Unchanged
      /\ UNCHANGED <<handoffVars, now, runtimeVars, tickNow, attached,
                     running, loopSettings, loopVersion, active, searchFocus,
                     manualPan>>

-----------------------------------------------------------------------------
Input ==
  \/ NoInput
  \/ \E s \in MapSettings : SettingsInput(s)
  \/ \E r \in Regions : SearchInput(r)
  \/ PanInput
  \/ RecenterInput
  \/ ResizeInput
  \/ AttachInput
  \/ WorkerReady
  \/ DetachInput

LoopStep == PollEvents \/ Tick \/ FollowRegion \/ FinishIteration

OverlayNext == Produce \/ Elapse \/ Input \/ LoopStep

\* The loop runs until the process ends; nothing forces the producer, the
\* user or the game to act.
OverlaySpec ==
  /\ OverlayInit
  /\ [][OverlayNext]_overlayVars
  /\ WF_overlayVars(NoInput \/ LoopStep)

-----------------------------------------------------------------------------
(* Properties of the states between two iterations                         *)

Enabled == loopSettings \in EnabledSettings

\* The cached freshness is exact after every tick, although most ticks
\* return early without computing it: no class boundary is slept through.
CachedFreshnessIsExact ==
  phase \in {"ticked", "reticked"} /\ running /\ lastFreshness # "None"
    => lastFreshness = TickFreshness

\* "without claiming an old position is current": a player marker on screen
\* belongs to a trusted sample that was at most Delayed at this tick, in
\* tracking as well as while a search result or a panned map is shown.
MarkerNeverStale ==
  phase = "idle" /\ visible /\ surface.marker =>
    running /\ InterpolatePosition(tickNow)

\* The window shows only over the attached game, and a tracked map (one
\* centred on the player, not a search result or a panned view) shows only
\* for a position that is trusted and lies in the region of that map.
VisibleNeedsTrust ==
  phase = "idle" /\ visible =>
    /\ attached
    /\ ~Navigating /\ surface.center \in Poses =>
         running /\ HasTrustedPosition /\ Pose \in InRegion[region]

\* The health signal "follows a trusted, fresh position stream after an
\* approved map surface has been applied".
HealthSignalHonest ==
  phase = "idle" /\ positionLive => applied /\ InterpolatePosition(tickNow)

\* The runtime tracks a fresh position on the map the loop has drawn.
LiveOnMap ==
  /\ running /\ Enabled /\ applied /\ ~Navigating
  /\ InterpolatePosition(now) /\ Pose \in InRegion[region]
  /\ region = active

\* "Present(_) => Show": while the runtime keeps tracking a fresh position on
\* the map that is drawn, the overlay is shown sooner or later, also after
\* the loop has followed the player into another region.
LivePositionIsShown == LiveOnMap ~> (visible \/ ~LiveOnMap)

\* What the overlay shows is backed by the position it has.
DisplayIsBacked ==
  CachedFreshnessIsExact /\ MarkerNeverStale /\ VisibleNeedsTrust /\ HealthSignalHonest

-----------------------------------------------------------------------------
(* The inductive invariant of DisplayIsBacked                              *)

QueuedControls == [kind : {"Connected", "Disconnected", "ClockInvalid"},
                   generation : Generations]
QueuedSamples == [kind : {"Sample"}, generation : Generations, boot : Boots,
                  sequence : SequenceNumbers, received : Times, payload : Payloads]
QueuedOutages == [kind : {"Unavailable"}, generation : Generations]

TrackingViews == [center : Poses, region : Regions, settings : MapSettings, marker : BOOLEAN]
PannedViews == [center : {"Panned"}, region : Regions, settings : MapSettings, marker : BOOLEAN]
SearchViews == [center : {"Search", "Panned"}, region : Regions, marker : BOOLEAN]
Views == TrackingViews \cup PannedViews \cup SearchViews \cup {NoView}

TickKinds == {"Unchanged", "Present", "MetadataChanged", "Unavailable"}
Ticked == phase \in {"ticked", "reticked"}
Following == phase \in {"redrain", "reticked"}

EventsAreTyped ==
  /\ pendingControls \in Seq(QueuedControls)
  /\ pendingSample \in QueuedSamples \cup QueuedOutages \cup {NoEvent}
  /\ position \in QueuedSamples \cup {NoEvent}

LoopTypeOK ==
  /\ phase \in {"idle", "drain", "redrain", "ticked", "reticked"}
  /\ now \in Times /\ tickNow \in Times /\ tickNow <= now /\ polled \in Nat
  /\ version \in Nat \ {0} /\ nextCheck \in Int
  /\ region \in Regions /\ active \in Regions
  /\ settings \in MapSettings /\ loopSettings \in MapSettings
  /\ frameView \in TrackingViews \cup {NoView} /\ presented \in Views
  /\ firstTick.kind \in TickKinds
  /\ running \in BOOLEAN /\ attached \in BOOLEAN /\ applied \in BOOLEAN /\ refresh \in BOOLEAN
  /\ searchFocus \in BOOLEAN /\ manualPan \in BOOLEAN /\ gate \in BOOLEAN

\* Without a runtime there is no frame, no open gate and no tick; with one the
\* game is attached.
RuntimeIsOwned ==
  /\ running => attached
  /\ ~running =>
       /\ phase \in {"idle", "ticked"} /\ frameKey = NoKey /\ lastAvailable = "None"
       /\ ~gate /\ tick = Unchanged
  /\ phase \in {"idle", "drain"} => firstTick = Unchanged /\ tick = Unchanged

\* The frame that is kept has no marker once it is stale, and while no event
\* has been polled its freshness is known up to the next check.
Settled == phase \in {"drain", "redrain"} => polled = 0

FrameIsCached ==
  /\ frameKey = NoKey <=> frameView = NoView
  /\ frameKey # NoKey =>
       /\ lastAvailable = "Yes" /\ frameKey.version \in Nat /\ frameKey.version <= version
       /\ lastFreshness = "Stale" => ~frameView.marker
       /\ Settled =>
            /\ HasTrustedPosition /\ Pose \in InRegion[region]
            /\ \A t \in Times : t >= tickNow /\ (nextCheck = NoTime \/ t < nextCheck)
                                  => Freshness(t) = lastFreshness

\* What a tick returned agrees with what it kept.
TickIsTrue ==
  /\ running /\ phase \in {"idle", "ticked", "reticked"} => lastFreshness = TickFreshness
  /\ Ticked =>
       /\ tick.kind \in TickKinds
       /\ running /\ frameKey = NoKey => lastAvailable = "No"
       /\ tick.kind = "Present" => running /\ frameKey # NoKey /\ tick.view = frameView
       /\ tick.kind = "MetadataChanged" => frameKey # NoKey /\ tick.freshness = TickFreshness
       /\ phase = "ticked" => firstTick = tick

\* After a change of region nothing is drawn until the second tick.
RegionIsNew == Following => running /\ ~applied /\ presented = NoView /\ ~Navigating

\* The surface is the view presented last, unless it waits for a refresh.
SurfaceFollows ==
  /\ applied => presented # NoView
  /\ applied /\ ~refresh => surface = presented

\* A tracked map shows the kept frame; when navigation ends by new settings the
\* next tick renders it again.
TrackingShowsFrame ==
  running /\ ~Navigating /\ applied /\ frameKey # NoKey =>
    \/ presented = frameView
    \/ phase = "drain" /\ frameKey.version # version /\ nextCheck = 0
    \/ phase = "ticked" /\ tick.kind = "Present"

\* A gate that outlives its position (a change of region whose second tick
\* found none) shows no tracked map, and no marker that is not fresh.
OpenGateIsHarmless ==
  GateAfter(gate, firstTick) /\ lastAvailable = "No" =>
    /\ presented.center \notin Poses
    /\ presented.marker => lastFreshness \in {"Live", "Delayed"}

LoopInv ==
  /\ EventsAreTyped /\ LoopTypeOK /\ RuntimeIsOwned /\ FrameIsCached /\ TickIsTrue
  /\ RegionIsNew /\ SurfaceFollows /\ TrackingShowsFrame /\ OpenGateIsHarmless
  /\ MarkerNeverStale /\ VisibleNeedsTrust /\ HealthSignalHonest

\* The worker's clock starts at 0, and a pose is none of the centres a view may
\* have without one.
LoopAssumption ==
  /\ 0 \in Times
  /\ PoseOf \in [Payloads -> Poses] /\ SelectRegion \in [Poses -> Regions \cup {NoRegion}]
  /\ FirstRegion \in Regions
  /\ Poses \cap {"None", "Search", "Panned"} = {}

-----------------------------------------------------------------------------
(* Proofs, for every set of regions, poses, payloads and settings           *)

\* A view that is not NoView stays one when its marker or its centre changes.
LEMMA ViewFacts ==
  ASSUME LoopAssumption, NEW v \in Views, v # NoView
  PROVE  /\ \A m \in BOOLEAN : LET r == [v EXCEPT !.marker = m]
                               IN r \in Views /\ r # NoView /\ r.marker = m /\ r.center = v.center
         /\ LET r == [v EXCEPT !.center = "Panned"]
            IN r \in Views /\ r # NoView /\ r.marker = v.marker /\ r.center = "Panned"
<1>1. CASE v \in TrackingViews \cup PannedViews
  <2>1. ASSUME NEW m \in BOOLEAN
        PROVE  LET r == [v EXCEPT !.marker = m]
               IN /\ r \in TrackingViews \cup PannedViews /\ r.marker = m /\ r.center = v.center
    BY <1>1 DEF TrackingViews, PannedViews
  <2>2. LET r == [v EXCEPT !.center = "Panned"]
        IN /\ r \in PannedViews /\ r.marker = v.marker /\ r.center = "Panned"
    BY <1>1 DEF TrackingViews, PannedViews
  <2>3. v.center # "None"
    BY <1>1 DEF TrackingViews, PannedViews, LoopAssumption
  <2> QED
    BY <2>1, <2>2, <2>3 DEF Views, NoView
<1>2. CASE v \in SearchViews
  <2>1. ASSUME NEW m \in BOOLEAN
        PROVE  LET r == [v EXCEPT !.marker = m]
               IN /\ r \in SearchViews /\ r.marker = m /\ r.center = v.center
    BY <1>2 DEF SearchViews
  <2>2. LET r == [v EXCEPT !.center = "Panned"]
        IN /\ r \in SearchViews /\ r.marker = v.marker /\ r.center = "Panned"
    BY <1>2 DEF SearchViews
  <2>3. v.center # "None"
    BY <1>2 DEF SearchViews
  <2> QED
    BY <2>1, <2>2, <2>3 DEF Views, NoView
<1> QED
  BY <1>1, <1>2 DEF Views

LEMMA TrackingIsView ==
  ASSUME LoopAssumption, NEW v \in TrackingViews
  PROVE  v \in Views /\ v # NoView /\ v.center \in Poses /\ v.marker \in BOOLEAN
<1>1. v.center \in Poses /\ v.marker \in BOOLEAN
  BY DEF TrackingViews
<1> QED
  BY <1>1 DEF Views, NoView, LoopAssumption

\* The class of a trusted position lasts until the next check.
LEMMA FreshnessLasts ==
  ASSUME EventsAreTyped, tickNow \in Times, HasTrustedPosition
  PROVE  /\ NextFreshnessCheck \in Int
         /\ TickFreshness \in {"Live", "Delayed", "Stale"}
         /\ \A t \in Times :
              t >= tickNow /\ (NextFreshnessCheck = NoTime \/ t < NextFreshnessCheck)
                => Freshness(t) = TickFreshness
<1> DEFINE base == PayloadAge[position.payload]
           age == AgeUpperBound(position, tickNow)
<1>1. position \in QueuedSamples
  BY DEF EventsAreTyped, HasTrustedPosition
<1>2. base \in Nat /\ position.received \in Nat /\ tickNow \in Nat
  BY <1>1, EventsAssumption DEF QueuedSamples, EventsAssumption
<1>3. LiveLimit \in Nat /\ DelayedLimit \in Nat /\ LiveLimit < DelayedLimit
  BY EventsAssumption DEF EventsAssumption
<1>4. ASSUME NEW t \in Times
      PROVE  /\ Freshness(t) = ClassifyFreshness(AgeUpperBound(position, t))
             /\ t \in Nat
             /\ AgeUpperBound(position, t)
                  = base + (IF t > position.received THEN t - position.received ELSE 0)
  BY EventsAssumption DEF Freshness, HasTrustedPosition, AgeUpperBound, EventsAssumption
<1>5. TickFreshness = ClassifyFreshness(age)
  BY <1>4 DEF TickFreshness
<1>6. age = base + (IF tickNow > position.received THEN tickNow - position.received ELSE 0)
  BY <1>4
<1> HIDE DEF base, age
<1>7. age \in Nat
  BY <1>2, <1>6
<1>8. TickFreshness \in {"Live", "Delayed", "Stale"}
  BY <1>5 DEF ClassifyFreshness
<1>9. CASE TickFreshness = "Live"
  <2>1. age <= LiveLimit
    BY <1>5, <1>9 DEF ClassifyFreshness
  <2>2. NextFreshnessCheck = tickNow + (LiveLimit + 1 - age)
    BY <1>9 DEF NextFreshnessCheck, age
  <2>3. NextFreshnessCheck \in Int /\ NextFreshnessCheck # NoTime
    BY <1>2, <1>3, <1>7, <2>1, <2>2 DEF NoTime
  <2>4. ASSUME NEW t \in Times, t >= tickNow, t < NextFreshnessCheck
        PROVE  Freshness(t) = "Live"
    <3>1. AgeUpperBound(position, t) <= LiveLimit
      BY <1>2, <1>3, <1>4, <1>6, <2>2, <2>4
    <3> QED
      BY <1>4, <3>1 DEF ClassifyFreshness
  <2> QED
    BY <1>9, <2>3, <2>4
<1>10. CASE TickFreshness = "Delayed"
  <2>1. age > LiveLimit /\ age <= DelayedLimit
    BY <1>3, <1>5, <1>7, <1>10 DEF ClassifyFreshness
  <2>2. NextFreshnessCheck = tickNow + (DelayedLimit + 1 - age)
    BY <1>10 DEF NextFreshnessCheck, age
  <2>3. NextFreshnessCheck \in Int /\ NextFreshnessCheck # NoTime
    BY <1>2, <1>3, <1>7, <2>1, <2>2 DEF NoTime
  <2>4. ASSUME NEW t \in Times, t >= tickNow, t < NextFreshnessCheck
        PROVE  Freshness(t) = "Delayed"
    <3>1. AgeUpperBound(position, t) <= DelayedLimit /\ ~(AgeUpperBound(position, t) <= LiveLimit)
      BY <1>2, <1>3, <1>4, <1>6, <2>1, <2>2, <2>4
    <3> QED
      BY <1>4, <3>1 DEF ClassifyFreshness
  <2> QED
    BY <1>10, <2>3, <2>4
<1>11. CASE TickFreshness = "Stale"
  <2>1. age > DelayedLimit
    BY <1>3, <1>5, <1>7, <1>11 DEF ClassifyFreshness
  <2>2. NextFreshnessCheck = NoTime
    BY <1>11 DEF NextFreshnessCheck
  <2>3. ASSUME NEW t \in Times, t >= tickNow
        PROVE  Freshness(t) = "Stale"
    <3>1. ~(AgeUpperBound(position, t) <= DelayedLimit) /\ ~(AgeUpperBound(position, t) <= LiveLimit)
      BY <1>2, <1>3, <1>4, <1>6, <2>1, <2>3
    <3> QED
      BY <1>4, <3>1 DEF ClassifyFreshness
  <2> QED
    BY <1>11, <2>2, <2>3 DEF NoTime
<1> QED
  BY <1>8, <1>9, <1>10, <1>11

\* The gate after a tick.
LEMMA GateFacts ==
  ASSUME NEW g \in BOOLEAN, NEW t, t.kind \in TickKinds
  PROVE  /\ GateAfter(g, t) \in BOOLEAN
         /\ t.kind = "Unchanged" => GateAfter(g, t) = g
         /\ t.kind = "Unavailable" => ~GateAfter(g, t)
         /\ t.kind = "MetadataChanged" /\ GateAfter(g, t) => t.freshness \in {"Live", "Delayed"}
<1>1. CASE t.kind = "Unchanged"
  BY <1>1 DEF GateAfter
<1>2. CASE t.kind = "Present"
  BY <1>2 DEF GateAfter
<1>3. CASE t.kind = "MetadataChanged"
  <2>1. GateAfter(g, t) = (t.freshness \in {"Live", "Delayed"})
    BY <1>3 DEF GateAfter
  <2>2. GateAfter(g, t) \in BOOLEAN
    BY <2>1
  <2>3. GateAfter(g, t) => t.freshness \in {"Live", "Delayed"}
    BY <2>1
  <2> QED
    BY <1>3, <2>2, <2>3
<1>4. CASE t.kind = "Unavailable"
  BY <1>4 DEF GateAfter
<1> QED
  BY <1>1, <1>2, <1>3, <1>4 DEF TickKinds

LEMMA UnchangedGate ==
  ASSUME NEW g
  PROVE  GateAfter(g, Unchanged) = g /\ Unchanged.kind \in TickKinds
BY DEF GateAfter, Unchanged, TickKinds

LEMMA LoopStarts ==
  ASSUME LoopAssumption, OverlayInit
  PROVE  LoopInv
<1> USE DEF OverlayInit, HandoffInit, InboxInit, ReducerInit, RuntimeInit
<1>1. EventsAreTyped
  BY DEF EventsAreTyped
<1>2. LoopTypeOK
  <2>1. NoView \in Views /\ NoView \in TrackingViews \cup {NoView}
    BY DEF Views
  <2>2. Unchanged.kind \in TickKinds
    BY DEF Unchanged, TickKinds
  <2>3. NoTime \in Int /\ 2 \in Nat \ {0} /\ 0 \in Nat /\ 0 <= 0
    BY DEF NoTime
  <2> QED
    BY <2>1, <2>2, <2>3 DEF LoopTypeOK, LoopAssumption
<1>3. RuntimeIsOwned /\ RegionIsNew /\ SurfaceFollows /\ TrackingShowsFrame
  BY DEF RuntimeIsOwned, RegionIsNew, SurfaceFollows, TrackingShowsFrame, Following
<1>4. FrameIsCached /\ TickIsTrue /\ OpenGateIsHarmless
  BY DEF FrameIsCached, TickIsTrue, Ticked, OpenGateIsHarmless
<1>5. MarkerNeverStale /\ VisibleNeedsTrust /\ HealthSignalHonest
  BY DEF MarkerNeverStale, VisibleNeedsTrust, HealthSignalHonest
<1> QED
  BY <1>1, <1>2, <1>3, <1>4, <1>5 DEF LoopInv

\* The position, the frame and what is shown do not depend on the inbox.
LEMMA LoopStands ==
  ASSUME LoopInv, UNCHANGED <<reducerVars, runtimeVars, tickVars, loopVars>>,
         EventsAreTyped', now' \in Times, tickNow <= now'
  PROVE  LoopInv'
<1>1. UNCHANGED <<rConnected, clockValid, position>>
  BY DEF reducerVars
<1>2. UNCHANGED <<region, version, settings, frameKey, frameView, lastFreshness, lastAvailable,
                  nextCheck, phase, tickNow, polled, tick>>
  BY DEF runtimeVars, tickVars
<1>3. UNCHANGED <<attached, running, loopSettings, active, searchFocus, manualPan, presented,
                  applied, refresh, firstTick, surface, gate, visible, positionLive>>
  BY DEF loopVars, navVars, shownVars
<1>4. /\ HasTrustedPosition' <=> HasTrustedPosition
      /\ Pose' = Pose /\ TickFreshness' = TickFreshness
      /\ InterpolatePosition(tickNow)' <=> InterpolatePosition(tickNow)
      /\ \A t \in Times : Freshness(t)' = Freshness(t)
  BY <1>1, <1>2 DEF HasTrustedPosition, Pose, TickFreshness, InterpolatePosition, Freshness
<1>5. LoopTypeOK' /\ RuntimeIsOwned' /\ TickIsTrue'
  BY <1>2, <1>3, <1>4 DEF LoopInv, LoopTypeOK, RuntimeIsOwned, TickIsTrue, Ticked
<1>6. FrameIsCached'
  BY <1>2, <1>3, <1>4 DEF LoopInv, FrameIsCached, Settled
<1>7. RegionIsNew' /\ SurfaceFollows' /\ TrackingShowsFrame'
  BY <1>2, <1>3 DEF LoopInv, RegionIsNew, Following, SurfaceFollows, TrackingShowsFrame,
     Navigating
<1>8. OpenGateIsHarmless'
  BY <1>2, <1>3 DEF LoopInv, OpenGateIsHarmless, GateAfter
<1>9. MarkerNeverStale' /\ VisibleNeedsTrust' /\ HealthSignalHonest'
  BY <1>2, <1>3, <1>4 DEF LoopInv, MarkerNeverStale, VisibleNeedsTrust, HealthSignalHonest,
     Navigating
<1> QED
  BY <1>5, <1>6, <1>7, <1>8, <1>9 DEF LoopInv

LEMMA ControlIsQueued ==
  ASSUME NEW kind \in {"Connected", "Disconnected", "ClockInvalid"}, NEW g \in Generations,
         EventsAreTyped
  PROVE  Pushed(Control(kind, g)) \in Seq(QueuedControls)
<1>1. Control(kind, g) \in QueuedControls
  BY DEF Control, QueuedControls
<1> QED
  BY <1>1 DEF Pushed, EventsAreTyped

LEMMA ProduceKeeps ==
  ASSUME LoopInv, Produce
  PROVE  LoopInv'
<1>1. UNCHANGED <<reducerVars, now, runtimeVars, tickVars, loopVars>> /\ UNCHANGED position
  BY DEF Produce, reducerVars
<1>2. EventsAreTyped /\ now \in Times /\ tickNow <= now
  BY DEF LoopInv, LoopTypeOK
<1>3. pendingControls' \in Seq(QueuedControls)
      /\ pendingSample' \in QueuedSamples \cup QueuedOutages \cup {NoEvent}
  <2>1. CASE \E g \in Generations : Connect(g)
    BY <1>2, <2>1, ControlIsQueued DEF Connect
  <2>2. ASSUME NEW frame \in Frames, PublishPosition(frame, now)
        PROVE  /\ pendingControls' \in Seq(QueuedControls)
               /\ pendingSample' \in QueuedSamples \cup QueuedOutages \cup {NoEvent}
    <3>1. frame.generation \in Generations
      BY DEF Frames
    <3>2. CASE AcceptFrame(frame, now)
      <4>1. SampleOf(frame, now) \in QueuedSamples
        BY <1>2 DEF SampleOf, QueuedSamples, Frames
      <4> QED
        BY <1>2, <3>2, <4>1 DEF AcceptFrame, EventsAreTyped
    <3>3. CASE RegressedFrame(frame, now)
      BY <1>2, <3>1, <3>3, ControlIsQueued DEF RegressedFrame, WithClockInvalid, EventsAreTyped
    <3>4. CASE RejectedFrame(frame, now)
      BY <1>2, <3>4 DEF RejectedFrame, EventsAreTyped
    <3> QED
      BY <2>2, <3>2, <3>3, <3>4 DEF PublishPosition
  <2>3. ASSUME NEW g \in Generations, Unavailable(g) \/ Disconnect(g) \/ ClockInvalid(g)
        PROVE  /\ pendingControls' \in Seq(QueuedControls)
               /\ pendingSample' \in QueuedSamples \cup QueuedOutages \cup {NoEvent}
    <3>1. CASE Unavailable(g)
      <4>1. Control("Unavailable", g) \in QueuedOutages
        BY DEF Control, QueuedOutages
      <4> QED
        BY <1>2, <3>1, <4>1 DEF Unavailable, EventsAreTyped
    <3>2. CASE Disconnect(g)
      BY <1>2, <3>2, ControlIsQueued DEF Disconnect
    <3>3. CASE ClockInvalid(g)
      BY <1>2, <3>3, ControlIsQueued DEF ClockInvalid, WithClockInvalid, EventsAreTyped
    <3> QED
      BY <2>3, <3>1, <3>2, <3>3
  <2> QED
    BY <2>1, <2>2, <2>3 DEF Produce
<1>4. EventsAreTyped'
  BY <1>1, <1>2, <1>3 DEF EventsAreTyped
<1> QED
  BY <1>1, <1>2, <1>4, LoopStands

LEMMA ElapseKeeps ==
  ASSUME LoopInv, Elapse
  PROVE  LoopInv'
<1>1. /\ UNCHANGED <<reducerVars, runtimeVars, tickVars, loopVars>>
      /\ UNCHANGED <<pendingControls, pendingSample, position, tickNow>>
      /\ now' \in Times /\ now' = now + 1
  BY DEF Elapse, handoffVars, inboxVars, reducerVars, tickVars
<1>2. tickNow <= now'
  BY <1>1, EventsAssumption DEF LoopInv, LoopTypeOK, EventsAssumption
<1>3. EventsAreTyped'
  BY <1>1 DEF LoopInv, EventsAreTyped
<1> QED
  BY <1>1, <1>2, <1>3, LoopStands

\* An input at the start of an iteration: the tick that follows decides what
\* is shown.
LEMMA InputKeeps ==
  ASSUME LoopInv, phase = "idle", StartIteration, tick' = Unchanged,
         UNCHANGED <<handoffVars, now, region, frameKey, frameView, lastFreshness,
                     lastAvailable, attached, running, firstTick, gate>>,
         presented' \in Views, active' \in Regions, loopSettings' \in MapSettings,
         settings' \in MapSettings, applied' \in BOOLEAN, refresh' \in BOOLEAN,
         searchFocus' \in BOOLEAN, manualPan' \in BOOLEAN,
         version' \in Nat \ {0}, version' >= version, nextCheck' \in {nextCheck, 0},
         SurfaceFollows',
         running /\ ~Navigating' /\ applied' /\ frameKey # NoKey =>
           presented' = frameView \/ (frameKey.version # version' /\ nextCheck' = 0),
         presented'.center \notin Poses \/ presented'.center = presented.center
           \/ lastAvailable # "No",
         presented'.marker => presented.marker \/ lastAvailable # "No"
  PROVE  LoopInv'
<1> USE DEF LoopInv
<1>1. UNCHANGED <<rConnected, clockValid, position, pendingControls, pendingSample>>
  BY DEF handoffVars, inboxVars, reducerVars
<1>2. \/ running /\ phase' = "drain" /\ tickNow' = now /\ polled' = 0
      \/ ~running /\ phase' = "ticked" /\ tickNow' = tickNow /\ polled' = polled
  BY DEF StartIteration, BeginTick, LoopTypeOK
<1>3. firstTick = Unchanged /\ running \in BOOLEAN
  BY DEF RuntimeIsOwned, LoopTypeOK
<1>4. EventsAreTyped'
  BY <1>1 DEF EventsAreTyped
<1>5. LoopTypeOK'
  <2>1. tickNow' \in Times /\ tickNow' <= now' /\ polled' \in Nat /\ nextCheck' \in Int
    BY <1>2, EventsAssumption DEF LoopTypeOK, EventsAssumption
  <2> QED
    BY <1>2, <2>1 DEF LoopTypeOK
<1>6. RuntimeIsOwned'
  BY <1>2, <1>3 DEF RuntimeIsOwned
<1>7. FrameIsCached'
  <2>1. /\ HasTrustedPosition' <=> HasTrustedPosition
        /\ Pose' = Pose /\ \A t \in Times : Freshness(t)' = Freshness(t)
    BY <1>1 DEF HasTrustedPosition, Pose, Freshness
  <2>2. Settled
    BY DEF Settled
  <2>3. \A t \in Times : t >= tickNow' => t >= tickNow
    BY <1>2, EventsAssumption DEF LoopTypeOK, EventsAssumption
  <2>4. \A t \in Times : (nextCheck' = NoTime \/ t < nextCheck') => (nextCheck = NoTime \/ t < nextCheck)
    BY EventsAssumption DEF EventsAssumption, NoTime
  <2>5. frameKey # NoKey => frameKey.version <= version'
    BY DEF FrameIsCached, LoopTypeOK
  <2> QED
    BY <2>1, <2>2, <2>3, <2>4, <2>5 DEF FrameIsCached
<1>8. TickIsTrue'
  BY <1>2, <1>3 DEF TickIsTrue, Ticked, Unchanged, TickKinds
<1>9. RegionIsNew'
  BY <1>2 DEF RegionIsNew, Following
<1>10. TrackingShowsFrame'
  BY <1>2, <1>3 DEF TrackingShowsFrame
<1>11. OpenGateIsHarmless'
  <2>1. GateAfter(gate, firstTick)' = gate /\ GateAfter(gate, firstTick) = gate
    BY <1>3, UnchangedGate
  <2> QED
    BY <2>1 DEF OpenGateIsHarmless
<1>12. MarkerNeverStale' /\ VisibleNeedsTrust' /\ HealthSignalHonest'
  BY <1>2 DEF MarkerNeverStale, VisibleNeedsTrust, HealthSignalHonest
<1> QED
  BY <1>4, <1>5, <1>6, <1>7, <1>8, <1>9, <1>10, <1>11, <1>12

LEMMA SettingsInputKeeps ==
  ASSUME LoopInv, NEW s \in MapSettings, SettingsInput(s)
  PROVE  LoopInv'
<1> USE DEF SettingsInput, LoopInv
<1>1. UNCHANGED <<handoffVars, now, region, frameKey, frameView, lastFreshness,
                  lastAvailable, attached, running, firstTick, gate, presented, applied,
                  surface, active>>
      /\ phase = "idle" /\ StartIteration /\ tick' = Unchanged
  OBVIOUS
<1>2. /\ presented \in Views /\ active \in Regions /\ applied \in BOOLEAN /\ loopSettings' \in MapSettings
      /\ refresh' \in BOOLEAN /\ searchFocus' \in BOOLEAN /\ manualPan' \in BOOLEAN
      /\ refresh => refresh'
  BY DEF LoopTypeOK
<1>3. /\ version' \in Nat \ {0} /\ version' >= version /\ nextCheck' \in {nextCheck, 0}
      /\ settings' \in MapSettings
      /\ running => version' > version /\ nextCheck' = 0
  <2>1. CASE running
    BY <2>1 DEF LoopTypeOK, ApplySettings
  <2>2. CASE ~running
    BY <2>2 DEF LoopTypeOK
  <2> QED
    BY <2>1, <2>2
<1>4. SurfaceFollows'
  BY <1>1, <1>2 DEF SurfaceFollows, LoopTypeOK
<1>5. running /\ frameKey # NoKey => frameKey.version # version' /\ nextCheck' = 0
  BY <1>3 DEF FrameIsCached, LoopTypeOK
<1> QED
  BY <1>1, <1>2, <1>3, <1>4, <1>5, InputKeeps

LEMMA OtherInputKeeps ==
  ASSUME LoopAssumption, LoopInv,
         \/ NoInput \/ PanInput \/ RecenterInput \/ ResizeInput
         \/ \E r \in Regions : SearchInput(r)
  PROVE  LoopInv'
<1> USE DEF LoopInv
<1>1. /\ phase = "idle" /\ StartIteration /\ tick' = Unchanged
      /\ UNCHANGED <<handoffVars, now, region, frameKey, frameView, lastFreshness,
                     lastAvailable, attached, running, firstTick, gate>>
      /\ UNCHANGED <<version, nextCheck, settings, loopSettings>>
  BY DEF NoInput, PanInput, RecenterInput, ResizeInput, SearchInput, runtimeVars, loopVars,
     shownVars
<1>2. /\ version \in Nat \ {0} /\ version >= version /\ settings \in MapSettings
      /\ loopSettings \in MapSettings /\ applied \in BOOLEAN /\ presented \in Views
      /\ active \in Regions /\ refresh \in BOOLEAN /\ searchFocus \in BOOLEAN
      /\ manualPan \in BOOLEAN
  BY DEF LoopTypeOK
<1>3. running /\ ~Navigating /\ applied /\ frameKey # NoKey => presented = frameView
  BY <1>1 DEF TrackingShowsFrame
<1>4. CASE NoInput \/ ResizeInput
  <2>1. /\ UNCHANGED <<active, searchFocus, manualPan, presented, applied, surface>>
        /\ refresh' \in BOOLEAN /\ (refresh => refresh')
    BY <1>2, <1>4 DEF NoInput, ResizeInput, loopVars, navVars, shownVars
  <2>2. SurfaceFollows'
    BY <1>2, <2>1 DEF SurfaceFollows
  <2>3. running /\ ~Navigating' /\ applied' /\ frameKey # NoKey => presented' = frameView
    BY <1>3, <2>1 DEF Navigating
  <2> QED
    BY <1>1, <1>2, <2>1, <2>2, <2>3, InputKeeps
<1>5. CASE PanInput
  <2>1. /\ UNCHANGED <<active, searchFocus, applied, surface>> /\ manualPan' = TRUE
        /\ refresh' = TRUE /\ presented # NoView
        /\ presented' = [presented EXCEPT !.center = "Panned"]
    BY <1>5 DEF PanInput, shownVars
  <2>2. /\ presented' \in Views /\ presented' # NoView /\ presented'.marker = presented.marker
        /\ presented'.center = "Panned"
    BY <1>2, <2>1, ViewFacts
  <2>3. SurfaceFollows' /\ Navigating' /\ "Panned" \notin Poses
    BY <2>1, <2>2 DEF SurfaceFollows, Navigating, LoopAssumption
  <2> QED
    BY <1>1, <1>2, <2>1, <2>2, <2>3, InputKeeps
<1>6. CASE RecenterInput
  <2>1. /\ UNCHANGED <<active, applied, surface>> /\ manualPan' = FALSE /\ searchFocus' = FALSE
        /\ refresh' = TRUE /\ presented' = frameView /\ frameView # NoView
    BY <1>6 DEF RecenterInput, shownVars, LastLiveTrackingView
  <2>2. presented' \in Views
    BY <2>1 DEF LoopTypeOK, Views
  <2>3. SurfaceFollows' /\ lastAvailable # "No"
    BY <2>1 DEF SurfaceFollows, FrameIsCached
  <2> QED
    BY <1>1, <1>2, <2>1, <2>2, <2>3, InputKeeps
<1>7. CASE \E r \in Regions : SearchInput(r)
  <2>1. PICK r \in Regions : SearchInput(r)
    BY <1>7
  <2>2. /\ active' = r /\ searchFocus' = TRUE /\ manualPan' = FALSE /\ refresh' = TRUE
        /\ presented' = SearchView(r) /\ applied' \in BOOLEAN
    BY <2>1 DEF SearchInput
  <2>3. /\ SearchView(r) \in Views /\ SearchView(r).center = "Search" /\ ~SearchView(r).marker
        /\ SearchView(r) # NoView
    BY DEF SearchView, Views, SearchViews, NoView
  <2>4. SurfaceFollows' /\ Navigating' /\ "Search" \notin Poses
    BY <2>2, <2>3 DEF SurfaceFollows, Navigating, LoopAssumption
  <2> QED
    BY <1>1, <1>2, <2>2, <2>3, <2>4, InputKeeps
<1> QED
  BY <1>4, <1>5, <1>6, <1>7

\* A session that is lost leaves nothing behind.
LEMMA LostKeeps ==
  ASSUME LoopAssumption, LoopInv, AttachInput \/ DetachInput
  PROVE  LoopInv'
<1> USE DEF LoopInv
<1>1. phase = "idle" /\ SessionLost /\ attached' \in BOOLEAN /\ active' \in Regions
      /\ refresh' \in BOOLEAN
  BY DEF AttachInput, DetachInput, LoopAssumption, LoopTypeOK
<1>2. firstTick = Unchanged
  BY <1>1 DEF RuntimeIsOwned
<1> USE DEF SessionLost, HandoffReset, RuntimeReset
<1>3. EventsAreTyped'
  BY <1>1 DEF EventsAreTyped
<1>4. LoopTypeOK'
  <2>1. NoView \in Views /\ NoView \in TrackingViews \cup {NoView}
    BY DEF Views
  <2>2. Unchanged.kind \in TickKinds
    BY DEF Unchanged, TickKinds
  <2>3. NoTime \in Int /\ 2 \in Nat \ {0} /\ 0 <= 0
    BY DEF NoTime
  <2> QED
    BY <1>1, <1>2, <2>1, <2>2, <2>3 DEF LoopTypeOK, LoopAssumption
<1>5. RuntimeIsOwned' /\ RegionIsNew' /\ SurfaceFollows' /\ TrackingShowsFrame'
  BY <1>1, <1>2 DEF RuntimeIsOwned, RegionIsNew, SurfaceFollows, TrackingShowsFrame, Following
<1>6. FrameIsCached' /\ OpenGateIsHarmless'
  BY <1>1, <1>2 DEF FrameIsCached, OpenGateIsHarmless
<1>7. TickIsTrue'
  BY <1>1, <1>2 DEF TickIsTrue, Ticked, Unchanged, TickKinds
<1>8. MarkerNeverStale' /\ VisibleNeedsTrust' /\ HealthSignalHonest'
  BY <1>1 DEF MarkerNeverStale, VisibleNeedsTrust, HealthSignalHonest
<1> QED
  BY <1>3, <1>4, <1>5, <1>6, <1>7, <1>8

LEMMA ReadyKeeps ==
  ASSUME LoopAssumption, LoopInv, WorkerReady
  PROVE  LoopInv'
<1> USE DEF LoopInv
<1>1. /\ phase = "idle" /\ attached /\ ~running /\ running' = TRUE /\ now' = 0 /\ tickNow' = 0
      /\ region' = active /\ settings' = loopSettings
      /\ phase' = "drain" /\ polled' = 0 /\ tick' = Unchanged
      /\ UNCHANGED <<rConnected, clockValid, position, pendingControls, pendingSample>>
      /\ UNCHANGED <<version, frameKey, frameView, lastFreshness, lastAvailable, nextCheck,
                     attached, loopSettings, active, searchFocus, manualPan, presented, applied,
                     refresh, firstTick, surface, gate>>
  BY DEF WorkerReady, handoffVars, inboxVars, reducerVars, navVars, shownVars
<1>2. frameKey = NoKey /\ lastAvailable = "None" /\ firstTick = Unchanged /\ ~gate
  BY <1>1 DEF RuntimeIsOwned
<1>3. EventsAreTyped'
  BY <1>1 DEF EventsAreTyped
<1>4. LoopTypeOK'
  <2>1. 0 \in Nat /\ 0 <= 0
    OBVIOUS
  <2> QED
    BY <1>1, <2>1 DEF LoopTypeOK, LoopAssumption
<1>5. RuntimeIsOwned' /\ RegionIsNew' /\ SurfaceFollows' /\ TrackingShowsFrame'
  BY <1>1, <1>2 DEF RuntimeIsOwned, RegionIsNew, SurfaceFollows, TrackingShowsFrame, Following
<1>6. FrameIsCached' /\ OpenGateIsHarmless'
  BY <1>1, <1>2 DEF FrameIsCached, OpenGateIsHarmless
<1>7. TickIsTrue'
  BY <1>1 DEF TickIsTrue, Ticked
<1>8. MarkerNeverStale' /\ VisibleNeedsTrust' /\ HealthSignalHonest'
  BY <1>1 DEF MarkerNeverStale, VisibleNeedsTrust, HealthSignalHonest
<1> QED
  BY <1>3, <1>4, <1>5, <1>6, <1>7, <1>8

\* An event that is polled leaves the frame in doubt until the tick ends.
LEMMA PollKeeps ==
  ASSUME LoopInv, PollEvents
  PROVE  LoopInv'
<1> USE DEF LoopInv
<1>1. /\ phase \in {"drain", "redrain"} /\ polled' = polled + 1 /\ Poll
      /\ ApplyPositionSource(NextEvent)
      /\ UNCHANGED <<now, region, version, settings, frameKey, frameView, lastFreshness,
                     lastAvailable, nextCheck, phase, tickNow, tick>>
      /\ UNCHANGED <<attached, running, loopSettings, active, searchFocus, manualPan, presented,
                     applied, refresh, firstTick, surface, gate, visible, positionLive>>
  BY DEF PollEvents, PollOne, Deliver, runtimeVars, loopVars, navVars, shownVars
<1>2. polled' \in Nat /\ ~Settled'
  BY <1>1 DEF LoopTypeOK, Settled
<1>3. EventsAreTyped'
  <2>1. pendingControls' \in Seq(QueuedControls)
    BY <1>1 DEF Poll, EventsAreTyped
  <2>2. pendingSample' \in QueuedSamples \cup QueuedOutages \cup {NoEvent}
    BY <1>1 DEF Poll, EventsAreTyped
  <2>3. NextEvent \in QueuedControls \cup QueuedSamples \cup QueuedOutages
    BY <1>1 DEF Poll, NextEvent, EventsAreTyped
  <2>4. NextEvent.kind = "Sample" => NextEvent \in QueuedSamples
    BY <2>3 DEF QueuedControls, QueuedOutages
  <2>5. position' \in QueuedSamples \cup {NoEvent}
    BY <1>1, <2>4 DEF ApplyPositionSource, ApplyConnected, ApplySample, ApplyUnavailable,
       ApplyDisconnected, ApplyClockInvalid, EventsAreTyped, reducerVars
  <2> QED
    BY <2>1, <2>2, <2>5 DEF EventsAreTyped
<1>4. LoopTypeOK' /\ RuntimeIsOwned'
  BY <1>1, <1>2 DEF LoopTypeOK, RuntimeIsOwned
<1>5. FrameIsCached'
  BY <1>1, <1>2 DEF FrameIsCached
<1>6. TickIsTrue' /\ RegionIsNew' /\ SurfaceFollows'
  BY <1>1 DEF TickIsTrue, Ticked, RegionIsNew, Following, SurfaceFollows, Navigating
<1>7. TrackingShowsFrame' /\ OpenGateIsHarmless'
  BY <1>1 DEF TrackingShowsFrame, OpenGateIsHarmless, GateAfter, Navigating
<1>8. MarkerNeverStale' /\ VisibleNeedsTrust' /\ HealthSignalHonest'
  BY <1>1 DEF MarkerNeverStale, VisibleNeedsTrust, HealthSignalHonest
<1> QED
  BY <1>3, <1>4, <1>5, <1>6, <1>7, <1>8

\* A region change throws the frame away; the second tick makes a new one.
LEMMA FollowKeeps ==
  ASSUME LoopAssumption, LoopInv, FollowRegion
  PROVE  LoopInv'
<1> USE DEF LoopInv
<1>1. /\ phase = "ticked" /\ SwitchTo # NoRegion /\ active' = SwitchTo /\ region' = SwitchTo
      /\ frameKey' = NoKey /\ frameView' = NoView /\ lastAvailable' = "None" /\ nextCheck' = 0
      /\ applied' = FALSE /\ presented' = NoView /\ refresh' = TRUE
      /\ phase' = "redrain" /\ polled' = 0
      /\ UNCHANGED <<now, version, settings, lastFreshness, tickNow, tick, attached, running,
                     loopSettings, searchFocus, manualPan, firstTick, gate>>
      /\ UNCHANGED <<rConnected, clockValid, position, pendingControls, pendingSample>>
  BY DEF FollowRegion, SelectWorldToImage, handoffVars, inboxVars, reducerVars
<1>2. running /\ ~Navigating /\ SwitchTo \in Regions
  <2>1. running /\ ~Navigating /\ position # NoEvent /\ SwitchTo = SelectRegion[Pose]
    BY <1>1 DEF SwitchTo
  <2>2. position \in QueuedSamples
    BY <2>1 DEF EventsAreTyped
  <2>3. Pose \in Poses
    BY <2>2 DEF Pose, QueuedSamples, LoopAssumption
  <2> QED
    BY <1>1, <2>1, <2>3 DEF LoopAssumption
<1>3. EventsAreTyped'
  BY <1>1 DEF EventsAreTyped
<1>4. LoopTypeOK'
  <2>1. NoView \in Views /\ NoView \in TrackingViews \cup {NoView} /\ 0 \in Nat /\ 0 \in Int
    BY DEF Views
  <2> QED
    BY <1>1, <1>2, <2>1 DEF LoopTypeOK
<1>5. RuntimeIsOwned' /\ RegionIsNew' /\ SurfaceFollows' /\ TrackingShowsFrame'
  BY <1>1, <1>2 DEF RuntimeIsOwned, RegionIsNew, SurfaceFollows, TrackingShowsFrame, Following,
     Navigating
<1>6. FrameIsCached' /\ OpenGateIsHarmless'
  BY <1>1 DEF FrameIsCached, OpenGateIsHarmless
<1>7. TickIsTrue'
  BY <1>1 DEF TickIsTrue, Ticked
<1>8. MarkerNeverStale' /\ VisibleNeedsTrust' /\ HealthSignalHonest'
  BY <1>1 DEF MarkerNeverStale, VisibleNeedsTrust, HealthSignalHonest
<1> QED
  BY <1>3, <1>4, <1>5, <1>6, <1>7, <1>8

\* The tick ends: what it kept and what it returned agree.
LEMMA TickedKeeps ==
  ASSUME LoopAssumption, LoopInv, Tick,
         frameView' \in TrackingViews \cup {NoView}, nextCheck' \in Int, tick'.kind \in TickKinds,
         FrameIsCached', lastFreshness' = TickFreshness,
         frameKey' = NoKey => lastAvailable' = "No",
         tick'.kind = "Present" => frameKey' # NoKey /\ tick'.view = frameView',
         tick'.kind = "MetadataChanged" => frameKey' # NoKey /\ tick'.freshness = TickFreshness,
         phase = "drain" => TrackingShowsFrame',
         phase = "drain" => OpenGateIsHarmless'
  PROVE  LoopInv'
<1> USE DEF LoopInv
<1>1. /\ phase \in {"drain", "redrain"}
      /\ phase' = IF phase = "drain" THEN "ticked" ELSE "reticked"
      /\ firstTick' = IF phase = "drain" THEN tick' ELSE firstTick
      /\ UNCHANGED <<rConnected, clockValid, position, pendingControls, pendingSample>>
      /\ UNCHANGED <<now, region, version, settings, tickNow, polled, attached, running,
                     loopSettings, active, searchFocus, manualPan, presented, applied, refresh,
                     surface, gate>>
  BY DEF Tick, FinishTick, handoffVars, inboxVars, reducerVars, navVars, shownVars
<1>2. running /\ running \in BOOLEAN
  BY <1>1 DEF RuntimeIsOwned, LoopTypeOK
<1>3. TickFreshness' = TickFreshness
  BY <1>1 DEF TickFreshness, Freshness
<1>4. EventsAreTyped'
  BY <1>1 DEF EventsAreTyped
<1>5. LoopTypeOK'
  BY <1>1 DEF LoopTypeOK
<1>6. RuntimeIsOwned'
  BY <1>1, <1>2 DEF RuntimeIsOwned
<1>7. TickIsTrue'
  BY <1>1, <1>2, <1>3 DEF TickIsTrue, Ticked
<1>8. RegionIsNew' /\ SurfaceFollows'
  BY <1>1 DEF RegionIsNew, SurfaceFollows, Following, Navigating
<1>9. TrackingShowsFrame' /\ OpenGateIsHarmless'
  <2>1. CASE phase = "redrain"
    <3>1. ~applied /\ presented = NoView
      BY <2>1 DEF RegionIsNew, Following
    <3>2. NoView.center \notin Poses /\ ~NoView.marker
      BY DEF NoView, LoopAssumption
    <3> QED
      BY <1>1, <3>1, <3>2 DEF TrackingShowsFrame, OpenGateIsHarmless
  <2> QED
    BY <1>1, <2>1
<1>10. MarkerNeverStale' /\ VisibleNeedsTrust' /\ HealthSignalHonest'
  BY <1>1 DEF MarkerNeverStale, VisibleNeedsTrust, HealthSignalHonest
<1> QED
  BY <1>4, <1>5, <1>6, <1>7, <1>8, <1>9, <1>10

\* The state a tick decides in.
LEMMA TickFacts ==
  ASSUME LoopAssumption, LoopInv, Tick
  PROVE  /\ running /\ phase \in {"drain", "redrain"} /\ phase' \in {"ticked", "reticked"}
         /\ phase = "drain" => firstTick = Unchanged /\ firstTick' = tick' /\ phase' = "ticked"
         /\ UNCHANGED <<tickNow, region, version, presented, applied, gate, running>>
         /\ Navigating' <=> Navigating
         /\ HasTrustedPosition' <=> HasTrustedPosition
         /\ Pose' = Pose /\ \A t \in Times : Freshness(t)' = Freshness(t)
         /\ tickNow \in Times /\ tickNow \in Nat
         /\ Key(MapSize[active]) # NoKey /\ Key(MapSize[active]).version = version
         /\ version \in Nat /\ Settled'
<1> USE DEF LoopInv
<1>1. /\ phase \in {"drain", "redrain"}
      /\ phase' = IF phase = "drain" THEN "ticked" ELSE "reticked"
      /\ firstTick' = IF phase = "drain" THEN tick' ELSE firstTick
      /\ UNCHANGED <<rConnected, clockValid, position>>
      /\ UNCHANGED <<tickNow, region, version, running, searchFocus, manualPan, presented,
                     applied, gate>>
  BY DEF Tick, FinishTick, handoffVars, inboxVars, reducerVars, navVars, shownVars
<1>2. running /\ (phase = "drain" => firstTick = Unchanged)
  BY <1>1 DEF RuntimeIsOwned, LoopTypeOK
<1>3. /\ HasTrustedPosition' <=> HasTrustedPosition
      /\ Pose' = Pose /\ \A t \in Times : Freshness(t)' = Freshness(t)
  BY <1>1 DEF HasTrustedPosition, Pose, Freshness
<1>4. tickNow \in Times /\ tickNow \in Nat /\ version \in Nat /\ version # 0
  BY EventsAssumption DEF LoopTypeOK, EventsAssumption
<1>5. Key(MapSize[active]).version = version /\ NoKey.version = 0
  BY DEF Key, NoKey
<1>6. Key(MapSize[active]) # NoKey
  BY <1>4, <1>5
<1>7. Navigating' <=> Navigating
  BY <1>1 DEF Navigating
<1>8. Settled' /\ phase' \in {"ticked", "reticked"}
  BY <1>1 DEF Settled
<1> QED
  BY <1>1, <1>2, <1>3, <1>4, <1>5, <1>6, <1>7, <1>8

LEMMA UnavailableKeeps ==
  ASSUME LoopAssumption, LoopInv, Tick, TickUnavailable
  PROVE  LoopInv'
<1> USE DEF LoopInv
<1>1. /\ frameKey' = NoKey /\ frameView' = NoView /\ nextCheck' = NoTime /\ lastAvailable' = "No"
      /\ lastFreshness' = TickFreshness
      /\ \/ tick' = UnavailableTick(TickFreshness)
         \/ tick' = Unchanged /\ lastAvailable = "No" /\ lastFreshness = TickFreshness
  BY DEF TickUnavailable
<1>2. nextCheck' \in Int
  BY <1>1 DEF NoTime
<1>3. tick'.kind \in TickKinds /\ tick'.kind \notin {"Present", "MetadataChanged"}
  BY <1>1 DEF TickKinds, UnavailableTick, Unchanged
<1>4. FrameIsCached' /\ TrackingShowsFrame'
  BY <1>1 DEF FrameIsCached, TrackingShowsFrame
<1>5. phase = "drain" => OpenGateIsHarmless'
  <2>1. CASE tick' = UnavailableTick(TickFreshness)
    <3>1. phase = "drain" => ~GateAfter(gate, firstTick)'
      BY <2>1, TickFacts DEF GateAfter, UnavailableTick
    <3> QED
      BY <3>1 DEF OpenGateIsHarmless
  <2>2. CASE tick' = Unchanged /\ lastAvailable = "No" /\ lastFreshness = TickFreshness
    <3>1. phase = "drain" => GateAfter(gate, firstTick)' = gate /\ GateAfter(gate, firstTick) = gate
      BY <2>2, TickFacts, UnchangedGate
    <3> QED
      BY <1>1, <2>2, <3>1, TickFacts DEF OpenGateIsHarmless
  <2> QED
    BY <1>1, <2>1, <2>2
<1> QED
  BY <1>1, <1>2, <1>3, <1>4, <1>5, TickedKeeps

LEMMA IdleKeeps ==
  ASSUME LoopAssumption, LoopInv, Tick, TickIdle(MapSize[active])
  PROVE  LoopInv'
<1> USE DEF LoopInv
<1>1. /\ lastAvailable' = "Yes" /\ tick' = Unchanged
      /\ UNCHANGED <<frameKey, frameView, lastFreshness, nextCheck>>
      /\ polled = 0 /\ frameKey # NoKey /\ (nextCheck = NoTime \/ tickNow < nextCheck)
  BY DEF TickIdle, NothingDue
<1>2. Settled
  BY <1>1 DEF Settled
<1>3. tickNow >= tickNow /\ nextCheck # 0
  BY <1>1, TickFacts DEF NoTime
<1>4. lastFreshness = TickFreshness
  BY <1>1, <1>2, <1>3, TickFacts DEF FrameIsCached, TickFreshness
<1>5. frameView' \in TrackingViews \cup {NoView} /\ nextCheck' \in Int
  BY <1>1 DEF LoopTypeOK
<1>6. tick'.kind \in TickKinds /\ tick'.kind \notin {"Present", "MetadataChanged"}
  BY <1>1 DEF TickKinds, Unchanged
<1>7. FrameIsCached'
  BY <1>1, <1>2, TickFacts DEF FrameIsCached
<1>8. phase = "drain" => TrackingShowsFrame'
  BY <1>1, <1>3, TickFacts DEF TrackingShowsFrame
<1>9. OpenGateIsHarmless'
  BY <1>1 DEF OpenGateIsHarmless
<1> QED
  BY <1>1, <1>4, <1>5, <1>6, <1>7, <1>8, <1>9, TickedKeeps

\* A tick for an available position keeps a frame whose class lasts.
LEMMA AvailableKeeps ==
  ASSUME LoopAssumption, LoopInv, Tick, Available,
         lastAvailable' = "Yes", nextCheck' = NextFreshnessCheck, lastFreshness' = TickFreshness,
         frameKey' = Key(MapSize[active]), frameView' \in TrackingViews,
         TickFreshness = "Stale" => ~frameView'.marker,
         tick'.kind \in TickKinds \ {"Unavailable"},
         tick'.kind = "Present" => tick'.view = frameView',
         tick'.kind = "MetadataChanged" => tick'.freshness = TickFreshness,
         tick'.kind # "Present" => frameKey = Key(MapSize[active]) /\ frameView' = frameView
  PROVE  LoopInv'
<1> USE DEF LoopInv
<1>1. HasTrustedPosition /\ Pose \in InRegion[region] /\ tickNow \in Times
  BY TickFacts DEF Available
<1>2. /\ NextFreshnessCheck \in Int
      /\ \A t \in Times :
           t >= tickNow /\ (NextFreshnessCheck = NoTime \/ t < NextFreshnessCheck)
             => Freshness(t) = TickFreshness
  BY <1>1, FreshnessLasts
<1>3. frameKey' # NoKey /\ frameView' # NoView /\ frameKey'.version = version
  BY TickFacts, TrackingIsView
<1>4. FrameIsCached'
  <2>1. version' = version /\ version \in Nat /\ version <= version
    BY TickFacts
  <2>2. HasTrustedPosition' /\ Pose' \in InRegion[region]'
    BY <1>1, TickFacts
  <2>3. \A t \in Times : t >= tickNow' /\ (nextCheck' = NoTime \/ t < nextCheck')
                           => Freshness(t)' = lastFreshness'
    BY <1>2, TickFacts
  <2> QED
    BY <1>3, <2>1, <2>2, <2>3 DEF FrameIsCached
<1>5. phase = "drain" => TrackingShowsFrame'
  <2>1. CASE tick'.kind = "Present"
    BY <2>1, TickFacts DEF TrackingShowsFrame
  <2>2. CASE tick'.kind # "Present"
    <3>1. frameKey # NoKey /\ frameKey.version = version /\ frameView' = frameView
      BY <2>2, TickFacts
    <3> QED
      BY <3>1, TickFacts DEF TrackingShowsFrame
  <2> QED
    BY <2>1, <2>2
<1>6. OpenGateIsHarmless'
  BY DEF OpenGateIsHarmless
<1> QED
  BY <1>2, <1>3, <1>4, <1>5, <1>6, TickedKeeps

LEMMA AgedKeeps ==
  ASSUME LoopAssumption, LoopInv, Tick, TickAged(MapSize[active])
  PROVE  LoopInv'
<1> USE DEF LoopInv
<1>1. /\ Available /\ frameKey = Key(MapSize[active]) /\ frameKey' = frameKey
      /\ lastAvailable' = "Yes" /\ nextCheck' = NextFreshnessCheck
      /\ lastFreshness' = TickFreshness
  BY DEF TickAged
<1>2. frameKey # NoKey /\ frameView \in TrackingViews
  BY <1>1, TickFacts DEF FrameIsCached, LoopTypeOK
<1>3. CASE lastFreshness # TickFreshness /\ TickFreshness = "Stale"
  <2> DEFINE bare == [frameView EXCEPT !.marker = FALSE]
  <2>1. frameView' = bare /\ tick' = Present(bare, TickFreshness)
    BY <1>3 DEF TickAged
  <2>2. bare \in TrackingViews /\ ~bare.marker
    BY <1>2 DEF TrackingViews
  <2> HIDE DEF bare
  <2>3. tick'.kind = "Present" /\ tick'.view = bare
    BY <2>1 DEF Present
  <2> QED
    BY <1>1, <2>1, <2>2, <2>3, AvailableKeeps DEF TickKinds
<1>4. CASE ~(lastFreshness # TickFreshness /\ TickFreshness = "Stale")
  <2>1. /\ frameView' = frameView
        /\ tick' = Unchanged \/ tick' = MetadataChanged(TickFreshness)
    BY <1>4 DEF TickAged
  <2>2. tick'.kind \in TickKinds \ {"Unavailable", "Present"}
        /\ (tick'.kind = "MetadataChanged" => tick'.freshness = TickFreshness)
    BY <2>1 DEF Unchanged, MetadataChanged, TickKinds
  <2>3. TickFreshness = "Stale" => ~frameView.marker
    BY <1>2, <1>4 DEF FrameIsCached
  <2> QED
    BY <1>1, <1>2, <2>1, <2>2, <2>3, AvailableKeeps
<1> QED
  BY <1>3, <1>4

LEMMA RenderedKeeps ==
  ASSUME LoopAssumption, LoopInv, Tick, TickRendered(MapSize[active])
  PROVE  LoopInv'
<1> USE DEF LoopInv
<1> DEFINE view == View(region, TickFreshness # "Stale")
           key == Key(MapSize[active])
<1>1. /\ Available /\ frameKey' = key /\ frameView' = view
      /\ lastAvailable' = "Yes" /\ nextCheck' = NextFreshnessCheck
      /\ lastFreshness' = TickFreshness
      /\ tick' = IF frameKey # key \/ frameView # view THEN Present(view, TickFreshness)
                 ELSE IF lastFreshness # TickFreshness THEN MetadataChanged(TickFreshness)
                 ELSE Unchanged
  BY DEF TickRendered
<1>2. view \in TrackingViews /\ (TickFreshness = "Stale" => ~view.marker)
  <2>1. position \in QueuedSamples
    BY <1>1 DEF Available, HasTrustedPosition, EventsAreTyped
  <2>2. Pose \in Poses /\ region \in Regions /\ settings \in MapSettings
    BY <2>1 DEF Pose, QueuedSamples, LoopAssumption, LoopTypeOK
  <2>3. view.marker = (TickFreshness # "Stale")
    BY DEF View
  <2>4. (TickFreshness # "Stale") \in BOOLEAN
    OBVIOUS
  <2> QED
    BY <2>2, <2>3, <2>4 DEF View, TrackingViews
<1> HIDE DEF view
<1>3. CASE frameKey # key \/ frameView # view
  <2>1. tick'.kind = "Present" /\ tick'.view = view
    BY <1>1, <1>3 DEF Present
  <2> QED
    BY <1>1, <1>2, <2>1, AvailableKeeps DEF TickKinds
<1>4. CASE frameKey = key /\ frameView = view
  <2>1. tick' = Unchanged \/ tick' = MetadataChanged(TickFreshness)
    BY <1>1, <1>4
  <2>2. tick'.kind \in TickKinds \ {"Unavailable", "Present"}
        /\ (tick'.kind = "MetadataChanged" => tick'.freshness = TickFreshness)
    BY <2>1 DEF Unchanged, MetadataChanged, TickKinds
  <2> QED
    BY <1>1, <1>2, <1>4, <2>2, AvailableKeeps
<1> QED
  BY <1>3, <1>4

LEMMA TickKeeps ==
  ASSUME LoopAssumption, LoopInv, Tick
  PROVE  LoopInv'
BY UnavailableKeeps, IdleKeeps, AgedKeeps, RenderedKeeps DEF Tick, FinishTick

\* The view a search or a pan retains, with the marker it gets.
LEMMA NavigatedFacts ==
  ASSUME LoopAssumption, LoopInv
  PROVE  /\ NavigatedView \in Views
         /\ NavigatedView = NoView <=> presented = NoView
         /\ NavigatedView.center = presented.center
         /\ ~Navigating => NavigatedView = presented
         /\ Navigating /\ NavigatedView # NoView /\ NavigatedView.marker => running /\ LastLivePose
<1>1. presented \in Views
  BY DEF LoopInv, LoopTypeOK
<1>2. CASE Navigating /\ presented # NoView
  <2> DEFINE m == running /\ LastLivePose /\ Pose \in InRegion[active]
  <2>1. NavigatedView = [presented EXCEPT !.marker = m]
    BY <1>2 DEF NavigatedView
  <2>2. m \in BOOLEAN /\ (m => running /\ LastLivePose)
    OBVIOUS
  <2> HIDE DEF m
  <2>3. /\ NavigatedView \in Views /\ NavigatedView # NoView /\ NavigatedView.marker = m
        /\ NavigatedView.center = presented.center
    BY <1>1, <1>2, <2>1, <2>2, ViewFacts
  <2> QED
    BY <1>2, <2>2, <2>3
<1>3. CASE ~(Navigating /\ presented # NoView)
  BY <1>1, <1>3 DEF NavigatedView
<1> QED
  BY <1>2, <1>3

\* A position that is live or delayed at this tick has a pose to show.
LEMMA LiveIsInterpolated ==
  ASSUME LoopInv, running, Ticked
  PROVE  /\ lastFreshness = TickFreshness
         /\ lastFreshness \in {"Live", "Delayed"} => InterpolatePosition(tickNow)
         /\ frameKey # NoKey => HasTrustedPosition /\ Pose \in InRegion[region]
         /\ frameKey # NoKey /\ frameView.marker => InterpolatePosition(tickNow)
<1>1. lastFreshness = TickFreshness /\ tickNow \in Times /\ EventsAreTyped /\ Settled
  BY DEF LoopInv, TickIsTrue, LoopTypeOK, Ticked, Settled
<1>2. lastFreshness \in {"Live", "Delayed"} => InterpolatePosition(tickNow)
  BY <1>1 DEF TickFreshness, InterpolatePosition, Freshness, HasTrustedPosition
<1>3. frameKey # NoKey => HasTrustedPosition /\ Pose \in InRegion[region]
  BY <1>1 DEF LoopInv, FrameIsCached
<1>4. frameKey # NoKey /\ frameView.marker => lastFreshness \in {"Live", "Delayed"}
  BY <1>1, <1>3, FreshnessLasts DEF LoopInv, FrameIsCached
<1> QED
  BY <1>1, <1>2, <1>3, <1>4

\* The iteration ends: what the window shows is what the last tick backs.
LEMMA FinishKeeps ==
  ASSUME LoopAssumption, LoopInv, FinishIteration
  PROVE  LoopInv'
<1> USE DEF LoopInv
<1> DEFINE nv == NavigatedView
           presents == ~Navigating /\ tick.kind = "Present"
           outdated == refresh \/ nv # presented
           applies == Navigating /\ attached /\ ~applied /\ nv # NoView
           redraws == outdated /\ applied /\ nv # NoView
<1>1. /\ phase \in {"ticked", "reticked"} /\ phase' = "idle" /\ polled' = 0
      /\ tick' = Unchanged /\ firstTick' = Unchanged
      /\ gate' = GateAfter(gate, firstTick)
      /\ UNCHANGED <<rConnected, clockValid, position, pendingControls, pendingSample>>
      /\ UNCHANGED <<now, region, version, settings, frameKey, frameView, lastFreshness,
                     lastAvailable, nextCheck, tickNow, attached, running, loopSettings, active,
                     searchFocus, manualPan>>
  BY DEF FinishIteration, handoffVars, inboxVars, reducerVars, runtimeVars
<1>2. /\ presented' = IF presents THEN tick.view ELSE nv
      /\ surface' = IF presents THEN tick.view ELSE IF applies \/ redraws THEN nv ELSE surface
      /\ applied' = (applied \/ applies \/ presents)
      /\ refresh' = (outdated /\ ~presents /\ ~applies /\ ~redraws)
      /\ positionLive' = (running /\ LastLivePose /\ applied')
      /\ visible' = RuntimeOverlayVisible(gate', applied', Navigating)
  BY DEF FinishIteration
<1>3. /\ nv \in Views /\ (nv = NoView <=> presented = NoView) /\ nv.center = presented.center
      /\ ~Navigating => nv = presented
      /\ Navigating /\ nv # NoView /\ nv.marker => running /\ LastLivePose
  BY NavigatedFacts
<1> HIDE DEF nv
<1>4. /\ Ticked /\ tick.kind \in TickKinds /\ firstTick.kind \in TickKinds
      /\ gate \in BOOLEAN /\ applied \in BOOLEAN /\ refresh \in BOOLEAN /\ running \in BOOLEAN
      /\ gate' \in BOOLEAN
  BY <1>1, GateFacts DEF Ticked, TickIsTrue, LoopTypeOK
<1>5. presents => /\ running /\ frameKey # NoKey /\ tick.view = frameView /\ frameView # NoView
                  /\ frameView \in Views
  BY <1>4, TrackingIsView DEF TickIsTrue, FrameIsCached, LoopTypeOK
<1>6. gate' => running
  <2>1. SUFFICES ASSUME ~running PROVE ~gate'
    BY Zenon
  <2>2. ~gate /\ tick = Unchanged /\ phase = "ticked"
    BY <1>1, <2>1 DEF RuntimeIsOwned
  <2>3. firstTick = Unchanged
    BY <1>4, <2>2 DEF TickIsTrue
  <2>4. gate' = gate
    BY <1>1, <2>3, UnchangedGate
  <2> QED
    BY <2>2, <2>4
<1>7. ~presents /\ ~Navigating /\ applied' =>
        applied /\ presented' = presented /\ phase = "ticked" /\ firstTick = tick
        /\ tick.kind # "Present"
  BY <1>1, <1>2, <1>3, <1>4 DEF RegionIsNew, Following, TickIsTrue
<1>8. applied' => surface' = presented' /\ presented' # NoView
  <2>1. CASE presents
    BY <1>2, <1>5, <2>1
  <2>2. CASE ~presents
    BY <1>2, <1>3, <1>4, <2>2 DEF SurfaceFollows
  <2> QED
    BY <2>1, <2>2
<1>9. ~presents /\ ~Navigating /\ applied' /\ frameKey # NoKey /\ running => presented' = frameView
  BY <1>1, <1>7 DEF TrackingShowsFrame
<1>10. ~presents /\ gate' /\ lastAvailable = "No" =>
         /\ presented'.center \notin Poses
         /\ presented'.marker => lastFreshness \in {"Live", "Delayed"}
  <2>1. SUFFICES ASSUME ~presents, gate', lastAvailable = "No"
                 PROVE  /\ presented'.center \notin Poses
                        /\ presented'.marker => lastFreshness \in {"Live", "Delayed"}
    BY Zenon
  <2>2. /\ presented.center \notin Poses
        /\ presented.marker => lastFreshness \in {"Live", "Delayed"}
    BY <1>1, <2>1 DEF OpenGateIsHarmless
  <2>3. presented' = nv /\ nv.center = presented.center
    BY <1>2, <1>3, <2>1
  <2>4. nv.marker => presented.marker \/ LastLivePose \/ nv = NoView
    BY <1>3
  <2>5. ~NoView.marker
    BY DEF NoView
  <2> QED
    BY <2>2, <2>3, <2>4, <2>5 DEF LastLivePose
<1>11. EventsAreTyped'
  BY <1>1 DEF EventsAreTyped
<1>12. LoopTypeOK'
  <2>1. presented' \in Views
    BY <1>2, <1>3, <1>5
  <2>2. firstTick'.kind \in TickKinds /\ 0 \in Nat
    BY <1>1, UnchangedGate
  <2>3. applied' \in BOOLEAN /\ refresh' \in BOOLEAN
    BY <1>2, <1>4
  <2> QED
    BY <1>1, <1>4, <2>1, <2>2, <2>3 DEF LoopTypeOK
<1>13. RuntimeIsOwned'
  BY <1>1, <1>4, <1>6 DEF RuntimeIsOwned
<1>14. /\ HasTrustedPosition' <=> HasTrustedPosition
       /\ Pose' = Pose /\ TickFreshness' = TickFreshness
       /\ InterpolatePosition(tickNow)' <=> InterpolatePosition(tickNow)
       /\ \A t \in Times : Freshness(t)' = Freshness(t)
  BY <1>1 DEF HasTrustedPosition, Pose, TickFreshness, InterpolatePosition, Freshness
<1>15. FrameIsCached'
  <2>1. Settled
    BY <1>1 DEF Settled
  <2> QED
    BY <1>1, <1>14, <2>1 DEF FrameIsCached
<1>16. TickIsTrue' /\ RegionIsNew'
  BY <1>1, <1>14 DEF TickIsTrue, Ticked, RegionIsNew, Following
<1>17. SurfaceFollows'
  BY <1>8 DEF SurfaceFollows
<1>18. TrackingShowsFrame'
  <2>1. presents => presented' = frameView
    BY <1>2, <1>5
  <2> QED
    BY <1>1, <1>9, <2>1 DEF TrackingShowsFrame, Navigating
<1>19. OpenGateIsHarmless'
  <2>1. GateAfter(gate, firstTick)' = gate'
    BY <1>1, UnchangedGate
  <2>2. lastAvailable = "No" => ~presents
    BY <1>5 DEF FrameIsCached
  <2> QED
    BY <1>1, <1>10, <2>1, <2>2 DEF OpenGateIsHarmless
<1>20. visible' => applied' /\ (gate' \/ (Navigating /\ attached))
  BY <1>2 DEF RuntimeOverlayVisible
<1>21. running => /\ frameKey = NoKey => lastAvailable = "No"
                  /\ lastFreshness = TickFreshness
                  /\ lastFreshness \in {"Live", "Delayed"} => InterpolatePosition(tickNow)
                  /\ frameKey # NoKey => HasTrustedPosition /\ Pose \in InRegion[region]
                  /\ frameKey # NoKey /\ frameView.marker => InterpolatePosition(tickNow)
  BY <1>4, LiveIsInterpolated DEF TickIsTrue
<1>22. MarkerNeverStale'
  <2>1. SUFFICES ASSUME applied', gate' \/ (Navigating /\ attached), presented'.marker
                 PROVE  running /\ InterpolatePosition(tickNow)
    BY <1>1, <1>8, <1>14, <1>20 DEF MarkerNeverStale
  <2>2. CASE presents
    BY <1>2, <1>5, <1>21, <2>1, <2>2
  <2>3. CASE ~presents /\ Navigating
    BY <1>2, <1>3, <1>8, <1>21, <2>1, <2>3 DEF LastLivePose
  <2>4. CASE ~presents /\ ~Navigating
    <3>1. running /\ gate'
      BY <1>6, <2>1, <2>4
    <3>2. CASE frameKey # NoKey
      BY <1>9, <1>21, <2>1, <2>4, <3>1, <3>2
    <3>3. CASE frameKey = NoKey
      BY <1>10, <1>21, <2>1, <2>4, <3>1, <3>3
    <3> QED
      BY <3>2, <3>3
  <2> QED
    BY <2>2, <2>3, <2>4
<1>23. VisibleNeedsTrust'
  <2>1. SUFFICES ASSUME applied', gate' \/ (Navigating /\ attached)
                 PROVE  /\ attached
                        /\ ~Navigating /\ presented'.center \in Poses =>
                             running /\ HasTrustedPosition /\ Pose \in InRegion[region]
    BY <1>1, <1>8, <1>14, <1>20 DEF VisibleNeedsTrust, Navigating
  <2>2. attached
    BY <1>6, <2>1 DEF RuntimeIsOwned
  <2>3. ASSUME ~Navigating, presented'.center \in Poses
        PROVE  running /\ HasTrustedPosition /\ Pose \in InRegion[region]
    <3>1. running /\ gate'
      BY <1>6, <2>1, <2>3
    <3>2. frameKey # NoKey
      BY <1>5, <1>10, <1>21, <2>3, <3>1
    <3> QED
      BY <1>21, <3>1, <3>2
  <2> QED
    BY <2>2, <2>3
<1>24. HealthSignalHonest'
  BY <1>1, <1>2, <1>14, <1>21 DEF HealthSignalHonest, LastLivePose
<1> QED
  BY <1>11, <1>12, <1>13, <1>15, <1>16, <1>17, <1>18, <1>19, <1>22, <1>23, <1>24

LEMMA LoopSteps ==
  ASSUME LoopAssumption, LoopInv, [OverlayNext]_overlayVars
  PROVE  LoopInv'
<1>1. CASE UNCHANGED overlayVars
  <2>1. /\ UNCHANGED <<reducerVars, runtimeVars, tickVars, loopVars>>
        /\ UNCHANGED <<pendingControls, pendingSample, position, now>>
    BY <1>1 DEF overlayVars, previewVars, handoffVars, inboxVars, reducerVars
  <2>2. EventsAreTyped' /\ now' \in Times /\ tickNow <= now'
    BY <2>1 DEF LoopInv, LoopTypeOK, EventsAreTyped
  <2> QED
    BY <2>1, <2>2, LoopStands
<1>2. CASE Produce \/ Elapse
  BY <1>2, ProduceKeeps, ElapseKeeps
<1>3. CASE Input
  BY <1>3, SettingsInputKeeps, OtherInputKeeps, LostKeeps, ReadyKeeps DEF Input
<1>4. CASE LoopStep
  BY <1>4, PollKeeps, TickKeeps, FollowKeeps, FinishKeeps DEF LoopStep
<1> QED
  BY <1>1, <1>2, <1>3, <1>4 DEF OverlayNext

\* The inductive invariant holds in every state of the loop, whatever the
\* producer, the user, the game window and the clock do between two steps.
THEOREM LoopInvariant ==
  ASSUME LoopAssumption
  PROVE  OverlaySpec => []LoopInv
<1>1. OverlayInit => LoopInv
  BY LoopStarts
<1>2. LoopInv /\ [OverlayNext]_overlayVars => LoopInv'
  BY LoopSteps
<1> QED
  BY <1>1, <1>2, PTL DEF OverlaySpec

\* What the overlay shows is backed by the position it has: the cached
\* freshness is exact, no stale marker is on screen, a tracked map shows only
\* for a trusted position in its region, and the health signal is honest.
THEOREM DisplayAlwaysBacked ==
  ASSUME LoopAssumption
  PROVE  OverlaySpec => []DisplayIsBacked
<1>1. LoopInv => DisplayIsBacked
  BY DEF LoopInv, DisplayIsBacked, TickIsTrue, CachedFreshnessIsExact
<1> QED
  BY <1>1, LoopInvariant, PTL

=============================================================================
