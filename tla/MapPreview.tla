----------------------------- MODULE MapPreview -----------------------------
(***************************************************************************)
(* The consumer of the handoff: ActualMapPreviewRuntime of                 *)
(* crates/pal-overlay-win/src/actual_map_runtime.rs.                       *)
(*                                                                         *)
(* tick() first polls and applies events, one at a time and at most        *)
(* MaxEventsPerTick; the inbox lock is free between two polls, so the      *)
(* producer's steps interleave.  It then decides what to present, at the   *)
(* instant tickNow that was read before the first poll.  A map view is     *)
(* abstracted to the sample, region and settings it is computed from and   *)
(* whether it has a player marker.                                         *)
(***************************************************************************)
EXTENDS PositionHandoff

CONSTANTS
  Regions,           \* map regions, each with its WorldToImageTransform
  Poses,             \* player poses (coordinates and heading)
  PoseOf,            \* PoseOf[p]: the pose payload p reports
  InRegion,          \* InRegion[r]: poses r's transform projects in bounds
  MapSize,           \* MapSize[r]: pixel size of r's raster
  MapSettings,          \* overlay settings
  MaxSettingsVersion,        \* bound on settings versions
  MaxEventsPerTick   \* MAX_EVENTS_PER_TICK

VARIABLES
  now,             \* the monotonic clock
  phase,           \* "idle"; "drain", "redrain": polling; "ticked", "reticked"
  tickNow,         \* the instant tick() was called with
  polled,          \* events polled by this tick; 0 is source_changed = false
  region,          \* world_to_image
  version,         \* the reducer's settings_version
  settings,        \* the reducer's settings
  frameKey,        \* last_frame_key
  frameView,       \* last_frame_view
  lastFreshness,   \* last_freshness, "None" before the first tick
  lastAvailable,   \* last_available: "None", "Yes" or "No"
  nextCheck,       \* next_freshness_check_ms, NoTime for None
  tick             \* the PreviewTick the last call returned

runtimeVars == <<region, version, settings, frameKey, frameView,
                 lastFreshness, lastAvailable, nextCheck>>
tickVars == <<phase, tickNow, polled, tick>>
previewVars == <<handoffVars, now, runtimeVars, tickVars>>

-----------------------------------------------------------------------------
NoKey == [generation |-> 0, version |-> 0, size |-> 0]
NoView == [center |-> "None", marker |-> FALSE]

Pose == PoseOf[position.payload]

View(r, marker) == [center |-> Pose, region |-> r, settings |-> settings,
                    marker |-> marker]

Unchanged == [kind |-> "Unchanged"]
MetadataChanged(f) == [kind |-> "MetadataChanged", freshness |-> f]
UnavailableTick(f) == [kind |-> "Unavailable", freshness |-> f]
Present(view, f) == [kind |-> "Present", freshness |-> f, view |-> view]

\* The runtime's fields when it is created for region r.
RuntimeInit(r, s) ==
  /\ region = r
  /\ version = 2
  /\ settings = s
  /\ frameKey = NoKey
  /\ frameView = NoView
  /\ lastFreshness = "None"
  /\ lastAvailable = "None"
  /\ nextCheck = NoTime

-----------------------------------------------------------------------------
(* Decisions of tick(), taken in the state the polling loop leaves.        *)

TickFreshness == Freshness(tickNow)

Available ==
  /\ HasTrustedPosition
  /\ Pose \in InRegion[region]
  /\ lastAvailable = "Yes" \/ TickFreshness # "Stale"

\* next_freshness_check_ms: when the current class ends, if it ever does.
NextFreshnessCheck ==
  LET age == AgeUpperBound(position, tickNow)
  IN  CASE TickFreshness = "Live" -> tickNow + (LiveLimit + 1 - age)
        [] TickFreshness = "Delayed" -> tickNow + (DelayedLimit + 1 - age)
        [] OTHER -> NoTime

Key(size) == [generation |-> position.generation, version |-> version,
              size |-> size]

\* The early return: nothing arrived, same raster, class not yet over.
NothingDue(size) ==
  /\ polled = 0
  /\ frameKey # NoKey /\ frameKey.size = size
  /\ nextCheck = NoTime \/ tickNow < nextCheck

TickUnavailable ==
  /\ ~Available
  /\ frameKey' = NoKey
  /\ frameView' = NoView
  /\ nextCheck' = NoTime
  /\ lastAvailable' = "No"
  /\ lastFreshness' = TickFreshness
  /\ tick' = IF lastAvailable # "No" \/ lastFreshness # TickFreshness
               THEN UnavailableTick(TickFreshness) ELSE Unchanged

TickIdle(size) ==
  /\ Available
  /\ NothingDue(size)
  /\ lastAvailable' = "Yes"
  /\ tick' = Unchanged
  /\ UNCHANGED <<frameKey, frameView, lastFreshness, nextCheck>>

\* Mutant: the last view is presented again with its marker.
TickAgedKeepsMarker(size) ==
  /\ Available
  /\ ~NothingDue(size)
  /\ polled = 0 /\ frameKey = Key(size)
  /\ lastAvailable' = "Yes"
  /\ nextCheck' = NextFreshnessCheck
  /\ lastFreshness' = TickFreshness
  /\ tick' = IF lastFreshness = TickFreshness
               THEN Unchanged ELSE Present(frameView, TickFreshness)
  /\ UNCHANGED <<frameKey, frameView>>

\* Nothing arrived, but the freshness class may have changed.
TickAged(size) ==
  /\ Available
  /\ ~NothingDue(size)
  /\ polled = 0 /\ frameKey = Key(size)
  /\ lastAvailable' = "Yes"
  /\ nextCheck' = NextFreshnessCheck
  /\ lastFreshness' = TickFreshness
  /\ IF lastFreshness # TickFreshness /\ TickFreshness = "Stale"
       THEN LET bare == [frameView EXCEPT !.marker = FALSE]
            IN  /\ frameView' = bare
                /\ tick' = Present(bare, TickFreshness)
       ELSE /\ tick' = IF lastFreshness = TickFreshness
                         THEN Unchanged ELSE MetadataChanged(TickFreshness)
            /\ UNCHANGED frameView
  /\ UNCHANGED frameKey

\* A new sample, new settings or another raster: compute the view.
TickRendered(size) ==
  LET view == View(region, TickFreshness # "Stale")
  IN  /\ Available
      /\ ~NothingDue(size)
      /\ polled # 0 \/ frameKey # Key(size)
      /\ lastAvailable' = "Yes"
      /\ nextCheck' = NextFreshnessCheck
      /\ lastFreshness' = TickFreshness
      /\ frameKey' = Key(size)
      /\ frameView' = view
      /\ tick' = IF frameKey # Key(size) \/ frameView # view
                   THEN Present(view, TickFreshness)
                 ELSE IF lastFreshness # TickFreshness
                   THEN MetadataChanged(TickFreshness)
                 ELSE Unchanged

-----------------------------------------------------------------------------
(* tick()                                                                  *)

BeginTick ==
  /\ phase' = "drain"
  /\ tickNow' = now
  /\ polled' = 0

\* One turn of the polling loop.
PollOne ==
  /\ phase \in {"drain", "redrain"}
  /\ polled < MaxEventsPerTick
  /\ Deliver
  /\ polled' = polled + 1
  /\ UNCHANGED <<now, runtimeVars, phase, tickNow, tick>>

\* The loop ends on an empty inbox or at its limit; tick() then returns.
FinishTick(size) ==
  /\ phase \in {"drain", "redrain"}
  /\ NextEvent = NoEvent \/ polled = MaxEventsPerTick
  /\ \/ TickUnavailable
     \/ TickIdle(size)
     \/ TickAged(size)
     \/ TickRendered(size)
  /\ phase' = IF phase = "drain" THEN "ticked" ELSE "reticked"
  /\ UNCHANGED <<handoffVars, now, region, version, settings, tickNow, polled>>

(* apply_settings and select_world_to_image                                *)

ApplySettings(v, s) ==
  /\ v > version
  /\ version' = v
  /\ settings' = s
  /\ nextCheck' = 0

SelectWorldToImage(r) ==
  /\ region' = r
  /\ frameKey' = NoKey
  /\ frameView' = NoView
  /\ lastAvailable' = "None"
  /\ nextCheck' = 0
  /\ UNCHANGED <<version, settings, lastFreshness>>

-----------------------------------------------------------------------------
(* Queries                                                                 *)

\* last_live_world_pose is Some
LastLivePose ==
  HasTrustedPosition /\ lastFreshness \in {"Live", "Delayed"}

\* last_live_tracking_view
LastLiveTrackingView == IF LastLivePose THEN frameView ELSE NoView

(* PreviewVisibilityGate::update: what the gate requests after a tick.     *)
GateAfter(gate, t) ==
  CASE t.kind = "Unchanged" -> gate
    [] t.kind = "Present" -> TRUE
    [] t.kind = "MetadataChanged" -> t.freshness \in {"Live", "Delayed"}
    [] t.kind = "Unavailable" -> FALSE

=============================================================================
