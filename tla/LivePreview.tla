----------------------------- MODULE LivePreview -----------------------------
(***************************************************************************)
(* The overlay on a remote agent's positions: run_live_agent_preview of    *)
(* crates/pal-overlay-win/src/bin/pal-overlay.rs and the supervisor of its *)
(* network thread, crates/pal-overlay-win/src/live_agent_runtime.rs.       *)
(*                                                                         *)
(* The loop follows the game window, ticks the map runtime of MapPreview   *)
(* while a window is verified, and ends with its network thread or with    *)
(* its own window.  Unlike OverlayLoop it keeps one runtime for all game   *)
(* windows.  The network thread's protocol is TelemetrySession's; here it  *)
(* publishes until it returns.                                             *)
(***************************************************************************)
EXTENDS MapPreview, TLAPS

CONSTANTS
  Windows,       \* the game's processes
  NoWindow,
  TheRegion      \* authoritative_main_map_world_to_image

VARIABLES
  main,          \* "waiting" for the game, "loop", "stopping", "exited"
  window,        \* the game window the tracker last reported
  bound,         \* verified_client
  gate,          \* PreviewVisibilityGate.requested_visible
  visible,       \* the overlay's requested visibility
  surface,       \* the view drawn last, NoView for an empty surface
  positionLive,  \* the position-live signal
  thread,        \* the network thread: "none", "running", "sent", "ended"
  result,        \* what it sent: "ok" or "error"
  cancelled,     \* the cancellation channel
  exit           \* what the overlay returned

supervisorVars == <<thread, result, cancelled>>
shownVars == <<gate, visible, surface, positionLive>>
liveVars == <<main, window, bound, shownVars, supervisorVars, exit>>
allVars == <<previewVars, liveVars>>

LiveInit ==
  /\ HandoffInit
  /\ now = 0 /\ tickNow = 0 /\ phase = "idle" /\ polled = 0 /\ tick = Unchanged
  /\ \E s \in MapSettings : RuntimeInit(TheRegion, s)
  /\ main = "waiting" /\ window = NoWindow /\ bound = NoWindow
  /\ gate = FALSE /\ visible = FALSE /\ surface = NoView /\ positionLive = FALSE
  /\ thread = "none" /\ result = "none" /\ cancelled = FALSE /\ exit = "none"

-----------------------------------------------------------------------------
(* The network thread of start_live_agent, and time *)

Produce ==
  /\ thread = "running"
  /\ \/ \E g \in Generations : Connect(g)
     \/ \E frame \in Frames : PublishPosition(frame, now)
     \/ \E g \in Generations : Unavailable(g) \/ Disconnect(g) \/ ClockInvalid(g)
  /\ UNCHANGED <<reducerVars, now, runtimeVars, tickVars, liveVars>>

\* run_until_cancelled returns: cancelled, or with an error that ends it.
NetworkReturns ==
  /\ thread = "running"
  /\ \/ cancelled /\ result' = "ok"
     \/ result' = "error"
  /\ thread' = "sent"
  /\ UNCHANGED <<previewVars, main, window, bound, shownVars, cancelled, exit>>

ThreadEnds ==
  /\ thread = "sent" /\ thread' = "ended"
  /\ UNCHANGED <<previewVars, main, window, bound, shownVars, result, cancelled, exit>>

Elapse ==
  /\ main = "loop" /\ now + 1 \in Times /\ now' = now + 1
  /\ UNCHANGED <<handoffVars, runtimeVars, tickVars, liveVars>>

-----------------------------------------------------------------------------
(* The supervisor *)

\* Drop for LiveAgentSupervisor: cancels and does not wait.
DropSupervisor == cancelled' = (cancelled \/ thread # "none") /\ UNCHANGED <<thread, result>>

\* cancel_and_join_bounded: the cancellation, then the bounded wait.
BeginShutdown ==
  /\ main' = "stopping" /\ cancelled' = TRUE
  /\ UNCHANGED <<window, bound, shownVars, thread, result, exit>>

\* The completion arrived in time; a thread that has not ended yet is reaped.
LiveShutdownCompletes ==
  /\ main = "stopping" /\ thread \in {"sent", "ended"}
  /\ main' = "exited" /\ exit' = result
  /\ UNCHANGED <<previewVars, window, bound, shownVars, supervisorVars>>

\* 400 ms have passed: the thread is left to the reaper.
ShutdownOverruns ==
  /\ main = "stopping" /\ thread = "running"
  /\ main' = "exited" /\ exit' = "timeout"
  /\ UNCHANGED <<previewVars, window, bound, shownVars, supervisorVars>>

-----------------------------------------------------------------------------
(* Window events *)

\* Mutant: the overlay is not hidden.
ResetSurface == gate' = FALSE /\ surface' = NoView /\ UNCHANGED <<visible, positionLive>>
\* reset_live_preview_session; the health signal is left alone.
ResetSession == visible' = FALSE /\ surface' = NoView /\ gate' = FALSE /\ UNCHANGED positionLive

\* Verification fails: the function returns the error.
Abort ==
  /\ main' = "exited" /\ exit' = "unverified" /\ phase' = "idle" /\ DropSupervisor
  /\ UNCHANGED <<bound, tickNow, polled>>

StartTick(b) == IF b # NoWindow THEN BeginTick ELSE phase' = "ticked" /\ UNCHANGED <<tickNow, polled>>

\* Before the loop: the first verified client starts the agent's thread.
FirstAttach(w, verified) ==
  /\ main = "waiting"
  /\ window' = w
  /\ IF verified
     THEN /\ bound' = w /\ main' = "loop" /\ thread' = "running"
          /\ UNCHANGED <<exit, result, cancelled, phase, tickNow, polled>>
     ELSE Abort
  /\ UNCHANGED <<handoffVars, now, runtimeVars, tick, shownVars>>

\* Attached, or Changed, with client_binding_matches and attach_verified_live_preview.
WindowSeen(w, verified) ==
  /\ main = "loop" /\ phase = "idle"
  /\ window' = w /\ tick' = Unchanged
  /\ IF bound = w
     THEN UNCHANGED <<main, exit, supervisorVars, bound, shownVars>> /\ BeginTick
     ELSE /\ ResetSession
          /\ IF verified
             THEN bound' = w /\ BeginTick /\ UNCHANGED <<main, exit, supervisorVars>>
             ELSE Abort
  /\ UNCHANGED <<handoffVars, now, runtimeVars>>

WindowLost ==
  /\ main = "loop" /\ phase = "idle" /\ window # NoWindow
  /\ window' = NoWindow /\ bound' = NoWindow
  /\ ResetSession
  /\ tick' = Unchanged /\ StartTick(NoWindow)
  /\ UNCHANGED <<handoffVars, now, runtimeVars, main, exit, supervisorVars>>

NoWindowEvent ==
  /\ main = "loop" /\ phase = "idle"
  /\ tick' = Unchanged /\ StartTick(bound)
  /\ UNCHANGED <<handoffVars, now, runtimeVars, liveVars>>

\* The overlay's own window was closed, before or after the start.
CloseEarly ==
  /\ main = "waiting" /\ main' = "exited" /\ exit' = "closed"
  /\ UNCHANGED <<previewVars, window, bound, shownVars, supervisorVars>>
CloseRequested ==
  /\ main = "loop" /\ phase = "idle"
  /\ BeginShutdown
  /\ UNCHANGED previewVars

-----------------------------------------------------------------------------
(* The rest of an iteration *)

LivePoll == PollOne /\ UNCHANGED liveVars
LiveTick == FinishTick(MapSize[TheRegion]) /\ UNCHANGED liveVars

\* The frame, the visibility gate, the signal and the test of the thread.
PresentTick ==
  /\ phase = "ticked" /\ main = "loop" /\ phase' = "idle"
  /\ surface' = IF tick.kind = "Present" THEN tick.view ELSE surface
  /\ gate' = GateAfter(gate, tick)
  /\ IF gate' # gate THEN visible' = gate' /\ positionLive' = gate' ELSE UNCHANGED <<visible, positionLive>>
  /\ IF thread = "ended" THEN main' = "stopping" /\ cancelled' = TRUE ELSE UNCHANGED <<main, cancelled>>
  /\ UNCHANGED <<handoffVars, now, runtimeVars, tickNow, polled, tick, window, bound, thread, result, exit>>

LoopStep ==
  \/ \E w \in Windows, v \in BOOLEAN : WindowSeen(w, v)
  \/ WindowLost \/ NoWindowEvent \/ LivePoll \/ LiveTick \/ PresentTick

LiveNext ==
  \/ Produce \/ NetworkReturns \/ ThreadEnds \/ Elapse
  \/ \E w \in Windows, v \in BOOLEAN : FirstAttach(w, v)
  \/ CloseEarly \/ LoopStep \/ CloseRequested \/ LiveShutdownCompletes \/ ShutdownOverruns

LiveSpec == LiveInit /\ [][LiveNext]_allVars

\* The loop sleeps one frame between two iterations and never blocks; the wait
\* of shutdown is bounded.
FairLiveSpec ==
  /\ LiveSpec
  /\ WF_allVars(LoopStep) /\ WF_allVars(LiveShutdownCompletes \/ ShutdownOverruns)

-----------------------------------------------------------------------------
(* Properties *)

AtRest == main = "loop" /\ phase = "idle"

\* The overlay shows only over the verified game and only while the position is
\* trusted, whatever the order of window events and of the agent's messages.
ShownOverVerified ==
  AtRest /\ visible => bound = window /\ bound # NoWindow /\ HasTrustedPosition

\* A clean return means that the network thread has given its result: the
\* credentials it holds are released, or about to be, and no session is open.
OkMeansStopped == exit = "ok" => thread \in {"sent", "ended"} /\ result = "ok"

\* What the overlay shows and what it returns can be relied on.
LivePreviewIsTrusted == ShownOverVerified /\ OkMeansStopped

-----------------------------------------------------------------------------
(* The inductive invariant *)

\* The loop follows one window and ticks only over a verified one.
LoopIsBound ==
  /\ main = "loop" => bound = window /\ bound \in Windows \cup {NoWindow}
  /\ phase # "idle" => main = "loop" /\ phase \in {"drain", "ticked"}
  /\ phase = "drain" => bound # NoWindow
  /\ phase = "ticked" => tick.kind \in {"Unchanged", "Present", "MetadataChanged", "Unavailable"}
  /\ visible = gate /\ gate \in BOOLEAN
  /\ main = "waiting" => ~gate

\* Between two ticks an open gate stands for a trusted position; after a tick
\* it will, once the tick has been presented.
GateIsBacked ==
  /\ main = "loop" /\ gate => bound # NoWindow
  /\ main = "loop" /\ gate /\ phase # "ticked" => lastAvailable = "Yes"
  /\ main = "loop" /\ gate /\ phase = "idle" => HasTrustedPosition
  /\ phase = "ticked" =>
       \/ HasTrustedPosition /\ lastAvailable = "Yes" /\ bound # NoWindow
       \/ tick.kind = "Unavailable"
       \/ ~gate /\ tick.kind = "Unchanged"

\* Who returned has its thread's result.
ExitIsLast ==
  /\ exit = "ok" => main = "exited"
  /\ OkMeansStopped

LiveInv == LoopIsBound /\ GateIsBacked /\ ExitIsLast

\* No window has the handle that stands for none.
NoWindowIsNone == NoWindow \notin Windows

-----------------------------------------------------------------------------
(* Proofs, for every set of windows, settings and events                   *)

LEMMA LiveStarts == ASSUME LiveInit PROVE LiveInv
BY DEF LiveInit, LiveInv, LoopIsBound, GateIsBacked, ExitIsLast, OkMeansStopped

\* The network thread, time, and the end of the overlay.
LEMMA OutsideKeeps ==
  ASSUME LiveInv,
         \/ Produce \/ NetworkReturns \/ ThreadEnds \/ Elapse
         \/ CloseEarly \/ CloseRequested \/ LiveShutdownCompletes \/ ShutdownOverruns
  PROVE  LiveInv'
<1>1. UNCHANGED <<reducerVars, runtimeVars, tickVars, window, bound, shownVars>>
  BY DEF Produce, NetworkReturns, ThreadEnds, Elapse, CloseEarly, CloseRequested, BeginShutdown,
     LiveShutdownCompletes, ShutdownOverruns, previewVars, liveVars, handoffVars
<1>2. UNCHANGED <<rConnected, clockValid, position, lastAvailable, phase, tick, window, bound,
                  gate, visible>>
  BY <1>1 DEF reducerVars, runtimeVars, tickVars, shownVars
<1>3. HasTrustedPosition' <=> HasTrustedPosition
  BY <1>2 DEF HasTrustedPosition
<1>4. main' = main \/ (main' \in {"stopping", "exited"} /\ phase = "idle")
  <2>1. CASE Produce \/ NetworkReturns \/ ThreadEnds \/ Elapse
    BY <2>1 DEF Produce, NetworkReturns, ThreadEnds, Elapse, liveVars
  <2>2. CASE CloseRequested
    BY <2>2 DEF CloseRequested, BeginShutdown
  <2>3. CASE CloseEarly \/ LiveShutdownCompletes \/ ShutdownOverruns
    BY <2>3 DEF CloseEarly, LiveShutdownCompletes, ShutdownOverruns, LiveInv, LoopIsBound
  <2> QED
    BY <2>1, <2>2, <2>3
<1>5. LoopIsBound'
  BY <1>2, <1>4 DEF LiveInv, LoopIsBound
<1>6. GateIsBacked'
  BY <1>2, <1>3, <1>4 DEF LiveInv, GateIsBacked
<1>7. ExitIsLast'
  BY DEF LiveInv, ExitIsLast, OkMeansStopped, Produce, NetworkReturns, ThreadEnds, Elapse,
     CloseEarly, CloseRequested, BeginShutdown, LiveShutdownCompletes, ShutdownOverruns, liveVars,
     supervisorVars
<1> QED
  BY <1>5, <1>6, <1>7 DEF LiveInv

\* The first window.
LEMMA FirstAttachKeeps ==
  ASSUME NoWindowIsNone, LiveInv, NEW w \in Windows, NEW v \in BOOLEAN, FirstAttach(w, v)
  PROVE  LiveInv'
<1>1. /\ main = "waiting" /\ phase = "idle" /\ ~gate /\ exit # "ok" /\ window' = w
      /\ UNCHANGED <<gate, visible>>
  BY DEF FirstAttach, LiveInv, LoopIsBound, ExitIsLast, shownVars
<1>2. phase' = "idle" /\ (main' = "exited" \/ (main' = "loop" /\ bound' = w)) /\ exit' # "ok"
  BY <1>1 DEF FirstAttach, Abort
<1> QED
  BY <1>1, <1>2 DEF LiveInv, LoopIsBound, GateIsBacked, ExitIsLast, OkMeansStopped

\* A window event and the start of the tick that follows it.
LEMMA WindowKeeps ==
  ASSUME NoWindowIsNone, LiveInv,
         WindowLost \/ NoWindowEvent \/ \E w \in Windows, v \in BOOLEAN : WindowSeen(w, v)
  PROVE  LiveInv'
<1> USE DEF LiveInv
<1>1. /\ main = "loop" /\ phase = "idle" /\ exit # "ok" /\ UNCHANGED <<reducerVars, lastAvailable>>
      /\ bound = window /\ bound \in Windows \cup {NoWindow} /\ visible = gate /\ gate \in BOOLEAN
  BY DEF WindowLost, NoWindowEvent, WindowSeen, handoffVars, runtimeVars, LoopIsBound, ExitIsLast
<1>2. HasTrustedPosition' <=> HasTrustedPosition
  BY <1>1 DEF HasTrustedPosition, reducerVars
<1>3. CASE main' = "exited"
  <2>1. phase' = "idle" /\ gate' = FALSE /\ visible' = FALSE /\ exit' = "unverified"
    BY <1>1, <1>3 DEF WindowLost, NoWindowEvent, WindowSeen, ResetSession, Abort, liveVars
  <2> QED
    BY <1>3, <2>1 DEF LoopIsBound, GateIsBacked, ExitIsLast, OkMeansStopped
<1>4. CASE main' # "exited"
  <2>1. /\ main' = "loop" /\ exit' = exit /\ bound' = window' /\ bound' \in Windows \cup {NoWindow}
        /\ \/ gate' = gate /\ visible' = visible /\ bound' = bound
           \/ gate' = FALSE /\ visible' = FALSE
        /\ \/ phase' = "drain" /\ bound' # NoWindow
           \/ phase' = "ticked" /\ bound' = NoWindow
        /\ tick' = Unchanged
    <3>1. CASE WindowLost
      BY <1>1, <3>1 DEF WindowLost, ResetSession, StartTick
    <3>2. CASE NoWindowEvent
      BY <1>1, <3>2 DEF NoWindowEvent, StartTick, BeginTick, liveVars, shownVars
    <3>3. CASE \E w \in Windows, v \in BOOLEAN : WindowSeen(w, v)
      <4>1. PICK w \in Windows, v \in BOOLEAN : WindowSeen(w, v)
        BY <3>3
      <4>2. w # NoWindow
        BY DEF NoWindowIsNone
      <4> QED
        BY <1>1, <1>4, <4>1, <4>2 DEF WindowSeen, ResetSession, BeginTick, Abort, shownVars
    <3> QED
      BY <3>1, <3>2, <3>3
  <2>2. gate' => gate /\ bound' = bound
    BY <2>1
  <2>3. LoopIsBound'
    BY <1>1, <2>1 DEF LoopIsBound, Unchanged
  <2>4. gate => bound # NoWindow /\ lastAvailable = "Yes"
    BY <1>1 DEF GateIsBacked
  <2>5. GateIsBacked'
    BY <1>1, <2>1, <2>2, <2>4 DEF GateIsBacked, Unchanged
  <2> QED
    BY <1>1, <2>1, <2>3, <2>5 DEF ExitIsLast, OkMeansStopped
<1> QED
  BY <1>3, <1>4

\* The events of a tick change what is trusted; the gate waits for the tick.
LEMMA LivePollKeeps ==
  ASSUME LiveInv, LivePoll
  PROVE  LiveInv'
<1>1. /\ phase \in {"drain", "redrain"} /\ UNCHANGED <<phase, tick, lastAvailable>>
      /\ UNCHANGED <<main, window, bound, gate, visible, thread, result, exit>>
  BY DEF LivePoll, PollOne, runtimeVars, liveVars, shownVars, supervisorVars
<1> QED
  BY <1>1 DEF LiveInv, LoopIsBound, GateIsBacked, ExitIsLast, OkMeansStopped

\* A tick that finds no trusted position closes an open gate.
LEMMA LiveTickKeeps ==
  ASSUME LiveInv, LiveTick
  PROVE  LiveInv'
<1> DEFINE size == MapSize[TheRegion]
<1>1. /\ phase = "drain" /\ phase' = "ticked" /\ UNCHANGED reducerVars
      /\ UNCHANGED <<main, window, bound, gate, visible, thread, result, exit>>
      /\ TickUnavailable \/ TickIdle(size) \/ TickAged(size) \/ TickRendered(size)
  BY DEF LiveTick, FinishTick, handoffVars, liveVars, shownVars, supervisorVars, LiveInv, LoopIsBound
<1> HIDE DEF size
<1>2. HasTrustedPosition' <=> HasTrustedPosition
  BY <1>1 DEF HasTrustedPosition, reducerVars
<1>3. main = "loop" /\ bound # NoWindow /\ (gate => lastAvailable = "Yes")
  BY <1>1 DEF LiveInv, LoopIsBound, GateIsBacked
<1>4. tick'.kind \in {"Unchanged", "Present", "MetadataChanged", "Unavailable"}
  BY <1>1 DEF TickUnavailable, TickIdle, TickAged, TickRendered, Unchanged, UnavailableTick,
     MetadataChanged, Present
<1>5. \/ HasTrustedPosition /\ lastAvailable' = "Yes"
      \/ tick'.kind = "Unavailable"
      \/ ~gate /\ tick'.kind = "Unchanged"
  <2>1. CASE TickUnavailable
    BY <1>3, <2>1 DEF TickUnavailable, UnavailableTick, Unchanged
  <2>2. CASE ~TickUnavailable
    BY <1>1, <2>2 DEF TickIdle, TickAged, TickRendered, Available
  <2> QED
    BY <2>1, <2>2
<1>6. LoopIsBound'
  BY <1>1, <1>3, <1>4 DEF LiveInv, LoopIsBound
<1>7. GateIsBacked'
  BY <1>1, <1>2, <1>3, <1>5 DEF LiveInv, GateIsBacked
<1> QED
  BY <1>1, <1>6, <1>7 DEF LiveInv, ExitIsLast, OkMeansStopped

LEMMA PresentTickKeeps ==
  ASSUME LiveInv, PresentTick
  PROVE  LiveInv'
<1> USE DEF LiveInv
<1>1. /\ phase = "ticked" /\ main = "loop" /\ phase' = "idle" /\ main' \in {"loop", "stopping"}
      /\ UNCHANGED <<reducerVars, lastAvailable, tick, window, bound, thread, result, exit>>
      /\ gate' = GateAfter(gate, tick)
  BY DEF PresentTick, handoffVars, runtimeVars
<1>2. /\ tick.kind \in {"Unchanged", "Present", "MetadataChanged", "Unavailable"}
      /\ gate \in BOOLEAN /\ visible = gate
  BY <1>1 DEF LoopIsBound
<1>3. gate' \in BOOLEAN /\ (tick.kind = "Unavailable" => ~gate') /\ (tick.kind = "Unchanged" => gate' = gate)
  <2>1. CASE tick.kind = "Unchanged"
    BY <1>1, <1>2, <2>1 DEF GateAfter
  <2>2. CASE tick.kind = "Present"
    BY <1>1, <1>2, <2>2 DEF GateAfter
  <2>3. CASE tick.kind = "MetadataChanged"
    <3>1. gate' = (tick.freshness \in {"Live", "Delayed"})
      BY <1>1, <2>3 DEF GateAfter
    <3> QED
      BY <2>3, <3>1
  <2>4. CASE tick.kind = "Unavailable"
    BY <1>1, <1>2, <2>4 DEF GateAfter
  <2> QED
    BY <1>2, <2>1, <2>2, <2>3, <2>4
<1>4. visible' = gate'
  BY <1>2 DEF PresentTick
<1>5. HasTrustedPosition' <=> HasTrustedPosition
  BY <1>1 DEF HasTrustedPosition, reducerVars
<1>6. LoopIsBound'
  BY <1>1, <1>3, <1>4 DEF LoopIsBound
<1>7. GateIsBacked'
  BY <1>1, <1>3, <1>5 DEF GateIsBacked
<1> QED
  BY <1>1, <1>6, <1>7 DEF ExitIsLast, OkMeansStopped

\* A step of the loop, of the network thread or of the user.
THEOREM LiveInvariant == ASSUME NoWindowIsNone PROVE LiveSpec => []LiveInv
<1>1. LiveInit => LiveInv
  BY LiveStarts
<1>2. LiveInv /\ [LiveNext]_allVars => LiveInv'
  <2>1. LiveInv /\ UNCHANGED allVars => LiveInv'
    BY DEF LiveInv, LoopIsBound, GateIsBacked, ExitIsLast, OkMeansStopped, HasTrustedPosition,
       allVars, previewVars, liveVars, handoffVars, reducerVars, runtimeVars, tickVars, shownVars,
       supervisorVars
  <2>2. LiveInv /\ LiveNext => LiveInv'
    BY OutsideKeeps, FirstAttachKeeps, WindowKeeps, LivePollKeeps, LiveTickKeeps, PresentTickKeeps
       DEF LiveNext, LoopStep
  <2> QED
    BY <2>1, <2>2
<1> QED
  BY <1>1, <1>2, PTL DEF LiveSpec

\* Whatever the order of window events and of the agent's messages, the
\* preview of pal-overlay.rs is visible only over the verified game window
\* and over a trusted position, and a clean return means that the network
\* thread of live_agent_runtime.rs has given its result.
THEOREM LivePreviewAlwaysTrusted == ASSUME NoWindowIsNone PROVE LiveSpec => []LivePreviewIsTrusted
<1>1. LiveInv => LivePreviewIsTrusted
  BY DEF LiveInv, LoopIsBound, GateIsBacked, ExitIsLast, LivePreviewIsTrusted, ShownOverVerified,
     AtRest
<1> QED
  BY <1>1, LiveInvariant, PTL

=============================================================================
