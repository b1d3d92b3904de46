---------------------------- MODULE MCFullscreen ----------------------------
(***************************************************************************)
(* The fullscreen path, one component at a time: the shared-memory frames  *)
(* between overlay and renderer, the mailbox in the other direction        *)
(* (drags, and buttons with the catalogue), the capture of the player's    *)
(* input, the attachment of the renderer to a game, and the pump that      *)
(* reads the local position (its reads of a changing game, and its         *)
(* cadence). The components share no variable; every behaviour observes    *)
(* one of them.                                                            *)
(***************************************************************************)
EXTENDS RendererAttach, FrameBridge, FullscreenInteraction, ConsumerMailbox,
        LocalPositionPump, TLC

\* The components a run observes.
CONSTANT Parts
CONSTANT Changes    \* changes of the game's memory while the pump reads

VARIABLE part    \* the component this behaviour observes

\* A sample that is rounded and one that is not, in opposite directions
MCDragLengths == {-3, 4}

\* The mailbox with buttons and the catalogue instead of drags.
Buttons == INSTANCE ConsumerMailbox WITH
    MaxButtons <- 1, MaxModes <- 1, MaxDrags <- 0, MaxRecenters <- 2,
    MaxSelections <- 1, MaxHostStarts <- 1

\* The pump in a game whose memory changes, instead of its cadence.
Pump == INSTANCE LocalPositionPump WITH
    Objects <- {"o1", "o2", "o3"}, Interval <- 1, Lateness <- 0, MaxTime <- 2,
    MaxChanges <- Changes, MaxSamples <- 2

\* A component that is not observed is idle from the start.
IdleAtFirst ==
  /\ IF part = "frames" THEN TRUE ELSE FrameInit
  /\ IF part \in {"drags", "buttons"} THEN TRUE ELSE MailboxInit
  /\ IF part = "capture" THEN TRUE ELSE
       /\ InteractionInit /\ cursor = "hidden"
       /\ overlay.mode = "locked" /\ ~overlay.expanded
  /\ IF part = "renderer" THEN TRUE ELSE AttachInit
  /\ IF part \in {"pump", "cadence"} THEN TRUE ELSE LocalInit
StaysIdle ==
  /\ part' = part
  /\ IF part = "frames" THEN TRUE ELSE UNCHANGED frameVars
  /\ IF part \in {"drags", "buttons"} THEN TRUE ELSE UNCHANGED mailboxVars
  /\ IF part = "capture" THEN TRUE ELSE UNCHANGED inputVars
  /\ IF part = "renderer" THEN TRUE ELSE UNCHANGED attachVars
  /\ IF part \in {"pump", "cadence"} THEN TRUE ELSE UNCHANGED localVars

FramesStarts == part = "frames" /\ FrameInit
FramesRuns == part = "frames" /\ FrameNext /\ StaysIdle

DragsStarts == part = "drags" /\ MailboxInit
DragsRuns == part = "drags" /\ MailboxNext /\ StaysIdle

ButtonsStarts == part = "buttons" /\ Buttons!MailboxInit
ButtonsRuns == part = "buttons" /\ Buttons!MailboxNext /\ StaysIdle

CaptureStarts == part = "capture" /\ InteractionInit
CaptureRuns == part = "capture" /\ InteractionNext /\ StaysIdle

RendererStarts == part = "renderer" /\ AttachInit
RendererRuns == part = "renderer" /\ AttachNext /\ StaysIdle

PumpStarts == part = "pump" /\ Pump!LocalInit
PumpRuns == part = "pump" /\ Pump!LocalNext /\ StaysIdle

CadenceStarts == part = "cadence" /\ LocalInit
CadenceRuns == part = "cadence" /\ LocalNext /\ StaysIdle

Init ==
  /\ part \in Parts
  /\ \/ FramesStarts
     \/ DragsStarts
     \/ ButtonsStarts
     \/ CaptureStarts
     \/ RendererStarts
     \/ PumpStarts
     \/ CadenceStarts
  /\ IdleAtFirst

Next ==
  \/ FramesRuns
  \/ DragsRuns
  \/ ButtonsRuns
  \/ CaptureRuns
  \/ RendererRuns
  \/ PumpRuns
  \/ CadenceRuns

vars == <<part, frameVars, mailboxVars, inputVars, attachVars, localVars>>

Spec == Init /\ [][Next]_vars

\* Each component's own scheduling: threads that are runnable run, time passes
\* for heartbeats and leases nobody renews, a running overlay renews its
\* heartbeat, the game renders, and a request in the pending cell, which is
\* made again until it is heard, is polled for in time again and again.
FramesFairly ==
  /\ WF_frameVars(part = "frames" /\ WriterStep)
  /\ WF_frameVars(part = "frames" /\ SyncConsumer)
  /\ WF_frameVars(part = "frames" /\ ReaderStep)
  /\ WF_frameVars(part = "frames" /\ BeforeRender)
  /\ WF_frameVars(part = "frames" /\ writer.pc = "down" /\ HeartAges)
  /\ WF_frameVars(part = "frames" /\ reader.pc = "gone" /\ LeaseAges)
ButtonsFairly ==
  /\ WF_mailboxVars(part = "buttons" /\ Buttons!TakeCatalog)
  /\ WF_mailboxVars(part = "buttons" /\ Buttons!BridgeStep)
  /\ WF_mailboxVars(part = "buttons" /\ Buttons!HostStep)
  /\ WF_mailboxVars(part = "buttons" /\ Buttons!Beat)
  /\ WF_mailboxVars(part = "buttons" /\ Buttons!StartHost)
CaptureFairness ==
  /\ WF_inputVars(part = "capture" /\ BeforeRenderInput)
  /\ WF_inputVars(part = "capture" /\ Tick)
  /\ WF_inputVars(part = "capture" /\ BridgePoll)
  /\ SF_inputVars(part = "capture" /\ BridgePoll /\ cells.mode # None /\ cells'.alive)
  /\ WF_inputVars(part = "capture" /\ OverlayApplies)
FairSpec ==
  /\ Spec
  /\ FramesFairly /\ ButtonsFairly /\ CaptureFairness
  /\ WF_attachVars(part = "renderer" /\ ProbeStep)
  /\ \A t \in Threads : WF_attachVars(part = "renderer" /\ ThreadStep(t))
  /\ WF_localVars(part = "cadence" /\ WorkerSteps)

-----------------------------------------------------------------------------
\* The renderer never goes back to an earlier frame, a lane of the mailbox at
\* its limit never turns a drag round, a button press is not lost to a change
\* of mode that goes first, and a detection is not overwritten by the probe's
\* own progress.
NothingGoesBack ==
  /\ [][NewestWins]_frameVars
  /\ [][PanKeepsDirection]_mailboxVars
  /\ [][ButtonSubmitted]_mailboxVars
  /\ [][DetectionSurvives]_attachVars

\* Once nothing changes any more the screen is right: the map of a writer that
\* is gone disappears, the newest frame of one that rests is shown, the
\* overlay's own window comes back when the renderer is gone, a cursor that
\* stays hidden gives the input back, and an interactive map nobody asked for
\* is locked again or closed.
ScreenSettles ==
  /\ (<>[](\/ part = "frames" /\ writer.pc = "down"
           \/ part = "capture" /\ cursor = "hidden"))
       => <>[](\/ part = "frames" /\ loop.shown = NoFrame
               \/ part = "capture" /\ ~Capturing)
  /\ (<>[](part = "frames" /\ Settled))
       => <>[](part = "frames" /\
                 (mem.head = 0 \/ (loop.shown.head = mem.head /\ loop.shown.vis = mem.vis)))
  /\ (<>[](part = "frames" /\ reader.pc = "gone" /\ writer.pc = "idle"))
       => <>[](part = "frames" /\ ~suppressed)
  /\ (<>[](part = "capture" /\ overlay.mode = "interactive" /\ overlay.expanded /\ cells.alive))
       => []<>(part = "capture" /\ (Capturing \/ auth.phase = "awaiting"))

\* Every wait ends: a press of the recentre button is heard unless the writer
\* is lost, the probe leaves the game although its injector crashed, and a
\* stopped worker ends wherever in a sample it was.
Waits ==
  \/ part = "buttons" /\ ui.recenter
  \/ part = "renderer" /\ "probe" \in mods
  \/ part = "cadence" /\ worker.stop
Served ==
  \/ part = "buttons" /\ (host.pc = "drop" \/ ~ui.alive)
  \/ part = "renderer" /\ "probe" \notin mods
  \/ part = "cadence" /\ worker.pc = "ended"
WaitsEnd == Waits ~> Served
=============================================================================
