----------------------------- MODULE MCOverlay -----------------------------
(***************************************************************************)
(* The overlay, one component at a time: its loop over the map preview     *)
(* runtime, the window host with the tracking of the game's window, the    *)
(* global hotkeys, and the binding to a game process whose memory may be   *)
(* read. The components share no variable; every behaviour observes one of *)
(* them.                                                                   *)
(***************************************************************************)
EXTENDS OverlayLoop, OverlayHost, ProcessBinding, TLC

\* The components a run observes.
CONSTANT Parts

VARIABLE part    \* the component this behaviour observes

\* One pose in each region.  Samples of the west pose arrive Live and become
\* Delayed, those of the east pose arrive Delayed and become Stale.
LoopAge == ("west" :> 0) @@ ("east" :> 1)
LoopPose == ("west" :> "w") @@ ("east" :> "e")
LoopRegion == ("A" :> {"w"}) @@ ("B" :> {"e"})
LoopSelect == ("w" :> "A") @@ ("e" :> "B")
LoopSize == ("A" :> 1) @@ ("B" :> 1)
\* A window in front, behind, minimized (in front or not, with or without an
\* area), hidden, and one without an area.
Look(v, m, f, e) ==
  [pid |-> "p1", visible |-> v, minimized |-> m, foreground |-> f, empty |-> e]
Looks == {Look(TRUE, FALSE, TRUE, FALSE), Look(TRUE, FALSE, FALSE, FALSE),
          Look(TRUE, TRUE, FALSE, TRUE), Look(TRUE, TRUE, TRUE, FALSE),
          Look(FALSE, FALSE, FALSE, FALSE), Look(TRUE, FALSE, TRUE, TRUE),
          [Look(TRUE, FALSE, FALSE, FALSE) EXCEPT !.pid = "p2"]}
\* Three of the four actions and two chords, so that chords are swapped and
\* duplicated.
MCActions == <<"OverlayVisibility", "RotationToggle", "TemporaryInteraction">>

OneBoot == "b1" :> {1, 2}

\* A component that is not observed is idle from the start.
IdleAtFirst ==
  /\ IF part = "loop" THEN TRUE ELSE OverlayInit /\ loopSettings = "mini"
  /\ IF part = "host" THEN TRUE ELSE HostInit
  /\ IF part = "hotkeys" THEN TRUE ELSE HotkeysInit
  /\ IF part = "binding" THEN TRUE ELSE BindingInit /\ image.build = Profile
StaysIdle ==
  /\ part' = part
  /\ IF part = "loop" THEN TRUE ELSE UNCHANGED overlayVars
  /\ IF part = "host" THEN TRUE ELSE UNCHANGED hostVars
  /\ IF part = "hotkeys" THEN TRUE ELSE UNCHANGED hotkeysVars
  /\ IF part = "binding" THEN TRUE ELSE UNCHANGED bindingVars

OverlayStarts == part = "loop" /\ OverlayInit
OverlayRuns == part = "loop" /\ OverlayNext /\ StaysIdle

HostStarts == part = "host" /\ HostInit
HostRuns == part = "host" /\ HostNext /\ StaysIdle

HotkeysStarts == part = "hotkeys" /\ HotkeysInit
HotkeysRuns == part = "hotkeys" /\ HotkeysNext /\ StaysIdle

BindingStarts == part = "binding" /\ BindingInit
BindingRuns == part = "binding" /\ BindingNext /\ StaysIdle

Init ==
  /\ part \in Parts
  /\ \/ OverlayStarts
     \/ HostStarts
     \/ HotkeysStarts
     \/ BindingStarts
  /\ IdleAtFirst

Next ==
  \/ OverlayRuns
  \/ HostRuns
  \/ HotkeysRuns
  \/ BindingRuns

vars == <<part, overlayVars, hostVars, hotkeysVars, bindingVars>>

Spec == Init /\ [][Next]_vars

\* The overlay's loop runs until the process ends; nothing forces the producer,
\* the user or the game to act.
FairSpec == Spec /\ WF_overlayVars(part = "loop" /\ (NoInput \/ LoopStep))
=============================================================================
