---------------------------- MODULE OverlayHost ----------------------------
(***************************************************************************)
(* The overlay's window: the tracker that finds the game's window          *)
(* (pal-windows, tracker.rs), the controller that decides what the window  *)
(* should be (host_model.rs), the Win32 shell that makes it so, the frame  *)
(* published to the fullscreen bridge (win32_host.rs), and the handlers of *)
(* the overlay loop that call them (bin/pal-overlay.rs).  Each handler of  *)
(* the loop is one step; the game's windows change between any two.        *)
(*                                                                         *)
(* What the window shows is in MapPreview and OverlayLoop; here a plan is  *)
(* its input mode, display mode, visibility and the window it covers.      *)
(***************************************************************************)
EXTENDS Naturals, FiniteSets, Sequences, FiniteSetTheorems, TLAPS

CONSTANTS Windows,      \* handles of top-level windows of the game's image
          Observations, \* what the tracker may see of one: its process, and
                        \* whether it is visible, minimized, in the foreground
                        \* and of no area
          MaxFaults,    \* Win32 calls that fail
          NoWindow

VARIABLES screen,       \* [window -> its state, or NoWindow when it is gone]
          gameWindow,   \* the tracker's window, NoWindow or a snapshot
          fresh,        \* nothing changed on the screen since the last poll
          host,         \* controller, shell window and published frame
          hostSettings, controlConnected,
          mapApplied,   \* map_surface_applied of the loop
          positionFit,  \* the position is fit to be shown, as of the last tick
          faults, ended

hostVars == <<screen, gameWindow, fresh, host, hostSettings, controlConnected,
          mapApplied, positionFit, faults, ended>>

HostSettings == [enabled : BOOLEAN, input : {"locked", "interactive"},
             display : {"mini", "expanded"}]

NoPlan == [input |-> "none", display |-> "none", visible |-> FALSE, over |-> NoWindow]

HostInit ==
  /\ screen = [w \in Windows |-> NoWindow]
  /\ gameWindow = NoWindow /\ fresh = FALSE
  /\ host = [lifecycle |-> "detached", input |-> "locked", display |-> "mini",
             requested |-> FALSE, attached |-> NoWindow, over |-> NoWindow, plan |-> NoPlan,
             shown |-> FALSE, transparent |-> TRUE, hit |-> "locked",
             suppressed |-> FALSE, surface |-> FALSE,
             frame |-> [visible |-> FALSE, input |-> "locked", display |-> "mini"],
             failing |-> FALSE, failed |-> FALSE]
  /\ hostSettings = [enabled |-> TRUE, input |-> "locked", display |-> "mini"]
  /\ controlConnected = FALSE /\ mapApplied = FALSE /\ positionFit = FALSE
  /\ faults = 0 /\ ended = FALSE

-----------------------------------------------------------------------------
\* The controller: operations on the host, which do nothing once one failed
\* (the handler returns at the failing call).

PlanOf(h) == [input |-> h.input, display |-> h.display,
              visible |-> h.lifecycle = "visible", over |-> h.over]

\* hide_fail_closed, and the state the controller falls back to.
FailClosed(h) ==
  [h EXCEPT !.failed = TRUE, !.plan = NoPlan, !.input = "locked", !.hit = "locked",
            !.shown = FALSE,
            !.lifecycle = IF h.attached = NoWindow THEN "detached" ELSE "hidden"]

\* apply_plan: the window's style, its place and visibility, the hit test.
SetExtendedStyle(h, transparent) == [h EXCEPT !.transparent = transparent]
Position(h, visible) == [h EXCEPT !.shown = visible]
ApplyPlan(h, plan) ==
  [Position(SetExtendedStyle(h, plan.input = "locked"), plan.visible /\ ~h.suppressed)
     EXCEPT !.plan = plan, !.hit = plan.input]

\* apply_current: an unchanged plan is not applied again.
ApplyCurrent(h) ==
  IF h.plan = PlanOf(h) THEN h
  ELSE IF h.failing THEN FailClosed(h) ELSE ApplyPlan(h, PlanOf(h))

\* A window without the transparent style, or a hit test that answers for it.
TakesMouse(h) == h.shown /\ (~h.transparent \/ h.hit # "locked")

Visible(h) == h.lifecycle = "visible"
Suspended(h) == h.lifecycle \in {"minimized", "inactive"}

PublishVisibility(h) ==
  IF h.failed THEN h ELSE [h EXCEPT !.frame.visible = Visible(h)]

PublishFrame(h) ==
  IF h.failed \/ ~h.surface THEN PublishVisibility(h)
  ELSE [h EXCEPT !.frame = [visible |-> Visible(h), input |-> h.hit, display |-> h.display]]

SetInputMode(h, mode) ==
  LET actual == IF Visible(h) THEN mode ELSE "locked"
  IN IF h.failed \/ h.input = actual THEN h
     ELSE ApplyCurrent([h EXCEPT !.input = actual])

HostSetInput(h, mode) == PublishFrame(SetInputMode(h, mode))

SetDisplayMode(h, mode) ==
  IF h.failed \/ h.display = mode THEN h ELSE ApplyCurrent([h EXCEPT !.display = mode])
HostSetDisplay(h, mode) == PublishFrame(SetDisplayMode(h, mode))

SetRequestedVisible(h, visible) ==
  IF h.failed \/ h.requested = visible THEN h
  ELSE IF h.attached = NoWindow THEN [h EXCEPT !.requested = visible]
  ELSE IF Suspended(h) THEN ApplyCurrent([h EXCEPT !.requested = visible, !.input = "locked"])
  ELSE IF visible THEN ApplyCurrent([h EXCEPT !.requested = TRUE, !.lifecycle = "visible"])
  ELSE ApplyCurrent([h EXCEPT !.requested = FALSE, !.input = "locked", !.lifecycle = "hidden"])
HostSetRequested(h, visible) == PublishVisibility(SetRequestedVisible(h, visible))

Attach(h, game) ==
  LET lifecycle == IF game.minimized THEN "minimized"
                   ELSE IF ~game.active \/ ~game.visible THEN "inactive"
                   ELSE IF h.requested THEN "visible" ELSE "hidden"
  IN IF h.failed THEN h
     ELSE ApplyCurrent([h EXCEPT !.attached = game.window, !.over = game.window,
                                 !.lifecycle = lifecycle,
                                 !.input = IF lifecycle = "visible" THEN @ ELSE "locked"])
HostAttach(h, game) == PublishVisibility(Attach(h, game))

Detach(h) ==
  IF h.failed \/ h.lifecycle = "detached" THEN h
  ELSE ApplyCurrent([h EXCEPT !.input = "locked", !.lifecycle = "detached",
                              !.attached = NoWindow])
HostDetach(h) == PublishVisibility(Detach(h))

\* A live consumer draws the overlay itself, so the window is hidden.
Suppress(h, active) ==
  IF h.suppressed = active THEN h
  ELSE [h EXCEPT !.suppressed = active, !.shown = Visible(h) /\ ~active]

-----------------------------------------------------------------------------
\* The tracker.

ValidCandidate(o) == o # NoWindow /\ o.visible /\ ~o.empty
ValidCurrent(o) == o # NoWindow /\ (o.visible \/ o.minimized) /\ (o.minimized \/ ~o.empty)

Snapshot(w) == [window |-> w, pid |-> screen[w].pid, active |-> screen[w].foreground,
                minimized |-> screen[w].minimized, visible |-> screen[w].visible]

\* A candidate in the foreground is preferred; areas and handles decide the rest.
BestCandidates ==
  LET cs == {w \in Windows : ValidCandidate(screen[w])}
      fs == {w \in cs : screen[w].foreground}
  IN IF fs # {} THEN fs ELSE cs

\* The tracker's next window: the current one while it stays valid and its
\* inspection succeeds, or a candidate, or none.
PollResults(inspected) ==
  IF /\ gameWindow # NoWindow /\ inspected
     /\ ValidCurrent(screen[gameWindow.window])
     /\ screen[gameWindow.window].pid = gameWindow.pid
  THEN {Snapshot(gameWindow.window)}
  ELSE IF BestCandidates = {} THEN {NoWindow} ELSE {Snapshot(w) : w \in BestCandidates}

-----------------------------------------------------------------------------
\* The loop's handlers.

\* A handler leaves the host as it computed it, or ends the loop at the
\* first Win32 call that fails.
Handle(result(_)) ==
  /\ ~ended
  /\ \E failing \in (IF faults < MaxFaults THEN BOOLEAN ELSE {FALSE}) :
       LET h == result([host EXCEPT !.failing = failing])
       IN /\ host' = [h EXCEPT !.failing = FALSE]
          /\ failing => h.failed
          /\ faults' = IF h.failed THEN faults + 1 ELSE faults
          /\ ended' = h.failed

InputFor(s, isConnected) == IF isConnected THEN s.input ELSE "locked"

\* Connected and SettingsApplied; the settings file's watcher delivers the
\* same settings without a connection.
ApplyHostSettings(s, viaControl) ==
  LET mode == IF viaControl THEN s.input ELSE InputFor(s, controlConnected)
      Result(h) == HostSetRequested(
                     PublishFrame(HostSetDisplay(HostSetInput(h, mode), s.display)),
                     s.enabled /\ mapApplied /\ positionFit)
  IN /\ Handle(Result)
     /\ hostSettings' = s
     /\ controlConnected' = (controlConnected \/ viaControl)
     /\ UNCHANGED <<screen, gameWindow, fresh, mapApplied, positionFit>>

\* Mutant: only the flag is changed.
DisconnectUnlocked ==
  /\ Handle(LAMBDA h : h)
  /\ controlConnected /\ controlConnected' = FALSE
  /\ UNCHANGED <<screen, gameWindow, fresh, hostSettings, mapApplied, positionFit>>

\* Disconnected, and an intent that could not be queued.
DisconnectControl ==
  /\ Handle(LAMBDA h : HostSetInput(h, "locked"))
  /\ controlConnected /\ controlConnected' = FALSE
  /\ UNCHANGED <<screen, gameWindow, fresh, hostSettings, mapApplied, positionFit>>

\* Bringing the window back raises it, which may fail.
SyncConsumer(active) ==
  /\ active # host.suppressed
  /\ Handle(LAMBDA h : [Suppress(h, active) EXCEPT
                          !.failed = h.failing /\ Visible(h) /\ ~active])
  /\ UNCHANGED <<screen, gameWindow, fresh, hostSettings, controlConnected, mapApplied, positionFit>>

SameProcess(a, b) ==
  a # NoWindow /\ b # NoWindow /\ a.window = b.window /\ a.pid = b.pid

Follow(game) ==
  LET changed == ~SameProcess(gameWindow, game)
      Result(h) == HostSetDisplay(
                     HostSetInput(
                       HostAttach(IF changed THEN HostSetRequested(h, FALSE) ELSE h, game),
                       InputFor(hostSettings, controlConnected)),
                     hostSettings.display)
  IN /\ Handle(Result)
     /\ mapApplied' = (mapApplied /\ ~changed)
     /\ positionFit' = (positionFit /\ ~changed)

Lose ==
  /\ Handle(LAMBDA h : HostDetach(HostSetRequested(h, FALSE)))
  /\ mapApplied' = FALSE /\ positionFit' = FALSE

\* tracker.poll and the event it answers; an unchanged snapshot is no event.
PollTarget(inspected) ==
  /\ ~ended
  /\ \E game \in PollResults(inspected) :
       /\ gameWindow' = game
       /\ IF game = gameWindow THEN UNCHANGED <<host, mapApplied, positionFit, faults, ended>>
          ELSE IF game = NoWindow THEN Lose ELSE Follow(game)
  /\ fresh' = TRUE
  /\ UNCHANGED <<screen, hostSettings, controlConnected>>

\* The end of an iteration: a position draws the map and publishes the frame,
\* then the visibility is brought up to date.
HostTick(pos) ==
  LET Drawn(h) == IF pos THEN PublishFrame([h EXCEPT !.surface = TRUE]) ELSE h
      Result(h) == HostSetRequested(Drawn(h), hostSettings.enabled /\ pos)
  IN /\ pos => gameWindow # NoWindow
     /\ Handle(Result)
     /\ mapApplied' = (mapApplied \/ pos)
     /\ positionFit' = pos
     /\ UNCHANGED <<screen, gameWindow, fresh, hostSettings, controlConnected>>

\* The game's windows come, go and change; one window has the foreground.
ScreenChange(w, o) ==
  /\ ~ended /\ o # screen[w]
  /\ o # NoWindow => (o.foreground => \A v \in Windows \ {w} :
                                    screen[v] # NoWindow => ~screen[v].foreground)
  /\ screen' = [screen EXCEPT ![w] = o]
  /\ fresh' = FALSE
  /\ UNCHANGED <<gameWindow, host, hostSettings, controlConnected, mapApplied, positionFit, faults, ended>>

HostNext ==
  \/ \E s \in HostSettings, viaControl \in BOOLEAN : ApplyHostSettings(s, viaControl)
  \/ DisconnectControl
  \/ \E active \in BOOLEAN : SyncConsumer(active)
  \/ \E inspected \in BOOLEAN : PollTarget(inspected)
  \/ \E pos \in BOOLEAN : HostTick(pos)
  \/ \E w \in Windows, o \in Observations \cup {NoWindow} : ScreenChange(w, o)

HostSpec == HostInit /\ [][HostNext]_hostVars

-----------------------------------------------------------------------------
\* The window takes the mouse only while the settings that came over a live
\* control connection say so, the overlay is to be seen, and the hit test
\* agrees with the window's style (set_input_mode, apply_plan, window_proc).
MouseNeedsPermission ==
  TakesMouse(host) =>
    /\ controlConnected /\ hostSettings.input = "interactive"
    /\ ~host.transparent /\ host.hit = "interactive" /\ Visible(host)

\* The window is on the screen only over the window being tracked, in the
\* foreground and not minimised when it was last looked at, with the overlay
\* enabled and no fullscreen consumer drawing it (attach, suspend,
\* set_external_renderer_suppressed).
ShownOverTheGame ==
  host.shown =>
    /\ hostSettings.enabled /\ ~host.suppressed /\ gameWindow # NoWindow
    /\ host.over = gameWindow.window
    /\ fresh => /\ screen[gameWindow.window].foreground
                /\ ~screen[gameWindow.window].minimized

\* Whenever the fullscreen consumer may draw the published frame, the frame
\* tells the input mode and the display mode the host is in.
FrameTellsTheMode ==
  host.frame.visible /\ host.surface /\ ~ended =>
    host.frame.input = host.hit /\ host.frame.display = host.display

\* A plan that fails half way leaves the window hidden and deaf to the mouse
\* (apply_current, hide_fail_closed).
FailureHides == ended /\ host.plan = NoPlan => ~host.shown /\ host.hit = "locked"

\* The window's four promises.
WindowStaysInPlace ==
  MouseNeedsPermission /\ ShownOverTheGame /\ FrameTellsTheMode /\ FailureHides

-----------------------------------------------------------------------------
\* The inductive invariant of WindowStaysInPlace.

Handles == Windows \cup {NoWindow}
Inputs == {"locked", "interactive"}
Displays == {"mini", "expanded"}

HostRecords ==
  [lifecycle : {"detached", "minimized", "inactive", "hidden", "visible"},
   input : Inputs, display : Displays, requested : BOOLEAN, attached : Handles,
   over : Handles,
   plan : [input : Inputs \cup {"none"}, display : Displays \cup {"none"},
           visible : BOOLEAN, over : Handles],
   shown : BOOLEAN, transparent : BOOLEAN, hit : Inputs, suppressed : BOOLEAN,
   surface : BOOLEAN, frame : [visible : BOOLEAN, input : Inputs, display : Displays],
   failing : BOOLEAN, failed : BOOLEAN]

\* A host whose last plan was applied to the end: the window is what the
\* controller says, and only a visible overlay is interactive.
InStep(h) ==
  /\ h.hit = h.input /\ h.transparent = (h.input = "locked")
  /\ h.shown = (Visible(h) /\ ~h.suppressed)
  /\ h.plan = PlanOf(h) \/ (h.plan = NoPlan /\ h.lifecycle = "detached")
  /\ ~Visible(h) => h.input = "locked"
  /\ Visible(h) => h.requested
  /\ h.attached = NoWindow <=> h.lifecycle = "detached"

\* A host whose plan failed.
Closed(h) == h.failed /\ ~h.shown /\ h.hit = "locked" /\ h.plan = NoPlan

\* What the host is allowed by settings, connection and tracker.
Allowed(h, s, isConnected, game) ==
  /\ h.input = "interactive" => isConnected /\ s.input = "interactive"
  /\ h.requested => s.enabled
  /\ h.attached = NoWindow <=> game = NoWindow
  /\ game # NoWindow => h.attached = game.window /\ h.over = game.window
  /\ h.lifecycle \in {"visible", "hidden"} => game.active /\ ~game.minimized

\* What is tracked is a window, as it was when it was last looked at.
TrackedIsSeen ==
  gameWindow # NoWindow =>
    /\ gameWindow.window \in Windows
    /\ fresh => gameWindow = Snapshot(gameWindow.window)

\* The published frame, as FrameTellsTheMode has it.
FrameIsTrue(h) ==
  h.frame.visible /\ h.surface => h.frame.input = h.hit /\ h.frame.display = h.display

HostInv ==
  /\ host \in HostRecords /\ ~host.failing /\ ended = host.failed
  /\ hostSettings \in HostSettings
  /\ Closed(host) \/ (InStep(host) /\ Allowed(host, hostSettings, controlConnected, gameWindow))
  /\ ~ended => FrameIsTrue(host)
  /\ TrackedIsSeen

\* No window has the handle that stands for none.
HandlesAreHandles == NoWindow \notin Windows

-----------------------------------------------------------------------------
(***************************************************************************)
(* The registry of the overlay's global hotkeys (pal-windows, hotkeys.rs)  *)
(* and its caller, apply_global_hotkeys of the overlay.  A new set of      *)
(* bindings is applied by one system call per changed action: first every  *)
(* changed registration is given up, then the new ones are made.  Other    *)
(* applications take and release chords between the calls.                 *)
(***************************************************************************)

CONSTANTS Actions,      \* a sequence: the canonical order, four in the code
          Chords,
          MaxRegistrationFaults,    \* calls that fail for another reason than a collision
          NoHotkey

VARIABLES targets,      \* [action -> NoHotkey, or a chord and whether it is a duplicate]
          outcomes,     \* [action -> "none", "active", "duplicate", "collision"]
          registered,   \* [action -> chord the registry holds, or NoHotkey]
          attempted,    \* unregister_attempted
          poisoned, reported,
          pc,           \* the replacement in progress: its phase, index, targets
          held,         \* the system: [action -> chord registered under its id]
          foreign,      \* the system: chords other applications hold
          told,         \* what apply_global_hotkeys last wrote
          registrationFaults

registry == <<targets, outcomes, registered, attempted, poisoned, reported>>
hotkeysVars == <<registry, pc, held, foreign, told, registrationFaults>>

Ids == DOMAIN Actions
IdleRegistry == [phase |-> "idle", index |-> 0, targets |-> <<>>]
Unbound == [i \in Ids |-> [chord |-> NoHotkey, duplicate |-> FALSE]]

HotkeysInit ==
  /\ targets = Unbound
  /\ outcomes = [i \in Ids |-> "none"]
  /\ registered = [i \in Ids |-> NoHotkey] /\ attempted = [i \in Ids |-> FALSE]
  /\ poisoned = FALSE /\ reported = FALSE
  /\ pc = IdleRegistry
  /\ held = [i \in Ids |-> NoHotkey] /\ foreign = {}
  /\ told = "nothing" /\ registrationFaults = 0

\* resolve_targets: of two actions with one chord the later is a duplicate.
Resolve(bindings) ==
  [i \in Ids |-> [chord |-> bindings[i],
                  duplicate |-> bindings[i] # NoHotkey /\ \E j \in 1..(i - 1) : bindings[j] = bindings[i]]]

Tell(what) == told' = what

\* replace, up to the first system call; an invalid binding set and a poisoned
\* registry are refused, an unchanged one is reported again.
Replace(bindings, valid) ==
  /\ pc.phase = "idle"
  /\ IF poisoned \/ ~valid THEN Tell("disabled") /\ UNCHANGED pc
     ELSE IF reported /\ Resolve(bindings) = targets THEN Tell("report") /\ UNCHANGED pc
     ELSE /\ pc' = [phase |-> "unregister", index |-> 1, targets |-> Resolve(bindings)]
          /\ UNCHANGED told
  /\ UNCHANGED <<registry, held, foreign, registrationFaults>>

Changed(i) == pc.targets[i] # targets[i]

AfterUnregister(i) ==
  IF i = Len(Actions) THEN [pc EXCEPT !.phase = "register", !.index = 1]
  ELSE [pc EXCEPT !.index = i + 1]

Poison ==
  /\ poisoned' = TRUE /\ reported' = FALSE
  /\ pc' = IdleRegistry /\ Tell("disabled") /\ registrationFaults' = registrationFaults + 1

\* One turn of the first loop.
Unregister(fails) ==
  LET i == pc.index IN
  /\ pc.phase = "unregister"
  /\ IF Changed(i) /\ registered[i] # NoHotkey
     THEN /\ attempted' = [attempted EXCEPT ![i] = TRUE]
          /\ IF fails
             THEN registrationFaults < MaxRegistrationFaults /\ Poison /\ UNCHANGED <<registered, held>>
             ELSE /\ registered' = [registered EXCEPT ![i] = NoHotkey]
                  /\ held' = [held EXCEPT ![i] = NoHotkey]
                  /\ pc' = AfterUnregister(i)
                  /\ UNCHANGED <<poisoned, reported, told, registrationFaults>>
     ELSE /\ ~fails /\ pc' = AfterUnregister(i)
          /\ UNCHANGED <<registered, attempted, held, poisoned, reported, told, registrationFaults>>
  /\ UNCHANGED <<targets, outcomes, foreign>>

Taken(chord) == chord \in foreign \/ \E j \in Ids : held[j] = chord

\* Mutant: the bindings just applied are not kept.
FinishForgetful ==
  /\ reported' = TRUE /\ UNCHANGED targets
  /\ pc' = IdleRegistry /\ Tell("report")

Finish ==
  /\ targets' = pc.targets /\ reported' = TRUE
  /\ pc' = IdleRegistry /\ Tell("report")

AfterRegister(i) ==
  IF i = Len(Actions) THEN Finish
  ELSE pc' = [pc EXCEPT !.index = i + 1] /\ UNCHANGED <<targets, reported, told>>

\* One turn of the second loop; a chord someone holds is a collision.
Register(fails) ==
  LET i == pc.index
      target == pc.targets[i]
      outcome == IF ~Changed(i) THEN outcomes[i]
                 ELSE IF target.chord = NoHotkey THEN "none"
                 ELSE IF target.duplicate THEN "duplicate"
                 ELSE IF Taken(target.chord) THEN "collision"
                 ELSE "active"
      calls == Changed(i) /\ target.chord # NoHotkey /\ ~target.duplicate
      succeeds == calls /\ outcome = "active"
  IN /\ pc.phase = "register"
     /\ IF fails
        THEN /\ calls /\ registrationFaults < MaxRegistrationFaults /\ Poison
             /\ UNCHANGED <<targets, outcomes, registered, attempted, held>>
        ELSE /\ outcomes' = [outcomes EXCEPT ![i] = outcome]
             /\ registered' = IF succeeds THEN [registered EXCEPT ![i] = target.chord] ELSE registered
             /\ held' = IF succeeds THEN [held EXCEPT ![i] = target.chord] ELSE held
             /\ attempted' = IF succeeds THEN [attempted EXCEPT ![i] = FALSE] ELSE attempted
             /\ AfterRegister(i)
             /\ UNCHANGED <<poisoned, registrationFaults>>
     /\ UNCHANGED foreign

\* Drop: every registration still held is given up once.
Released == {i \in Ids : registered[i] # NoHotkey /\ ~attempted[i]}

Drop ==
  /\ pc.phase = "idle"
  /\ pc' = [IdleRegistry EXCEPT !.phase = "dropped"]
  /\ held' = [i \in Ids |-> IF i \in Released THEN NoHotkey ELSE held[i]]
  /\ attempted' = [i \in Ids |-> attempted[i] \/ i \in Released]
  /\ registered' = [i \in Ids |-> NoHotkey]
  /\ UNCHANGED <<targets, outcomes, poisoned, reported, foreign, told, registrationFaults>>

\* Another application takes or releases a chord.
OtherApplication(chord) ==
  /\ pc.phase # "dropped"
  /\ \/ chord \in foreign /\ foreign' = foreign \ {chord}
     \/ ~Taken(chord) /\ foreign' = foreign \cup {chord}
  /\ UNCHANGED <<registry, pc, held, told, registrationFaults>>

HotkeysNext ==
  \/ \E bindings \in [Ids -> Chords \cup {NoHotkey}], valid \in BOOLEAN : Replace(bindings, valid)
  \/ \E fails \in BOOLEAN : Unregister(fails) \/ Register(fails)
  \/ Drop
  \/ \E chord \in Chords : OtherApplication(chord)

HotkeysSpec == HotkeysInit /\ [][HotkeysNext]_hotkeysVars

-----------------------------------------------------------------------------
\* Between replacements of a healthy registry the report is what the system
\* holds: an action reported active has its bound chord registered, no other
\* chord is registered, and exactly the repeated bindings are reported as
\* duplicates (replace, build_report).
ReportIsTrue ==
  pc.phase = "idle" /\ ~poisoned =>
    \A i \in Ids :
      /\ held[i] = registered[i]
      /\ held[i] # NoHotkey => held[i] = targets[i].chord /\ outcomes[i] = "active"
      /\ outcomes[i] = "active" => held[i] # NoHotkey
      /\ reported => (outcomes[i] = "duplicate" <=> targets[i].duplicate)

\* An action is only refused for a chord another application holds, never
\* for one the registry itself is about to give up: two actions can swap
\* their chords (the two loops of replace).
NoSelfCollision ==
  \A i \in Ids : outcomes'[i] = "collision" /\ outcomes[i] # "collision" =>
    pc.targets[i].chord \in foreign

\* A dropped registry leaves nothing registered but what the system refused
\* to give up (Drop).
DropReleases ==
  pc.phase = "dropped" => Cardinality({i \in Ids : held[i] # NoHotkey}) <= registrationFaults

\* What the user is told of the hotkeys is so, and nothing is left behind.
HotkeysAreTrue ==
  /\ [](ReportIsTrue /\ DropReleases)
  /\ [][NoSelfCollision]_hotkeysVars

-----------------------------------------------------------------------------
(* Proofs about the window, for every set of windows and every look they    *)
(* may have.  A handler is a chain of operations on the host; each leaves   *)
(* it in step with its window, or stopped.                                  *)

Ready(h) == h \in HostRecords /\ ~h.failed /\ InStep(h)
Stopped(h) == h \in HostRecords /\ Closed(h)

\* The part of a host that a plan does not touch.
SameRest(r, h) ==
  /\ r.display = h.display /\ r.requested = h.requested /\ r.attached = h.attached
  /\ r.over = h.over /\ r.suppressed = h.suppressed /\ r.surface = h.surface
  /\ r.frame = h.frame

LEMMA PlanFacts ==
  ASSUME NEW h \in HostRecords
  PROVE  /\ PlanOf(h) \in [input : Inputs \cup {"none"}, display : Displays \cup {"none"},
                           visible : BOOLEAN, over : Handles]
         /\ PlanOf(h) # NoPlan /\ PlanOf(h).input = h.input /\ PlanOf(h).over = h.over
         /\ PlanOf(h).visible = Visible(h) /\ PlanOf(h).display = h.display
<1>1. h.input \in Inputs /\ h.display \in Displays /\ h.over \in Handles
  BY DEF HostRecords
<1>2. PlanOf(h) = [input |-> h.input, display |-> h.display, visible |-> Visible(h),
                   over |-> h.over]
  BY DEF PlanOf, Visible
<1>3. Visible(h) \in BOOLEAN
  BY DEF Visible
<1>4. PlanOf(h).input = h.input /\ NoPlan.input = "none"
  BY <1>2 DEF NoPlan
<1>5. PlanOf(h) # NoPlan
  BY <1>1, <1>4 DEF Inputs
<1>6. PlanOf(h) \in [input : Inputs \cup {"none"}, display : Displays \cup {"none"},
                     visible : BOOLEAN, over : Handles]
  BY <1>1, <1>2, <1>3
<1> QED
  BY <1>2, <1>5, <1>6

\* FailClosed leaves nothing on the screen.
LEMMA FailClosedFacts ==
  ASSUME NEW h \in HostRecords
  PROVE  Stopped(FailClosed(h)) /\ SameRest(FailClosed(h), h)
<1> DEFINE r == FailClosed(h)
           cycle == IF h.attached = NoWindow THEN "detached" ELSE "hidden"
<1>1. r = [h EXCEPT !.failed = TRUE, !.plan = NoPlan, !.input = "locked", !.hit = "locked",
                    !.shown = FALSE, !.lifecycle = cycle]
  BY DEF FailClosed
<1>2. /\ cycle \in {"detached", "minimized", "inactive", "hidden", "visible"}
      /\ "locked" \in Inputs
      /\ NoPlan \in [input : Inputs \cup {"none"}, display : Displays \cup {"none"},
                     visible : BOOLEAN, over : Handles]
  BY DEF Inputs, NoPlan, Handles
<1> HIDE DEF cycle, r
<1>3. r \in HostRecords
  BY <1>1, <1>2 DEF HostRecords
<1>4. r.failed /\ ~r.shown /\ r.hit = "locked" /\ r.plan = NoPlan
  BY <1>1 DEF HostRecords
<1>5. SameRest(r, h)
  BY <1>1, Zenon DEF HostRecords, SameRest
<1> QED
  BY <1>3, <1>4, <1>5 DEF Stopped, Closed, r

\* ApplyPlan makes the window what the controller says.
LEMMA ApplyPlanFacts ==
  ASSUME NEW h \in HostRecords
  PROVE  LET r == ApplyPlan(h, PlanOf(h))
         IN  /\ r \in HostRecords /\ SameRest(r, h)
             /\ r.plan = PlanOf(h) /\ r.hit = h.input /\ r.transparent = (h.input = "locked")
             /\ r.shown = (Visible(h) /\ ~h.suppressed)
             /\ r.input = h.input /\ r.lifecycle = h.lifecycle /\ r.failed = h.failed
<1> DEFINE r == ApplyPlan(h, PlanOf(h))
           plan == PlanOf(h)
           clear == h.input = "locked"
           shows == Visible(h) /\ ~h.suppressed
           hit == h.input
<1>1. plan.input = h.input /\ plan.visible = Visible(h) /\ h.suppressed \in BOOLEAN
  BY PlanFacts DEF HostRecords
<1>2. r = [[[h EXCEPT !.transparent = clear] EXCEPT !.shown = shows]
             EXCEPT !.plan = plan, !.hit = hit]
  BY <1>1, PlanFacts DEF ApplyPlan, Position, SetExtendedStyle
<1>3. /\ clear \in BOOLEAN /\ shows \in BOOLEAN
      /\ hit \in Inputs
  BY DEF HostRecords
<1>4. plan \in [input : Inputs \cup {"none"}, display : Displays \cup {"none"},
                visible : BOOLEAN, over : Handles]
  BY PlanFacts
<1> HIDE DEF r, plan, clear, shows, hit
<1>5. r \in HostRecords
  BY <1>2, <1>3, <1>4, Zenon DEF HostRecords
<1>6. /\ r.plan = plan /\ r.hit = hit /\ r.transparent = clear /\ r.shown = shows
      /\ r.input = h.input /\ r.lifecycle = h.lifecycle /\ r.failed = h.failed
  BY <1>2, Zenon DEF HostRecords
<1>7. SameRest(r, h)
  BY <1>2, Zenon DEF HostRecords, SameRest
<1> QED
  BY <1>5, <1>6, <1>7 DEF r, plan, clear, shows, hit

\* A host whose controller changed: apply_current brings its window in step
\* again, or stops.
LEMMA ApplyCurrentFacts ==
  ASSUME NEW h, Ready(h), NEW g \in HostRecords, ~g.failed, g.plan = h.plan, g.hit = h.hit,
         g.transparent = h.transparent, g.shown = h.shown, g.suppressed = h.suppressed,
         ~Visible(g) => g.input = "locked", Visible(g) => g.requested,
         g.attached = NoWindow <=> g.lifecycle = "detached"
  PROVE  LET r == ApplyCurrent(g)
         IN  /\ SameRest(r, g)
             /\ Stopped(r) \/ (Ready(r) /\ r.input = g.input /\ r.lifecycle = g.lifecycle)
<1> USE DEF Ready
<1>1. CASE g.plan = PlanOf(g)
  <2>1. ApplyCurrent(g) = g /\ SameRest(g, g)
    BY <1>1 DEF ApplyCurrent, SameRest
  <2>2. h.plan = PlanOf(h)
    BY <1>1, PlanFacts DEF InStep
  <2>3. g.input = h.input /\ Visible(g) = Visible(h)
    <3>1. PlanOf(g).input = g.input /\ PlanOf(g).visible = Visible(g)
      BY PlanFacts
    <3>2. PlanOf(h).input = h.input /\ PlanOf(h).visible = Visible(h)
      BY PlanFacts
    <3>3. PlanOf(g) = PlanOf(h)
      BY <1>1, <2>2
    <3> QED
      BY <3>1, <3>2, <3>3, Zenon
  <2>4. InStep(g)
    BY <1>1, <2>3 DEF InStep
  <2> QED
    BY <2>1, <2>4
<1>2. CASE g.plan # PlanOf(g) /\ g.failing
  <2>1. ApplyCurrent(g) = FailClosed(g)
    BY <1>2 DEF ApplyCurrent
  <2> QED
    BY <2>1, FailClosedFacts
<1>3. CASE g.plan # PlanOf(g) /\ ~g.failing
  <2> DEFINE r == ApplyPlan(g, PlanOf(g))
  <2>1. ApplyCurrent(g) = r
    BY <1>3 DEF ApplyCurrent
  <2>2. /\ r \in HostRecords /\ SameRest(r, g)
        /\ r.plan = PlanOf(g) /\ r.hit = g.input /\ r.transparent = (g.input = "locked")
        /\ r.shown = (Visible(g) /\ ~g.suppressed)
        /\ r.input = g.input /\ r.lifecycle = g.lifecycle /\ r.failed = g.failed
    BY ApplyPlanFacts
  <2> HIDE DEF r
  <2>3. Visible(r) = Visible(g) /\ PlanOf(r) = PlanOf(g)
    BY <2>2 DEF Visible, PlanOf, SameRest
  <2>4. InStep(r)
    BY <2>2, <2>3 DEF InStep, SameRest
  <2> QED
    BY <2>1, <2>2, <2>4
<1> QED
  BY <1>1, <1>2, <1>3

\* Once an operation failed the rest of the handler does nothing.
LEMMA StoppedStays ==
  ASSUME NEW h, Stopped(h), NEW a, NEW game
  PROVE  /\ SetInputMode(h, a) = h /\ SetDisplayMode(h, a) = h /\ SetRequestedVisible(h, a) = h
         /\ Attach(h, game) = h /\ Detach(h) = h
         /\ PublishVisibility(h) = h /\ PublishFrame(h) = h
<1>1. h.failed
  BY DEF Stopped, Closed
<1>2. PublishVisibility(h) = h /\ PublishFrame(h) = h
  BY <1>1 DEF PublishVisibility, PublishFrame
<1>3. SetInputMode(h, a) = h /\ SetDisplayMode(h, a) = h /\ SetRequestedVisible(h, a) = h
  BY <1>1 DEF SetInputMode, SetDisplayMode, SetRequestedVisible
<1>4. Attach(h, game) = h /\ Detach(h) = h
  BY <1>1 DEF Attach, Detach
<1> QED
  BY <1>2, <1>3, <1>4

\* What is published is published, and nothing else changes.
LEMMA PublishFacts ==
  ASSUME NEW h, Ready(h)
  PROVE  /\ LET r == PublishVisibility(h)
            IN  /\ Ready(r) /\ r.lifecycle = h.lifecycle /\ r.input = h.input
                /\ r.display = h.display /\ r.requested = h.requested
                /\ r.attached = h.attached /\ r.over = h.over /\ r.surface = h.surface
                /\ r.hit = h.hit
                /\ r.frame.visible = Visible(h) /\ r.frame.input = h.frame.input
                /\ r.frame.display = h.frame.display
         /\ LET r == PublishFrame(h)
            IN  /\ Ready(r) /\ r.lifecycle = h.lifecycle /\ r.input = h.input
                /\ r.display = h.display /\ r.requested = h.requested
                /\ r.attached = h.attached /\ r.over = h.over /\ r.surface = h.surface
                /\ r.hit = h.hit
                /\ h.surface => r.frame.input = h.hit /\ r.frame.display = h.display
<1> USE DEF Ready
<1>1. h.frame \in [visible : BOOLEAN, input : Inputs, display : Displays] /\ h.hit \in Inputs
      /\ h.display \in Displays /\ h.surface \in BOOLEAN
  BY DEF HostRecords
<1>2. ASSUME NEW f \in [visible : BOOLEAN, input : Inputs, display : Displays]
      PROVE  LET r == [h EXCEPT !.frame = f]
             IN  /\ Ready(r) /\ r.lifecycle = h.lifecycle /\ r.input = h.input
                 /\ r.display = h.display /\ r.requested = h.requested
                 /\ r.attached = h.attached /\ r.over = h.over /\ r.surface = h.surface
                 /\ r.hit = h.hit /\ r.frame = f
  <2> DEFINE r == [h EXCEPT !.frame = f]
  <2>1. r \in HostRecords
    BY Zenon DEF HostRecords
  <2>2. /\ r.lifecycle = h.lifecycle /\ r.input = h.input
        /\ r.display = h.display /\ r.requested = h.requested
        /\ r.attached = h.attached /\ r.over = h.over /\ r.surface = h.surface
        /\ r.hit = h.hit /\ r.frame = f /\ r.plan = h.plan /\ r.shown = h.shown
        /\ r.transparent = h.transparent /\ r.suppressed = h.suppressed /\ r.failed = h.failed
    BY Zenon DEF HostRecords
  <2> HIDE DEF r
  <2>3. InStep(r)
    BY <2>2 DEF InStep, Visible, PlanOf
  <2> QED
    BY <2>1, <2>2, <2>3 DEF r
<1> DEFINE seen == [h.frame EXCEPT !.visible = Visible(h)]
           whole == [visible |-> Visible(h), input |-> h.hit, display |-> h.display]
<1>3. /\ seen \in [visible : BOOLEAN, input : Inputs, display : Displays]
      /\ seen.visible = Visible(h) /\ seen.input = h.frame.input
      /\ seen.display = h.frame.display
  BY <1>1 DEF Visible
<1>4. /\ whole \in [visible : BOOLEAN, input : Inputs, display : Displays]
      /\ whole.input = h.hit /\ whole.display = h.display
  BY <1>1 DEF Visible
<1>5. PublishVisibility(h) = [h EXCEPT !.frame = seen]
  BY DEF PublishVisibility
<1>6. PublishFrame(h) = IF h.surface THEN [h EXCEPT !.frame = whole] ELSE PublishVisibility(h)
  BY DEF PublishFrame
<1> HIDE DEF seen, whole
<1>7. CASE h.surface
  BY ZenonT(60), <1>2, <1>3, <1>4, <1>5, <1>6, <1>7
<1>8. CASE ~h.surface
  BY <1>2, <1>3, <1>5, <1>6, <1>8
<1> QED
  BY <1>1, <1>7, <1>8

LEMMA HostSetInputFacts ==
  ASSUME NEW h, Ready(h), NEW mode \in Inputs
  PROVE  LET r == HostSetInput(h, mode)
         IN  \/ Stopped(r)
             \/ /\ Ready(r) /\ r.input = (IF Visible(h) THEN mode ELSE "locked")
                /\ r.lifecycle = h.lifecycle /\ r.display = h.display
                /\ r.requested = h.requested /\ r.attached = h.attached /\ r.over = h.over
                /\ r.surface = h.surface
                /\ h.surface => r.frame.input = r.hit /\ r.frame.display = r.display
<1> DEFINE actual == IF Visible(h) THEN mode ELSE "locked"
           m == SetInputMode(h, mode)
<1>1. actual \in Inputs /\ (~Visible(h) => actual = "locked")
  BY DEF Inputs
<1>2. m = IF h.input = actual THEN h ELSE ApplyCurrent([h EXCEPT !.input = actual])
  BY DEF SetInputMode, Ready
<1> HIDE DEF actual
<1>3. \/ Stopped(m)
      \/ Ready(m) /\ m.input = actual /\ m.lifecycle = h.lifecycle /\ SameRest(m, h)
  <2>1. CASE h.input = actual
    BY <1>2, <2>1 DEF SameRest
  <2>2. CASE h.input # actual
    <3> DEFINE g == [h EXCEPT !.input = actual]
    <3>1. g \in HostRecords
      BY <1>1, Zenon DEF Ready, HostRecords
    <3>2. /\ g.input = actual /\ g.failed = h.failed /\ g.plan = h.plan /\ g.hit = h.hit
          /\ g.transparent = h.transparent /\ g.shown = h.shown /\ g.suppressed = h.suppressed
          /\ g.lifecycle = h.lifecycle /\ g.requested = h.requested /\ g.attached = h.attached
          /\ SameRest(g, h)
      BY Zenon DEF Ready, HostRecords, SameRest
    <3>3. m = ApplyCurrent(g)
      BY <1>2, <2>2
    <3> HIDE DEF g
    <3>4. /\ ~g.failed /\ (~Visible(g) => g.input = "locked") /\ (Visible(g) => g.requested)
          /\ (g.attached = NoWindow <=> g.lifecycle = "detached")
      BY <1>1, <3>2 DEF Ready, InStep, Visible
    <3>5. /\ SameRest(ApplyCurrent(g), g)
          /\ \/ Stopped(ApplyCurrent(g))
             \/ /\ Ready(ApplyCurrent(g)) /\ ApplyCurrent(g).input = g.input
                /\ ApplyCurrent(g).lifecycle = g.lifecycle
      BY <3>1, <3>2, <3>4, ApplyCurrentFacts
    <3>6. SameRest(m, h)
      BY <3>2, <3>3, <3>5 DEF SameRest
    <3> QED
      BY <3>2, <3>3, <3>5, <3>6
  <2> QED
    BY <2>1, <2>2
<1>4. HostSetInput(h, mode) = PublishFrame(m)
  BY DEF HostSetInput
<1> HIDE DEF m
<1>5. CASE Stopped(m)
  BY <1>4, <1>5, StoppedStays
<1>6. CASE Ready(m) /\ m.input = actual /\ m.lifecycle = h.lifecycle /\ SameRest(m, h)
  BY <1>4, <1>6, PublishFacts DEF SameRest, actual
<1> QED
  BY <1>3, <1>5, <1>6

LEMMA HostSetDisplayFacts ==
  ASSUME NEW h, Ready(h), NEW mode \in Displays
  PROVE  LET r == HostSetDisplay(h, mode)
         IN  \/ Stopped(r)
             \/ /\ Ready(r) /\ r.input = h.input /\ r.display = mode
                /\ r.lifecycle = h.lifecycle
                /\ r.requested = h.requested /\ r.attached = h.attached /\ r.over = h.over
                /\ r.surface = h.surface
                /\ h.surface => r.frame.input = r.hit /\ r.frame.display = r.display
<1> DEFINE m == SetDisplayMode(h, mode)
<1>1. m = IF h.display = mode THEN h ELSE ApplyCurrent([h EXCEPT !.display = mode])
  BY DEF SetDisplayMode, Ready
<1>2. \/ Stopped(m)
      \/ /\ Ready(m) /\ m.input = h.input /\ m.lifecycle = h.lifecycle /\ m.display = mode
         /\ m.requested = h.requested /\ m.attached = h.attached /\ m.over = h.over
         /\ m.surface = h.surface
  <2>1. CASE h.display = mode
    BY <1>1, <2>1
  <2>2. CASE h.display # mode
    <3> DEFINE g == [h EXCEPT !.display = mode]
    <3>1. g \in HostRecords
      BY Zenon DEF Ready, HostRecords
    <3>2. /\ g.input = h.input /\ g.failed = h.failed /\ g.plan = h.plan /\ g.hit = h.hit
          /\ g.transparent = h.transparent /\ g.shown = h.shown /\ g.suppressed = h.suppressed
          /\ g.lifecycle = h.lifecycle /\ g.requested = h.requested /\ g.attached = h.attached
          /\ g.display = mode /\ g.over = h.over /\ g.surface = h.surface
      BY Zenon DEF Ready, HostRecords
    <3>3. m = ApplyCurrent(g)
      BY <1>1, <2>2
    <3> HIDE DEF g
    <3>4. /\ ~g.failed /\ (~Visible(g) => g.input = "locked") /\ (Visible(g) => g.requested)
          /\ (g.attached = NoWindow <=> g.lifecycle = "detached")
      BY <3>2 DEF Ready, InStep, Visible
    <3>5. /\ SameRest(ApplyCurrent(g), g)
          /\ \/ Stopped(ApplyCurrent(g))
             \/ /\ Ready(ApplyCurrent(g)) /\ ApplyCurrent(g).input = g.input
                /\ ApplyCurrent(g).lifecycle = g.lifecycle
      BY <3>1, <3>2, <3>4, ApplyCurrentFacts
    <3> QED
      BY <3>2, <3>3, <3>5 DEF SameRest
  <2> QED
    BY <2>1, <2>2
<1>3. HostSetDisplay(h, mode) = PublishFrame(m)
  BY DEF HostSetDisplay
<1> HIDE DEF m
<1>4. CASE Stopped(m)
  BY <1>3, <1>4, StoppedStays
<1>5. CASE Ready(m)
  BY <1>2, <1>3, <1>5, PublishFacts DEF Ready, Stopped, Closed
<1> QED
  BY <1>2, <1>4, <1>5

\* SetRequestedVisible shows a window only where the game allows it, with the
\* input mode it has.
LEMMA HostSetRequestedFacts ==
  ASSUME NEW h, Ready(h), NEW v \in BOOLEAN
  PROVE  LET r == HostSetRequested(h, v)
         IN  \/ Stopped(r)
             \/ /\ Ready(r) /\ r.requested = v /\ r.attached = h.attached /\ r.over = h.over
                /\ r.display = h.display /\ r.surface = h.surface
                /\ r.lifecycle \in {"visible", "hidden"} => h.lifecycle \in {"visible", "hidden"}
                /\ r.input \in {h.input, "locked"}
                /\ r.frame.visible = Visible(r) /\ r.frame.input = h.frame.input
                /\ r.frame.display = h.frame.display
                /\ Visible(r) => r.hit = h.hit
<1> DEFINE m == SetRequestedVisible(h, v)
           Good(r) == /\ Ready(r) /\ r.requested = v /\ r.attached = h.attached
                      /\ r.over = h.over /\ r.display = h.display /\ r.surface = h.surface
                      /\ r.lifecycle \in {"visible", "hidden"}
                           => h.lifecycle \in {"visible", "hidden"}
                      /\ r.input \in {h.input, "locked"} /\ r.frame = h.frame
                      /\ Visible(r) => r.hit = h.hit
           cycle == IF Suspended(h) THEN h.lifecycle ELSE IF v THEN "visible" ELSE "hidden"
           mode == IF ~Suspended(h) /\ v THEN h.input ELSE "locked"
           g == [h EXCEPT !.requested = v, !.lifecycle = cycle, !.input = mode]
<1> USE DEF Ready
<1>0. /\ h.lifecycle \in {"detached", "minimized", "inactive", "hidden", "visible"}
      /\ h.input \in Inputs /\ h.requested \in BOOLEAN
  BY DEF HostRecords
<1>1. ASSUME h.requested = v
      PROVE  Stopped(m) \/ Good(m)
  <2>1. m = h
    BY <1>1 DEF SetRequestedVisible
  <2> QED
    BY <2>1, <1>1
<1>2. ASSUME h.requested # v /\ h.attached = NoWindow
      PROVE  Stopped(m) \/ Good(m)
  <2> DEFINE r == [h EXCEPT !.requested = v]
  <2>1. m = r
    BY <1>2 DEF SetRequestedVisible
  <2>2. r \in HostRecords
    BY Zenon DEF HostRecords
  <2>3. /\ r.lifecycle = h.lifecycle /\ r.input = h.input /\ r.requested = v
        /\ r.display = h.display /\ r.frame = h.frame
        /\ r.attached = h.attached /\ r.over = h.over /\ r.surface = h.surface
        /\ r.hit = h.hit /\ r.plan = h.plan /\ r.shown = h.shown
        /\ r.transparent = h.transparent /\ r.suppressed = h.suppressed /\ r.failed = h.failed
    BY Zenon DEF HostRecords
  <2> HIDE DEF r
  <2>4. h.lifecycle = "detached"
    BY <1>2 DEF InStep
  <2>5. InStep(r)
    BY <2>3, <2>4 DEF InStep, Visible, PlanOf
  <2>6. Good(r)
    BY <2>2, <2>3, <2>4, <2>5
  <2> QED
    BY <2>1, <2>6, Zenon
<1>3. ASSUME h.requested # v /\ h.attached # NoWindow
      PROVE  Stopped(m) \/ Good(m)
  <2>1. /\ cycle \in {"detached", "minimized", "inactive", "hidden", "visible"}
        /\ mode \in Inputs /\ (cycle # "visible" => mode = "locked")
        /\ (cycle = "visible" => v) /\ cycle # "detached"
        /\ (cycle \in {"visible", "hidden"} => h.lifecycle \in {"visible", "hidden"})
        /\ mode \in {h.input, "locked"}
        /\ (cycle = "visible" => mode = h.input)
    BY <1>0, <1>3 DEF Inputs, Suspended, InStep, Visible
  <2>2. m = ApplyCurrent(g)
    <3>1. CASE Suspended(h)
      <4>1. g = [h EXCEPT !.requested = v, !.input = "locked"]
        BY <3>1, Zenon DEF HostRecords
      <4> QED
        BY <1>3, <3>1, <4>1 DEF SetRequestedVisible
    <3>2. CASE ~Suspended(h) /\ v
      <4>1. g = [h EXCEPT !.requested = TRUE, !.lifecycle = "visible"]
        BY <3>2, Zenon DEF HostRecords
      <4> QED
        BY <1>3, <3>2, <4>1 DEF SetRequestedVisible
    <3>3. CASE ~Suspended(h) /\ ~v
      <4>1. g = [h EXCEPT !.requested = FALSE, !.input = "locked", !.lifecycle = "hidden"]
        BY <3>3, Zenon DEF HostRecords
      <4> QED
        BY <1>3, <3>3, <4>1 DEF SetRequestedVisible
    <3> QED
      BY <3>1, <3>2, <3>3
  <2> HIDE DEF cycle, mode, m
  <2>3. g \in HostRecords
    BY <2>1, Zenon DEF HostRecords
  <2>4. /\ g.lifecycle = cycle /\ g.input = mode /\ g.requested = v
        /\ g.display = h.display /\ g.frame = h.frame
        /\ g.attached = h.attached /\ g.over = h.over /\ g.surface = h.surface
        /\ g.hit = h.hit /\ g.plan = h.plan /\ g.shown = h.shown
        /\ g.transparent = h.transparent /\ g.suppressed = h.suppressed /\ g.failed = h.failed
    BY Zenon DEF HostRecords
  <2> HIDE DEF g
  <2>5. /\ ~g.failed /\ (~Visible(g) => g.input = "locked") /\ (Visible(g) => g.requested)
        /\ (g.attached = NoWindow <=> g.lifecycle = "detached")
    BY <1>3, <2>1, <2>4 DEF InStep, Visible
  <2>6. SameRest(m, g) /\ (Stopped(m) \/ (Ready(m) /\ m.input = mode /\ m.lifecycle = cycle))
    BY <2>2, <2>3, <2>4, <2>5, ApplyCurrentFacts
  <2>7. ASSUME ~Stopped(m)
        PROVE  Good(m)
    BY <2>1, <2>4, <2>6, <2>7 DEF SameRest, InStep, Visible
  <2> QED
    BY <2>7
<1>4. Stopped(m) \/ Good(m)
  BY <1>1, <1>2, <1>3
<1>5. HostSetRequested(h, v) = PublishVisibility(m)
  BY DEF HostSetRequested
<1> HIDE DEF m
<1>6. CASE Stopped(m)
  BY <1>5, <1>6, StoppedStays
<1>7. CASE Good(m)
  BY <1>5, <1>7, PublishFacts DEF Visible
<1> QED
  BY <1>4, <1>6, <1>7

LEMMA HostAttachFacts ==
  ASSUME HandlesAreHandles, NEW h, Ready(h), NEW game, game.window \in Windows
  PROVE  LET r == HostAttach(h, game)
         IN  \/ Stopped(r)
             \/ /\ Ready(r) /\ r.requested = h.requested
                /\ r.attached = game.window /\ r.over = game.window
                /\ r.surface = h.surface
                /\ r.lifecycle \in {"visible", "hidden"} => game.active /\ ~game.minimized
<1> DEFINE m == Attach(h, game)
           cycle == IF game.minimized THEN "minimized"
                    ELSE IF ~game.active \/ ~game.visible THEN "inactive"
                    ELSE IF h.requested THEN "visible" ELSE "hidden"
           mode == IF cycle = "visible" THEN h.input ELSE "locked"
           g == [h EXCEPT !.attached = game.window, !.over = game.window,
                          !.lifecycle = cycle, !.input = mode]
<1> USE DEF Ready
<1>1. /\ h.input \in Inputs /\ h.requested \in BOOLEAN
  BY DEF HostRecords
<1>2. m = ApplyCurrent(g)
  <2>1. g = [h EXCEPT !.attached = game.window, !.over = game.window, !.lifecycle = cycle,
                      !.input = IF cycle = "visible" THEN @ ELSE "locked"]
    OBVIOUS
  <2> QED
    BY <2>1 DEF Attach
<1>3. /\ cycle \in {"detached", "minimized", "inactive", "hidden", "visible"}
      /\ mode \in Inputs /\ (cycle # "visible" => mode = "locked")
      /\ (cycle = "visible" => h.requested) /\ cycle # "detached"
      /\ (cycle \in {"visible", "hidden"} => game.active /\ ~game.minimized)
  BY <1>1 DEF Inputs
<1>4. game.window \in Handles /\ game.window # NoWindow
  BY DEF Handles, HandlesAreHandles
<1>9. HostAttach(h, game) = PublishVisibility(m)
  BY DEF HostAttach
<1> HIDE DEF cycle, mode, m
<1>5. g \in HostRecords
  BY <1>3, <1>4, Zenon DEF HostRecords
<1>6. /\ g.lifecycle = cycle /\ g.input = mode /\ g.requested = h.requested
      /\ g.attached = game.window /\ g.over = game.window /\ g.surface = h.surface
      /\ g.hit = h.hit /\ g.plan = h.plan /\ g.shown = h.shown
      /\ g.transparent = h.transparent /\ g.suppressed = h.suppressed /\ g.failed = h.failed
  BY Zenon DEF HostRecords
<1> HIDE DEF g
<1>7. /\ ~g.failed /\ (~Visible(g) => g.input = "locked") /\ (Visible(g) => g.requested)
      /\ (g.attached = NoWindow <=> g.lifecycle = "detached")
  BY <1>3, <1>4, <1>6 DEF InStep, Visible
<1>8. SameRest(m, g) /\ (Stopped(m) \/ (Ready(m) /\ m.input = mode /\ m.lifecycle = cycle))
  BY <1>2, <1>5, <1>6, <1>7, ApplyCurrentFacts
<1>10. CASE Stopped(m)
  BY <1>9, <1>10, StoppedStays
<1>11. CASE Ready(m) /\ m.lifecycle = cycle
  BY <1>3, <1>6, <1>8, <1>9, <1>11, PublishFacts DEF SameRest
<1> QED
  BY <1>8, <1>10, <1>11

LEMMA HostDetachFacts ==
  ASSUME NEW h, Ready(h)
  PROVE  LET r == HostDetach(h)
         IN  \/ Stopped(r)
             \/ /\ Ready(r) /\ r.requested = h.requested /\ r.attached = NoWindow
                /\ r.input = "locked" /\ r.lifecycle = "detached" /\ ~r.frame.visible
<1> DEFINE m == Detach(h)
           g == [h EXCEPT !.input = "locked", !.lifecycle = "detached", !.attached = NoWindow]
<1> USE DEF Ready
<1>1. CASE h.lifecycle = "detached"
  <2>1. HostDetach(h) = PublishVisibility(h)
    BY <1>1 DEF HostDetach, Detach
  <2>2. h.attached = NoWindow /\ h.input = "locked" /\ ~Visible(h)
    BY <1>1 DEF InStep, Visible
  <2> DEFINE r == PublishVisibility(h)
  <2>3. /\ Ready(r) /\ r.lifecycle = h.lifecycle /\ r.input = h.input
        /\ r.requested = h.requested /\ r.attached = h.attached /\ r.frame.visible = Visible(h)
    BY PublishFacts
  <2> HIDE DEF r
  <2> QED
    BY <1>1, <2>1, <2>2, <2>3 DEF r
<1>2. CASE h.lifecycle # "detached"
  <2>1. m = ApplyCurrent(g) /\ HostDetach(h) = PublishVisibility(m)
    BY <1>2 DEF Detach, HostDetach
  <2>2. NoWindow \in Handles /\ "locked" \in Inputs
    BY DEF Handles, Inputs
  <2> HIDE DEF m
  <2>3. g \in HostRecords
    BY <2>2, Zenon DEF HostRecords
  <2>4. /\ g.lifecycle = "detached" /\ g.input = "locked" /\ g.requested = h.requested
        /\ g.attached = NoWindow
        /\ g.hit = h.hit /\ g.plan = h.plan /\ g.shown = h.shown
        /\ g.transparent = h.transparent /\ g.suppressed = h.suppressed /\ g.failed = h.failed
    BY Zenon DEF HostRecords
  <2> HIDE DEF g
  <2>5. /\ ~g.failed /\ (~Visible(g) => g.input = "locked") /\ (Visible(g) => g.requested)
        /\ (g.attached = NoWindow <=> g.lifecycle = "detached")
    BY <2>4 DEF InStep, Visible
  <2>6. /\ SameRest(m, g)
        /\ Stopped(m) \/ (Ready(m) /\ m.input = "locked" /\ m.lifecycle = "detached")
    BY <2>1, <2>3, <2>4, <2>5, ApplyCurrentFacts
  <2>7. CASE Stopped(m)
    BY <2>1, <2>7, StoppedStays
  <2>8. CASE Ready(m) /\ m.input = "locked" /\ m.lifecycle = "detached"
    <3> DEFINE r == PublishVisibility(m)
    <3>1. /\ Ready(r) /\ r.lifecycle = m.lifecycle /\ r.input = m.input
          /\ r.requested = m.requested /\ r.attached = m.attached
          /\ r.frame.visible = Visible(m)
      BY <2>8, PublishFacts
    <3>2. ~Visible(m)
      BY <2>8 DEF Visible
    <3> HIDE DEF r
    <3> QED
      BY <2>1, <2>4, <2>6, <2>8, <3>1, <3>2 DEF SameRest, r
  <2> QED
    BY <2>6, <2>7, <2>8
<1> QED
  BY <1>1, <1>2

\* What a handler may leave behind.
Fit(r, s, isConnected, game) ==
  /\ r \in HostRecords
  /\ Closed(r) \/ (InStep(r) /\ Allowed(r, s, isConnected, game))
  /\ ~r.failed => FrameIsTrue(r)

\* A handler starts from a host in step.
LEMMA HandlerStarts ==
  ASSUME HostInv, ~ended, NEW f \in BOOLEAN
  PROVE  LET h == [host EXCEPT !.failing = f]
         IN  /\ Ready(h) /\ Allowed(h, hostSettings, controlConnected, gameWindow) /\ FrameIsTrue(h)
             /\ h.failing = f /\ h.suppressed = host.suppressed
<1> DEFINE h == [host EXCEPT !.failing = f]
<1>1. /\ host \in HostRecords /\ ~host.failed /\ InStep(host) /\ FrameIsTrue(host)
      /\ Allowed(host, hostSettings, controlConnected, gameWindow)
  BY DEF HostInv, Closed
<1>2. h \in HostRecords
  BY <1>1, Zenon DEF HostRecords
<1>3. /\ h.lifecycle = host.lifecycle /\ h.input = host.input
      /\ h.display = host.display /\ h.requested = host.requested
      /\ h.attached = host.attached /\ h.over = host.over /\ h.surface = host.surface
      /\ h.hit = host.hit /\ h.frame = host.frame /\ h.plan = host.plan
      /\ h.shown = host.shown /\ h.transparent = host.transparent
      /\ h.suppressed = host.suppressed /\ h.failed = host.failed /\ h.failing = f
  BY <1>1, Zenon DEF HostRecords
<1> HIDE DEF h
<1>4. InStep(h) /\ FrameIsTrue(h)
  BY <1>1, <1>3 DEF InStep, Visible, PlanOf, FrameIsTrue
<1>5. Allowed(h, hostSettings, controlConnected, gameWindow)
  BY <1>1, <1>3 DEF Allowed
<1> QED
  BY <1>1, <1>2, <1>3, <1>4, <1>5 DEF Ready, h

\* A handler that leaves the host fit keeps the invariant.
LEMMA HandlerEnds ==
  ASSUME NEW r, NEW s \in HostSettings, NEW isConnected, NEW game, Fit(r, s, isConnected, game),
         host' = [r EXCEPT !.failing = FALSE], ended' = r.failed, hostSettings' = s,
         controlConnected' = isConnected, gameWindow' = game, TrackedIsSeen'
  PROVE  HostInv'
<1>1. r \in HostRecords
  BY DEF Fit
<1>2. host' \in HostRecords
  BY <1>1, Zenon DEF HostRecords
<1>3. /\ host'.lifecycle = r.lifecycle /\ host'.input = r.input
      /\ host'.display = r.display /\ host'.requested = r.requested
      /\ host'.attached = r.attached /\ host'.over = r.over /\ host'.surface = r.surface
      /\ host'.hit = r.hit /\ host'.frame = r.frame /\ host'.plan = r.plan
      /\ host'.shown = r.shown /\ host'.transparent = r.transparent
      /\ host'.suppressed = r.suppressed /\ host'.failed = r.failed /\ host'.failing = FALSE
  BY <1>1, Zenon DEF HostRecords
<1>4. (InStep(r) => InStep(host)') /\ (Closed(r) => Closed(host)')
  BY <1>3 DEF InStep, Visible, PlanOf, Closed, NoPlan
<1>5. FrameIsTrue(r) => FrameIsTrue(host)'
  BY <1>3 DEF FrameIsTrue
<1>6. Allowed(r, s, isConnected, game) => Allowed(host, hostSettings, controlConnected, gameWindow)'
  BY <1>3 DEF Allowed
<1> QED
  BY <1>2, <1>3, <1>4, <1>5, <1>6 DEF Fit, HostInv

\* A stopped host is fit for everything.
LEMMA StoppedIsFit ==
  ASSUME NEW r, Stopped(r), NEW s, NEW isConnected, NEW game
  PROVE  Fit(r, s, isConnected, game)
BY DEF Stopped, Fit, Closed

\* The three operations the handlers chain, on a host that may have stopped.
LEMMA StoppedSkips ==
  ASSUME NEW h, Stopped(h), NEW a, NEW game
  PROVE  /\ HostSetInput(h, a) = h /\ HostSetDisplay(h, a) = h /\ HostSetRequested(h, a) = h
         /\ HostAttach(h, game) = h /\ HostDetach(h) = h
BY StoppedStays DEF HostSetInput, HostSetDisplay, HostSetRequested, HostAttach, HostDetach

LEMMA ApplySettingsStep ==
  ASSUME HostInv, NEW s \in HostSettings, NEW viaControl \in BOOLEAN,
         ApplyHostSettings(s, viaControl)
  PROVE  HostInv'
<1> DEFINE mode == IF viaControl THEN s.input ELSE InputFor(s, controlConnected)
           want == s.enabled /\ mapApplied /\ positionFit
           Result(h) == HostSetRequested(
                          PublishFrame(HostSetDisplay(HostSetInput(h, mode), s.display)), want)
<1>1. ~ended /\ hostSettings' = s /\ controlConnected' = (controlConnected \/ viaControl)
      /\ UNCHANGED <<screen, gameWindow, fresh>>
  BY DEF ApplyHostSettings, Handle
<1>2. PICK f \in BOOLEAN : /\ host' = [Result([host EXCEPT !.failing = f]) EXCEPT !.failing = FALSE]
                           /\ ended' = Result([host EXCEPT !.failing = f]).failed
  BY DEF ApplyHostSettings, Handle
<1> DEFINE h0 == [host EXCEPT !.failing = f]
           h1 == HostSetInput(h0, mode)
           h2 == HostSetDisplay(h1, s.display)
           h3 == PublishFrame(h2)
           h4 == HostSetRequested(h3, want)
           conn == controlConnected \/ viaControl
<1>3. host' = [h4 EXCEPT !.failing = FALSE] /\ ended' = h4.failed
  BY <1>2
<1>4. Ready(h0) /\ Allowed(h0, hostSettings, controlConnected, gameWindow)
  BY <1>1, HandlerStarts
<1>5. mode \in Inputs /\ s.display \in Displays /\ want \in BOOLEAN
      /\ (mode = "interactive" => conn /\ s.input = "interactive") /\ (want => s.enabled)
  BY DEF HostSettings, Inputs, Displays, InputFor
<1> HIDE DEF mode, want, conn, h0
<1>6. \/ Stopped(h1)
      \/ /\ Ready(h1) /\ h1.input = (IF Visible(h0) THEN mode ELSE "locked")
         /\ h1.lifecycle = h0.lifecycle /\ h1.attached = h0.attached /\ h1.over = h0.over
  BY <1>4, <1>5, HostSetInputFacts
<1> HIDE DEF h1
<1>7. \/ Stopped(h2)
      \/ /\ Ready(h2) /\ h2.input = (IF Visible(h0) THEN mode ELSE "locked")
         /\ h2.lifecycle = h0.lifecycle /\ h2.attached = h0.attached /\ h2.over = h0.over
  <2>1. CASE Stopped(h1)
    BY <2>1, StoppedSkips
  <2>2. CASE ~Stopped(h1)
    BY <1>5, <1>6, <2>2, HostSetDisplayFacts
  <2> QED
    BY <2>1, <2>2
<1> HIDE DEF h2
<1>8. \/ Stopped(h3)
      \/ /\ Ready(h3) /\ h3.input = (IF Visible(h0) THEN mode ELSE "locked")
         /\ h3.lifecycle = h0.lifecycle /\ h3.attached = h0.attached /\ h3.over = h0.over
         /\ h3.surface => h3.frame.input = h3.hit /\ h3.frame.display = h3.display
  <2>1. CASE Stopped(h2)
    BY <2>1, StoppedStays
  <2>2. CASE ~Stopped(h2)
    BY <1>7, <2>2, PublishFacts
  <2> QED
    BY <2>1, <2>2
<1> HIDE DEF h3
<1>9. Fit(h4, s, conn, gameWindow)
  <2>1. CASE Stopped(h3)
    BY <2>1, StoppedSkips, StoppedIsFit
  <2>2. CASE Stopped(h4)
    BY <2>2, StoppedIsFit
  <2>3. CASE ~Stopped(h3) /\ ~Stopped(h4)
    <3>1. /\ Ready(h4) /\ h4.requested = want /\ h4.attached = h3.attached /\ h4.over = h3.over
          /\ h4.display = h3.display /\ h4.surface = h3.surface
          /\ h4.lifecycle \in {"visible", "hidden"} => h3.lifecycle \in {"visible", "hidden"}
          /\ h4.input \in {h3.input, "locked"}
          /\ h4.frame.visible = Visible(h4) /\ h4.frame.input = h3.frame.input
          /\ h4.frame.display = h3.frame.display
          /\ Visible(h4) => h4.hit = h3.hit
      BY <1>5, <1>8, <2>3, HostSetRequestedFacts
    <3> HIDE DEF h4
    <3>2. FrameIsTrue(h4)
      BY <1>8, <2>3, <3>1 DEF FrameIsTrue
    <3>3. Allowed(h4, s, conn, gameWindow)
      BY <1>4, <1>5, <1>8, <2>3, <3>1 DEF Allowed
    <3> QED
      BY <3>1, <3>2, <3>3 DEF Fit, Ready
  <2> QED
    BY <2>1, <2>2, <2>3
<1> HIDE DEF h4
<1>10. TrackedIsSeen'
  BY <1>1 DEF HostInv, TrackedIsSeen, Snapshot
<1> QED
  BY <1>1, <1>3, <1>9, <1>10, HandlerEnds DEF conn

LEMMA DisconnectStep ==
  ASSUME HostInv, DisconnectControl
  PROVE  HostInv'
<1>1. ~ended /\ controlConnected' = FALSE /\ UNCHANGED <<screen, gameWindow, fresh, hostSettings>>
  BY DEF DisconnectControl, Handle
<1>2. PICK f \in BOOLEAN :
        /\ host' = [HostSetInput([host EXCEPT !.failing = f], "locked") EXCEPT !.failing = FALSE]
        /\ ended' = HostSetInput([host EXCEPT !.failing = f], "locked").failed
  BY DEF DisconnectControl, Handle
<1> DEFINE h0 == [host EXCEPT !.failing = f]
           h1 == HostSetInput(h0, "locked")
<1>3. host' = [h1 EXCEPT !.failing = FALSE] /\ ended' = h1.failed
  BY <1>2
<1>4. Ready(h0) /\ Allowed(h0, hostSettings, controlConnected, gameWindow)
  BY <1>1, HandlerStarts
<1> HIDE DEF h0
<1>5. Fit(h1, hostSettings, FALSE, gameWindow)
  <2>1. CASE Stopped(h1)
    BY <2>1, StoppedIsFit
  <2>2. CASE ~Stopped(h1)
    <3>1. /\ Ready(h1) /\ h1.input = "locked" /\ h1.lifecycle = h0.lifecycle
          /\ h1.requested = h0.requested /\ h1.attached = h0.attached /\ h1.over = h0.over
          /\ h1.surface = h0.surface
          /\ h1.surface => h1.frame.input = h1.hit /\ h1.frame.display = h1.display
      BY <1>4, <2>2, HostSetInputFacts DEF Inputs
    <3> HIDE DEF h1
    <3>2. FrameIsTrue(h1)
      BY <3>1 DEF FrameIsTrue
    <3>3. Allowed(h1, hostSettings, FALSE, gameWindow)
      BY <1>4, <3>1 DEF Allowed
    <3> QED
      BY <3>1, <3>2, <3>3 DEF Fit, Ready
  <2> QED
    BY <2>1, <2>2
<1> HIDE DEF h1
<1>6. TrackedIsSeen' /\ hostSettings \in HostSettings
  BY <1>1 DEF HostInv, TrackedIsSeen, Snapshot
<1> QED
  BY <1>1, <1>3, <1>5, <1>6, HandlerEnds

LEMMA SyncConsumerStep ==
  ASSUME HostInv, NEW on \in BOOLEAN, SyncConsumer(on)
  PROVE  HostInv'
<1> DEFINE Result(h) == [Suppress(h, on) EXCEPT !.failed = h.failing /\ Visible(h) /\ ~on]
<1>1. ~ended /\ on # host.suppressed
      /\ UNCHANGED <<screen, gameWindow, fresh, hostSettings, controlConnected>>
  BY DEF SyncConsumer, Handle
<1>2. PICK f \in BOOLEAN : /\ host' = [Result([host EXCEPT !.failing = f]) EXCEPT !.failing = FALSE]
                           /\ ended' = Result([host EXCEPT !.failing = f]).failed
  BY DEF SyncConsumer, Handle
<1> DEFINE h0 == [host EXCEPT !.failing = f]
           h1 == Result(h0)
           shows == Visible(h0) /\ ~on
           fails == h0.failing /\ Visible(h0) /\ ~on
<1>3. host' = [h1 EXCEPT !.failing = FALSE] /\ ended' = h1.failed
  BY <1>2
<1>4. /\ Ready(h0) /\ Allowed(h0, hostSettings, controlConnected, gameWindow) /\ FrameIsTrue(h0)
      /\ h0.suppressed # on
  BY <1>1, HandlerStarts
<1> HIDE DEF h0
<1>5. h1 = [[h0 EXCEPT !.suppressed = on, !.shown = shows] EXCEPT !.failed = fails]
  BY <1>4 DEF Suppress
<1>6. shows \in BOOLEAN /\ fails \in BOOLEAN
  OBVIOUS
<1> HIDE DEF shows, fails, Result, h1
<1>7. h1 \in HostRecords
  BY <1>4, <1>5, <1>6, Zenon DEF Ready, HostRecords
<1>8. /\ h1.lifecycle = h0.lifecycle /\ h1.input = h0.input
      /\ h1.display = h0.display /\ h1.requested = h0.requested
      /\ h1.attached = h0.attached /\ h1.over = h0.over /\ h1.surface = h0.surface
      /\ h1.hit = h0.hit /\ h1.frame = h0.frame /\ h1.plan = h0.plan
      /\ h1.transparent = h0.transparent
      /\ h1.shown = shows /\ h1.suppressed = on
  BY <1>4, <1>5, Zenon DEF Ready, HostRecords
<1>9. InStep(h1) /\ FrameIsTrue(h1)
  BY <1>4, <1>8 DEF Ready, InStep, Visible, PlanOf, FrameIsTrue, shows
<1>10. Allowed(h1, hostSettings, controlConnected, gameWindow)
  BY <1>4, <1>8 DEF Allowed
<1>11. Fit(h1, hostSettings, controlConnected, gameWindow)
  BY <1>7, <1>9, <1>10 DEF Fit
<1>12. TrackedIsSeen' /\ hostSettings \in HostSettings
  BY <1>1 DEF HostInv, TrackedIsSeen, Snapshot
<1> QED
  BY <1>1, <1>3, <1>11, <1>12, HandlerEnds

LEMMA TickStep ==
  ASSUME HostInv, NEW pos \in BOOLEAN, HostTick(pos)
  PROVE  HostInv'
<1> DEFINE Drawn(h) == IF pos THEN PublishFrame([h EXCEPT !.surface = TRUE]) ELSE h
           want == hostSettings.enabled /\ pos
           Result(h) == HostSetRequested(Drawn(h), want)
<1>1. ~ended /\ UNCHANGED <<screen, gameWindow, fresh, hostSettings, controlConnected>>
  BY DEF HostTick, Handle
<1>2. PICK f \in BOOLEAN : /\ host' = [Result([host EXCEPT !.failing = f]) EXCEPT !.failing = FALSE]
                           /\ ended' = Result([host EXCEPT !.failing = f]).failed
  BY DEF HostTick, Handle
<1> DEFINE h0 == [host EXCEPT !.failing = f]
           h1 == Drawn(h0)
           h2 == HostSetRequested(h1, want)
<1>3. host' = [h2 EXCEPT !.failing = FALSE] /\ ended' = h2.failed
  BY <1>2
<1>4. Ready(h0) /\ Allowed(h0, hostSettings, controlConnected, gameWindow)
  BY <1>1, HandlerStarts
<1>5. want \in BOOLEAN /\ (want => hostSettings.enabled /\ pos)
  OBVIOUS
<1> HIDE DEF h0, want
<1>6. /\ Ready(h1) /\ h1.input = h0.input /\ h1.lifecycle = h0.lifecycle
      /\ h1.attached = h0.attached /\ h1.over = h0.over
      /\ pos => h1.frame.input = h1.hit /\ h1.frame.display = h1.display
  <2>1. CASE ~pos
    BY <1>4, <2>1
  <2>2. CASE pos
    <3> DEFINE g == [h0 EXCEPT !.surface = TRUE]
    <3>1. h1 = PublishFrame(g)
      BY <2>2
    <3>2. g \in HostRecords
      BY <1>4, Zenon DEF Ready, HostRecords
    <3>3. /\ g.lifecycle = h0.lifecycle /\ g.input = h0.input
          /\ g.display = h0.display /\ g.requested = h0.requested
          /\ g.attached = h0.attached /\ g.over = h0.over /\ g.surface
          /\ g.hit = h0.hit /\ g.plan = h0.plan /\ g.shown = h0.shown
          /\ g.transparent = h0.transparent /\ g.suppressed = h0.suppressed
          /\ g.failed = h0.failed
      BY <1>4, Zenon DEF Ready, HostRecords
    <3> HIDE DEF g
    <3>4. Ready(g)
      BY <1>4, <3>2, <3>3 DEF Ready, InStep, Visible, PlanOf
    <3> QED
      BY <3>1, <3>3, <3>4, PublishFacts
  <2> QED
    BY <2>1, <2>2
<1> HIDE DEF h1
<1>7. Fit(h2, hostSettings, controlConnected, gameWindow)
  <2>1. CASE Stopped(h2)
    BY <2>1, StoppedIsFit
  <2>2. CASE ~Stopped(h2)
    <3>1. /\ Ready(h2) /\ h2.requested = want /\ h2.attached = h1.attached /\ h2.over = h1.over
          /\ h2.display = h1.display
          /\ h2.lifecycle \in {"visible", "hidden"} => h1.lifecycle \in {"visible", "hidden"}
          /\ h2.input \in {h1.input, "locked"}
          /\ h2.frame.visible = Visible(h2) /\ h2.frame.input = h1.frame.input
          /\ h2.frame.display = h1.frame.display
          /\ Visible(h2) => h2.hit = h1.hit
      BY <1>5, <1>6, <2>2, HostSetRequestedFacts
    <3> HIDE DEF h2
    <3>2. Visible(h2) => pos
      BY <1>5, <3>1 DEF Ready, InStep
    <3>3. FrameIsTrue(h2)
      BY <1>6, <3>1, <3>2 DEF FrameIsTrue
    <3>4. Allowed(h2, hostSettings, controlConnected, gameWindow)
      BY <1>4, <1>5, <1>6, <3>1 DEF Allowed
    <3> QED
      BY <3>1, <3>3, <3>4 DEF Fit, Ready
  <2> QED
    BY <2>1, <2>2
<1> HIDE DEF h2
<1>8. TrackedIsSeen' /\ hostSettings \in HostSettings
  BY <1>1 DEF HostInv, TrackedIsSeen, Snapshot
<1> QED
  BY <1>1, <1>3, <1>7, <1>8, HandlerEnds

LEMMA FollowStep ==
  ASSUME HandlesAreHandles, HostInv, ~ended, NEW game, game.window \in Windows, game # NoWindow,
         Follow(game), gameWindow' = game, TrackedIsSeen', UNCHANGED <<hostSettings, controlConnected>>
  PROVE  HostInv'
<1> DEFINE changed == ~SameProcess(gameWindow, game)
           mode == InputFor(hostSettings, controlConnected)
           Result(h) == HostSetDisplay(
                          HostSetInput(
                            HostAttach(IF changed THEN HostSetRequested(h, FALSE) ELSE h, game),
                            mode),
                          hostSettings.display)
<1>2. PICK f \in BOOLEAN : /\ host' = [Result([host EXCEPT !.failing = f]) EXCEPT !.failing = FALSE]
                           /\ ended' = Result([host EXCEPT !.failing = f]).failed
  BY DEF Follow, Handle
<1> DEFINE h0 == [host EXCEPT !.failing = f]
           h1 == IF changed THEN HostSetRequested(h0, FALSE) ELSE h0
           h2 == HostAttach(h1, game)
           h3 == HostSetInput(h2, mode)
           h4 == HostSetDisplay(h3, hostSettings.display)
<1>3. host' = [h4 EXCEPT !.failing = FALSE] /\ ended' = h4.failed
  BY <1>2
<1>4. Ready(h0) /\ Allowed(h0, hostSettings, controlConnected, gameWindow)
  BY HandlerStarts
<1>5. /\ hostSettings \in HostSettings /\ mode \in Inputs /\ hostSettings.display \in Displays
      /\ mode = "interactive" => controlConnected /\ hostSettings.input = "interactive"
  BY DEF HostInv, HostSettings, Inputs, Displays, InputFor
<1> HIDE DEF h0, changed, mode
<1>6. Stopped(h1) \/ (Ready(h1) /\ (h1.requested => hostSettings.enabled))
  <2>1. CASE changed
    BY <1>4, <2>1, HostSetRequestedFacts
  <2>2. CASE ~changed
    BY <1>4, <2>2 DEF Allowed
  <2> QED
    BY <2>1, <2>2
<1> HIDE DEF h1
<1>7. \/ Stopped(h2)
      \/ /\ Ready(h2) /\ (h2.requested => hostSettings.enabled)
         /\ h2.attached = game.window /\ h2.over = game.window
         /\ h2.lifecycle \in {"visible", "hidden"} => game.active /\ ~game.minimized
  <2>1. CASE Stopped(h1)
    BY <2>1, StoppedSkips
  <2>2. CASE ~Stopped(h1)
    BY <1>6, <2>2, HostAttachFacts
  <2> QED
    BY <2>1, <2>2
<1> HIDE DEF h2
<1>8. \/ Stopped(h3)
      \/ /\ Ready(h3) /\ (h3.requested => hostSettings.enabled)
         /\ h3.attached = game.window /\ h3.over = game.window
         /\ h3.lifecycle \in {"visible", "hidden"} => game.active /\ ~game.minimized
         /\ h3.input \in {mode, "locked"}
  <2>1. CASE Stopped(h2)
    BY <2>1, StoppedSkips
  <2>2. CASE ~Stopped(h2)
    BY <1>5, <1>7, <2>2, HostSetInputFacts
  <2> QED
    BY <2>1, <2>2
<1> HIDE DEF h3
<1>9. Fit(h4, hostSettings, controlConnected, game)
  <2>1. CASE Stopped(h3)
    BY <2>1, StoppedSkips, StoppedIsFit
  <2>2. CASE Stopped(h4)
    BY <2>2, StoppedIsFit
  <2>3. CASE ~Stopped(h3) /\ ~Stopped(h4)
    <3>1. /\ Ready(h4) /\ h4.input = h3.input /\ h4.lifecycle = h3.lifecycle
          /\ h4.requested = h3.requested /\ h4.attached = h3.attached /\ h4.over = h3.over
          /\ h4.surface = h3.surface
          /\ h4.surface => h4.frame.input = h4.hit /\ h4.frame.display = h4.display
      BY <1>5, <1>8, <2>3, HostSetDisplayFacts
    <3> HIDE DEF h4
    <3>2. FrameIsTrue(h4)
      BY <3>1 DEF FrameIsTrue
    <3>3. game.window # NoWindow
      BY DEF HandlesAreHandles
    <3>4. Allowed(h4, hostSettings, controlConnected, game)
      BY <1>5, <1>8, <2>3, <3>1, <3>3 DEF Allowed
    <3> QED
      BY <3>1, <3>2, <3>4 DEF Fit, Ready
  <2> QED
    BY <2>1, <2>2, <2>3
<1> HIDE DEF h4
<1> QED
  BY <1>3, <1>5, <1>9, HandlerEnds

LEMMA LoseStep ==
  ASSUME HostInv, ~ended, Lose, gameWindow' = NoWindow, UNCHANGED <<hostSettings, controlConnected>>
  PROVE  HostInv'
<1> DEFINE Result(h) == HostDetach(HostSetRequested(h, FALSE))
<1>2. PICK f \in BOOLEAN : /\ host' = [Result([host EXCEPT !.failing = f]) EXCEPT !.failing = FALSE]
                           /\ ended' = Result([host EXCEPT !.failing = f]).failed
  BY DEF Lose, Handle
<1> DEFINE h0 == [host EXCEPT !.failing = f]
           h1 == HostSetRequested(h0, FALSE)
           h2 == HostDetach(h1)
<1>3. host' = [h2 EXCEPT !.failing = FALSE] /\ ended' = h2.failed
  BY <1>2
<1>4. Ready(h0)
  BY HandlerStarts
<1> HIDE DEF h0
<1>5. Stopped(h1) \/ (Ready(h1) /\ h1.requested = FALSE)
  BY <1>4, HostSetRequestedFacts
<1> HIDE DEF h1
<1>6. Fit(h2, hostSettings, controlConnected, NoWindow)
  <2>1. CASE Stopped(h1)
    BY <2>1, StoppedSkips, StoppedIsFit
  <2>2. CASE Stopped(h2)
    BY <2>2, StoppedIsFit
  <2>3. CASE ~Stopped(h1) /\ ~Stopped(h2)
    <3>1. /\ Ready(h2) /\ ~h2.requested /\ h2.attached = NoWindow
          /\ h2.input = "locked" /\ h2.lifecycle = "detached" /\ ~h2.frame.visible
      BY <1>5, <2>3, HostDetachFacts
    <3> HIDE DEF h2
    <3>2. FrameIsTrue(h2) /\ Allowed(h2, hostSettings, controlConnected, NoWindow)
      BY <3>1 DEF FrameIsTrue, Allowed
    <3> QED
      BY <3>1, <3>2 DEF Fit, Ready
  <2> QED
    BY <2>1, <2>2, <2>3
<1> HIDE DEF h2
<1>7. TrackedIsSeen' /\ hostSettings \in HostSettings
  BY DEF TrackedIsSeen, HostInv
<1> QED
  BY <1>3, <1>6, <1>7, HandlerEnds

LEMMA PollStep ==
  ASSUME HandlesAreHandles, HostInv, NEW inspected \in BOOLEAN, PollTarget(inspected)
  PROVE  HostInv'
<1>1. ~ended /\ fresh' = TRUE /\ UNCHANGED <<screen, hostSettings, controlConnected>>
  BY DEF PollTarget
<1>2. PICK game \in PollResults(inspected) :
        /\ gameWindow' = game
        /\ IF game = gameWindow THEN UNCHANGED <<host, mapApplied, positionFit, faults, ended>>
           ELSE IF game = NoWindow THEN Lose ELSE Follow(game)
  BY DEF PollTarget
<1>3. game = NoWindow \/ \E w \in Windows : game = Snapshot(w)
  BY DEF PollResults, BestCandidates, HostInv, TrackedIsSeen
<1>4. game # NoWindow => game.window \in Windows /\ game = Snapshot(game.window)
  BY <1>3 DEF Snapshot
<1>5. TrackedIsSeen'
  BY <1>1, <1>2, <1>4 DEF TrackedIsSeen, Snapshot
<1>6. CASE game = gameWindow
  BY <1>1, <1>2, <1>5, <1>6 DEF HostInv
<1>7. CASE game # gameWindow /\ game = NoWindow
  BY <1>1, <1>2, <1>7, LoseStep
<1>8. CASE game # gameWindow /\ game # NoWindow
  BY <1>1, <1>2, <1>4, <1>5, <1>8, FollowStep
<1> QED
  BY <1>6, <1>7, <1>8

LEMMA HostStart ==
  ASSUME HostInit
  PROVE  HostInv
<1>1. /\ "locked" \in Inputs /\ "mini" \in Displays /\ NoWindow \in Handles
  BY DEF Inputs, Displays, Handles
<1>2. /\ NoPlan \in [input : Inputs \cup {"none"}, display : Displays \cup {"none"},
                     visible : BOOLEAN, over : Handles]
      /\ [visible |-> FALSE, input |-> "locked", display |-> "mini"]
            \in [visible : BOOLEAN, input : Inputs, display : Displays]
  BY <1>1 DEF NoPlan
<1>3. host \in HostRecords
  <2> DEFINE f == [visible |-> FALSE, input |-> "locked", display |-> "mini"]
             p == NoPlan
  <2>1. host = [lifecycle |-> "detached", input |-> "locked", display |-> "mini",
                requested |-> FALSE, attached |-> NoWindow, over |-> NoWindow, plan |-> p,
                shown |-> FALSE, transparent |-> TRUE, hit |-> "locked",
                suppressed |-> FALSE, surface |-> FALSE, frame |-> f,
                failing |-> FALSE, failed |-> FALSE]
    BY DEF HostInit
  <2>2. f \in [visible : BOOLEAN, input : Inputs, display : Displays]
        /\ p \in [input : Inputs \cup {"none"}, display : Displays \cup {"none"},
                  visible : BOOLEAN, over : Handles]
    BY <1>2
  <2> HIDE DEF f, p
  <2> QED
    BY <1>1, <2>1, <2>2 DEF HostRecords
<1>4. InStep(host) /\ FrameIsTrue(host) /\ ~host.failing /\ ended = host.failed
  BY DEF HostInit, InStep, Visible, PlanOf, FrameIsTrue
<1>5. Allowed(host, hostSettings, controlConnected, gameWindow) /\ TrackedIsSeen
  BY DEF HostInit, Allowed, TrackedIsSeen
<1>6. hostSettings \in HostSettings
  BY DEF HostInit, HostSettings
<1> QED
  BY <1>3, <1>4, <1>5, <1>6 DEF HostInv

LEMMA HostStep ==
  ASSUME HandlesAreHandles, HostInv, [HostNext]_hostVars
  PROVE  HostInv'
<1>1. CASE \E s \in HostSettings, viaControl \in BOOLEAN : ApplyHostSettings(s, viaControl)
  BY <1>1, ApplySettingsStep
<1>2. CASE DisconnectControl
  BY <1>2, DisconnectStep
<1>3. CASE \E on \in BOOLEAN : SyncConsumer(on)
  BY <1>3, SyncConsumerStep
<1>4. CASE \E inspected \in BOOLEAN : PollTarget(inspected)
  BY <1>4, PollStep
<1>5. CASE \E pos \in BOOLEAN : HostTick(pos)
  BY <1>5, TickStep
<1>6. CASE \E w \in Windows, o \in Observations \cup {NoWindow} : ScreenChange(w, o)
  <2>1. fresh' = FALSE /\ UNCHANGED <<gameWindow, host, hostSettings, controlConnected, ended>>
    BY <1>6 DEF ScreenChange
  <2>2. TrackedIsSeen'
    BY <2>1 DEF HostInv, TrackedIsSeen
  <2> QED
    BY <2>1, <2>2 DEF HostInv
<1>7. CASE UNCHANGED hostVars
  <2>1. UNCHANGED <<screen, gameWindow, fresh, host, hostSettings, controlConnected, ended>>
    BY <1>7 DEF hostVars
  <2>2. TrackedIsSeen'
    BY <2>1 DEF HostInv, TrackedIsSeen, Snapshot
  <2> QED
    BY <2>1, <2>2 DEF HostInv
<1> QED
  BY <1>1, <1>2, <1>3, <1>4, <1>5, <1>6, <1>7 DEF HostNext

\* A host in step keeps the window's four promises.
LEMMA InStepIsInPlace ==
  ASSUME HandlesAreHandles, HostInv
  PROVE  WindowStaysInPlace
<1>1. CASE Closed(host)
  BY <1>1 DEF HostInv, Closed, WindowStaysInPlace, MouseNeedsPermission, TakesMouse,
         ShownOverTheGame, FrameTellsTheMode, FailureHides
<1>2. CASE InStep(host) /\ Allowed(host, hostSettings, controlConnected, gameWindow)
  <2>1. host \in HostRecords /\ host.input \in Inputs /\ host.suppressed \in BOOLEAN
    BY DEF HostInv, HostRecords
  <2>2. PlanOf(host) # NoPlan
    BY <2>1, PlanFacts
  <2>3. FailureHides
    BY <1>2, <2>2 DEF FailureHides, InStep, Visible
  <2>4. FrameTellsTheMode
    BY DEF HostInv, FrameIsTrue, FrameTellsTheMode
  <2>5. MouseNeedsPermission
    BY <1>2, <2>1 DEF MouseNeedsPermission, TakesMouse, InStep, Allowed, Inputs
  <2>6. ShownOverTheGame
    <3> SUFFICES ASSUME host.shown
                 PROVE  /\ hostSettings.enabled /\ ~host.suppressed /\ gameWindow # NoWindow
                        /\ host.over = gameWindow.window
                        /\ fresh => /\ screen[gameWindow.window].foreground
                                    /\ ~screen[gameWindow.window].minimized
      BY DEF ShownOverTheGame
    <3>1. Visible(host) /\ ~host.suppressed /\ host.requested /\ host.lifecycle # "detached"
      BY <1>2 DEF InStep, Visible
    <3>2. /\ hostSettings.enabled /\ gameWindow # NoWindow /\ host.over = gameWindow.window
          /\ gameWindow.active /\ ~gameWindow.minimized
      BY <1>2, <3>1 DEF Allowed, InStep, Visible
    <3>3. ASSUME fresh
          PROVE  screen[gameWindow.window].foreground /\ ~screen[gameWindow.window].minimized
      <4>1. gameWindow = Snapshot(gameWindow.window)
        BY <3>2, <3>3 DEF HostInv, TrackedIsSeen
      <4>2. Snapshot(gameWindow.window).active = screen[gameWindow.window].foreground
            /\ Snapshot(gameWindow.window).minimized = screen[gameWindow.window].minimized
        BY DEF Snapshot
      <4> QED
        BY <3>2, <4>1, <4>2, Zenon
    <3> QED
      BY <3>1, <3>2, <3>3
  <2> QED
    BY <2>3, <2>4, <2>5, <2>6 DEF WindowStaysInPlace
<1> QED
  BY <1>1, <1>2 DEF HostInv

\* Every handler of the overlay loop leaves the window what the controller
\* says it is, within what the settings, the control connection and the
\* tracker allow, or hidden after a failed call (host_model.rs, win32_host.rs).
THEOREM HostInvariant ==
  ASSUME HandlesAreHandles
  PROVE  HostSpec => []HostInv
<1>1. HostInit => HostInv
  BY HostStart
<1>2. HostInv /\ [HostNext]_hostVars => HostInv'
  BY HostStep
<1> QED
  BY <1>1, <1>2, PTL DEF HostSpec

\* The overlay's window takes the mouse only with permission, is on the screen
\* only over the game, tells a fullscreen consumer its modes, and is hidden by
\* a plan that fails, for any windows and any looks of them.
THEOREM WindowAlwaysInPlace ==
  ASSUME HandlesAreHandles
  PROVE  HostSpec => []WindowStaysInPlace
<1>1. HostInv => WindowStaysInPlace
  BY InStepIsInPlace
<1> QED
  BY <1>1, HostInvariant, PTL

-----------------------------------------------------------------------------
(* Proofs about the hotkeys, for every set of chords and every number of    *)
(* actions.  Each loop of replace leaves the actions before its index       *)
(* settled and the others as they were; what the registry may still hold    *)
(* when the second loop starts is bound to an action that does not change.  *)

\* There is an action, and a chord is a chord.
HotkeysAssumption ==
  /\ Len(Actions) \in Nat \ {0} /\ Ids = 1 .. Len(Actions)
  /\ NoHotkey \notin Chords

Bindings == [Ids -> Chords \cup {NoHotkey}]
TargetSets == [Ids -> [chord : Chords \cup {NoHotkey}, duplicate : BOOLEAN]]
Busy == pc.phase \in {"unregister", "register"}

\* A later action with the chord of an earlier one is its duplicate.
Resolved(ts) ==
  \A i \in Ids : ts[i].duplicate <=>
    ts[i].chord # NoHotkey /\ \E j \in 1..(i - 1) : ts[j].chord = ts[i].chord

HotkeysTypeOK ==
  /\ targets \in TargetSets
  /\ outcomes \in [Ids -> {"none", "active", "duplicate", "collision"}]
  /\ registered \in Bindings /\ held \in Bindings /\ attempted \in [Ids -> BOOLEAN]
  /\ poisoned \in BOOLEAN /\ registrationFaults \in Nat
  /\ pc.phase \in {"idle", "unregister", "register", "dropped"}
  /\ Busy => /\ pc = [phase |-> pc.phase, index |-> pc.index, targets |-> pc.targets]
             /\ pc.index \in Ids /\ pc.targets \in TargetSets /\ Resolved(pc.targets)

\* The outcome of action i is that of the binding ts gives it.
HotkeySettled(i, ts) ==
  /\ registered[i] # NoHotkey => registered[i] = ts[i].chord /\ outcomes[i] = "active"
  /\ outcomes[i] = "active" => registered[i] # NoHotkey
  /\ outcomes[i] = "duplicate" <=> ts[i].duplicate

\* Action i waits for the second loop: given up, or not to be changed.
Cleared(i) == IF Changed(i) THEN registered[i] = NoHotkey ELSE HotkeySettled(i, targets)

LoopsAreOrdered ==
  ~poisoned =>
    /\ pc.phase = "idle" => \A i \in Ids : HotkeySettled(i, targets)
    /\ pc.phase = "unregister" =>
         \A i \in Ids : IF i < pc.index THEN Cleared(i) ELSE HotkeySettled(i, targets)
    /\ pc.phase = "register" =>
         \A i \in Ids : IF i < pc.index THEN HotkeySettled(i, pc.targets) ELSE Cleared(i)

\* Only a call that failed leaves a registration that nobody gives up.
OneIsStuck ==
  /\ pc.phase # "dropped" => held = registered
  /\ poisoned => ~Busy /\ registrationFaults >= 1
  /\ \E k \in Ids : \A i \in Ids : attempted[i] /\ held[i] # NoHotkey => poisoned /\ i = k
  /\ pc.phase = "dropped" => \A i \in Ids : held[i] # NoHotkey => attempted[i]

HotkeysInv == HotkeysTypeOK /\ LoopsAreOrdered /\ OneIsStuck

LEMMA HotkeysStart == ASSUME HotkeysAssumption, HotkeysInit PROVE HotkeysInv
<1>1. HotkeysTypeOK
  <2>1. Unbound \in TargetSets
    BY DEF Unbound, TargetSets
  <2> QED
    BY <2>1 DEF HotkeysInit, HotkeysTypeOK, Bindings, Busy, IdleRegistry
<1>2. \A i \in Ids : HotkeySettled(i, targets)
  <2>1. \A i \in Ids : ~Unbound[i].duplicate
    BY DEF Unbound
  <2> QED
    BY <2>1 DEF HotkeysInit, HotkeySettled
<1>3. LoopsAreOrdered
  BY <1>2 DEF HotkeysInit, LoopsAreOrdered, IdleRegistry
<1>4. OneIsStuck
  <2>1. 1 \in Ids
    BY DEF HotkeysAssumption
  <2> QED
    BY <2>1 DEF HotkeysInit, OneIsStuck, Busy, IdleRegistry
<1> QED
  BY <1>1, <1>3, <1>4 DEF HotkeysInv

LEMMA ResolveFacts ==
  ASSUME HotkeysAssumption, NEW bindings \in Bindings
  PROVE  Resolve(bindings) \in TargetSets /\ Resolved(Resolve(bindings))
<1>1. \A i \in Ids : /\ Resolve(bindings)[i].chord = bindings[i]
                     /\ Resolve(bindings)[i].duplicate =
                          (bindings[i] # NoHotkey /\ \E j \in 1..(i - 1) : bindings[j] = bindings[i])
                     /\ Resolve(bindings)[i].duplicate \in BOOLEAN
  BY DEF Resolve
<1>2. Resolve(bindings) \in TargetSets
  BY DEF Resolve, TargetSets, Bindings
<1>3. \A i \in Ids : \A j \in 1..(i - 1) : j \in Ids
  BY DEF HotkeysAssumption
<1>4. Resolved(Resolve(bindings))
  BY <1>1, <1>3 DEF Resolved
<1> QED
  BY <1>2, <1>4

LEMMA ReplaceKeeps ==
  ASSUME HotkeysAssumption, HotkeysInv, NEW bindings \in Bindings, NEW valid \in BOOLEAN,
         Replace(bindings, valid)
  PROVE  HotkeysInv'
<1> USE DEF HotkeysInv
<1>1. /\ pc.phase = "idle"
      /\ UNCHANGED <<targets, outcomes, registered, attempted, poisoned, held, registrationFaults>>
  BY DEF Replace, registry
<1>2. \/ pc' = pc
      \/ /\ ~poisoned
         /\ pc' = [phase |-> "unregister", index |-> 1, targets |-> Resolve(bindings)]
  BY DEF Replace
<1>3. CASE pc' = pc
  <2>1. HotkeysTypeOK'
    BY <1>1, <1>3 DEF HotkeysTypeOK, Busy
  <2>2. LoopsAreOrdered' /\ OneIsStuck'
    BY <1>1, <1>3 DEF LoopsAreOrdered, OneIsStuck, HotkeySettled, Busy
  <2> QED
    BY <2>1, <2>2
<1>4. CASE ~poisoned /\ pc' = [phase |-> "unregister", index |-> 1, targets |-> Resolve(bindings)]
  <2>1. pc'.phase = "unregister" /\ pc'.index = 1 /\ pc'.targets = Resolve(bindings) /\ 1 \in Ids
        /\ pc' = [phase |-> pc'.phase, index |-> pc'.index, targets |-> pc'.targets]
    BY <1>4 DEF HotkeysAssumption
  <2>2. HotkeysTypeOK'
    BY <1>1, <2>1, ResolveFacts DEF HotkeysTypeOK, Resolved
  <2>3. LoopsAreOrdered'
    <3>1. \A i \in Ids : ~(i < 1)
      BY DEF HotkeysAssumption
    <3> QED
      BY <1>1, <1>4, <2>1, <3>1 DEF LoopsAreOrdered, HotkeySettled
  <2>4. OneIsStuck'
    BY <1>1, <1>4, <2>1 DEF OneIsStuck
  <2> QED
    BY <2>2, <2>3, <2>4
<1> QED
  BY <1>2, <1>3, <1>4

LEMMA PoisonKeeps ==
  ASSUME HotkeysAssumption, HotkeysInv, Busy, Poison,
         UNCHANGED <<targets, outcomes, registered, held>>,
         \/ attempted' = [attempted EXCEPT ![pc.index] = TRUE]
         \/ attempted' = attempted
  PROVE  HotkeysInv'
<1> USE DEF HotkeysInv
<1>1. poisoned' = TRUE /\ pc' = IdleRegistry /\ registrationFaults' = registrationFaults + 1
  BY DEF Poison
<1>2. pc.index \in Ids /\ attempted \in [Ids -> BOOLEAN] /\ pc.phase # "dropped" /\ ~poisoned
  BY DEF HotkeysTypeOK, OneIsStuck, Busy
<1>3. HotkeysTypeOK'
  <2>1. attempted' \in [Ids -> BOOLEAN]
    BY <1>2
  <2>2. registrationFaults' \in Nat
    BY <1>1 DEF HotkeysTypeOK
  <2> QED
    BY <1>1, <2>1, <2>2 DEF HotkeysTypeOK, Busy, IdleRegistry
<1>4. LoopsAreOrdered'
  BY <1>1 DEF LoopsAreOrdered
<1>5. OneIsStuck'
  <2>1. \A i \in Ids : attempted'[i] /\ held[i] # NoHotkey => i = pc.index
    BY <1>2 DEF OneIsStuck
  <2>2. registrationFaults' >= 1
    BY <1>1 DEF HotkeysTypeOK
  <2> QED
    BY <1>1, <1>2, <2>1, <2>2 DEF OneIsStuck, Busy, IdleRegistry
<1> QED
  BY <1>3, <1>4, <1>5

\* A turn of the first loop that goes on.
LEMMA UnregisterGoesOn ==
  ASSUME HotkeysAssumption, HotkeysInv, pc.phase = "unregister",
         pc' = AfterUnregister(pc.index),
         UNCHANGED <<targets, outcomes, poisoned, registrationFaults>>,
         \/ /\ registered' = [registered EXCEPT ![pc.index] = NoHotkey]
            /\ held' = [held EXCEPT ![pc.index] = NoHotkey]
            /\ attempted' = [attempted EXCEPT ![pc.index] = TRUE]
            /\ Changed(pc.index)
         \/ /\ UNCHANGED <<registered, held, attempted>>
            /\ ~Changed(pc.index) \/ registered[pc.index] = NoHotkey
  PROVE  HotkeysInv'
<1> USE DEF HotkeysInv
<1>0. PICK i \in Ids : i = pc.index
  BY DEF HotkeysTypeOK, Busy
<1>1. /\ i \in Ids /\ i \in Nat /\ i <= Len(Actions) /\ ~poisoned /\ held = registered
      /\ pc.targets \in TargetSets /\ Resolved(pc.targets)
      /\ registered \in Bindings /\ attempted \in [Ids -> BOOLEAN]
  BY <1>0 DEF HotkeysTypeOK, OneIsStuck, Busy, HotkeysAssumption
<1>2. /\ pc'.targets = pc.targets
      /\ pc' = [phase |-> pc'.phase, index |-> pc'.index, targets |-> pc'.targets]
      /\ \/ i = Len(Actions) /\ pc'.phase = "register" /\ pc'.index = 1
         \/ i < Len(Actions) /\ pc'.phase = "unregister" /\ pc'.index = i + 1
  <2>1. pc = [phase |-> pc.phase, index |-> pc.index, targets |-> pc.targets]
    BY DEF HotkeysTypeOK, Busy
  <2>2. CASE i = Len(Actions)
    <3>1. pc' = [phase |-> "register", index |-> 1, targets |-> pc.targets]
      BY <1>0, <2>1, <2>2 DEF AfterUnregister
    <3> QED
      BY <2>2, <3>1
  <2>3. CASE i # Len(Actions)
    <3>1. pc' = [phase |-> pc.phase, index |-> i + 1, targets |-> pc.targets]
      BY <1>0, <2>1, <2>3 DEF AfterUnregister
    <3>2. i < Len(Actions)
      BY <1>1, <2>3 DEF HotkeysAssumption
    <3> QED
      BY <3>1, <3>2
  <2> QED
    BY <2>2, <2>3
<1>3. \A j \in Ids : j # i => registered'[j] = registered[j] /\ held'[j] = held[j] /\ attempted'[j] = attempted[j]
  BY <1>0, <1>1 DEF Bindings
<1>4. /\ registered' \in Bindings /\ held' = registered' /\ attempted' \in [Ids -> BOOLEAN]
      /\ Changed(i) => registered'[i] = NoHotkey
      /\ ~Changed(i) => registered'[i] = registered[i]
  BY <1>0, <1>1 DEF Bindings
<1>5. HotkeysTypeOK'
  <2>1. pc'.index \in Ids
    BY <1>1, <1>2 DEF HotkeysAssumption
  <2> QED
    BY <1>1, <1>2, <1>4, <2>1 DEF HotkeysTypeOK, Busy, Resolved
<1>6. \A j \in Ids : (j < i => Cleared(j)) /\ (~(j < i) => HotkeySettled(j, targets))
  BY <1>0, <1>1 DEF LoopsAreOrdered
<1>7. \A j \in Ids : j # i /\ Cleared(j) => Cleared(j)'
  BY <1>2, <1>3 DEF Cleared, Changed, HotkeySettled
<1>8. \A j \in Ids : j # i /\ HotkeySettled(j, targets) => HotkeySettled(j, targets)'
  BY <1>3 DEF HotkeySettled
<1>9. Cleared(i)'
  <2>1. HotkeySettled(i, targets)
    BY <1>1, <1>6
  <2> QED
    BY <1>2, <1>4, <2>1 DEF Cleared, Changed, HotkeySettled
<1>10. LoopsAreOrdered'
  <2>1. CASE i = Len(Actions) /\ pc'.phase = "register" /\ pc'.index = 1
    <3>1. \A j \in Ids : ~(j < 1) /\ (j = i \/ j < i)
      BY <1>1, <2>1 DEF HotkeysAssumption
    <3>2. \A j \in Ids : Cleared(j)'
      BY <1>6, <1>7, <1>9, <3>1
    <3> QED
      BY <2>1, <3>1, <3>2 DEF LoopsAreOrdered
  <2>2. CASE i < Len(Actions) /\ pc'.phase = "unregister" /\ pc'.index = i + 1
    <3>1. \A j \in Ids : (j < i + 1 <=> j < i \/ j = i) /\ (j < i => j # i)
      BY <1>1 DEF HotkeysAssumption
    <3>2. \A j \in Ids : IF j < i + 1 THEN Cleared(j)' ELSE HotkeySettled(j, targets)'
      BY <1>6, <1>7, <1>8, <1>9, <3>1
    <3> QED
      BY <2>2, <3>2 DEF LoopsAreOrdered
  <2> QED
    BY <1>2, <2>1, <2>2
<1>11. OneIsStuck'
  <2>1. PICK k \in Ids : \A j \in Ids : attempted[j] /\ held[j] # NoHotkey => poisoned /\ j = k
    BY DEF OneIsStuck
  <2>2. \A j \in Ids : attempted'[j] /\ held'[j] # NoHotkey => poisoned' /\ j = k
    <3>1. attempted'[i] /\ held'[i] # NoHotkey => attempted[i] /\ held[i] # NoHotkey
      BY <1>0, <1>1, <1>4 DEF Bindings
    <3> QED
      BY <1>1, <1>3, <2>1, <3>1
  <2> QED
    BY <1>1, <1>2, <1>4, <2>2 DEF OneIsStuck
<1> QED
  BY <1>5, <1>10, <1>11

LEMMA UnregisterKeeps ==
  ASSUME HotkeysAssumption, HotkeysInv, NEW fails \in BOOLEAN, Unregister(fails)
  PROVE  HotkeysInv'
<1>1. pc.phase = "unregister" /\ UNCHANGED <<targets, outcomes>> /\ Busy
  BY DEF Unregister, Busy
<1>2. CASE Changed(pc.index) /\ registered[pc.index] # NoHotkey /\ fails
  BY <1>1, <1>2, PoisonKeeps DEF Unregister
<1>3. CASE Changed(pc.index) /\ registered[pc.index] # NoHotkey /\ ~fails
  BY <1>1, <1>3, UnregisterGoesOn DEF Unregister
<1>4. CASE ~(Changed(pc.index) /\ registered[pc.index] # NoHotkey)
  BY <1>1, <1>4, UnregisterGoesOn DEF Unregister
<1> QED
  BY <1>2, <1>3, <1>4

\* A turn of the second loop that goes on settles its action.
LEMMA RegisterSettles ==
  ASSUME HotkeysAssumption, HotkeysInv, Register(FALSE),
         NEW i \in Ids, i = pc.index, NEW ts \in TargetSets, ts = pc.targets
  PROVE  /\ registered' \in Bindings /\ held' = registered' /\ attempted' \in [Ids -> BOOLEAN]
         /\ outcomes' \in [Ids -> {"none", "active", "duplicate", "collision"}]
         /\ \A j \in Ids : j # i => /\ registered'[j] = registered[j] /\ outcomes'[j] = outcomes[j]
                                    /\ attempted'[j] = attempted[j]
         /\ HotkeySettled(i, ts)'
         /\ attempted'[i] /\ held'[i] # NoHotkey => attempted[i] /\ held[i] # NoHotkey
         /\ outcomes'[i] = "collision" /\ outcomes[i] # "collision" =>
              Changed(i) /\ ~ts[i].duplicate /\ ts[i].chord # NoHotkey /\ Taken(ts[i].chord)
<1> USE DEF HotkeysInv
<1> DEFINE target == ts[i]
           outcome == IF ~Changed(i) THEN outcomes[i]
                      ELSE IF target.chord = NoHotkey THEN "none"
                      ELSE IF target.duplicate THEN "duplicate"
                      ELSE IF Taken(target.chord) THEN "collision"
                      ELSE "active"
           succeeds == (Changed(i) /\ target.chord # NoHotkey /\ ~target.duplicate) /\ outcome = "active"
<1>1. /\ outcomes' = [outcomes EXCEPT ![i] = outcome]
      /\ registered' = IF succeeds THEN [registered EXCEPT ![i] = target.chord] ELSE registered
      /\ held' = IF succeeds THEN [held EXCEPT ![i] = target.chord] ELSE held
      /\ attempted' = IF succeeds THEN [attempted EXCEPT ![i] = FALSE] ELSE attempted
      /\ pc.phase = "register"
  BY DEF Register
<1>2. /\ held = registered /\ registered \in Bindings /\ attempted \in [Ids -> BOOLEAN]
      /\ outcomes \in [Ids -> {"none", "active", "duplicate", "collision"}]
      /\ Resolved(ts) /\ Cleared(i)
      /\ target.chord \in Chords \cup {NoHotkey} /\ target.duplicate \in BOOLEAN
  <2>1. ~poisoned /\ ~(i < pc.index)
    BY <1>1 DEF OneIsStuck, Busy, HotkeysAssumption
  <2> QED
    BY <1>1, <2>1 DEF HotkeysTypeOK, OneIsStuck, LoopsAreOrdered, Busy, TargetSets
<1>3. target.duplicate => target.chord # NoHotkey
  BY <1>2 DEF Resolved
<1>4. Changed(i) <=> target # targets[i]
  BY DEF Changed
<1> HIDE DEF target
<1>5. ASSUME ~Changed(i) PROVE outcome = outcomes[i] /\ ~succeeds
  <2>1. outcome = outcomes[i]
    BY <1>5
  <2> QED
    BY <1>5, <2>1, Zenon
<1>6. ASSUME Changed(i), target.chord = NoHotkey PROVE outcome = "none" /\ ~succeeds
  <2>1. outcome = "none"
    BY <1>6
  <2> QED
    BY <1>6, <2>1, Zenon
<1>7. ASSUME Changed(i), target.duplicate PROVE outcome = "duplicate" /\ ~succeeds
  <2>1. outcome = "duplicate"
    BY <1>3, <1>7
  <2> QED
    BY <1>7, <2>1, Zenon
<1>8. Changed(i) /\ target.chord # NoHotkey /\ ~target.duplicate /\ Taken(target.chord)
        => outcome = "collision" /\ ~succeeds
  OBVIOUS
<1>9. Changed(i) /\ target.chord # NoHotkey /\ ~target.duplicate /\ ~Taken(target.chord)
        => outcome = "active" /\ succeeds
  OBVIOUS
<1>10. outcome \in {"none", "active", "duplicate", "collision"}
  BY <1>2, <1>5, <1>6, <1>7, <1>8, <1>9
<1> HIDE DEF outcome, succeeds
<1>11. /\ outcomes' \in [Ids -> {"none", "active", "duplicate", "collision"}]
       /\ outcomes'[i] = outcome /\ \A j \in Ids : j # i => outcomes'[j] = outcomes[j]
  BY <1>1, <1>2, <1>10
<1>12. /\ registered' \in Bindings /\ held' = registered'
       /\ registered'[i] = IF succeeds THEN target.chord ELSE registered[i]
       /\ \A j \in Ids : j # i => registered'[j] = registered[j]
  BY <1>1, <1>2 DEF Bindings
<1>13. attempted' \in [Ids -> BOOLEAN]
  BY <1>1, <1>2
<1>14. /\ \A j \in Ids : j # i => attempted'[j] = attempted[j]
       /\ attempted'[i] => ~succeeds /\ attempted[i]
  BY <1>1, <1>2
<1>15. HotkeySettled(i, ts)'
  <2>1. SUFFICES /\ registered'[i] # NoHotkey => registered'[i] = target.chord /\ outcome = "active"
                 /\ outcome = "active" => registered'[i] # NoHotkey
                 /\ outcome = "duplicate" <=> target.duplicate
    BY <1>11 DEF HotkeySettled, target
  <2>2. CASE ~Changed(i)
    <3>1. HotkeySettled(i, targets) /\ target = targets[i]
      BY <1>2, <1>4, <2>2 DEF Cleared
    <3> QED
      BY <1>5, <1>12, <2>2, <3>1 DEF HotkeySettled
  <2>3. CASE Changed(i)
    <3>1. registered[i] = NoHotkey
      BY <1>2, <2>3 DEF Cleared
    <3> QED
      BY <1>2, <1>3, <1>6, <1>7, <1>8, <1>9, <1>12, <2>3, <3>1
  <2> QED
    BY <2>2, <2>3
<1>16. outcomes'[i] = "collision" /\ outcomes[i] # "collision" =>
         Changed(i) /\ ~target.duplicate /\ target.chord # NoHotkey /\ Taken(target.chord)
  BY <1>2, <1>5, <1>6, <1>7, <1>8, <1>9, <1>11
<1>17. attempted'[i] /\ held'[i] # NoHotkey => attempted[i] /\ held[i] # NoHotkey
  BY <1>2, <1>12, <1>14
<1> QED
  BY <1>11, <1>12, <1>13, <1>14, <1>15, <1>16, <1>17 DEF target

LEMMA RegisterKeeps ==
  ASSUME HotkeysAssumption, HotkeysInv, NEW fails \in BOOLEAN, Register(fails)
  PROVE  HotkeysInv'
<1> USE DEF HotkeysInv
<1>1. pc.phase = "register" /\ Busy
  BY DEF Register, Busy
<1>2. CASE fails
  BY <1>1, <1>2, PoisonKeeps DEF Register
<1>3. CASE ~fails
  <2>0. PICK i \in Ids, ts \in TargetSets : i = pc.index /\ ts = pc.targets
    BY <1>1 DEF HotkeysTypeOK
  <2>1. Register(FALSE)
    BY <1>3
  <2>2. /\ AfterRegister(i) /\ UNCHANGED <<poisoned, registrationFaults>>
        /\ i \in Nat /\ i <= Len(Actions) /\ ~poisoned /\ Resolved(ts)
    BY <1>1, <2>0, <2>1 DEF Register, HotkeysAssumption, OneIsStuck, HotkeysTypeOK
  <2>3. /\ registered' \in Bindings /\ held' = registered' /\ attempted' \in [Ids -> BOOLEAN]
        /\ outcomes' \in [Ids -> {"none", "active", "duplicate", "collision"}]
        /\ \A j \in Ids : j # i => /\ registered'[j] = registered[j] /\ outcomes'[j] = outcomes[j]
                                   /\ attempted'[j] = attempted[j]
        /\ HotkeySettled(i, ts)'
        /\ attempted'[i] /\ held'[i] # NoHotkey => attempted[i] /\ held[i] # NoHotkey
    BY <2>0, <2>1, RegisterSettles
  <2>4. \A j \in Ids : (j < i => HotkeySettled(j, ts)) /\ (~(j < i) => Cleared(j))
    BY <1>1, <2>0, <2>2 DEF LoopsAreOrdered
  <2>5. \A j \in Ids : j # i /\ HotkeySettled(j, ts) => HotkeySettled(j, ts)'
    BY <2>3 DEF HotkeySettled
  <2>6. \A j \in Ids : (j < i => j # i) /\ (j < i \/ j = i => HotkeySettled(j, ts)')
    BY <2>2, <2>3, <2>4, <2>5 DEF HotkeysAssumption
  <2>7. \E k \in Ids : \A j \in Ids : attempted'[j] /\ held'[j] # NoHotkey => poisoned' /\ j = k
    <3>1. PICK k \in Ids : \A j \in Ids : attempted[j] /\ held[j] # NoHotkey => poisoned /\ j = k
      BY DEF OneIsStuck
    <3>2. held = registered
      BY <1>1 DEF OneIsStuck
    <3> QED
      BY <2>2, <2>3, <3>1, <3>2
  <2>8. CASE i = Len(Actions)
    <3>1. targets' = ts /\ pc' = IdleRegistry
      BY <2>0, <2>2, <2>8 DEF AfterRegister, Finish
    <3>2. \A j \in Ids : j < i \/ j = i
      BY <2>8 DEF HotkeysAssumption
    <3>3. \A j \in Ids : HotkeySettled(j, targets)'
      BY <2>6, <3>1, <3>2 DEF HotkeySettled
    <3>4. HotkeysTypeOK'
      BY <2>2, <2>3, <3>1 DEF HotkeysTypeOK, Busy, IdleRegistry
    <3>5. LoopsAreOrdered' /\ OneIsStuck'
      BY <2>2, <2>3, <2>7, <3>1, <3>3 DEF LoopsAreOrdered, OneIsStuck, IdleRegistry
    <3> QED
      BY <3>4, <3>5
  <2>9. CASE i # Len(Actions)
    <3>1. pc' = [pc EXCEPT !.index = i + 1] /\ targets' = targets
      BY <2>2, <2>9 DEF AfterRegister
    <3>2. pc = [phase |-> "register", index |-> i, targets |-> ts]
      BY <1>1, <2>0 DEF HotkeysTypeOK
    <3>3. pc' = [phase |-> "register", index |-> i + 1, targets |-> ts]
      BY <3>1, <3>2
    <3>4. /\ pc'.phase = "register" /\ pc'.index = i + 1 /\ pc'.targets = ts
          /\ pc' = [phase |-> pc'.phase, index |-> pc'.index, targets |-> pc'.targets]
          /\ i + 1 \in Ids
      BY <2>2, <2>9, <3>3 DEF HotkeysAssumption
    <3>5. HotkeysTypeOK'
      BY <2>2, <2>3, <3>1, <3>4 DEF HotkeysTypeOK, Resolved
    <3>6. \A j \in Ids : j # i /\ Cleared(j) => Cleared(j)'
      BY <2>0, <2>3, <3>1, <3>4 DEF Cleared, Changed, HotkeySettled
    <3>7. \A j \in Ids : (j < i + 1 <=> j < i \/ j = i)
      BY <2>2 DEF HotkeysAssumption
    <3>8. \A j \in Ids : IF j < i + 1 THEN HotkeySettled(j, ts)' ELSE Cleared(j)'
      BY <2>4, <2>6, <3>6, <3>7
    <3>9. \A j \in Ids : HotkeySettled(j, ts)' => HotkeySettled(j, pc.targets)'
      BY <3>4 DEF HotkeySettled
    <3>10. LoopsAreOrdered'
      BY <3>4, <3>8, <3>9 DEF LoopsAreOrdered
    <3>11. OneIsStuck'
      BY <2>2, <2>3, <2>7, <3>4 DEF OneIsStuck
    <3> QED
      BY <3>5, <3>10, <3>11
  <2> QED
    BY <2>8, <2>9
<1> QED
  BY <1>2, <1>3

LEMMA DropKeeps == ASSUME HotkeysAssumption, HotkeysInv, Drop PROVE HotkeysInv'
<1> USE DEF HotkeysInv
<1>1. /\ pc.phase = "idle" /\ held = registered /\ registered \in Bindings /\ attempted \in [Ids -> BOOLEAN]
      /\ pc'.phase = "dropped"
      /\ held' = [i \in Ids |-> IF i \in Released THEN NoHotkey ELSE held[i]]
      /\ attempted' = [i \in Ids |-> attempted[i] \/ i \in Released]
      /\ registered' = [i \in Ids |-> NoHotkey]
      /\ UNCHANGED <<targets, outcomes, poisoned, registrationFaults>>
  BY DEF Drop, HotkeysTypeOK, OneIsStuck, IdleRegistry
<1>2. \A i \in Ids : held'[i] # NoHotkey => held'[i] = held[i] /\ attempted[i] /\ i \notin Released
  BY <1>1 DEF Released
<1>3. HotkeysTypeOK'
  <2>1. held' \in Bindings /\ registered' \in Bindings
    BY <1>1 DEF Bindings
  <2>2. attempted' \in [Ids -> BOOLEAN]
    BY <1>1
  <2> QED
    BY <1>1, <2>1, <2>2 DEF HotkeysTypeOK, Busy
<1>4. LoopsAreOrdered'
  BY <1>1 DEF LoopsAreOrdered
<1>5. OneIsStuck'
  <2>1. PICK k \in Ids : \A i \in Ids : attempted[i] /\ held[i] # NoHotkey => poisoned /\ i = k
    BY DEF OneIsStuck
  <2>2. \A i \in Ids : held'[i] # NoHotkey => attempted'[i] /\ poisoned' /\ i = k
    BY <1>1, <1>2, <2>1
  <2> QED
    BY <1>1, <2>2 DEF OneIsStuck, Busy
<1> QED
  BY <1>3, <1>4, <1>5

LEMMA HotkeysStand ==
  ASSUME HotkeysInv,
         UNCHANGED <<targets, outcomes, registered, attempted, poisoned, pc, held, registrationFaults>>
  PROVE  HotkeysInv'
<1>1. HotkeysTypeOK' /\ OneIsStuck'
  BY DEF HotkeysInv, HotkeysTypeOK, OneIsStuck, Busy
<1>2. LoopsAreOrdered'
  BY DEF HotkeysInv, LoopsAreOrdered, HotkeySettled, Cleared, Changed
<1> QED
  BY <1>1, <1>2 DEF HotkeysInv

LEMMA HotkeysStep ==
  ASSUME HotkeysAssumption, HotkeysInv, [HotkeysNext]_hotkeysVars PROVE HotkeysInv'
<1>1. CASE UNCHANGED hotkeysVars
  BY <1>1, HotkeysStand DEF hotkeysVars, registry
<1>2. CASE \E chord \in Chords : OtherApplication(chord)
  BY <1>2, HotkeysStand DEF OtherApplication, registry
<1>3. CASE \E bindings \in [Ids -> Chords \cup {NoHotkey}], valid \in BOOLEAN : Replace(bindings, valid)
  BY <1>3, ReplaceKeeps DEF Bindings
<1>4. CASE \E fails \in BOOLEAN : Unregister(fails) \/ Register(fails)
  BY <1>4, UnregisterKeeps, RegisterKeeps
<1>5. CASE Drop
  BY <1>5, DropKeeps
<1> QED
  BY <1>1, <1>2, <1>3, <1>4, <1>5 DEF HotkeysNext

\* What the registry itself still holds is bound to an action that keeps it,
\* and the chord of an action that is not a duplicate differs from that.
LEMMA CollisionIsForeign ==
  ASSUME HotkeysAssumption, HotkeysInv, HotkeysNext PROVE NoSelfCollision
<1> USE DEF HotkeysInv
<1> SUFFICES ASSUME NEW i \in Ids, outcomes'[i] = "collision", outcomes[i] # "collision"
             PROVE  pc.targets[i].chord \in foreign
  BY DEF NoSelfCollision
<1>1. Register(FALSE)
  <2>1. outcomes' # outcomes
    OBVIOUS
  <2>2. PICK fails \in BOOLEAN : Register(fails)
    BY <2>1 DEF HotkeysNext, Replace, Unregister, Drop, OtherApplication, registry
  <2>3. ~fails
    BY <2>1, <2>2 DEF Register
  <2> QED
    BY <2>2, <2>3
<1>2. pc.phase = "register" /\ Busy /\ ~poisoned /\ held = registered
  BY <1>1 DEF Register, Busy, OneIsStuck
<1>3. PICK n \in Ids, ts \in TargetSets : n = pc.index /\ ts = pc.targets
  BY <1>2 DEF HotkeysTypeOK
<1>4. i = n
  BY <1>1, <1>3, RegisterSettles
<1>5. Changed(i) /\ ~ts[i].duplicate /\ ts[i].chord # NoHotkey /\ Taken(ts[i].chord)
  BY <1>1, <1>3, <1>4, RegisterSettles
<1>6. Resolved(ts) /\ Ids = 1 .. Len(Actions) /\ Len(Actions) \in Nat
  BY <1>2, <1>3 DEF HotkeysTypeOK, HotkeysAssumption
<1>7. ASSUME NEW j \in Ids, held[j] = ts[i].chord PROVE FALSE
  <2>1. registered[j] # NoHotkey /\ registered[j] = ts[i].chord
    BY <1>2, <1>5, <1>7
  <2>2. CASE j < i
    <3>1. HotkeySettled(j, ts)
      BY <1>2, <1>3, <1>4, <2>2 DEF LoopsAreOrdered
    <3>2. ts[j].chord = ts[i].chord /\ j \in 1..(i - 1)
      BY <1>6, <2>1, <2>2, <3>1 DEF HotkeySettled
    <3> QED
      BY <1>5, <1>6, <3>2 DEF Resolved
  <2>3. CASE ~(j < i)
    <3>1. Cleared(j) /\ ~Changed(j)
      BY <1>2, <1>3, <1>4, <2>1, <2>3 DEF LoopsAreOrdered, Cleared
    <3>2. HotkeySettled(j, targets) /\ targets[j] = ts[j] /\ j # i
      BY <1>3, <1>5, <3>1 DEF Cleared, Changed
    <3>3. ts[j].chord = ts[i].chord /\ outcomes[j] = "active" /\ ~ts[j].duplicate
      BY <2>1, <3>2 DEF HotkeySettled
    <3>4. i \in 1..(j - 1)
      BY <1>6, <2>3, <3>2
    <3> QED
      BY <1>5, <1>6, <3>3, <3>4 DEF Resolved
  <2> QED
    BY <2>2, <2>3
<1> QED
  BY <1>3, <1>5, <1>7 DEF Taken

LEMMA ReportHolds ==
  ASSUME HotkeysAssumption, HotkeysInv PROVE ReportIsTrue /\ DropReleases
<1> USE DEF HotkeysInv
<1>1. ReportIsTrue
  BY DEF ReportIsTrue, LoopsAreOrdered, HotkeySettled, OneIsStuck
<1>2. DropReleases
  <2> DEFINE left == {i \in Ids : held[i] # NoHotkey}
  <2> SUFFICES ASSUME pc.phase = "dropped" PROVE Cardinality(left) <= registrationFaults
    BY DEF DropReleases
  <2>1. PICK k \in Ids : \A i \in Ids : attempted[i] /\ held[i] # NoHotkey => poisoned /\ i = k
    BY DEF OneIsStuck
  <2>2. left \subseteq {k} /\ (left # {} => registrationFaults >= 1)
    BY <2>1 DEF OneIsStuck
  <2>3. Cardinality({}) = 0 /\ Cardinality({k}) = 1
    BY FS_EmptySet, FS_Singleton
  <2>4. left = {} \/ left = {k}
    BY <2>2
  <2> HIDE DEF left
  <2>5. registrationFaults \in Nat
    BY DEF HotkeysTypeOK
  <2> QED
    BY <2>2, <2>3, <2>4, <2>5
<1> QED
  BY <1>1, <1>2

\* In every state of the registry the actions a loop has passed are settled and
\* at most one registration, after a failed call, is left to nobody.
THEOREM HotkeysInvariant == ASSUME HotkeysAssumption PROVE HotkeysSpec => []HotkeysInv
<1>1. HotkeysInit => HotkeysInv
  BY HotkeysStart
<1>2. HotkeysInv /\ [HotkeysNext]_hotkeysVars => HotkeysInv'
  BY HotkeysStep
<1> QED
  BY <1>1, <1>2, PTL DEF HotkeysSpec

\* The report on the hotkeys is what the system holds, the registry never
\* collides with itself, and dropping it leaves no more than failed calls did,
\* for every number of actions and chords and whatever other applications hold.
THEOREM HotkeysAlwaysTrue == ASSUME HotkeysAssumption PROVE HotkeysSpec => HotkeysAreTrue
<1>1. HotkeysInv => ReportIsTrue /\ DropReleases
  BY ReportHolds
<1>2. HotkeysInv /\ [HotkeysNext]_hotkeysVars => [NoSelfCollision]_hotkeysVars
  BY CollisionIsForeign
<1> QED
  BY <1>1, <1>2, HotkeysInvariant, PTL DEF HotkeysSpec, HotkeysAreTrue

=============================================================================
