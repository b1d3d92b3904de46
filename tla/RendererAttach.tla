--------------------------- MODULE RendererAttach ---------------------------
(***************************************************************************)
(* How the fullscreen renderer gets into the game: the injector's loop,    *)
(* the temporary probe library it loads first to learn which Direct3D the  *)
(* game presents with, the shared control block between them, and the      *)
(* game's render threads running through the probe's detours.  A step is   *)
(* one atomic operation or system call, in program order.                  *)
(***************************************************************************)
EXTENDS Integers, FiniteSets

CONSTANTS Threads,     \* render threads of the game
          MaxGames,    \* bound: times the game is started
          MaxFaults    \* bound: failures, timeouts and crashes of the injector

ASSUME AttachAssumption == MaxGames \in Nat /\ MaxFaults \in Nat

Backends == {"dx11", "dx12"}

VARIABLES
    game,      \* the game: its incarnation, whether it lives, its Direct3D
    mods,      \* the libraries of this system loaded in the game
    loads,     \* renderers loaded into this incarnation
    inj,       \* the injector: where it is, its target, attached, its finding
    session,   \* the injector has the control block mapped
    ctl,       \* the control block
    probe,     \* where the probe's thread is
    hooked,    \* the detours are enabled
    control,   \* CONTROL: the detours may use the control block
    tramp,     \* PRESENT_TRAMPOLINE_A and _B are set
    inflight,  \* CALLBACKS_IN_FLIGHT
    th,        \* where each render thread is
    faults

attachVars == <<game, mods, loads, inj, session, ctl, probe, hooked, control, tramp, inflight, th, faults>>
detour == <<hooked, control, tramp, inflight, th>>

NewControl == [state |-> "initializing", rhi |-> "none", stop |-> FALSE]
Idle == [at |-> "poll", target |-> 0, attached |-> FALSE, found |-> "none"]
AllOut == [t \in Threads |-> "out"]

AttachInit ==
    /\ game = [n |-> 0, alive |-> FALSE, api |-> "dx11"]
    /\ mods = {} /\ loads = 0
    /\ inj = [Idle EXCEPT !.at = "down"] /\ session = FALSE /\ ctl = NewControl
    /\ probe = "none" /\ hooked = FALSE /\ control = FALSE /\ tramp = FALSE
    /\ inflight = 0 /\ th = AllOut /\ faults = 0

Renderer == mods \cap Backends
ProbeMaps == probe \notin {"none", "opening"}
Fault == faults < MaxFaults /\ faults' = faults + 1

\* The game's process ends, with the probe and its threads.
GameOver ==
    /\ game' = [game EXCEPT !.alive = FALSE]
    /\ mods' = {} /\ loads' = 0 /\ probe' = "none"
    /\ hooked' = FALSE /\ control' = FALSE /\ tramp' = FALSE /\ inflight' = 0 /\ th' = AllOut

GameStarts ==
    /\ ~game.alive /\ game.n < MaxGames
    /\ \E api \in Backends : game' = [n |-> game.n + 1, alive |-> TRUE, api |-> api]
    /\ UNCHANGED <<mods, loads, inj, session, ctl, probe, detour, faults>>

GameExits ==
    /\ game.alive /\ GameOver
    /\ UNCHANGED <<inj, session, ctl, faults>>

-----------------------------------------------------------------------------
(* The injector.                                                           *)

InjectorStarts ==
    /\ inj.at = "down" /\ inj' = Idle
    /\ UNCHANGED <<game, mods, loads, session, ctl, probe, detour, faults>>

InjectorDown == inj' = [Idle EXCEPT !.at = "down"] /\ session' = FALSE

InjectorCrashes ==
    /\ inj.at # "down" /\ Fault
    /\ InjectorDown
    /\ UNCHANGED <<game, mods, loads, ctl, probe, detour>>

\* The window tracker reports the game, another game or none; a new process
\* forgets what was known of the old one.
Track ==
    LET now == IF game.alive THEN game.n ELSE 0 IN
    /\ inj.at = "poll" /\ inj.target # now
    /\ inj' = [Idle EXCEPT !.target = now]
    /\ UNCHANGED <<game, mods, loads, session, ctl, probe, detour, faults>>

\* The modules of the target hold neither a renderer nor a probe still unloading.
MayProbe == Renderer = {} /\ "probe" \notin mods

\* The loop reads the target's modules: a renderer there means attached; a probe
\* or a competing overlay means wait.
ReadModules ==
    /\ inj.at = "poll" /\ inj.target # 0 /\ ~inj.attached
    /\ game.alive /\ inj.target = game.n
    /\ inj' = IF MayProbe THEN [inj EXCEPT !.at = "select"]
              ELSE [inj EXCEPT !.attached = (Renderer # {})]
    /\ UNCHANGED <<game, mods, loads, session, ctl, probe, detour, faults>>

\* The module list of a process that ended cannot be read: the injector ends.
ModulesUnreadable ==
    /\ inj.at = "poll" /\ inj.target # 0 /\ ~inj.attached
    /\ ~(game.alive /\ inj.target = game.n)
    /\ InjectorDown
    /\ UNCHANGED <<game, mods, loads, ctl, probe, detour, faults>>

\* Mutant: after the interval the renderer is loaded again without a look.
RecheckReloads ==
    /\ inj.at = "poll" /\ inj.attached
    /\ inj' = [inj EXCEPT !.attached = FALSE, !.at = "load", !.found = game.api]
    /\ UNCHANGED <<game, mods, loads, session, ctl, probe, detour, faults>>

\* ATTACHED_MODULE_RECHECK_INTERVAL: look again.
Recheck ==
    /\ inj.at = "poll" /\ inj.attached
    /\ inj' = [inj EXCEPT !.attached = FALSE]
    /\ UNCHANGED <<game, mods, loads, session, ctl, probe, detour, faults>>

\* A control block of this name that still exists makes the creation fail.
CreateSession ==
    /\ inj.at = "select"
    /\ IF ProbeMaps
       THEN inj' = [inj EXCEPT !.at = "poll"] /\ UNCHANGED <<session, ctl>>
       ELSE inj' = [inj EXCEPT !.at = "probe"] /\ session' = TRUE /\ ctl' = NewControl
    /\ UNCHANGED <<game, mods, loads, probe, detour, faults>>

\* PAL_COMPANION_RENDERER names the backend: no probe.
Override ==
    /\ inj.at = "select"
    /\ inj' = [inj EXCEPT !.at = "load", !.found = game.api]
    /\ UNCHANGED <<game, mods, loads, session, ctl, probe, detour, faults>>

TargetLives == game.alive /\ inj.target = game.n

\* The exact tracked process is opened, checked again and the probe is loaded.  A
\* thread left in a probe that unloaded ends the game long before the next poll.
InjectProbe ==
    /\ inj.at = "probe" /\ TargetLives /\ \A t \in Threads : th[t] = "out"
    /\ mods' = mods \cup {"probe"} /\ probe' = "opening"
    /\ inj' = [inj EXCEPT !.at = "result"]
    /\ UNCHANGED <<game, loads, session, ctl, detour, faults>>

\* The session is dropped with the error and detection is tried again later.
DetectionFails ==
    /\ inj.at \in {"probe", "result", "unload"}
    /\ (~TargetLives /\ UNCHANGED faults) \/ Fault
    /\ inj' = [inj EXCEPT !.at = "poll", !.found = "none"] /\ session' = FALSE
    /\ ctl' = [ctl EXCEPT !.stop = @ \/ inj.at # "probe"]
    /\ UNCHANGED <<game, mods, loads, probe, detour>>

\* The result is read, then the probe is told to stop.
ReadResult ==
    /\ inj.at = "result" /\ ctl.state \in {"detected", "failed"}
    /\ inj' = [inj EXCEPT !.at = "unload",
                          !.found = IF ctl.state = "detected" THEN ctl.rhi ELSE "none"]
    /\ ctl' = [ctl EXCEPT !.stop = TRUE]
    /\ UNCHANGED <<game, mods, loads, session, probe, detour, faults>>

Unloaded == "probe" \notin mods

AwaitUnload ==
    /\ inj.at = "unload" /\ TargetLives /\ Unloaded
    /\ inj' = [inj EXCEPT !.at = IF inj.found = "none" THEN "poll" ELSE "load"]
    /\ session' = FALSE
    /\ UNCHANGED <<game, mods, loads, ctl, probe, detour, faults>>

LoadRenderer ==
    /\ inj.at = "load" /\ TargetLives
    /\ mods' = mods \cup {inj.found} /\ loads' = loads + 1
    /\ \/ inj' = [inj EXCEPT !.at = "poll", !.attached = TRUE] /\ UNCHANGED <<session, faults>>
       \/ Fault /\ InjectorDown       \* loaded, but the call reported an error
    /\ UNCHANGED <<game, ctl, probe, detour>>

LoadFails ==
    /\ inj.at = "load" /\ ~TargetLives
    /\ InjectorDown
    /\ UNCHANGED <<game, mods, loads, ctl, probe, detour, faults>>

-----------------------------------------------------------------------------
(* The probe's thread.                                                     *)

\* The block is opened and CONTROL published, or the probe gives up and unloads.
OpenMapping ==
    /\ probe = "opening"
    /\ IF session THEN probe' = "installing" /\ control' = TRUE
                  ELSE probe' = "leaving" /\ UNCHANGED control
    /\ UNCHANGED <<game, mods, loads, inj, session, ctl, hooked, tramp, inflight, th, faults>>

InstallHooks ==
    /\ probe = "installing"
    /\ probe' = "installed" /\ tramp' = TRUE /\ hooked' = TRUE
    /\ UNCHANGED <<game, mods, loads, inj, session, ctl, control, inflight, th, faults>>

InstallFails ==
    /\ probe = "installing" /\ Fault
    /\ probe' = "failed" /\ ctl' = [ctl EXCEPT !.state = "failed"]
    /\ UNCHANGED <<game, mods, loads, inj, session, detour>>

\* Compare and exchange: a detection already published stays.
MarkRunning == ctl' = [ctl EXCEPT !.state = IF @ = "initializing" THEN "running" ELSE @]

Run ==
    /\ probe = "installed" /\ MarkRunning
    /\ probe' = "waiting"
    /\ UNCHANGED <<game, mods, loads, inj, session, detour, faults>>

\* Mutant: the probe waits for the request only.
StopOnlyAsked == ctl.stop

\* The injector's request, or PROBE_LIFETIME_LIMIT.
StopDue == TRUE

WaitForStop ==
    /\ probe \in {"waiting", "failed"} /\ StopDue
    /\ probe' = IF probe = "failed" THEN "drained" ELSE "disabling"
    /\ UNCHANGED <<game, mods, loads, inj, session, ctl, detour, faults>>

DisableHooks ==
    /\ probe = "disabling" /\ hooked' = FALSE /\ probe' = "draining"
    /\ UNCHANGED <<game, mods, loads, inj, session, ctl, control, tramp, inflight, th, faults>>

\* Spin until no callback is in flight, then forget the trampolines.
Drain ==
    /\ probe = "draining" /\ inflight = 0
    /\ tramp' = FALSE /\ probe' = "drained"
    /\ UNCHANGED <<game, mods, loads, inj, session, ctl, hooked, control, inflight, th, faults>>

ClearControl ==
    /\ probe = "drained" /\ control' = FALSE
    /\ ctl' = IF ctl.state = "failed" THEN ctl ELSE [ctl EXCEPT !.state = "stopped"]
    /\ probe' = "leaving"
    /\ UNCHANGED <<game, mods, loads, inj, session, hooked, tramp, inflight, th, faults>>

\* The mapping is dropped and the library unloads itself.
Unload ==
    /\ probe = "leaving" /\ probe' = "none" /\ mods' = mods \ {"probe"}
    /\ UNCHANGED <<game, loads, inj, session, ctl, detour, faults>>

-----------------------------------------------------------------------------
(* The game's render threads in the detours.                               *)

Move(t, at) == th' = [th EXCEPT ![t] = at]
InLibrary(t) == th[t] # "out"

\* A Present of an enabled hook jumps into the detour.
Enter(t) ==
    /\ th[t] = "out" /\ hooked /\ Move(t, "entered")
    /\ UNCHANGED <<game, mods, loads, inj, session, ctl, probe, hooked, control, tramp, inflight, faults>>

Guard(t) ==
    /\ th[t] = "entered" /\ "probe" \in mods
    /\ inflight' = inflight + 1 /\ Move(t, "guarded")
    /\ UNCHANGED <<game, mods, loads, inj, session, ctl, probe, hooked, control, tramp, faults>>

\* The swap chain is inspected unless the question is settled, and may turn out
\* not to be that of the game's visible window.
Inspect(t) ==
    /\ th[t] = "guarded" /\ "probe" \in mods
    /\ \/ control /\ ctl.state \notin {"detected", "failed"} /\ Move(t, "publishing")
       \/ Move(t, "calling")
    /\ UNCHANGED <<game, mods, loads, inj, session, ctl, probe, hooked, control, tramp, inflight, faults>>

\* Two stores: the value, then the state with release order.
PublishDetection(t) ==
    \/ th[t] = "publishing" /\ ctl' = [ctl EXCEPT !.rhi = game.api] /\ Move(t, "published")
    \/ th[t] = "published" /\ ctl' = [ctl EXCEPT !.state = "detected"] /\ Move(t, "calling")

Publish(t) ==
    /\ "probe" \in mods /\ PublishDetection(t)
    /\ UNCHANGED <<game, mods, loads, inj, session, probe, hooked, control, tramp, inflight, faults>>

CallTrampoline(t) ==
    /\ th[t] = "calling" /\ "probe" \in mods /\ tramp /\ Move(t, "returning")
    /\ UNCHANGED <<game, mods, loads, inj, session, ctl, probe, hooked, control, tramp, inflight, faults>>

Leave(t) ==
    /\ th[t] = "returning" /\ "probe" \in mods
    /\ inflight' = inflight - 1 /\ Move(t, "out")
    /\ UNCHANGED <<game, mods, loads, inj, session, ctl, probe, hooked, control, tramp, faults>>

\* A thread left in an unloaded library, or about to call a cleared trampoline,
\* ends the game.
Crash(t) ==
    /\ InLibrary(t)
    /\ "probe" \notin mods \/ (th[t] = "calling" /\ ~tramp)
    /\ GameOver
    /\ UNCHANGED <<inj, session, ctl, faults>>

-----------------------------------------------------------------------------
InjectorStep ==
    \/ Track \/ ReadModules \/ ModulesUnreadable \/ Recheck \/ CreateSession \/ Override
    \/ InjectProbe \/ DetectionFails \/ ReadResult \/ AwaitUnload \/ LoadRenderer \/ LoadFails

ProbeStep ==
    \/ OpenMapping \/ InstallHooks \/ Run \/ WaitForStop \/ DisableHooks
    \/ Drain \/ ClearControl \/ Unload

ThreadStep(t) ==
    Guard(t) \/ Inspect(t) \/ Publish(t) \/ CallTrampoline(t) \/ Leave(t) \/ Crash(t)

AttachNext ==
    \/ GameStarts \/ GameExits \/ InjectorStarts \/ InjectorCrashes \/ InjectorStep
    \/ ProbeStep \/ InstallFails
    \/ \E t \in Threads : Enter(t) \/ ThreadStep(t)

AttachSpec == AttachInit /\ [][AttachNext]_attachVars

-----------------------------------------------------------------------------
(* Properties.                                                             *)

\* A game gets at most one renderer, however often the injector fails after
\* loading it, crashes and starts again with nothing remembered.
OneRenderer == loads <= 1

\* No renderer is in the game together with the probe: two libraries never hook
\* the same Present.
RendererAfterProbe == Renderer # {} => "probe" \notin mods

\* A detection the injector can read names the Direct3D of the game it probes.
DetectionIsComplete == (ctl.state = "detected" /\ session /\ TargetLives) => ctl.rhi = game.api

\* A detection published while the probe is still starting is not overwritten by
\* the probe's own progress.
DetectionSurvives ==
  (ctl.state = "detected" /\ session) => ctl'.state \in {"detected", "stopped"}

\* A game gets at most one renderer and never together with the probe, and a
\* detection the injector can read names the Direct3D of the game it probes,
\* through crashes and restarts of the injector.
AttachIsSafe == OneRenderer /\ RendererAfterProbe /\ DetectionIsComplete

-----------------------------------------------------------------------------
(* Why attaching is safe.                                                  *)

Places == {"down", "poll", "select", "probe", "result", "unload", "load"}
ProbePlaces == {"none", "opening", "installing", "installed", "waiting", "failed",
                "disabling", "draining", "drained", "leaving"}
ThreadPlaces == {"out", "entered", "guarded", "publishing", "published", "calling",
                 "returning"}

AttachTypeOK ==
    /\ game \in [n : Nat, alive : BOOLEAN, api : Backends]
    /\ mods \in SUBSET (Backends \cup {"probe"})
    /\ loads \in Nat
    /\ inj \in [at : Places, target : Nat, attached : BOOLEAN,
                found : Backends \cup {"none"}]
    /\ session \in BOOLEAN
    /\ ctl \in [state : {"initializing", "running", "detected", "failed", "stopped"},
                rhi : Backends \cup {"none"}, stop : BOOLEAN]
    /\ probe \in ProbePlaces
    /\ hooked \in BOOLEAN
    /\ th \in [Threads -> ThreadPlaces]

\* Between the look at the modules and the loading nobody else loads anything.
InjectorIsAlone ==
    /\ inj.target <= game.n
    /\ inj.at \in {"select", "probe", "result", "unload", "load"} => Renderer = {}
    /\ inj.at \in {"select", "probe", "load"} => "probe" \notin mods
    /\ inj.at = "load" => inj.found \in Backends
    /\ session => inj.at \in {"probe", "result", "unload"}

\* What is loaded in the game.
ModulesAreCounted ==
    /\ loads = IF Renderer = {} THEN 0 ELSE 1
    /\ Renderer # {} => "probe" \notin mods
    /\ "probe" \in mods <=> probe # "none"
    /\ ~game.alive => mods = {}

\* No detour runs before its hook is installed, so nothing was detected.
HooksComeFirst ==
    /\ hooked => probe \in {"installed", "waiting", "disabling"}
    /\ inj.at = "probe" => ctl.state = "initializing"
    /\ probe \in {"opening", "installing"} =>
         /\ \A t \in Threads : th[t] = "out"
         /\ session => ctl.state = "initializing"

\* What render threads of the probed game have written and are about to vouch
\* for is its Direct3D.
DetectionIsOwn ==
    session /\ TargetLives =>
      /\ ctl.state = "detected" => ctl.rhi = game.api
      /\ "probe" \in mods => \A t \in Threads : th[t] = "published" => ctl.rhi = game.api

\* The inductive invariant of injector, probe and render threads.
AttachInv ==
    /\ AttachTypeOK
    /\ InjectorIsAlone
    /\ ModulesAreCounted
    /\ HooksComeFirst
    /\ DetectionIsOwn

=============================================================================
