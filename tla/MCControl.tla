----------------------------- MODULE MCControl -----------------------------
(***************************************************************************)
(* The control side, one component at a time: the core with its control    *)
(* sessions, the overlay's control client and the management client; the   *)
(* control file between core, desktop application and overlay; the         *)
(* processes of shell, core, overlay and injector; the live agent preview  *)
(* with its network thread; and the login of the desktop application. The  *)
(* components share no variable; every behaviour observes one of them.     *)
(***************************************************************************)
EXTENDS ControlPlane, CloudSession, ProcessTree, SettingsFile, LivePreview, TLC

\* The components a run observes.
CONSTANT Parts

VARIABLE part    \* the component this behaviour observes

MCDefault ==
  [enabled |-> TRUE, input_mode |-> "Locked", expanded |-> FALSE, zoom |-> 100,
   heading_up |-> FALSE, poi |-> {"boss"}, look |-> "l1"]
MCInitialSettings == {[MCDefault EXCEPT !.input_mode = "PinnedInteractive"]}
MCIntents ==
  {[kind |-> "action", value |-> "EnterInteractive"],
   [kind |-> "patch", value |-> {"tower"}]}
MCUiRequests ==
  {[kind |-> "hello", role |-> "ManagementUi", id |-> 0],
   [kind |-> "patch", id |-> 0, expected |-> 0, wire |-> "valid",
    candidate |-> [MCDefault EXCEPT !.input_mode = "LayoutEdit", !.look = "l2"],
    mask |-> <<"input_mode", "look">>]}

\* A pose on the map, reported Live and Delayed, and one off it.
LiveAge == ("live" :> 0) @@ ("late" :> 1) @@ ("off" :> 0)
LivePose == ("live" :> "in") @@ ("late" :> "in") @@ ("off" :> "out")

LiveBits == "b1" :> {1, 2}
LiveMap == "A" :> {"in"}
LiveSize == "A" :> 1

\* A component that is not observed is idle from the start.
IdleAtFirst ==
  /\ IF part = "control" THEN TRUE ELSE ControlInit
  /\ IF part = "file" THEN TRUE ELSE FileInit /\ file = NoDoc
  /\ IF part = "tree" THEN TRUE ELSE TreeInit
  /\ IF part = "live" THEN TRUE ELSE LiveInit
  /\ IF part = "cloud" THEN TRUE ELSE CloudInit
StaysIdle ==
  /\ part' = part
  /\ IF part = "control" THEN TRUE ELSE UNCHANGED controlVars
  /\ IF part = "file" THEN TRUE ELSE UNCHANGED fileVars
  /\ IF part = "tree" THEN TRUE ELSE UNCHANGED treeVars
  /\ IF part = "live" THEN TRUE ELSE UNCHANGED allVars
  /\ IF part = "cloud" THEN TRUE ELSE UNCHANGED cloudVars

\* A running core none of whose overlays runs although it may start one.
LacksOverlay(c) ==
  /\ core[c] = "running" /\ kids # 4
  /\ ~ \E k \in Running("overlay") : kid[k].core = c
\* Processes that have lost the one they work for.
Orphans ==
  \/ \E c \in Cores : Alive(c) /\ ~ParentAlive(c)
  \/ \E k \in Kids :
       kid[k].kind = "injector" /\ KidAlive(k) /\ ~Alive(kid[k].core)

ControlStarts == part = "control" /\ ControlInit
ControlRuns == part = "control" /\ ControlNext /\ StaysIdle

FileStarts == part = "file" /\ FileInit
FileRuns == part = "file" /\ FileNext /\ StaysIdle

TreeStarts == part = "tree" /\ TreeInit
TreeRuns == part = "tree" /\ TreeNext /\ StaysIdle

PreviewStarts == part = "live" /\ LiveInit
PreviewRuns == part = "live" /\ LiveNext /\ StaysIdle

CloudStarts == part = "cloud" /\ CloudInit
CloudRuns == part = "cloud" /\ CloudNext /\ StaysIdle

Init ==
  /\ part \in Parts
  /\ \/ ControlStarts
     \/ FileStarts
     \/ TreeStarts
     \/ PreviewStarts
     \/ CloudStarts
  /\ IdleAtFirst

Next ==
  \/ ControlRuns
  \/ FileRuns
  \/ TreeRuns
  \/ PreviewRuns
  \/ CloudRuns

vars == <<part, controlVars, fileVars, treeVars, allVars, cloudVars>>

Spec == Init /\ [][Next]_vars

\* Each component's own scheduling: every wait of the client thread and of a
\* session worker is bounded; persistence thread, watcher and overlay poll, as
\* do shell, core and supervised processes; the live loop sleeps one frame and
\* its shutdown wait is bounded; a call of the session manager is bounded by
\* the timeouts of its requests and of its listener.
TreeFairness ==
  /\ WF_treeVars(part = "tree" /\ ShellStep)
  /\ \A c \in Cores : WF_treeVars(part = "tree" /\ CoreStep(c))
  /\ \A c \in Cores, k \in Kinds :
       WF_treeVars(part = "tree" /\ (ReapChild(c, k) \/ BackoffEnds(c, k) \/ Spawn(c, k)))
  /\ \A k \in Kids : WF_treeVars(part = "tree" /\ KidStep(k))
FairSpec ==
  /\ Spec
  /\ ControlFairness
  /\ WF_fileVars(part = "file" /\ Saver)
  /\ WF_fileVars(part = "file" /\ Watcher)
  /\ WF_fileVars(part = "file" /\ OverlayTakes)
  /\ TreeFairness
  /\ WF_allVars(part = "live" /\ LoopStep)
  /\ WF_allVars(part = "live" /\ (LiveShutdownCompletes \/ ShutdownOverruns))
  /\ \A c \in Callers : WF_cloudVars(part = "cloud" /\ ManagerStep(c))

-----------------------------------------------------------------------------
\* Every wait ends: a cancelled or failed core channel is joined, a change of
\* the settings reaches the file while the core runs, a running core has an
\* overlay running again after any crash, and a call of the session manager is
\* answered.
Waits ==
  \/ part = "control" /\ supervisor \in {"stopping", "failed"}
  \/ part = "file" /\ coreState.phase = "up" /\ coreState.version # inFile
  \/ part = "tree" /\ \E c \in Cores : LacksOverlay(c)
  \/ part = "cloud" /\ pc["a"] # "idle"
Served ==
  \/ part = "control" /\ supervisor = "stopped"
  \/ part = "file" /\ (coreState.phase # "up" \/ coreState.version = inFile)
  \/ part = "tree" /\ \A c \in Cores : ~LacksOverlay(c)
  \/ part = "cloud" /\ pc["a"] = "idle"
WaitsEnd == Waits ~> Served

\* Who is told to stop, or has lost the one it works for, stops: the overlay's
\* client thread, a core without its shell, an injector without its core, and
\* the live preview whose network thread ended or whose shutdown began.
ToldToStop ==
  \/ part = "control" /\ ovl.stop
  \/ part = "tree" /\ Orphans
  \/ part = "live" /\ (main = "stopping" \/ (main = "loop" /\ thread = "ended"))
HasStopped ==
  \/ part = "control" /\ (ovl.pc = "done" \/ ~ovl.stop)
  \/ part = "tree" /\ ~Orphans
  \/ part = "live" /\ main = "exited"
StopTakesEffect == ToldToStop ~> HasStopped

=============================================================================
