----------------------------- MODULE ProcessTree ----------------------------
(***************************************************************************)
(* The processes of the Windows application and how they end each other:   *)
(* the desktop shell (OwnedCoreRuntime), pal-core with its run control and *)
(* two supervised children, the overlay and the fullscreen injector.       *)
(* They meet in kernel objects: the core's pipe, the manual-reset shutdown *)
(* event, the overlay's running event and the injector's mutex.  An object *)
(* exists while a process holds a handle to it; Windows closes the handles *)
(* of a process that ends, and does not end its children.                  *)
(***************************************************************************)
EXTENDS Integers, FiniteSets

CONSTANTS MaxShells,    \* bound: times the user starts the desktop application
          MaxKids,      \* bound: child processes started
          MaxFaults     \* bound: crashes, failed starts and failed waits

Cores == 1..MaxShells        \* a shell starts at most one core: it has its number
Kids == 1..MaxKids
Kinds == {"overlay", "injector"}

VARIABLES
    shell,      \* the live shell: its number and where it is; one at a time
    owned,      \* OwnedCoreRuntime.child: the core the shell owns, 0 for none
    core,       \* where each core is
    killed,     \* cores ended without running their destructors
    signaled,   \* the shutdown event is set
    pipe,       \* the core that has the pipe, 0 for none
    sup,        \* each core's supervisors: the child slot and the backoff
    kid,        \* child processes: kind, core and where they are
    kids,       \* child processes started
    runningSet, \* the overlay's running event is set
    faults      \* faults so far

treeVars == <<shell, owned, core, killed, signaled, pipe, sup, kid, kids, runningSet, faults>>
tree == <<sup, kid, kids, runningSet>>

Free == [child |-> 0, retry |-> FALSE]
NoKid == [kind |-> "overlay", core |-> 0, at |-> "none"]

TreeInit ==
    /\ shell = [n |-> 0, at |-> "down"] /\ owned = 0
    /\ core = [c \in Cores |-> "none"] /\ killed = {}
    /\ signaled = FALSE /\ pipe = 0
    /\ sup = [c \in Cores |-> [k \in Kinds |-> Free]]
    /\ kid = [k \in Kids |-> NoKid] /\ kids = 0
    /\ runningSet = FALSE /\ faults = 0

Alive(c) == core[c] \notin {"none", "dead"}
HoldsEvent(c) == core[c] \notin {"none", "created", "dead"}
EventExists == \E c \in Cores : HoldsEvent(c)
ParentAlive(c) == shell.n = c /\ shell.at # "down"
KidAlive(k) == kid[k].at \in {"starting", "running"}
Running(kind) == {k \in Kids : kid[k].kind = kind /\ kid[k].at = "running"}
PipeAvailable == pipe # 0

\* What remains of a core whose process ended: its handles are closed.
CoreGone(c, st) ==
    /\ core' = [core EXCEPT ![c] = st]
    /\ pipe' = IF pipe = c THEN 0 ELSE pipe
    /\ signaled' = (signaled /\ \E d \in Cores \ {c} : HoldsEvent(d))

-----------------------------------------------------------------------------
(* The desktop shell.                                                      *)

ShellStarts ==
    /\ shell.at = "down" /\ shell.n < MaxShells
    /\ shell' = [n |-> shell.n + 1, at |-> "probing"] /\ owned' = 0
    /\ UNCHANGED <<core, killed, signaled, pipe, tree, faults>>

\* A core that answers is used as it is; this shell then owns none.
FindsCore ==
    /\ shell.at = "probing" /\ PipeAvailable
    /\ shell' = [shell EXCEPT !.at = "up"]
    /\ UNCHANGED <<owned, core, killed, signaled, pipe, tree, faults>>

SpawnsCore ==
    /\ shell.at = "probing" /\ ~PipeAvailable
    /\ shell' = [shell EXCEPT !.at = "waiting"] /\ owned' = shell.n
    /\ core' = [core EXCEPT ![shell.n] = "created"]
    /\ UNCHANGED <<killed, signaled, pipe, tree, faults>>

CoreReady ==
    /\ shell.at = "waiting" /\ PipeAvailable
    /\ shell' = [shell EXCEPT !.at = "up"]
    /\ UNCHANGED <<owned, core, killed, signaled, pipe, tree, faults>>

\* The core ended before its pipe appeared: the application does not start.
CoreFailed ==
    /\ shell.at = "waiting" /\ ~PipeAvailable /\ core[owned] = "dead"
    /\ shell' = [shell EXCEPT !.at = "down"] /\ owned' = 0
    /\ UNCHANGED <<core, killed, signaled, pipe, tree, faults>>

Kill(c) ==
    /\ killed' = IF Alive(c) THEN killed \cup {c} ELSE killed
    /\ CoreGone(c, "dead")

\* After CORE_START_TIMEOUT, or three seconds after the shutdown was signalled,
\* the shell ends the core by force.
KillsCore ==
    /\ shell.at \in {"waiting", "dropping"} /\ owned # 0 /\ Alive(owned)
    /\ faults < MaxFaults /\ faults' = faults + 1
    /\ Kill(owned)
    /\ shell' = [shell EXCEPT !.at = "down"] /\ owned' = 0
    /\ UNCHANGED tree

\* The application closes: an owned core is signalled and waited for.
ShellExits ==
    /\ shell.at = "up"
    /\ shell' = [shell EXCEPT !.at = IF owned = 0 THEN "down" ELSE "dropping"]
    /\ signaled' = (signaled \/ (owned # 0 /\ EventExists))
    /\ UNCHANGED <<owned, core, killed, pipe, tree, faults>>

CoreEnded ==
    /\ shell.at = "dropping" /\ core[owned] = "dead"
    /\ shell' = [shell EXCEPT !.at = "down"] /\ owned' = 0
    /\ UNCHANGED <<core, killed, signaled, pipe, tree, faults>>

ShellCrashes ==
    /\ shell.at # "down" /\ faults < MaxFaults /\ faults' = faults + 1
    /\ shell' = [shell EXCEPT !.at = "down"] /\ owned' = 0
    /\ UNCHANGED <<core, killed, signaled, pipe, tree>>

-----------------------------------------------------------------------------
(* The core.                                                               *)

\* CoreRunControl::new: the event is created or, if another core still has it,
\* opened as it is; the parent must still exist.
RunControl(c) ==
    /\ core[c] = "created"
    /\ IF ParentAlive(c) THEN core' = [core EXCEPT ![c] = "binding"]
                         ELSE core' = [core EXCEPT ![c] = "dead"]
    /\ UNCHANGED <<shell, owned, killed, signaled, pipe, tree, faults>>

\* The first pipe instance can be created by one process only.
BindPipe(c) ==
    /\ core[c] = "binding"
    /\ IF pipe = 0
       THEN pipe' = c /\ core' = [core EXCEPT ![c] = "running"] /\ UNCHANGED signaled
       ELSE CoreGone(c, "dead")
    /\ UNCHANGED <<shell, owned, killed, tree, faults>>

ShutdownRequested(c) == signaled \/ ~ParentAlive(c)

LoopEnds(c) ==
    /\ core[c] = "running" /\ ShutdownRequested(c)
    /\ core' = [core EXCEPT ![c] = "ending"]
    /\ UNCHANGED <<shell, owned, killed, signaled, pipe, tree, faults>>

\* check_health: the thread that serves the pipe has ended.
HealthFails(c) ==
    /\ core[c] = "running" /\ ~ShutdownRequested(c)
    /\ faults < MaxFaults /\ faults' = faults + 1
    /\ core' = [core EXCEPT ![c] = "ending"]
    /\ UNCHANGED <<shell, owned, killed, signaled, pipe, tree>>

\* The locals are dropped in reverse: the supervisors end their children and wait
\* for them, then the pipe closes.
DropChildren(c) ==
    /\ core[c] = "ending"
    /\ core' = [core EXCEPT ![c] = "unpiped"]
    /\ pipe' = IF pipe = c THEN 0 ELSE pipe
    /\ LET mine == {sup[c][k].child : k \in Kinds} IN
       kid' = [k \in Kids |-> IF k \in mine THEN [kid[k] EXCEPT !.at = "dead"] ELSE kid[k]]
    /\ runningSet' = (runningSet /\ \E k \in Kids : kid'[k].kind = "overlay" /\ kid'[k].at = "running")
    /\ UNCHANGED <<shell, owned, killed, signaled, sup, kids, faults>>

\* The run control is dropped last.
CloseEvent(c) ==
    /\ core[c] = "unpiped"
    /\ CoreGone(c, "dead")
    /\ UNCHANGED <<shell, owned, killed, tree, faults>>

CoreCrashes(c) ==
    /\ Alive(c) /\ faults < MaxFaults /\ faults' = faults + 1
    /\ Kill(c)
    /\ UNCHANGED <<shell, owned, tree>>

-----------------------------------------------------------------------------
(* The supervisors: OverlaySupervisor::tick for either child.              *)

Loops(c) == core[c] = "running" /\ ~ShutdownRequested(c)

Reaped(c, k) == [child |-> 0, retry |-> TRUE]

ReapChild(c, k) ==
    /\ Loops(c) /\ sup[c][k].child # 0 /\ ~KidAlive(sup[c][k].child)
    /\ sup' = [sup EXCEPT ![c][k] = Reaped(c, k)]
    /\ UNCHANGED <<shell, owned, core, killed, signaled, pipe, kid, kids, runningSet, faults>>

\* The wait itself failed: the child is given up, alive or not.
WaitFails(c, k) ==
    /\ Loops(c) /\ sup[c][k].child # 0
    /\ faults < MaxFaults /\ faults' = faults + 1
    /\ sup' = [sup EXCEPT ![c][k] = Reaped(c, k)]
    /\ UNCHANGED <<shell, owned, core, killed, signaled, pipe, kid, kids, runningSet>>

BackoffEnds(c, k) ==
    /\ Loops(c) /\ sup[c][k].retry
    /\ sup' = [sup EXCEPT ![c][k].retry = FALSE]
    /\ UNCHANGED <<shell, owned, core, killed, signaled, pipe, kid, kids, runningSet, faults>>

Spawn(c, k) ==
    /\ Loops(c) /\ sup[c][k] = Free /\ kids < MaxKids
    /\ kids' = kids + 1
    /\ kid' = [kid EXCEPT ![kids + 1] = [kind |-> k, core |-> c, at |-> "starting"]]
    /\ sup' = [sup EXCEPT ![c][k].child = kids + 1]
    /\ UNCHANGED <<shell, owned, core, killed, signaled, pipe, runningSet, faults>>

\* The executable is missing or cannot be started.
SpawnFails(c, k) ==
    /\ Loops(c) /\ sup[c][k] = Free /\ faults < MaxFaults
    /\ faults' = faults + 1
    /\ sup' = [sup EXCEPT ![c][k].retry = TRUE]
    /\ UNCHANGED <<shell, owned, core, killed, signaled, pipe, kid, kids, runningSet>>

-----------------------------------------------------------------------------
(* The children.                                                           *)

SetKid(k, st) == kid' = [kid EXCEPT ![k].at = st]

\* The overlay sets the running event, whatever state it found it in.
OverlayStarts(k) ==
    /\ kid[k].kind = "overlay" /\ kid[k].at = "starting"
    /\ SetKid(k, "running") /\ runningSet' = TRUE
    /\ UNCHANGED <<shell, owned, core, killed, signaled, pipe, sup, kids, faults>>

\* An overlay that ends only closes its handle: the event goes with the last one.
EventAfter(k) == runningSet /\ Running("overlay") \ {k} # {}

OverlayEnds(k) ==
    /\ kid[k].kind = "overlay" /\ KidAlive(k)
    /\ faults < MaxFaults /\ faults' = faults + 1
    /\ SetKid(k, "dead") /\ runningSet' = EventAfter(k)
    /\ UNCHANGED <<shell, owned, core, killed, signaled, pipe, sup, kids>>

\* Mutant: the injector does not look whether the mutex existed.
InstanceFreeAlways == TRUE

InstanceFree == Running("injector") = {}

\* The mutex tells a second injector to end; then the parent is opened.
InjectorStarts(k) ==
    /\ kid[k].kind = "injector" /\ kid[k].at = "starting"
    /\ SetKid(k, IF InstanceFree /\ Alive(kid[k].core) THEN "running" ELSE "dead")
    /\ UNCHANGED <<shell, owned, core, killed, signaled, pipe, sup, kids, runningSet, faults>>

\* The injector's loop sees that its core is gone.
InjectorEnds(k) ==
    /\ kid[k].kind = "injector" /\ kid[k].at = "running" /\ ~Alive(kid[k].core)
    /\ SetKid(k, "dead")
    /\ UNCHANGED <<shell, owned, core, killed, signaled, pipe, sup, kids, runningSet, faults>>

\* An error of the injector's loop ends the process.
InjectorFails(k) ==
    /\ kid[k].kind = "injector" /\ kid[k].at = "running"
    /\ faults < MaxFaults /\ faults' = faults + 1
    /\ SetKid(k, "dead")
    /\ UNCHANGED <<shell, owned, core, killed, signaled, pipe, sup, kids, runningSet>>

-----------------------------------------------------------------------------
ShellStep == FindsCore \/ SpawnsCore \/ CoreReady \/ CoreFailed \/ CoreEnded
CoreStep(c) == RunControl(c) \/ BindPipe(c) \/ LoopEnds(c) \/ DropChildren(c) \/ CloseEvent(c)
TickStep(c) == \E k \in Kinds : ReapChild(c, k) \/ BackoffEnds(c, k) \/ Spawn(c, k)
KidStep(k) == OverlayStarts(k) \/ InjectorStarts(k) \/ InjectorEnds(k)

TreeNext ==
    \/ ShellStep \/ ShellStarts \/ ShellExits \/ KillsCore \/ ShellCrashes
    \/ \E c \in Cores : CoreStep(c) \/ TickStep(c) \/ HealthFails(c) \/ CoreCrashes(c)
    \/ \E c \in Cores, k \in Kinds : SpawnFails(c, k) \/ WaitFails(c, k)
    \/ \E k \in Kids : KidStep(k) \/ OverlayEnds(k) \/ InjectorFails(k)

TreeSpec == TreeInit /\ [][TreeNext]_treeVars

\* Every loop polls: the shell each 50 ms, the core each tick, the injector each
\* poll interval; none of them blocks.  Each supervisor's tick is its own.
Fairness ==
    /\ WF_treeVars(ShellStep)
    /\ \A c \in Cores : WF_treeVars(CoreStep(c))
    /\ \A c \in Cores, k \in Kinds : WF_treeVars(ReapChild(c, k) \/ BackoffEnds(c, k) \/ Spawn(c, k))
    /\ \A k \in Kids : WF_treeVars(KidStep(k))

TreeFairSpec == TreeSpec /\ Fairness

-----------------------------------------------------------------------------
(* Properties.                                                             *)

\* At most one injector is past its instance guard, across cores that overlap.
OneInjector == Cardinality(Running("injector")) <= 1

\* The running event, as the shell's status reads it, is set exactly while some
\* overlay runs, also when an old and a new overlay overlap and either ends.
RunningSignalIsTrue == runningSet <=> Running("overlay") # {}

\* An overlay survives its core only when the core was ended by force or when a
\* wait for the child failed: an orderly end, by signal, by loss of the shell or
\* by an error of the pipe, takes the children along.
OrderlyEndTakesChildren ==
    \A c \in Cores \ killed : core[c] = "dead" =>
        \A k \in Kinds : sup[c][k].child # 0 => ~KidAlive(sup[c][k].child)

\* The process tree is accounted for.
ProcessesAreAccounted == OneInjector /\ RunningSignalIsTrue /\ OrderlyEndTakesChildren

-----------------------------------------------------------------------------
(* The inductive invariant.                                                *)

ShellPlaces == {"down", "probing", "waiting", "up", "dropping"}
CorePlaces == {"none", "created", "binding", "running", "ending", "unpiped", "dead"}
KidPlaces == {"none", "starting", "running", "dead"}

TreeTypeOK ==
    /\ shell \in [n : 0..MaxShells, at : ShellPlaces]
    /\ owned \in {0} \cup Cores
    /\ core \in [Cores -> CorePlaces]
    /\ killed \subseteq Cores
    /\ sup \in [Cores -> [Kinds -> [child : 0..MaxKids, retry : BOOLEAN]]]
    /\ kid \in [Kids -> [kind : Kinds, core : {0} \cup Cores, at : KidPlaces]]
    /\ kids \in 0..MaxKids
    /\ runningSet \in BOOLEAN

\* A number is given to one process only: a core or a child that has not been
\* started is nobody's, and a supervisor holds a child that was started.
NumbersAreFresh ==
    /\ \A c \in Cores : c > shell.n => core[c] = "none"
    /\ shell.at = "probing" => shell.n \in Cores /\ core[shell.n] = "none"
    /\ \A k \in Kids : k > kids => kid[k].at = "none"
    /\ \A c \in Cores, k \in Kinds : sup[c][k].child <= kids

\* The named mutex, per process.
InjectorsAreAlone ==
    \A j, k \in Running("injector") : j = k

\* A core has children only once it runs; after its drop they are dead.
ChildrenFollow ==
    \A c \in Cores, k \in Kinds :
        /\ core[c] \in {"none", "created", "binding"} => sup[c][k].child = 0
        /\ (core[c] = "unpiped" \/ (core[c] = "dead" /\ c \notin killed))
             /\ sup[c][k].child # 0 => ~KidAlive(sup[c][k].child)

TreeInv ==
    /\ TreeTypeOK
    /\ NumbersAreFresh
    /\ InjectorsAreAlone
    /\ RunningSignalIsTrue
    /\ ChildrenFollow

\* The bounds are numbers.
TreeBounds == MaxShells \in Nat /\ MaxKids \in Nat

=============================================================================
