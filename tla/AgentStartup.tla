---------------------------- MODULE AgentStartup ----------------------------
(***************************************************************************)
(* How pal-agent comes to trust the game server on its machine before and  *)
(* while it polls it (crates/pal-agent: main.rs, gate_profile.rs,          *)
(* live_process.rs; crates/pal-rest/src/client.rs for a verified           *)
(* connection).                                                            *)
(*                                                                         *)
(* A signed profile names one process by identifier, creation time and     *)
(* executable.  Processes come and go while the agent looks: an identifier *)
(* is used again once the process is gone and nobody holds a handle to it, *)
(* and the port is whose who binds it first.  Windows, its TCP tables and  *)
(* the clock are external.  The remote transport has no process to bind    *)
(* and is left to AgentProcess.                                            *)
(***************************************************************************)
EXTENDS Integers, FiniteSets, Sequences

CONSTANTS
  ServerPids,    \* process identifiers
  Images,        \* executables, named by their hash; each reports a version
  Version,       \* image -> what /info says its version is
  Profiles,      \* AttestedGateProfile: what the profile file may hold
  MaxInstances,  \* bound: processes ever started
  MaxTime        \* bound: the clock

VARIABLES
  inst,      \* processes ever started: creation time -> pid and image
  alive,     \* the running ones
  listener,  \* the process bound to the REST port, or 0
  systemTime,  \* SystemTime::now
  profile,   \* the profile file, as read
  pc,        \* where run() is
  handle,    \* the process behind the agent's query handle, or 0
  identity,  \* LiveServerIdentity, or NoIdentity
  conn,      \* the process that owns the other end of the connection, or 0
  info,      \* what /info answered, with the process that did
  approved,  \* ApprovedGate exists
  sent       \* history: processes that were sent the credentials

osVars == <<inst, alive, listener, systemTime>>
runVars == <<profile, pc, handle, identity, conn, info, approved, sent>>
startupVars == <<osVars, runVars>>

NoIdentity == [pid |-> 0]
NoInfo == [from |-> 0]
Ended == {"refused", "stopped"}

StartupInit ==
  /\ inst = <<>> /\ alive = {} /\ listener = 0 /\ systemTime = 0
  /\ profile \in Profiles
  /\ pc = "preverify"
  /\ handle = 0 /\ identity = NoIdentity
  /\ conn = 0 /\ info = NoInfo /\ approved = FALSE /\ sent = {}

-----------------------------------------------------------------------------
(* The machine.                                                            *)

\* A process identifier is taken while its process runs or a handle to it
\* is open.
PinnedPids == {inst[i].pid : i \in alive \cup ({handle} \ {0})}

ProcessStarts(pid, image) ==
  /\ Len(inst) < MaxInstances
  /\ pid \notin PinnedPids
  /\ inst' = Append(inst, [pid |-> pid, image |-> image])
  /\ alive' = alive \cup {Len(inst) + 1}
  /\ UNCHANGED <<listener, systemTime, runVars>>

ServerExits(i) ==
  /\ alive' = alive \ {i}
  /\ listener' = IF listener = i THEN 0 ELSE listener
  /\ UNCHANGED <<inst, systemTime, runVars>>

Listens(i) ==
  /\ listener = 0 /\ listener' = i
  /\ UNCHANGED <<inst, alive, systemTime, runVars>>

Unlistens ==
  /\ listener # 0 /\ listener' = 0
  /\ UNCHANGED <<inst, alive, systemTime, runVars>>

TimePasses ==
  /\ systemTime < MaxTime /\ systemTime' = systemTime + 1
  /\ UNCHANGED <<inst, alive, listener, runVars>>

-----------------------------------------------------------------------------
(* The gate.                                                               *)

Goto(next) == pc' = next

Refuse == pc' = IF approved THEN "stopped" ELSE "refused"
Require(condition, next) == IF condition THEN Goto(next) ELSE Refuse

\* validate_payload_shape: the signed window, and the canonical report
\* (GateProbe!ValidateCanonicalReport).
PayloadIsValid ==
  /\ profile.canonical
  /\ profile.issued <= systemTime /\ systemTime < profile.expires

\* preverify_startup_gate: the signature, the payload, and the hash and the
\* interval the configuration asks for.
PreverifyStartupGate ==
  /\ pc = "preverify"
  /\ Require(profile.signed /\ PayloadIsValid /\ profile.configured, "owner1")
  /\ UNCHANGED <<osVars, profile, handle, identity, conn, info, approved, sent>>

\* find_listener_owner: the tables name a process by its identifier, if it
\* is there.
OwnerOf(i) == IF i \in alive THEN inst[i].pid ELSE 0

\* Who has the port, and who has the other end of the connection.
ListenerOwner == OwnerOf(listener)
EstablishedOwner == OwnerOf(conn)

\* inspect: the port belongs to the process the profile names ...
InspectListener ==
  /\ pc = "owner1"
  /\ Require(ListenerOwner = profile.pid, "open")
  /\ UNCHANGED <<osVars, profile, handle, identity, conn, info, approved, sent>>

\* ... which is opened by identifier, whoever has it by now ...
OpenProcess ==
  /\ pc = "open"
  /\ LET found == {i \in alive : inst[i].pid = profile.pid}
     IN  IF found = {}
           THEN Refuse /\ UNCHANGED handle
           ELSE Goto("image") /\ handle' \in found
  /\ UNCHANGED <<osVars, profile, identity, conn, info, approved, sent>>

\* ... its creation time and the hash of its image are read ...
HashImage ==
  /\ pc = "image"
  /\ identity' = [pid |-> inst[handle].pid, created |-> handle,
                  image |-> inst[handle].image]
  /\ Goto("active")
  /\ UNCHANGED <<osVars, profile, handle, conn, info, approved, sent>>

\* ... and it still runs and still has the port.
StillActive ==
  /\ pc = "active"
  /\ Require(handle \in alive, "owner2")
  /\ UNCHANGED <<osVars, profile, handle, identity, conn, info, approved, sent>>

InspectListenerAgain ==
  /\ pc = "owner2"
  /\ Require(ListenerOwner = profile.pid, "bind")
  /\ UNCHANGED <<osVars, profile, handle, identity, conn, info, approved, sent>>

\* bind_preverified_gate
Binds ==
  /\ identity.pid = profile.pid
  /\ identity.created = profile.created
  /\ identity.image = profile.image

BindPreverifiedGate ==
  /\ pc = "bind"
  /\ Require(Binds, "guard")
  /\ UNCHANGED <<osVars, profile, handle, identity, conn, info, approved, sent>>

\* Secrets are read and the single-instance lock is taken, or either fails.
AcquireInstance ==
  /\ pc = "guard"
  /\ (Goto("process") \/ Refuse)
  /\ UNCHANGED <<osVars, profile, handle, identity, conn, info, approved, sent>>

-----------------------------------------------------------------------------
(* A verified request: trust is revalidated before and after it.           *)

\* LiveServerIdentity::revalidate: the handle's process runs ...
RevalidateProcess ==
  /\ pc \in {"process", "process2"}
  /\ Require(handle \in alive, IF pc = "process" THEN "listener" ELSE "listener2")
  /\ UNCHANGED <<osVars, profile, handle, identity, conn, info, approved, sent>>

\* ... and has the port.  The second time the answer is taken.
RevalidateListener ==
  /\ pc \in {"listener", "listener2"}
  /\ Require(ListenerOwner = identity.pid,
             IF pc = "listener" THEN "connect"
             ELSE IF approved THEN "serving" ELSE "finalize")
  /\ UNCHANGED <<osVars, profile, handle, identity, conn, info, approved, sent>>

\* Failing to reach the server ends the startup; a poll only misses its tick.
RequestFails ==
  IF approved THEN Goto("process2") ELSE Refuse

OpenConnection ==
  /\ pc = "connect"
  /\ \/ listener # 0 /\ conn' = listener /\ Goto("verify")
     \/ RequestFails /\ conn' = 0
  /\ UNCHANGED <<osVars, profile, handle, identity, info, approved, sent>>

\* Mutant: the connection is taken for the listener's.
VerifyProcessOnly ==
  /\ pc = "verify"
  /\ Require(handle \in alive, "verified")
  /\ UNCHANGED <<osVars, profile, handle, identity, conn, info, approved, sent>>

\* verify_connected_stream: the process runs, the other end of this very
\* connection is its, and it still runs.
VerifyConnectedStream ==
  /\ pc = "verify"
  /\ Require(handle \in alive /\ EstablishedOwner = identity.pid, "verified")
  /\ UNCHANGED <<osVars, profile, handle, identity, conn, info, approved, sent>>

VerifyAgain ==
  /\ pc = "verified"
  /\ Require(handle \in alive, "send")
  /\ UNCHANGED <<osVars, profile, handle, identity, conn, info, approved, sent>>

\* The request carries the credentials; a connection whose other end is
\* gone delivers nothing.
SendRequest ==
  /\ pc = "send"
  /\ IF conn \in alive THEN sent' = sent \cup {conn} /\ Goto("answer")
                       ELSE RequestFails /\ UNCHANGED sent
  /\ UNCHANGED <<osVars, profile, handle, identity, conn, info, approved>>

Answer ==
  /\ pc = "answer"
  /\ \/ /\ conn \in alive
        /\ info' = [from |-> conn, version |-> Version[inst[conn].image]]
        /\ Goto("process2")
     \/ RequestFails /\ UNCHANGED info
  /\ conn' = 0
  /\ UNCHANGED <<osVars, profile, handle, identity, approved, sent>>

\* ProbeRunner::preflight: the digest over what identifies a server.
Fingerprint(version, image) == <<version, image>>

\* finalize_info_binding: the answer and the executable that was hashed give
\* the fingerprint of the report.
InfoIsBound ==
  /\ info.version = profile.version
  /\ Fingerprint(info.version, identity.image) = profile.fingerprint

\* finalize_startup_gate: the window again, the process again, the version.
FinalizeStartupGate ==
  /\ pc = "finalize"
  /\ Require(PayloadIsValid /\ Binds /\ InfoIsBound, "serving")
  /\ approved' = (pc' = "serving")
  /\ UNCHANGED <<osVars, profile, handle, identity, conn, info, sent>>

\* A tick of the poller.
ServingTick ==
  /\ pc = "serving"
  /\ Goto("process")
  /\ UNCHANGED <<osVars, profile, handle, identity, conn, info, approved, sent>>

RunStep ==
  \/ PreverifyStartupGate \/ InspectListener \/ OpenProcess \/ HashImage
  \/ StillActive \/ InspectListenerAgain \/ BindPreverifiedGate
  \/ AcquireInstance \/ RevalidateProcess \/ RevalidateListener \/ OpenConnection
  \/ VerifyConnectedStream \/ VerifyAgain \/ SendRequest \/ Answer
  \/ FinalizeStartupGate \/ ServingTick

Machine ==
  \/ \E pid \in ServerPids, image \in Images : ProcessStarts(pid, image)
  \/ \E i \in alive : ServerExits(i) \/ Listens(i)
  \/ Unlistens \/ TimePasses

StartupNext == RunStep \/ Machine

StartupSpec == StartupInit /\ [][StartupNext]_startupVars /\ WF_startupVars(RunStep)

-----------------------------------------------------------------------------
(* Properties.                                                             *)

\* The process the signed profile is about.
Attested(i) ==
  /\ i = profile.created
  /\ inst[i].pid = profile.pid /\ inst[i].image = profile.image

\* No credentials leave the agent before it holds a signed profile.
SignedBeforeSent == sent # {} => profile.signed

\* The administrator's credentials reach no process but the one the profile
\* names, however the port and the process identifiers change hands between
\* the checks.
CredentialsReachAttested == \A i \in sent : Attested(i)

\* When the inspection is over, the process behind the handle is the one
\* that has the port, although both were found by identifier at different
\* moments.
IdentityIsListener ==
  pc = "owner2" /\ pc' = "bind" => listener = handle

\* An approval is given inside the signed window, for what the attested
\* process itself answered.
ApprovalIsCurrent ==
  ~approved /\ approved' =>
    /\ profile.issued <= systemTime /\ systemTime < profile.expires
    /\ Attested(info.from) /\ info.version = profile.version

\* From its start to its last poll the agent trusts the attested process only.
StartupIsAttested ==
  /\ [](SignedBeforeSent /\ CredentialsReachAttested)
  /\ [][IdentityIsListener /\ ApprovalIsCurrent]_startupVars

=============================================================================
