---------------------------- MODULE ControlPlane ----------------------------
(***************************************************************************)
(* The versioned overlay settings of the core process                      *)
(* (pal-core-win/src/settings_store.rs) and the actions of the overlay on  *)
(* them (pal-domain/src/settings.rs).  Every operation of the store is a   *)
(* function from a store and a request to a new store and a result; the    *)
(* mutex of SharedSettingsStore makes each of them one step.               *)
(*                                                                         *)
(* A settings value keeps the fields that an action or a forced lock       *)
(* changes; the remaining ones (opacity, diameter, position, frame rate,   *)
(* hotkeys) are one field "look", which only a patch changes.              *)
(***************************************************************************)
EXTENDS Integers, Sequences, FiniteSets

CONSTANTS
    MaxVersion,     \* u64::MAX: the version no settings change can follow
    MaxLayers       \* 64: the layer ids a filter may enable

ASSUME MaxVersionAssumption == MaxVersion \in Nat \ {0}
ASSUME MaxLayersAssumption == MaxLayers \in Nat

InputModes == {"Locked", "TemporaryInteractive", "PinnedInteractive", "LayoutEdit"}

\* The fields a patch may name.
FieldNames == {"enabled", "input_mode", "expanded", "zoom", "heading_up", "poi", "look"}

\* Zoom in hundredths; the bounds are those of OverlaySettings::validate.
ZoomRange == 50..400

Least(a, b) == IF a < b THEN a ELSE b
Most(a, b) == IF a > b THEN a ELSE b

\* Map layers that one action switches together; fast_travel, boss, wanted and
\* dungeon are switches of their own.
LayerGroup(action) ==
    CASE action = "ToggleFastTravel" -> {"fast_travel"}
      [] action = "ToggleBoss"       -> {"boss"}
      [] action = "ToggleWanted"     -> {"wanted"}
      [] action = "ToggleDungeon"    -> {"dungeon"}
      [] action = "ToggleTower"      -> {"tower"}
      [] action = "ToggleEgg"        -> {"egg"}
      [] action = "ToggleResources"  -> {"ore", "oil"}
      [] action = "ToggleSalvage"    -> {"salvage-1", "salvage-2"}

\* The filters that are switches, not layer ids.
Switches == {"fast_travel", "boss", "wanted", "dungeon"}

\* A group of which anything is shown is hidden as a whole, otherwise shown.
ToggleLayerGroup(poi, group) ==
    IF poi \cap group # {} THEN poi \ group ELSE poi \cup group

ReduceOverlayAction(s, action) ==
    CASE action = "Show"             -> [s EXCEPT !.enabled = TRUE]
      [] action = "Hide"             -> [s EXCEPT !.enabled = FALSE]
      [] action = "ToggleVisibility" -> [s EXCEPT !.enabled = ~@]
      [] action = "EnterInteractive" -> [s EXCEPT !.input_mode = "PinnedInteractive"]
      [] action \in {"ExitInteractive", "Lock"} -> [s EXCEPT !.input_mode = "Locked"]
      [] action = "OpenExpanded"     -> [s EXCEPT !.expanded = TRUE]
      [] action = "CloseExpanded"    -> [s EXCEPT !.expanded = FALSE, !.input_mode = "Locked"]
      [] action = "ZoomIn"           -> [s EXCEPT !.zoom = Least(@ + 25, 400)]
      [] action = "ZoomOut"          -> [s EXCEPT !.zoom = Most(@ - 25, 50)]
      [] action = "ToggleRotation"   -> [s EXCEPT !.heading_up = ~@]
      [] OTHER -> [s EXCEPT !.poi = ToggleLayerGroup(@, LayerGroup(action))]

\* OverlaySettings::validate: settings built from valid parts can only exceed
\* the number of layer ids.
Valid(s) == s.zoom \in ZoomRange /\ Cardinality(s.poi \ Switches) <= MaxLayers

-----------------------------------------------------------------------------
\* self.version.checked_add(1)
VersionExhausted(st) == st.version = MaxVersion

\* The settings replaced and the version moved together.
Bumped(st, settings) == [settings |-> settings, version |-> st.version + 1]

NextStore(st, settings) == Bumped(st, settings)

NewStore(settings) == [settings |-> settings, version |-> 1]

\* An empty, unknown, unspecified or repeated field rejects the whole mask.
ValidateFields(mask) ==
    /\ mask # <<>>
    /\ \A i \in DOMAIN mask : mask[i] \in FieldNames
    /\ \A i, j \in DOMAIN mask : mask[i] = mask[j] => i = j

\* Only the named fields are copied from the candidate.
CopyFields(settings, candidate, mask) ==
    [f \in DOMAIN settings |->
        IF \E i \in DOMAIN mask : mask[i] = f THEN candidate[f] ELSE settings[f]]

\* A patch: its settings are "missing", do not decode to "valid" ones, or are
\* the candidate.
ApplyPatch(st, expected, wire, candidate, mask) ==
    LET effective == CopyFields(st.settings, candidate, mask)
        accepted  == /\ wire = "valid"
                     /\ ValidateFields(mask)
                     /\ ~VersionExhausted(st)
                     /\ Valid(effective)
    IN  CASE wire # "missing" /\ expected # st.version -> <<st, "VersionConflict">>
          [] wire # "missing" /\ expected = st.version /\ accepted ->
                <<NextStore(st, effective), "Applied">>
          [] OTHER -> <<st, "ValidationRejected">>

\* An overlay action: a change that leaves the settings as they are keeps the
\* version too, and the version is looked at before the change.
ApplyAction(st, expected, action) ==
    LET effective == ReduceOverlayAction(st.settings, action)
    IN  CASE expected # st.version -> <<st, "VersionConflict">>
          [] expected = st.version /\ VersionExhausted(st) -> <<st, "Rejected">>
          [] OTHER -> CASE effective = st.settings -> <<st, "NoOp">>
                        [] effective # st.settings /\ ~Valid(effective) -> <<st, "Rejected">>
                        [] OTHER -> <<NextStore(st, effective), "Applied">>

\* The safety transition of a disconnect; without a version left it fails and
\* changes nothing.
ForceLocked(st) ==
    IF st.settings.input_mode = "Locked" \/ VersionExhausted(st)
    THEN st
    ELSE NextStore(st, [st.settings EXCEPT !.input_mode = "Locked"])

-----------------------------------------------------------------------------
(***************************************************************************)
(* The settings control channel of the product: the core's settings store  *)
(* behind a named pipe (pal-core-win/src/control_session.rs and            *)
(* ipc_runtime.rs over pal-windows-ipc), the overlay's control client      *)
(* thread (pal-overlay-win/src/control_client.rs) and the part of the      *)
(* overlay's main loop that submits intents and takes the client's events. *)
(*                                                                         *)
(* Every session has a worker thread in the core; the client end of a pipe *)
(* may be closed while a request it wrote is still unread, so a request    *)
(* can be applied after its sender gave up and even reconnected.           *)
(***************************************************************************)

CONSTANTS
    MaxSessions,        \* MAX_CORE_SESSIONS
    CommandCapacity,    \* COMMAND_CAPACITY of the intent queue
    Uis,                \* management clients
    InitialSettings,    \* the settings the core may start with
    Intents,            \* the intents the user may cause: an action or a filter set
    UiRequests,         \* the requests of a management client
    MaxIntents,         \* bound: intents the user causes
    MaxUiRequests       \* bound: requests the management clients send

ASSUME SessionsAssumption == MaxSessions \in Nat \ {0}
ASSUME CapacityAssumption == CommandCapacity \in Nat \ {0}
ASSUME BoundsAssumption == MaxIntents \in Nat /\ MaxUiRequests \in Nat

\* Settings as they decode: every field, and a mode the enumeration has.
Settled(s) == DOMAIN s = FieldNames /\ s.input_mode \in InputModes

\* A frame that decodes; "id" is the intent it carries, 0 for none.
Decodes(m) ==
    /\ m.kind \in {"hello", "query", "action", "patch"}
    /\ m.id \in 0..MaxIntents
    /\ m.kind = "hello" => m.role \in {"Overlay", "ManagementUi"}
    /\ m.kind = "patch" => /\ DOMAIN m = {"kind", "id", "expected", "wire", "candidate", "mask"}
                           /\ Settled(m.candidate)

ASSUME StartAssumption == \A s \in InitialSettings : Settled(s) /\ Valid(s)
ASSUME IntentsAssumption == \A i \in Intents : i.kind \in {"action", "patch"}
ASSUME UiRequestsAssumption == \A r \in UiRequests : Decodes(r) /\ r.id = 0

VARIABLES
    store,      \* SharedSettingsStore
    supervisor, \* "accepting", "failed", "stopping" or "stopped"
    sess,       \* one record per session worker of the core
    ovl,        \* the overlay's control client thread
    cmds,       \* its bounded intent queue
    evt,        \* the newest event the main loop has not taken
    ui,         \* what the overlay's main loop believes
    uis,        \* the session of each management client, 0 for none
    caused,     \* number of intents caused so far
    asked,      \* number of management requests so far
    effects     \* history: how often each intent changed the store

controlVars == <<store, supervisor, sess, ovl, cmds, evt, ui, uis, caused, asked, effects>>
serverVars == <<store, supervisor>>
uiVars == <<uis, asked>>

Slots == 1..MaxSessions
NoMsg == [kind |-> "none"]
NoNews == [kind |-> "none"]

\* A session worker: "free" (no thread), "open" (running), "gone" (its pipe
\* instance is closed, its thread not yet reaped).  "role" is the HelloGate.
FreeSession == [phase |-> "free", role |-> "none", peer |-> FALSE,
                inbox |-> <<>>, outbox |-> NoMsg]

Live == {s \in Slots : sess[s].phase = "open"}

Hello(role) == [kind |-> "hello", role |-> role, id |-> 0]
Query == [kind |-> "query", id |-> 0]

NoIntent == [id |-> 0, kind |-> "none"]
Idle == [pc |-> "connect", slot |-> 0, reported |-> FALSE, version |-> 0,
         settings |-> NoMsg, intent |-> NoIntent, retried |-> FALSE, stop |-> FALSE]

UiUnknown == [connected |-> FALSE, version |-> 0, mode |-> "Locked"]

ControlInit ==
    /\ \E s \in InitialSettings : store = NewStore(s)
    /\ supervisor = "accepting"
    /\ sess = [s \in Slots |-> FreeSession]
    /\ ovl = Idle
    /\ cmds = <<>>
    /\ evt = NoNews
    /\ ui = UiUnknown
    /\ uis = [u \in Uis |-> 0]
    /\ caused = 0
    /\ asked = 0
    /\ effects = [i \in 1..MaxIntents |-> 0]

-----------------------------------------------------------------------------
(* The pipe listener and the session workers. *)

\* supervise: with every instance in use no replacement can be created and the
\* listener fails; a connection beyond the unreaped workers is dropped.
AcceptOutcome(s) ==
    CASE Cardinality(Live) = MaxSessions -> "fail"
      [] sess[s].phase = "free" /\ Cardinality(Live) # MaxSessions -> "serve"
      [] OTHER -> "drop"

\* The slots are alike: the accepted connection takes the first that serves it.
Serving == {s \in Slots : AcceptOutcome(s) = "serve" /\ \A t \in 1..(s - 1) : AcceptOutcome(t) # "serve"}

\* The client end of slot s is opened with the frames it wrote.
Opened(s, frames) ==
    sess' = [sess EXCEPT ![s] = [FreeSession EXCEPT !.phase = "open", !.peer = TRUE,
                                                    !.inbox = frames]]

\* A finished worker is joined before and after the next accept.
Reap(s) ==
    /\ sess[s].phase = "gone"
    /\ sess' = [sess EXCEPT ![s] = FreeSession]
    /\ UNCHANGED <<serverVars, ovl, cmds, evt, ui, uiVars, caused, effects>>

\* permits_for_role and the further check of a patch by an overlay.
Permitted(role, m) ==
    \/ role = "ManagementUi"
    \/ role = "Overlay" /\ m.kind \in {"query", "action"}
    \/ role = "Overlay" /\ m.kind = "patch" /\ m.mask = <<"poi">>

\* handle_envelope on an established session: the store after the request, and
\* the reply.
Handle(role, m) ==
    LET answer(r) == [store |-> r[1],
                      reply |-> [kind |-> m.kind, status |-> r[2], id |-> m.id,
                                 version |-> r[1].version, settings |-> r[1].settings]]
    IN  CASE m.kind = "hello" \/ ~Permitted(role, m) ->
                [store |-> store, reply |-> [kind |-> "error", id |-> m.id]]
          [] m.kind = "query" /\ Permitted(role, m) -> answer(<<store, "Snapshot">>)
          [] m.kind = "action" /\ Permitted(role, m) ->
                answer(ApplyAction(store, m.expected, m.action))
          [] OTHER -> answer(ApplyPatch(store, m.expected, m.wire, m.candidate, m.mask))

\* ControlSession::disconnect: only an established session locks the overlay.
Disconnected(s) == IF sess[s].role = "none" THEN store ELSE ForceLocked(store)

\* The worker handles one frame.  A valid hello establishes the session and has
\* no reply; a reply to a closed client end ends the session.
HandleFrame(s) ==
    /\ sess[s].phase = "open" /\ sess[s].inbox # <<>> /\ sess[s].outbox = NoMsg
    /\ LET m == Head(sess[s].inbox)
           h == Handle(sess[s].role, m)
           rest == Tail(sess[s].inbox)
           changed == h.store # store /\ m.id # 0
       IN  IF sess[s].role = "none"
           THEN /\ sess' = [sess EXCEPT ![s] =
                        IF m.kind = "hello"
                        THEN [@ EXCEPT !.role = m.role, !.inbox = rest]
                        ELSE [@ EXCEPT !.inbox = rest,
                                       !.outbox = [kind |-> "error", id |-> m.id]]]
                /\ UNCHANGED <<store, effects>>
           ELSE /\ store' = h.store
                /\ effects' = IF changed THEN [effects EXCEPT ![m.id] = @ + 1] ELSE effects
                /\ sess' = [sess EXCEPT ![s] = [@ EXCEPT !.inbox = rest, !.outbox = h.reply]]
    /\ UNCHANGED <<supervisor, ovl, cmds, evt, ui, uiVars, caused>>

\* Mutant: a worker that waits for its client although it was cancelled.
EndSessionOnClose(s) ==
    /\ sess[s].phase = "open"
    /\ ~sess[s].peer /\ (sess[s].inbox = <<>> \/ sess[s].outbox # NoMsg)
    /\ store' = Disconnected(s)
    /\ sess' = [sess EXCEPT ![s] = [FreeSession EXCEPT !.phase = "gone"]]
    /\ UNCHANGED <<supervisor, ovl, cmds, evt, ui, uiVars, caused, effects>>

\* run_session ends: the client closed and everything it wrote was read, a reply
\* could not be written, or the worker was cancelled.  disconnected() runs, then
\* the pipe instance closes and what the client has not read is discarded.
EndSession(s) ==
    /\ sess[s].phase = "open"
    /\ \/ supervisor # "accepting"
       \/ ~sess[s].peer /\ (sess[s].inbox = <<>> \/ sess[s].outbox # NoMsg)
    /\ store' = Disconnected(s)
    /\ sess' = [sess EXCEPT ![s] = [FreeSession EXCEPT !.phase = "gone"]]
    /\ UNCHANGED <<supervisor, ovl, cmds, evt, ui, uiVars, caused, effects>>

\* CoreIpcRuntime::shutdown cancels the token; supervise joins every worker.
Shutdown ==
    /\ supervisor = "accepting"
    /\ supervisor' = "stopping"
    /\ UNCHANGED <<store, sess, ovl, cmds, evt, ui, uiVars, caused, effects>>

SupervisorDone ==
    /\ supervisor \in {"stopping", "failed"}
    /\ \A s \in Slots : sess[s].phase # "open"
    /\ supervisor' = "stopped"
    /\ sess' = [s \in Slots |-> FreeSession]
    /\ UNCHANGED <<store, ovl, cmds, evt, ui, uiVars, caused, effects>>

-----------------------------------------------------------------------------
(* The overlay's control client thread. *)

\* Dropping the client closes its end of the pipe.
ClosedBy(slot) == [s \in Slots |-> IF s = slot THEN [sess[s] EXCEPT !.peer = FALSE] ELSE sess[s]]

\* A failed connect or query reports once; a failed intent always.
Failed(w) ==
    /\ ovl' = [w EXCEPT !.pc = "connect", !.slot = 0, !.version = 0, !.settings = NoMsg,
                        !.intent = NoIntent, !.retried = FALSE, !.reported = TRUE]
    /\ evt' = IF ovl.reported /\ ovl.pc \in {"connect", "query"}
              THEN evt ELSE [kind |-> "disconnected"]

\* PipeClient::connect with the hello, and the settings query behind it.
ConnectPipe ==
    /\ ovl.pc = "connect" /\ ~ovl.stop
    /\ supervisor = "accepting"
    /\ \E s \in Serving :
          /\ Opened(s, <<Hello("Overlay"), Query>>)
          /\ ovl' = [ovl EXCEPT !.pc = "query", !.slot = s]
    /\ UNCHANGED <<serverVars, cmds, evt, ui, uiVars, caused, effects>>

\* The core is not there, the listener dropped the connection, or the accept of
\* this client was the one that found no instance left.
ConnectFails ==
    /\ ovl.pc = "connect" /\ ~ovl.stop
    /\ \/ supervisor # "accepting" /\ UNCHANGED supervisor
       \/ /\ supervisor = "accepting"
          /\ Serving = {}
          /\ supervisor' = IF Cardinality(Live) = MaxSessions THEN "failed" ELSE supervisor
    /\ Failed(ovl)
    /\ UNCHANGED <<store, sess, cmds, ui, uiVars, caused, effects>>

Replied == ovl.slot # 0 /\ sess[ovl.slot].outbox # NoMsg

\* query_settings answered.
Connected ==
    /\ ovl.pc = "query" /\ Replied
    /\ LET r == sess[ovl.slot].outbox
       IN  IF r.kind = "query"
           THEN /\ ovl' = [ovl EXCEPT !.pc = "loop", !.version = r.version,
                                      !.settings = r.settings]
                /\ evt' = [kind |-> "connected", version |-> r.version, settings |-> r.settings]
                /\ sess' = [sess EXCEPT ![ovl.slot].outbox = NoMsg]
           ELSE Failed(ovl) /\ sess' = ClosedBy(ovl.slot)
    /\ UNCHANGED <<serverVars, cmds, ui, uiVars, caused, effects>>

\* The request as send_intent builds it.
RequestFor(intent, expected, settings) ==
    IF intent.kind = "action"
    THEN [kind |-> "action", id |-> intent.id, expected |-> expected, action |-> intent.value]
    ELSE [kind |-> "patch", id |-> intent.id, expected |-> expected, wire |-> "valid",
          candidate |-> [settings EXCEPT !.poi = intent.value], mask |-> <<"poi">>]

\* An intent is taken from the queue and sent; expected version 0 stands for the
\* version of the last answer.
SendIntent ==
    /\ ovl.pc = "loop" /\ ~ovl.stop /\ cmds # <<>>
    /\ LET i == Head(cmds)
           expected == IF i.expected = 0 THEN ovl.version ELSE i.expected
       IN  /\ ovl' = [ovl EXCEPT !.pc = "wait", !.intent = i, !.retried = FALSE]
           /\ sess' = [sess EXCEPT ![ovl.slot].inbox =
                          Append(@, RequestFor(i, expected, ovl.settings))]
    /\ cmds' = Tail(cmds)
    /\ UNCHANGED <<serverVars, evt, ui, uiVars, caused, effects>>

\* Mutant: whatever was not applied is sent once more.
RetryUnlessApplied(reply) == reply.status # "Applied" \/ reply.version > ovl.version

\* Only a version conflict is retried.
Conflict(reply) == reply.status = "VersionConflict"

\* The answer becomes the client's version and settings and an event; a version
\* conflict sends the intent once more with the version just learned.
Answered ==
    /\ ovl.pc = "wait" /\ Replied
    /\ LET r == sess[ovl.slot].outbox
           again == Conflict(r) /\ ~ovl.retried
       IN  IF r.kind # ovl.intent.kind
           THEN Failed(ovl) /\ sess' = ClosedBy(ovl.slot)
           ELSE /\ evt' = [kind |-> "applied", version |-> r.version, settings |-> r.settings]
                /\ ovl' = [ovl EXCEPT !.version = r.version, !.settings = r.settings,
                              !.pc = IF again THEN "wait" ELSE "loop",
                              !.retried = again,
                              !.intent = IF again THEN @ ELSE NoIntent]
                /\ sess' = [sess EXCEPT ![ovl.slot] =
                      [sess[ovl.slot] EXCEPT
                          !.outbox = NoMsg,
                          !.inbox = IF again
                                    THEN Append(@, RequestFor(ovl.intent, r.version, r.settings))
                                    ELSE @]]
    /\ UNCHANGED <<serverVars, cmds, ui, uiVars, caused, effects>>

\* A request that cannot be written, a closed pipe or the request timeout: the
\* client drops the connection, and with it the intent.
RequestFails ==
    /\ ovl.pc \in {"query", "wait"} /\ ~Replied
    /\ Failed(ovl)
    /\ sess' = ClosedBy(ovl.slot)
    /\ UNCHANGED <<serverVars, cmds, ui, uiVars, caused, effects>>

\* Mutant: the stop flag is read in the command loop only.
ClientStopsInLoop ==
    /\ ovl.stop /\ ovl.pc = "loop"
    /\ ovl' = [ovl EXCEPT !.pc = "done", !.slot = 0]
    /\ sess' = ClosedBy(ovl.slot)
    /\ UNCHANGED <<serverVars, cmds, evt, ui, uiVars, caused, effects>>

\* The stop flag is read before connecting and in the loop.
ClientStops ==
    /\ ovl.stop /\ ovl.pc \in {"connect", "loop"}
    /\ ovl' = [ovl EXCEPT !.pc = "done", !.slot = 0]
    /\ sess' = ClosedBy(ovl.slot)
    /\ UNCHANGED <<serverVars, cmds, evt, ui, uiVars, caused, effects>>

-----------------------------------------------------------------------------
(* The overlay's main loop. *)

\* A hotkey or control intent with the version of the last event; a full queue
\* locks the overlay at once.
Submit(i) ==
    /\ ~ovl.stop /\ caused < MaxIntents
    /\ caused' = caused + 1
    /\ IF Len(cmds) < CommandCapacity
       THEN /\ cmds' = Append(cmds, [id |-> caused + 1, expected |-> ui.version,
                                     kind |-> i.kind, value |-> i.value])
            /\ UNCHANGED ui
       ELSE /\ ui' = [ui EXCEPT !.connected = FALSE, !.mode = "Locked"]
            /\ UNCHANGED cmds
    /\ UNCHANGED <<serverVars, sess, ovl, evt, uiVars, effects>>

\* take_latest: only the newest event is applied.
TakeEvent ==
    /\ evt # NoNews
    /\ ui' = IF evt.kind = "disconnected"
             THEN [ui EXCEPT !.connected = FALSE, !.mode = "Locked"]
             ELSE [connected |-> TRUE, version |-> evt.version, mode |-> evt.settings.input_mode]
    /\ evt' = NoNews
    /\ UNCHANGED <<serverVars, sess, ovl, cmds, uiVars, caused, effects>>

\* Dropping the runtime: the flag is set, then the thread is joined.
StopClient ==
    /\ ~ovl.stop
    /\ ovl' = [ovl EXCEPT !.stop = TRUE]
    /\ UNCHANGED <<serverVars, sess, cmds, evt, ui, uiVars, caused, effects>>

\* The overlay process dies; the core restarts it (OverlaySupervisor).
OverlayRestarts ==
    /\ ovl.pc # "done" => ovl.slot # 0
    /\ sess' = ClosedBy(ovl.slot)
    /\ ovl' = Idle
    /\ cmds' = <<>>
    /\ evt' = NoNews
    /\ ui' = UiUnknown
    /\ UNCHANGED <<serverVars, uiVars, caused, effects>>

-----------------------------------------------------------------------------
(* Management clients, as any local client the pipe admits. *)

UiOpen(u) ==
    /\ uis[u] = 0 /\ asked < MaxUiRequests /\ supervisor = "accepting"
    /\ \/ \E s \in Serving : /\ Opened(s, <<>>)
                             /\ uis' = [uis EXCEPT ![u] = s]
                             /\ UNCHANGED supervisor
       \/ /\ Serving = {}
          /\ supervisor' = IF Cardinality(Live) = MaxSessions THEN "failed" ELSE supervisor
          /\ UNCHANGED <<sess, uis>>
    /\ asked' = asked + 1
    /\ UNCHANGED <<store, ovl, cmds, evt, ui, caused, effects>>

\* Any request, in any order, a hello included; a patch carries the version the
\* client has seen or an outdated one.
UiRequest(u) ==
    /\ uis[u] # 0 /\ asked < MaxUiRequests
    /\ sess[uis[u]].phase = "open" /\ sess[uis[u]].inbox = <<>>
    /\ \E r \in UiRequests, v \in {1, store.version} :
          sess' = [sess EXCEPT ![uis[u]] =
                     [@ EXCEPT !.outbox = NoMsg,
                               !.inbox = <<IF r.kind = "patch" THEN [r EXCEPT !.expected = v]
                                                               ELSE r>>]]
    /\ asked' = asked + 1
    /\ UNCHANGED <<serverVars, ovl, cmds, evt, ui, uis, caused, effects>>

UiClose(u) ==
    /\ uis[u] # 0
    /\ sess' = ClosedBy(uis[u])
    /\ uis' = [uis EXCEPT ![u] = 0]
    /\ UNCHANGED <<serverVars, ovl, cmds, evt, ui, asked, caused, effects>>

-----------------------------------------------------------------------------
Worker ==
    \/ ConnectPipe \/ ConnectFails \/ Connected \/ SendIntent \/ Answered \/ RequestFails
    \/ ClientStops

Session(s) == HandleFrame(s) \/ EndSession(s) \/ Reap(s)

ControlNext ==
    \/ Worker
    \/ \E s \in Slots : Session(s)
    \/ Shutdown \/ SupervisorDone
    \/ \E i \in Intents : Submit(i)
    \/ TakeEvent \/ StopClient \/ OverlayRestarts
    \/ \E u \in Uis : UiOpen(u) \/ UiRequest(u) \/ UiClose(u)

\* Every wait of the client thread is bounded by a timeout and every wait of a
\* session worker polls the cancellation, so each thread keeps taking steps.
ControlFairness ==
    /\ WF_controlVars(Worker)
    /\ \A s \in Slots : WF_controlVars(EndSession(s))
    /\ WF_controlVars(SupervisorDone)

-----------------------------------------------------------------------------
(* Properties. *)

\* The store never holds invalid settings or a version out of range, the queues
\* keep their bounds.
ControlTypeOK ==
    /\ store.version \in 1..MaxVersion
    /\ DOMAIN store.settings = FieldNames
    /\ store.settings.input_mode \in InputModes
    /\ Valid(store.settings)
    /\ supervisor \in {"accepting", "failed", "stopping", "stopped"}
    /\ \A s \in Slots : /\ sess[s].phase \in {"free", "open", "gone"}
                        /\ sess[s].role \in {"none", "Overlay", "ManagementUi"}
                        /\ Len(sess[s].inbox) <= 3
    /\ ovl.pc \in {"connect", "query", "loop", "wait", "done"}
    /\ Len(cmds) <= CommandCapacity
    /\ uis \in [Uis -> 0..MaxSessions]

\* An intent changes the settings at most once, whatever is lost, retried or
\* applied after its sender gave up (worker_loop and send_intent of the control
\* client): a toggle that took effect twice would undo itself.
AtMostOnce == \A i \in 1..MaxIntents : effects[i] <= 1

\* Every snapshot anyone holds: the store, the client thread, its pending event
\* and the replies in the pipes.
Snapshots ==
    {[version |-> store.version, settings |-> store.settings]}
    \cup (IF ovl.version = 0 THEN {}
          ELSE {[version |-> ovl.version, settings |-> ovl.settings]})
    \cup (IF evt.kind \in {"connected", "applied"}
          THEN {[version |-> evt.version, settings |-> evt.settings]} ELSE {})
    \cup {[version |-> sess[s].outbox.version, settings |-> sess[s].outbox.settings] :
             s \in {t \in Slots : sess[t].outbox.kind \in {"query", "action", "patch"}}}

\* A settings version names one settings value: two snapshots with the same
\* version agree, which is what the expected version of a request relies on
\* (SettingsStore moves settings and version together).
VersionNamesSettings ==
    \A a, b \in Snapshots : a.version = b.version => a.settings = b.settings

\* The overlay captures input only while somebody is there to release it: apart
\* from the settings the core was started with, and from a store without a
\* version left, an interactive mode belongs to a running established session
\* (ControlSession::disconnect, force_locked).
LockedWhenAlone ==
    store.settings.input_mode # "Locked" =>
        \/ store.version = 1
        \/ VersionExhausted(store)
        \/ \E s \in Live : sess[s].role # "none"

\* The main loop of the overlay is interactive only while its client thread is
\* connected, or has the news of the loss waiting for it (worker_loop reports
\* every loss, take_latest keeps the newest event).
LossIsReported ==
    ui.connected /\ ovl.pc \in {"connect", "query"} => evt.kind = "disconnected"

\* Without a connection the overlay never captures input, the full intent queue
\* included (the main loop's handling of events and of a refused submit).
InteractiveOnlyConnected == ui.mode # "Locked" => ui.connected

\* What holds between any two steps of core, overlay client and management
\* client: an intent takes effect once, a version names one settings value, the
\* overlay is locked when nobody is there to release it, and a lost connection
\* is reported before the overlay may capture input again.
ControlSafe ==
    /\ ControlTypeOK
    /\ AtMostOnce
    /\ VersionNamesSettings
    /\ LockedWhenAlone
    /\ LossIsReported
    /\ InteractiveOnlyConnected

\* A cancelled or failed core channel ends every session, and so locks the
\* overlay, before the supervisor is joined.
ShutdownCompletes == supervisor \in {"stopping", "failed"} ~> supervisor = "stopped"

ControlSpec == ControlInit /\ [][ControlNext]_controlVars /\ ControlFairness
=============================================================================
