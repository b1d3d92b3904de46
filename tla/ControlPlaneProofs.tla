------------------------- MODULE ControlPlaneProofs -------------------------
(***************************************************************************)
(* Proofs about the core's side of the desktop (the control channel, the   *)
(* session of the cloud client, the process tree and the settings file)    *)
(* and about the publication of knowledge in the cloud, each about the     *)
(* specification of its own module.                                        *)
(*                                                                         *)
(* The control channel, for every number of pipe instances, management     *)
(* clients, intents and settings versions and every queue length.  The     *)
(* argument: an intent is in the queue and untouched, or is                *)
(* carried by exactly one request that is not handled yet and has had no   *)
(* effect, or answered; only an answer that changed nothing makes the      *)
(* client send it again.  Every snapshot anyone holds is a copy of a store *)
(* the core had, and the store's version only grows, by one with each      *)
(* change of the settings.                                                 *)
(***************************************************************************)
EXTENDS ControlPlane, CloudSession, ProcessTree, SettingsFile,
        KnowledgePublication, FiniteSetTheorems, TLAPS

-----------------------------------------------------------------------------
(* The inductive invariant of ControlSafe. *)

\* The records keep their fields; an inbox is empty, holds the hello and the
\* query a client writes when it connects, or one frame.
Command(c) ==
    c.id \in 1..MaxIntents /\ c.expected \in 0..MaxVersion /\ c.kind \in {"action", "patch"}
IsSequence(q) == Len(q) \in Nat /\ q = [k \in 1..Len(q) |-> q[k]]
Answers == {"query", "action", "patch"}
Greeting == <<Hello("Overlay"), Query>>
OneFrame(q) == q = <<q[1]>> /\ Decodes(q[1])

SessionShape(s) ==
    /\ DOMAIN sess[s] = DOMAIN FreeSession
    /\ sess[s].peer \in BOOLEAN
    /\ sess[s].phase # "open" => sess[s].outbox = NoMsg
    /\ sess[s].inbox = <<>> \/ sess[s].inbox = Greeting \/ OneFrame(sess[s].inbox)
    /\ sess[s].inbox = Greeting => sess[s].role = "none"
    /\ sess[s].outbox # NoMsg => sess[s].inbox = <<>>
    /\ sess[s].outbox.kind \in Answers \cup {"none", "error"}
    /\ sess[s].outbox.kind \in Answers => Settled(sess[s].outbox.settings)

SessionsShape == DOMAIN sess = Slots /\ \A s \in Slots : SessionShape(s)

ClientShape ==
    /\ DOMAIN ovl = DOMAIN Idle
    /\ ovl.slot \in 0..MaxSessions /\ ovl.version \in 0..MaxVersion
    /\ ovl.stop \in BOOLEAN /\ ovl.reported \in BOOLEAN /\ ovl.retried \in BOOLEAN
    /\ ovl.slot = 0 <=> ovl.pc \in {"connect", "done"}
    /\ ovl.version # 0 => Settled(ovl.settings)
    /\ ovl.pc \in {"loop", "wait"} => ovl.version # 0

LoopShape ==
    /\ IsSequence(cmds) /\ \A k \in 1..Len(cmds) : Command(cmds[k])
    /\ DOMAIN ui = DOMAIN UiUnknown
    /\ ui.connected \in BOOLEAN /\ ui.version \in 0..MaxVersion
    /\ evt.kind \in {"none", "disconnected", "connected", "applied"}
    /\ evt.kind = "none" => evt = NoNews
    /\ caused \in 0..MaxIntents
    /\ effects \in [1..MaxIntents -> Nat]

Shape == SessionsShape /\ ClientShape /\ LoopShape

\* A slot belongs to one client, and while the core accepts connections nobody
\* but its owner gives it up.
SlotsAreOwned ==
    /\ \A u \in Uis : uis[u] # 0 => uis[u] # ovl.slot
    /\ \A u, v \in Uis : uis[u] # 0 /\ uis[u] = uis[v] => u = v
    /\ supervisor = "accepting" =>
         \A s \in Slots : s = ovl.slot \/ (\E u \in Uis : uis[u] = s) =>
            sess[s].phase = "open" /\ sess[s].peer

Carries(s, i) == \E k \in DOMAIN sess[s].inbox : sess[s].inbox[k].id = i

\* An intent nobody has sent yet.
Untouched(i) ==
    effects[i] = 0 /\ ovl.intent.id # i /\ \A s \in Slots : ~Carries(s, i)

\* An intent not caused yet or still in the queue is untouched.
QueuedIsUntouched ==
    /\ \A i \in 1..MaxIntents : i > caused => Untouched(i)
    /\ \A k \in 1..Len(cmds) : cmds[k].id <= caused /\ Untouched(cmds[k].id)
    /\ \A k, l \in 1..Len(cmds) : cmds[k].id = cmds[l].id => k = l

\* A request that is not handled yet is the only one of its intent, and the
\* intent has had no effect.
CarriedOnce ==
    \A i \in 1..MaxIntents, s \in Slots : Carries(s, i) =>
        effects[i] = 0 /\ \A t \in Slots : Carries(t, i) => t = s

\* The client thread has one request in its pipe at most, and an answer that
\* makes it send the intent again is one that changed nothing.
ClientWaitsForOne ==
    /\ ovl.pc = "loop" => sess[ovl.slot].inbox = <<>> /\ sess[ovl.slot].outbox = NoMsg
    /\ ovl.pc = "wait" =>
         /\ Command(ovl.intent)
         /\ sess[ovl.slot].inbox = <<>> \/ Carries(ovl.slot, ovl.intent.id)
         /\ \A t \in Slots : Carries(t, ovl.intent.id) => t = ovl.slot
         /\ sess[ovl.slot].outbox.kind \in {"action", "patch"}
              /\ sess[ovl.slot].outbox.status = "VersionConflict" =>
                effects[ovl.intent.id] = 0

IntentsAreSingle == QueuedIsUntouched /\ CarriedOnce /\ ClientWaitsForOne

\* No snapshot is newer than the store.
SnapshotsAreOld == \A a \in Snapshots : a.version \in 1..store.version

\* Without a connection there is no event that claims one.
NewsIsTrue ==
    ovl.pc \in {"connect", "query"} => evt.kind \in {"none", "disconnected"}

ControlInv ==
    /\ ControlSafe
    /\ Shape
    /\ SlotsAreOwned
    /\ IntentsAreSingle
    /\ SnapshotsAreOld
    /\ NewsIsTrue

-----------------------------------------------------------------------------
(* Proofs.                                                                 *)

\* Sequences whose elements have no common set.
LEMMA OneElement ==
  ASSUME NEW m
  PROVE  /\ Head(<<m>>) = m /\ Tail(<<m>>) = <<>> /\ Len(<<m>>) = 1
         /\ <<m>> # <<>> /\ <<m>>[1] = m /\ DOMAIN <<m>> = {1}
         /\ Append(<<>>, m) = <<m>>
<1>1. <<m>> \in Seq({m})
  OBVIOUS
<1>2. Len(<<m>>) = 1 /\ Tail(<<m>>) \in Seq({m}) /\ Len(Tail(<<m>>)) = 0
  BY <1>1
<1> QED
  BY <1>1, <1>2

LEMMA TwoElements ==
  ASSUME NEW m, NEW n
  PROVE  /\ Head(<<m, n>>) = m /\ Tail(<<m, n>>) = <<n>> /\ Len(<<m, n>>) = 2
         /\ <<m, n>> # <<>> /\ DOMAIN <<m, n>> = {1, 2}
         /\ <<m, n>>[1] = m /\ <<m, n>>[2] = n
<1>1. <<m, n>> \in Seq({m, n})
  OBVIOUS
<1>2. /\ Len(<<m, n>>) = 2 /\ Tail(<<m, n>>) \in Seq({m, n}) /\ Len(Tail(<<m, n>>)) = 1
      /\ Tail(<<m, n>>)[1] = n
  BY <1>1
<1>3. Tail(<<m, n>>) = <<n>>
  BY <1>2, <<n>> \in Seq({m, n}), Len(<<n>>) = 1, <<n>>[1] = n
<1> QED
  BY <1>1, <1>2, <1>3

LEMMA SequenceIsFunction ==
  ASSUME NEW S, NEW t \in Seq(S)
  PROVE  IsSequence(t)
<1>1. Len(t) \in Nat /\ t \in [1..Len(t) -> S]
  OBVIOUS
<1>2. t = [k \in 1..Len(t) |-> t[k]]
  BY <1>1
<1> QED
  BY <1>1, <1>2 DEF IsSequence

LEMMA SequenceAppend ==
  ASSUME NEW q, IsSequence(q), NEW e
  PROVE  /\ IsSequence(Append(q, e)) /\ Len(Append(q, e)) = Len(q) + 1
         /\ \A k \in 1..Len(q) : Append(q, e)[k] = q[k]
         /\ Append(q, e)[Len(q) + 1] = e
<1> DEFINE S == {q[k] : k \in 1..Len(q)} \cup {e}
<1>1. q \in Seq(S)
  BY DEF IsSequence
<1>2. Append(q, e) \in Seq(S) /\ Len(Append(q, e)) = Len(q) + 1
  BY <1>1
<1>3. IsSequence(Append(q, e))
  BY <1>2, SequenceIsFunction
<1> QED
  BY <1>1, <1>2, <1>3 DEF IsSequence

LEMMA SequenceTail ==
  ASSUME NEW q, IsSequence(q), q # <<>>
  PROVE  /\ Len(q) >= 1 /\ Head(q) = q[1]
         /\ IsSequence(Tail(q)) /\ Len(Tail(q)) = Len(q) - 1
         /\ \A k \in 1..(Len(q) - 1) : Tail(q)[k] = q[k + 1]
<1> DEFINE S == {q[k] : k \in 1..Len(q)}
<1>1. q \in Seq(S)
  BY DEF IsSequence
<1>2. Tail(q) \in Seq(S) /\ Len(Tail(q)) = Len(q) - 1 /\ Len(q) >= 1
  BY <1>1
<1>3. IsSequence(Tail(q))
  BY <1>2, SequenceIsFunction
<1> QED
  BY <1>1, <1>2, <1>3 DEF IsSequence

\* An action keeps every field of the settings.
LEMMA ReduceKeepsFields ==
  ASSUME NEW s, Settled(s), NEW action
  PROVE  Settled(ReduceOverlayAction(s, action))
  BY DEF Settled, ReduceOverlayAction, FieldNames, InputModes

\* What the store holds is valid, and a request either leaves it alone or moves
\* it to the next version; a conflict leaves it alone.
StoreOK(st) ==
    st.version \in 1..MaxVersion /\ Settled(st.settings) /\ Valid(st.settings)

\* Every operation of the store keeps it valid and moves the version by one
\* or not at all.
LEMMA NextStoreOK ==
  ASSUME NEW st, StoreOK(st), ~VersionExhausted(st), NEW s, Settled(s), Valid(s)
  PROVE  StoreOK(NextStore(st, s)) /\ NextStore(st, s).version = st.version + 1
  BY MaxVersionAssumption DEF StoreOK, VersionExhausted, NextStore, Bumped

LEMMA ForceLockedOK ==
  ASSUME NEW st, StoreOK(st)
  PROVE  /\ StoreOK(ForceLocked(st))
         /\ ForceLocked(st) = st \/ ForceLocked(st).version = st.version + 1
         /\ VersionExhausted(ForceLocked(st)) \/ ForceLocked(st).settings.input_mode = "Locked"
<1> DEFINE locked == [st.settings EXCEPT !.input_mode = "Locked"]
<1>1. Settled(locked) /\ Valid(locked) /\ locked.input_mode = "Locked"
  BY DEF StoreOK, Settled, Valid, FieldNames, InputModes
<1> HIDE DEF locked
<1>2. CASE st.settings.input_mode = "Locked" \/ VersionExhausted(st)
  BY <1>2 DEF ForceLocked
<1>3. CASE ~(st.settings.input_mode = "Locked" \/ VersionExhausted(st))
  <2>1. ForceLocked(st) = NextStore(st, locked)
    BY <1>3 DEF ForceLocked, locked
  <2>2. NextStore(st, locked).settings = locked
    BY DEF NextStore, Bumped
  <2> QED
    BY <1>1, <1>3, <2>1, <2>2, NextStoreOK
<1> QED
  BY <1>2, <1>3

LEMMA ApplyActionOK ==
  ASSUME NEW st, StoreOK(st), NEW expected, NEW action
  PROVE  LET r == ApplyAction(st, expected, action)
         IN  /\ StoreOK(r[1])
             /\ r[1] = st \/ r[1].version = st.version + 1
             /\ r[2] = "VersionConflict" => r[1] = st
<1> DEFINE e == ReduceOverlayAction(st.settings, action)
<1>1. Settled(e)
  BY ReduceKeepsFields DEF StoreOK
<1> HIDE DEF e
<1>2. ~VersionExhausted(st) /\ Valid(e) =>
         StoreOK(NextStore(st, e)) /\ NextStore(st, e).version = st.version + 1
  BY <1>1, NextStoreOK
<1> QED
  BY <1>2 DEF ApplyAction, e

LEMMA ApplyPatchOK ==
  ASSUME NEW st, StoreOK(st), NEW expected, NEW wire, NEW candidate, Settled(candidate), NEW mask
  PROVE  LET r == ApplyPatch(st, expected, wire, candidate, mask)
         IN  /\ StoreOK(r[1])
             /\ r[1] = st \/ r[1].version = st.version + 1
             /\ r[2] = "VersionConflict" => r[1] = st
<1> DEFINE e == CopyFields(st.settings, candidate, mask)
<1>1. Settled(e)
  BY DEF StoreOK, CopyFields, Settled, FieldNames
<1> HIDE DEF e
<1>2. ~VersionExhausted(st) /\ Valid(e) =>
         StoreOK(NextStore(st, e)) /\ NextStore(st, e).version = st.version + 1
  BY <1>1, NextStoreOK
<1> QED
  BY <1>2 DEF ApplyPatch, e

\* What a handler leaves in the store, and when a reply may be retried.
LEMMA HandleOK ==
  ASSUME StoreOK(store), NEW role, NEW m, Decodes(m)
  PROVE  LET h == Handle(role, m)
         IN  /\ StoreOK(h.store)
             /\ h.store = store \/ h.store.version = store.version + 1
             /\ h.reply.kind \in Answers \cup {"error"}
             /\ h.reply.kind \in Answers => /\ h.reply.version = h.store.version
                                            /\ h.reply.settings = h.store.settings
             /\ h.reply.kind \in {"action", "patch"} /\ h.reply.status = "VersionConflict" =>
                  h.store = store
<1> DEFINE a == ApplyAction(store, m.expected, m.action)
           p == ApplyPatch(store, m.expected, m.wire, m.candidate, m.mask)
           answer(r) == [store |-> r[1],
                         reply |-> [kind |-> m.kind, status |-> r[2], id |-> m.id,
                                    version |-> r[1].version, settings |-> r[1].settings]]
<1>1. /\ StoreOK(a[1]) /\ (a[1] = store \/ a[1].version = store.version + 1)
      /\ a[2] = "VersionConflict" => a[1] = store
  BY ApplyActionOK
<1>2. m.kind = "patch" =>
      /\ StoreOK(p[1]) /\ (p[1] = store \/ p[1].version = store.version + 1)
      /\ p[2] = "VersionConflict" => p[1] = store
  BY ApplyPatchOK DEF Decodes
<1> HIDE DEF a, p
<1>3. CASE m.kind = "hello" \/ ~Permitted(role, m)
  BY <1>3 DEF Handle, Answers
<1>4. CASE m.kind = "query" /\ Permitted(role, m)
  <2>1. Handle(role, m) = answer(<<store, "Snapshot">>)
    BY <1>4 DEF Handle
  <2> QED
    BY <1>4, <2>1 DEF Answers
<1>5. CASE m.kind = "action" /\ Permitted(role, m)
  <2>1. Handle(role, m) = answer(a)
    BY <1>5 DEF Handle, a
  <2> QED
    BY <1>1, <1>5, <2>1 DEF Answers
<1>6. CASE m.kind = "patch" /\ Permitted(role, m)
  <2>1. Handle(role, m) = answer(p)
    BY <1>6 DEF Handle, p
  <2> QED
    BY <1>2, <1>6, <2>1 DEF Answers
<1> QED
  BY <1>3, <1>4, <1>5, <1>6 DEF Decodes

\* Every snapshot is that of the store, of the client thread, of the pending
\* event or of a reply.
Snap(r) == [version |-> r.version, settings |-> r.settings]

\* The snapshots, spelled out, before and after a step.
LEMMA SnapshotIs ==
  \A x : x \in Snapshots <=>
    \/ x = Snap(store)
    \/ ovl.version # 0 /\ x = Snap(ovl)
    \/ evt.kind \in {"connected", "applied"} /\ x = Snap(evt)
    \/ \E s \in Slots : sess[s].outbox.kind \in Answers /\ x = Snap(sess[s].outbox)
  BY DEF Snapshots, Snap, Answers

LEMMA SnapshotWillBe ==
  \A x : x \in Snapshots' <=>
    \/ x = Snap(store')
    \/ ovl'.version # 0 /\ x = Snap(ovl')
    \/ evt'.kind \in {"connected", "applied"} /\ x = Snap(evt')
    \/ \E s \in Slots : sess'[s].outbox.kind \in Answers /\ x = Snap(sess'[s].outbox)
  BY DEF Snapshots, Snap, Answers

\* A step that copies known snapshots and moves the store by at most one version
\* keeps the agreement of the snapshots.
Known(r) == Snap(r) \in Snapshots \/ Snap(r) = Snap(store')

\* Versions keep naming settings when every snapshot after a step is one
\* from before it or of the new store.
LEMMA SnapshotsAgree ==
  ASSUME ControlInv,
         store' = store \/ store'.version = store.version + 1,
         ovl'.version # 0 => Known(ovl'),
         evt'.kind \in {"connected", "applied"} => Known(evt'),
         \A s \in Slots : sess'[s].outbox.kind \in Answers => Known(sess'[s].outbox)
  PROVE  VersionNamesSettings' /\ SnapshotsAreOld'
<1>1. \A x \in Snapshots' : x \in Snapshots \/ x = Snap(store')
  BY SnapshotWillBe DEF Known
<1>2. \A x \in Snapshots : x.version \in 1..store.version
  BY DEF ControlInv, SnapshotsAreOld
<1>3. \A a, b \in Snapshots : a.version = b.version => a.settings = b.settings
  BY DEF ControlInv, ControlSafe, VersionNamesSettings
<1>4. /\ Snap(store').version = store'.version /\ Snap(store').settings = store'.settings
      /\ Snap(store) \in Snapshots
      /\ Snap(store).version = store.version /\ Snap(store).settings = store.settings
  BY SnapshotIs DEF Snap
<1>5. store.version \in Nat
  BY DEF ControlInv, ControlSafe, ControlTypeOK
<1>6. \A a, b \in Snapshots' : a.version = b.version => a.settings = b.settings
  BY <1>1, <1>2, <1>3, <1>4, <1>5
<1>7. \A a \in Snapshots' : a.version \in 1..store'.version
  BY <1>1, <1>2, <1>4, <1>5
<1> QED
  BY <1>6, <1>7 DEF VersionNamesSettings, SnapshotsAreOld

LEMMA StoreIsOK == ASSUME ControlInv PROVE StoreOK(store)
  BY DEF ControlInv, ControlSafe, ControlTypeOK, StoreOK, Settled

LEMMA FreeShape ==
  /\ DOMAIN FreeSession = {"phase", "role", "peer", "inbox", "outbox"}
  /\ FreeSession.phase = "free" /\ FreeSession.role = "none" /\ FreeSession.peer = FALSE
  /\ FreeSession.inbox = <<>> /\ FreeSession.outbox = NoMsg /\ NoMsg.kind = "none"
  BY DEF FreeSession, NoMsg

LEMMA SnapshotVersion ==
  ASSUME ControlInv, NEW r, Snap(r) \in Snapshots
  PROVE  r.version \in 1..store.version /\ r.version \in 1..MaxVersion
<1>1. Snap(r).version \in 1..store.version
  BY DEF ControlInv, SnapshotsAreOld
<1>2. Snap(r).version = r.version
  BY DEF Snap
<1>3. store.version \in 1..MaxVersion
  BY DEF ControlInv, ControlSafe, ControlTypeOK
<1> QED
  BY <1>1, <1>2, <1>3, MaxVersionAssumption

\* Who carries an intent depends on the inboxes alone.
LEMMA SameCarriers ==
  ASSUME \A t \in Slots : sess'[t].inbox = sess[t].inbox
  PROVE  \A t \in Slots : \A i : Carries(t, i)' <=> Carries(t, i)
  BY DEF Carries

\* What the steps do to the sessions and to the client thread.
LEMMA ServingIsFree ==
  ASSUME NEW s \in Serving
  PROVE  s \in Slots /\ sess[s].phase = "free"
  BY DEF Serving, AcceptOutcome

LEMMA OpenedFacts ==
  ASSUME ControlInv, NEW s \in Slots, NEW frames, Opened(s, frames)
  PROVE  /\ DOMAIN sess' = Slots /\ \A t \in Slots : t # s => sess'[t] = sess[t]
         /\ DOMAIN sess'[s] = DOMAIN FreeSession
         /\ sess'[s].phase = "open" /\ sess'[s].role = "none" /\ sess'[s].peer = TRUE
         /\ sess'[s].inbox = frames /\ sess'[s].outbox = NoMsg
<1> DEFINE new == [FreeSession EXCEPT !.phase = "open", !.peer = TRUE, !.inbox = frames]
<1>1. sess' = [sess EXCEPT ![s] = new] /\ DOMAIN sess = Slots
  BY DEF Opened, ControlInv, Shape, SessionsShape
<1>2. /\ DOMAIN new = DOMAIN FreeSession /\ new.phase = "open" /\ new.role = "none"
      /\ new.peer = TRUE /\ new.inbox = frames /\ new.outbox = NoMsg
  BY FreeShape
<1> QED
  BY <1>1, <1>2

LEMMA ClosedFacts ==
  ASSUME ControlInv, NEW x, sess' = ClosedBy(x)
  PROVE  /\ DOMAIN sess' = Slots /\ \A t \in Slots : t # x => sess'[t] = sess[t]
         /\ \A t \in Slots : /\ DOMAIN sess'[t] = DOMAIN FreeSession
                             /\ sess'[t].phase = sess[t].phase /\ sess'[t].role = sess[t].role
                             /\ sess'[t].inbox = sess[t].inbox /\ sess'[t].outbox = sess[t].outbox
                             /\ sess'[t].peer \in BOOLEAN
<1>1. \A t \in Slots : DOMAIN sess[t] = DOMAIN FreeSession /\ sess[t].peer \in BOOLEAN
  BY DEF ControlInv, Shape, SessionsShape, SessionShape
<1>2. sess' = [t \in Slots |-> IF t = x THEN [sess[t] EXCEPT !.peer = FALSE] ELSE sess[t]]
  BY DEF ClosedBy
<1>3. ASSUME NEW t \in Slots
      PROVE  /\ DOMAIN sess'[t] = DOMAIN FreeSession
             /\ sess'[t].phase = sess[t].phase /\ sess'[t].role = sess[t].role
             /\ sess'[t].inbox = sess[t].inbox /\ sess'[t].outbox = sess[t].outbox
             /\ sess'[t].peer \in BOOLEAN
  <2>1. CASE t = x
    BY <1>1, <1>2, <2>1, FreeShape
  <2>2. CASE t # x
    BY <1>1, <1>2, <2>2
  <2> QED
    BY <2>1, <2>2
<1> QED
  BY <1>2, <1>3

\* A client thread that gave up is as new, and its loss is reported.
LEMMA FailedFacts ==
  ASSUME ControlInv, Failed(ovl)
  PROVE  /\ DOMAIN ovl' = DOMAIN Idle /\ ovl'.pc = "connect" /\ ovl'.slot = 0
         /\ ovl'.version = 0 /\ ovl'.intent.id = 0 /\ ovl'.stop = ovl.stop
         /\ ovl'.reported = TRUE /\ ovl'.retried = FALSE
         /\ \/ evt' = evt /\ ovl.pc \in {"connect", "query"} /\ ovl.reported
            \/ evt' = [kind |-> "disconnected"]
<1>1. DOMAIN ovl = {"pc", "slot", "reported", "version", "settings", "intent", "retried", "stop"}
  BY DEF ControlInv, Shape, ClientShape, Idle
<1>2. NoIntent.id = 0
  BY DEF NoIntent
<1> QED
  BY <1>1, <1>2 DEF Failed, Idle

\* The frames in a pipe and what is left after one is handled.
LEMMA GreetingFacts ==
  /\ Greeting # <<>> /\ Head(Greeting) = Hello("Overlay") /\ Tail(Greeting) = <<Query>>
  /\ Len(Greeting) = 2 /\ DOMAIN Greeting = {1, 2}
  /\ \A k \in DOMAIN Greeting : Greeting[k].id = 0
  /\ Decodes(Hello("Overlay")) /\ Decodes(Query) /\ OneFrame(<<Query>>)
  /\ Hello("Overlay").id = 0 /\ Query.id = 0 /\ Hello("Overlay").kind = "hello"
<1>1. /\ Hello("Overlay").id = 0 /\ Query.id = 0 /\ Hello("Overlay").kind = "hello"
      /\ Decodes(Hello("Overlay")) /\ Decodes(Query)
  BY BoundsAssumption DEF Decodes, Hello, Query
<1>2. OneFrame(<<Query>>)
  BY <1>1, OneElement DEF OneFrame
<1>3. /\ Head(Greeting) = Hello("Overlay") /\ Tail(Greeting) = <<Query>> /\ Len(Greeting) = 2
      /\ Greeting # <<>> /\ DOMAIN Greeting = {1, 2}
      /\ Greeting[1] = Hello("Overlay") /\ Greeting[2] = Query
  BY TwoElements DEF Greeting
<1> QED
  BY <1>1, <1>2, <1>3

LEMMA FrameFacts ==
  ASSUME ControlInv, NEW s \in Slots, sess[s].inbox # <<>>
  PROVE  LET m == Head(sess[s].inbox)
             rest == Tail(sess[s].inbox)
         IN  /\ Decodes(m)
             /\ \/ rest = <<>>
                \/ /\ rest = <<Query>> /\ sess[s].role = "none" /\ m.kind = "hello"
                   /\ \A i \in 1..MaxIntents : ~Carries(s, i)
             /\ \A i \in 1..MaxIntents : Carries(s, i) <=> m.id = i
             /\ sess[s].outbox = NoMsg
<1> DEFINE q == sess[s].inbox
<1>0. sess[s].outbox = NoMsg
  BY DEF ControlInv, Shape, SessionsShape, SessionShape
<1>1. (q = Greeting /\ sess[s].role = "none") \/ OneFrame(q)
  BY DEF ControlInv, Shape, SessionsShape, SessionShape
<1>2. CASE q = Greeting /\ sess[s].role = "none"
  BY <1>0, <1>2, GreetingFacts DEF Carries
<1>3. CASE OneFrame(q)
  <2> DEFINE m == q[1]
  <2>1. q = <<m>> /\ Decodes(m)
    BY <1>3 DEF OneFrame
  <2> HIDE DEF m
  <2>2. Head(q) = m /\ Tail(q) = <<>> /\ DOMAIN q = {1} /\ q[1] = m
    BY <2>1, OneElement
  <2> QED
    BY <1>0, <2>1, <2>2 DEF Carries
<1> QED
  BY <1>1, <1>2, <1>3

\* A request of the client thread decodes and carries its intent.
LEMMA RequestDecodes ==
  ASSUME NEW c, Command(c), NEW v, NEW st, Settled(st)
  PROVE  Decodes(RequestFor(c, v, st)) /\ RequestFor(c, v, st).id = c.id
<1>1. Settled([st EXCEPT !.poi = c.value])
  BY DEF Settled, FieldNames
<1> QED
  BY <1>1 DEF RequestFor, Decodes, Command

LEMMA ClientSlot ==
  ASSUME ControlInv, ovl.pc \in {"query", "loop", "wait"}
  PROVE  ovl.slot \in Slots
  BY SessionsAssumption DEF ControlInv, Shape, ClientShape, Slots

LEMMA StoreTyped ==
  ASSUME StoreOK(store')
  PROVE  /\ store'.version \in 1..MaxVersion /\ DOMAIN store'.settings = FieldNames
         /\ store'.settings.input_mode \in InputModes /\ Valid(store'.settings)
  BY DEF StoreOK, Settled

LEMMA ZeroInRange == 0 \in 0..MaxVersion /\ 0 \in 0..MaxSessions
  BY MaxVersionAssumption, SessionsAssumption

\* One lemma per action.  Only the flag of the supervisor moves.
LEMMA ShutdownKeeps ==
  ASSUME ControlInv, Shutdown
  PROVE  ControlInv'
<1> USE DEF ControlInv, ControlSafe
<1>1. supervisor' = "stopping" /\ UNCHANGED <<store, sess, ovl, cmds, evt, ui, uis, asked, caused, effects>>
  BY DEF Shutdown, uiVars
<1>2. \A t \in Slots : \A i : Carries(t, i)' <=> Carries(t, i)
  BY <1>1, SameCarriers
<1>3. ControlTypeOK'
  BY <1>1, <1>2, FreeShape DEF ControlTypeOK
<1>4. SessionsShape'
  BY <1>1 DEF Shape, SessionsShape, SessionShape
<1>5. ClientShape'
  BY <1>1, <1>2 DEF Shape, ClientShape
<1>6. LoopShape'
  BY <1>1, <1>2 DEF Shape, LoopShape
<1>7. SlotsAreOwned'
  BY <1>1, <1>2, FreeShape DEF SlotsAreOwned, ControlTypeOK
<1>8. AtMostOnce'
  BY <1>1, <1>2 DEF AtMostOnce
<1>9. QueuedIsUntouched'
  BY <1>1, <1>2 DEF IntentsAreSingle, QueuedIsUntouched, Untouched
<1>10. CarriedOnce'
  BY <1>1, <1>2 DEF IntentsAreSingle, CarriedOnce
<1>11. ClientWaitsForOne'
  BY <1>1, <1>2, ClientSlot DEF IntentsAreSingle, ClientWaitsForOne
<1>12. VersionNamesSettings' /\ SnapshotsAreOld'
  BY <1>1, <1>2, FreeShape, SnapshotsAgree, SnapshotIs DEF Known, Answers
<1>13. LockedWhenAlone'
  BY <1>1, <1>2, FreeShape DEF LockedWhenAlone, Live
<1>14. LossIsReported' /\ InteractiveOnlyConnected' /\ NewsIsTrue'
  BY <1>1, <1>2 DEF LossIsReported, InteractiveOnlyConnected, NewsIsTrue
<1> QED
  BY <1>3, <1>4, <1>5, <1>6, <1>7, <1>8, <1>9, <1>10, <1>11, <1>12, <1>13, <1>14
     DEF Shape, IntentsAreSingle

LEMMA StopClientKeeps ==
  ASSUME ControlInv, StopClient
  PROVE  ControlInv'
<1> USE DEF ControlInv, ControlSafe
<1>1. ovl' = [ovl EXCEPT !.stop = TRUE] /\ UNCHANGED <<store, supervisor, sess, cmds, evt, ui, uis, asked, caused, effects>>
  BY DEF StopClient, serverVars, uiVars
<1>2. \A t \in Slots : \A i : Carries(t, i)' <=> Carries(t, i)
  BY <1>1, SameCarriers
<1>3. DOMAIN Idle = {"pc", "slot", "reported", "version", "settings", "intent", "retried", "stop"}
  BY DEF Idle
<1>4. /\ DOMAIN ovl' = DOMAIN Idle /\ ovl'.stop = TRUE
      /\ ovl'.pc = ovl.pc /\ ovl'.slot = ovl.slot /\ ovl'.reported = ovl.reported
      /\ ovl'.version = ovl.version /\ ovl'.settings = ovl.settings
      /\ ovl'.intent = ovl.intent /\ ovl'.retried = ovl.retried
  BY <1>1, <1>3 DEF Shape, ClientShape
<1>5. ControlTypeOK'
  BY <1>1, <1>2, <1>3, <1>4, FreeShape DEF ControlTypeOK
<1>6. SessionsShape'
  BY <1>1 DEF Shape, SessionsShape, SessionShape
<1>7. ClientShape'
  BY <1>1, <1>2, <1>3, <1>4 DEF Shape, ClientShape
<1>8. LoopShape'
  BY <1>1, <1>2, <1>3, <1>4 DEF Shape, LoopShape
<1>9. SlotsAreOwned'
  BY <1>1, <1>2, <1>3, <1>4, FreeShape DEF SlotsAreOwned, ControlTypeOK
<1>10. AtMostOnce'
  BY <1>1, <1>2, <1>3, <1>4 DEF AtMostOnce
<1>11. QueuedIsUntouched'
  BY <1>1, <1>2, <1>3, <1>4 DEF IntentsAreSingle, QueuedIsUntouched, Untouched
<1>12. CarriedOnce'
  BY <1>1, <1>2, <1>3, <1>4 DEF IntentsAreSingle, CarriedOnce
<1>13. ClientWaitsForOne'
  BY <1>1, <1>2, <1>3, <1>4, ClientSlot DEF IntentsAreSingle, ClientWaitsForOne
<1>14. VersionNamesSettings' /\ SnapshotsAreOld'
  BY <1>1, <1>4, SnapshotsAgree, SnapshotIs DEF Known, Snap
<1>15. LockedWhenAlone'
  BY <1>1, <1>2, <1>3, <1>4, FreeShape DEF LockedWhenAlone, Live
<1>16. LossIsReported' /\ InteractiveOnlyConnected' /\ NewsIsTrue'
  BY <1>1, <1>2, <1>3, <1>4 DEF LossIsReported, InteractiveOnlyConnected, NewsIsTrue
<1> QED
  BY <1>5, <1>6, <1>7, <1>8, <1>9, <1>10, <1>11, <1>12, <1>13, <1>14, <1>15, <1>16
     DEF Shape, IntentsAreSingle

\* The main loop takes the newest event; with a loss it locks.
LEMMA TakeEventKeeps ==
  ASSUME ControlInv, TakeEvent
  PROVE  ControlInv'
<1> USE DEF ControlInv, ControlSafe
<1>1. evt # NoNews /\ evt'.kind = "none" /\ evt' = NoNews /\ UNCHANGED <<store, supervisor, sess, ovl, cmds, uis, asked, caused, effects>>
  BY DEF TakeEvent, NoNews, serverVars, uiVars
<1>2. \A t \in Slots : \A i : Carries(t, i)' <=> Carries(t, i)
  BY <1>1, SameCarriers
<1>3. \/ /\ evt.kind = "disconnected"
         /\ ui' = [ui EXCEPT !.connected = FALSE, !.mode = "Locked"]
      \/ /\ evt.kind \in {"connected", "applied"} /\ Snap(evt) \in Snapshots
         /\ ui' = [connected |-> TRUE, version |-> evt.version,
                   mode |-> evt.settings.input_mode]
  BY <1>1, SnapshotIs DEF TakeEvent, Shape, LoopShape
<1>4. DOMAIN UiUnknown = {"connected", "version", "mode"}
  BY DEF UiUnknown
<1>5. evt.kind \in {"connected", "applied"} => evt.version \in 0..MaxVersion
  BY <1>3, SnapshotVersion, MaxVersionAssumption
<1>6. /\ DOMAIN ui' = DOMAIN UiUnknown /\ ui'.connected \in BOOLEAN
      /\ ui'.version \in 0..MaxVersion
      /\ evt.kind = "disconnected" => ui'.connected = FALSE /\ ui'.mode = "Locked"
      /\ evt.kind # "disconnected" => ui'.connected = TRUE
  <2>1. CASE evt.kind = "disconnected"
    BY <1>3, <1>4, <2>1 DEF Shape, LoopShape
  <2>2. CASE evt.kind # "disconnected"
    <3>1. /\ ui' = [connected |-> TRUE, version |-> evt.version,
                    mode |-> evt.settings.input_mode]
          /\ evt.version \in 0..MaxVersion
      BY <1>3, <1>5, <2>2
    <3>2. ui'.connected = TRUE /\ ui'.version = evt.version
      BY <3>1
    <3>3. DOMAIN ui' = DOMAIN UiUnknown
      BY <1>4, <3>1
    <3> QED
      BY <2>2, <3>1, <3>2, <3>3
  <2> QED
    BY <2>1, <2>2
<1>7. ControlTypeOK'
  BY <1>1, <1>2, <1>3, <1>4, <1>5, <1>6, FreeShape DEF ControlTypeOK
<1>8. SessionsShape'
  BY <1>1 DEF Shape, SessionsShape, SessionShape
<1>9. ClientShape'
  BY <1>1, <1>2, <1>3, <1>4, <1>5, <1>6 DEF Shape, ClientShape
<1>10. LoopShape'
  BY <1>1, <1>6 DEF Shape, LoopShape
<1>11. SlotsAreOwned'
  BY <1>1 DEF SlotsAreOwned
<1>12. AtMostOnce'
  BY <1>1, <1>2, <1>3, <1>4, <1>5, <1>6 DEF AtMostOnce
<1>13. QueuedIsUntouched'
  BY <1>1, <1>2, <1>3, <1>4, <1>5, <1>6 DEF IntentsAreSingle, QueuedIsUntouched, Untouched
<1>14. CarriedOnce'
  BY <1>1, <1>2, <1>3, <1>4, <1>5, <1>6 DEF IntentsAreSingle, CarriedOnce
<1>15. ClientWaitsForOne'
  BY <1>1, <1>2, <1>3, <1>4, <1>5, <1>6, ClientSlot DEF IntentsAreSingle, ClientWaitsForOne
<1>16. VersionNamesSettings' /\ SnapshotsAreOld'
  BY <1>1, <1>2, <1>3, <1>4, <1>5, <1>6, FreeShape, SnapshotsAgree, SnapshotIs DEF Known, Answers
<1>17. LockedWhenAlone'
  BY <1>1, <1>2, <1>3, <1>4, <1>5, <1>6, FreeShape DEF LockedWhenAlone, Live
<1>18. LossIsReported' /\ InteractiveOnlyConnected' /\ NewsIsTrue'
  BY <1>1, <1>3, <1>6 DEF LossIsReported, InteractiveOnlyConnected, NewsIsTrue, ControlTypeOK
<1> QED
  BY <1>7, <1>8, <1>9, <1>10, <1>11, <1>12, <1>13, <1>14, <1>15, <1>16, <1>17, <1>18
     DEF Shape, IntentsAreSingle

\* A new intent has a number nobody has used.
LEMMA SubmitKeeps ==
  ASSUME ControlInv, NEW i \in Intents, Submit(i)
  PROVE  ControlInv'
<1> USE DEF ControlInv, ControlSafe
<1>1. ~ovl.stop /\ caused < MaxIntents /\ caused' = caused + 1 /\ UNCHANGED <<store, supervisor, sess, ovl, evt, uis, asked, effects>>
  BY DEF Submit, serverVars, uiVars
<1>2. \A t \in Slots : \A j : Carries(t, j)' <=> Carries(t, j)
  BY <1>1, SameCarriers
<1>3. \/ /\ Len(cmds) < CommandCapacity /\ ui' = ui
         /\ cmds' = Append(cmds, [id |-> caused + 1, expected |-> ui.version,
                                  kind |-> i.kind, value |-> i.value])
      \/ cmds' = cmds /\ ui' = [ui EXCEPT !.connected = FALSE, !.mode = "Locked"]
  BY DEF Submit
<1>4. /\ DOMAIN ui' = DOMAIN UiUnknown /\ ui'.connected \in BOOLEAN /\ ui'.version \in 0..MaxVersion
      /\ ui'.connected => ui.connected
      /\ ui' = ui \/ (ui'.connected = FALSE /\ ui'.mode = "Locked")
  BY <1>3 DEF Shape, LoopShape, UiUnknown
<1>5. /\ IsSequence(cmds') /\ Len(cmds') \in Nat /\ Len(cmds') <= CommandCapacity
      /\ \A k \in 1..Len(cmds') : \/ k <= Len(cmds) /\ cmds'[k] = cmds[k]
                                  \/ k = Len(cmds) + 1 /\ Command(cmds'[k]) /\ cmds'[k].id = caused + 1
  <2>1. CASE cmds' = cmds
    BY <2>1 DEF Shape, LoopShape, IsSequence, ControlTypeOK
  <2>2. CASE cmds' # cmds
    <3> DEFINE c == [id |-> caused + 1, expected |-> ui.version, kind |-> i.kind, value |-> i.value]
    <3>1. Command(c) /\ c.id = caused + 1
      BY <1>1, IntentsAssumption, BoundsAssumption DEF Command, Shape, LoopShape
    <3>2. Len(cmds) < CommandCapacity /\ cmds' = Append(cmds, c)
      BY <1>3, <2>2
    <3> HIDE DEF c
    <3>3. IsSequence(cmds) /\ Len(cmds) \in Nat
      BY DEF Shape, LoopShape, IsSequence
    <3>4. /\ IsSequence(cmds') /\ Len(cmds') = Len(cmds) + 1
          /\ \A k \in 1..Len(cmds) : cmds'[k] = cmds[k]
          /\ cmds'[Len(cmds) + 1] = c
      BY <3>2, <3>3, SequenceAppend
    <3> QED
      BY <3>1, <3>2, <3>3, <3>4, CapacityAssumption
  <2> QED
    BY <2>1, <2>2
<1>6. Len(cmds) \in Nat /\ caused \in 0..MaxIntents
  BY DEF Shape, LoopShape, IsSequence
<1>7. ControlTypeOK'
  BY <1>1, <1>5 DEF ControlTypeOK
<1>8. SessionsShape'
  BY <1>1 DEF Shape, SessionsShape, SessionShape
<1>9. ClientShape'
  BY <1>1 DEF Shape, ClientShape
<1>10. LoopShape'
  <2>1. caused' \in 0..MaxIntents
    BY <1>1, <1>6, BoundsAssumption
  <2>2. \A k \in 1..Len(cmds') : Command(cmds'[k])
    <3>1. \A k \in 1..Len(cmds) : Command(cmds[k])
      BY DEF Shape, LoopShape
    <3>2. SUFFICES ASSUME NEW k \in 1..Len(cmds') PROVE Command(cmds'[k])
      OBVIOUS
    <3>3. CASE k <= Len(cmds) /\ cmds'[k] = cmds[k]
      <4>1. k \in 1..Len(cmds)
        BY <1>5, <1>6, <3>3
      <4> QED
        BY <3>1, <3>3, <4>1
    <3> QED
      BY <1>5, <3>3
  <2>3. /\ evt'.kind \in {"none", "disconnected", "connected", "applied"}
        /\ evt'.kind = "none" => evt' = NoNews
        /\ effects' \in [1..MaxIntents -> Nat]
    BY <1>1 DEF Shape, LoopShape
  <2>4. IsSequence(cmds')
    BY <1>5
  <2> QED
    BY <1>4, <2>1, <2>2, <2>3, <2>4 DEF LoopShape
<1>11. SlotsAreOwned'
  BY <1>1 DEF SlotsAreOwned
<1>12. AtMostOnce'
  BY <1>1 DEF AtMostOnce
<1>13. QueuedIsUntouched'
  <2>1. \A j \in 1..MaxIntents : Untouched(j)' <=> Untouched(j)
    BY <1>1, <1>2 DEF Untouched
  <2>2. caused + 1 \in 1..MaxIntents
    BY <1>1, <1>6, BoundsAssumption
  <2>3. \A k \in 1..Len(cmds) : cmds[k].id <= caused /\ cmds[k].id \in 1..MaxIntents
    BY DEF IntentsAreSingle, QueuedIsUntouched, Shape, LoopShape, Command
  <2>4. \A j \in 1..MaxIntents : j > caused' => Untouched(j)'
    BY <1>1, <1>6, <2>1 DEF IntentsAreSingle, QueuedIsUntouched
  <2>5. \A k \in 1..Len(cmds') : cmds'[k].id <= caused' /\ Untouched(cmds[k].id)'
    <3> SUFFICES ASSUME NEW k \in 1..Len(cmds')
                 PROVE  cmds'[k].id <= caused' /\ Untouched(cmds[k].id)'
      OBVIOUS
    <3>1. CASE k <= Len(cmds) /\ cmds'[k] = cmds[k]
      <4> DEFINE j == cmds[k].id
      <4>1. j <= caused /\ j \in 1..MaxIntents /\ Untouched(j)
        BY <1>6, <2>3, <3>1 DEF IntentsAreSingle, QueuedIsUntouched
      <4>2. cmds'[k].id <= caused'
        BY <1>1, <1>6, <3>1, <4>1, BoundsAssumption
      <4> HIDE DEF j
      <4>3. \A n \in 1..MaxIntents : Untouched(n) => Untouched(n)'
        BY <2>1
      <4>4. cmds'[k].id \in 1..MaxIntents /\ Untouched(cmds'[k].id)
        BY <3>1, <4>1 DEF j
      <4> QED
        BY <4>2, <4>3, <4>4
    <3>2. CASE cmds'[k].id = caused + 1
      BY <1>1, <1>2, <1>6, <2>2, <3>2 DEF IntentsAreSingle, QueuedIsUntouched, Untouched
    <3> QED
      BY <1>5, <3>1, <3>2
  <2>6. \A k, l \in 1..Len(cmds') : cmds'[k].id = cmds'[l].id => k = l
    <3>1. \A k, l \in 1..Len(cmds) : cmds[k].id = cmds[l].id => k = l
      BY DEF IntentsAreSingle, QueuedIsUntouched
    <3>2. \A k \in 1..Len(cmds) : cmds[k].id # caused + 1
      BY <1>6, <2>3
    <3>3. SUFFICES ASSUME NEW k \in 1..Len(cmds'), NEW l \in 1..Len(cmds'),
                          cmds'[k].id = cmds'[l].id
                   PROVE  k = l
      OBVIOUS
    <3>4. /\ \/ k \in 1..Len(cmds) /\ cmds'[k] = cmds[k]
             \/ k = Len(cmds) + 1 /\ cmds'[k].id = caused + 1
          /\ \/ l \in 1..Len(cmds) /\ cmds'[l] = cmds[l]
             \/ l = Len(cmds) + 1 /\ cmds'[l].id = caused + 1
      BY <1>5, <1>6
    <3> QED
      BY <3>1, <3>2, <3>3, <3>4
  <2> QED
    BY <2>4, <2>5, <2>6 DEF QueuedIsUntouched
<1>14. CarriedOnce'
  BY <1>1, <1>2 DEF IntentsAreSingle, CarriedOnce
<1>15. ClientWaitsForOne'
  BY <1>1, <1>2, ClientSlot DEF IntentsAreSingle, ClientWaitsForOne
<1>16. VersionNamesSettings' /\ SnapshotsAreOld'
  BY <1>1, SnapshotsAgree, SnapshotIs DEF Known
<1>17. LockedWhenAlone'
  BY <1>1 DEF LockedWhenAlone, Live
<1>18. LossIsReported' /\ InteractiveOnlyConnected' /\ NewsIsTrue'
  BY <1>1, <1>4 DEF LossIsReported, InteractiveOnlyConnected, NewsIsTrue
<1> QED
  BY <1>7, <1>8, <1>9, <1>10, <1>11, <1>12, <1>13, <1>14, <1>15, <1>16, <1>17, <1>18
     DEF Shape, IntentsAreSingle

\* A client that could not connect has no slot and no snapshot.
LEMMA ConnectFailsKeeps ==
  ASSUME ControlInv, ConnectFails
  PROVE  ControlInv'
<1> USE DEF ControlInv, ControlSafe
<1>1. /\ ovl.pc = "connect" /\ Failed(ovl) /\ supervisor' \in {supervisor, "failed"}
      /\ UNCHANGED <<store, sess, cmds, ui, uis, asked, caused, effects>>
  BY DEF ConnectFails, uiVars
<1>2. /\ DOMAIN ovl' = DOMAIN Idle /\ ovl'.pc = "connect" /\ ovl'.slot = 0
      /\ ovl'.version = 0 /\ ovl'.intent.id = 0 /\ ovl'.stop = ovl.stop
      /\ ovl'.reported = TRUE /\ ovl'.retried = FALSE
      /\ \/ evt' = evt /\ ovl.pc \in {"connect", "query"} /\ ovl.reported
         \/ evt' = [kind |-> "disconnected"]
  BY <1>1, FailedFacts
<1>3. \A t \in Slots : \A i : Carries(t, i)' <=> Carries(t, i)
  BY <1>1, SameCarriers
<1>4. ControlTypeOK'
  BY <1>1, <1>2, <1>3 DEF ControlTypeOK
<1>5. SessionsShape'
  BY <1>1 DEF Shape, SessionsShape, SessionShape
<1>6. ClientShape'
  BY <1>2, ZeroInRange DEF Shape, ClientShape
<1>7. LoopShape'
  BY <1>1, <1>2 DEF Shape, LoopShape
<1>8. SlotsAreOwned'
  BY <1>1, <1>2, <1>3 DEF SlotsAreOwned, ControlTypeOK, Slots
<1>9. AtMostOnce'
  BY <1>1, <1>2, <1>3 DEF AtMostOnce
<1>10. QueuedIsUntouched'
  BY <1>1, <1>2, <1>3 DEF IntentsAreSingle, QueuedIsUntouched, Untouched, Shape, LoopShape, Command
<1>11. CarriedOnce'
  BY <1>1, <1>2, <1>3 DEF IntentsAreSingle, CarriedOnce
<1>12. ClientWaitsForOne'
  BY <1>1, <1>2, <1>3, ClientSlot DEF IntentsAreSingle, ClientWaitsForOne
<1>13. VersionNamesSettings' /\ SnapshotsAreOld'
  BY <1>1, <1>2, <1>3, SnapshotsAgree, SnapshotIs DEF Known
<1>14. LockedWhenAlone'
  BY <1>1, <1>2, <1>3 DEF LockedWhenAlone, Live
<1>15. LossIsReported' /\ InteractiveOnlyConnected' /\ NewsIsTrue'
  BY <1>1, <1>2, <1>3 DEF LossIsReported, InteractiveOnlyConnected, NewsIsTrue
<1> QED
  BY <1>4, <1>5, <1>6, <1>7, <1>8, <1>9, <1>10, <1>11, <1>12, <1>13, <1>14, <1>15
     DEF Shape, IntentsAreSingle

LEMMA ClientStopsKeeps ==
  ASSUME ControlInv, ClientStops
  PROVE  ControlInv'
<1> USE DEF ControlInv, ControlSafe
<1>1. /\ ovl.pc \in {"connect", "loop"} /\ sess' = ClosedBy(ovl.slot)
      /\ ovl' = [ovl EXCEPT !.pc = "done", !.slot = 0]
      /\ UNCHANGED <<store, supervisor, cmds, evt, ui, uis, asked, caused, effects>>
  BY DEF ClientStops, serverVars, uiVars
<1>2. /\ DOMAIN sess' = Slots /\ \A t \in Slots : t # ovl.slot => sess'[t] = sess[t]
      /\ \A t \in Slots : /\ DOMAIN sess'[t] = DOMAIN FreeSession
                          /\ sess'[t].phase = sess[t].phase /\ sess'[t].role = sess[t].role
                          /\ sess'[t].inbox = sess[t].inbox /\ sess'[t].outbox = sess[t].outbox
                          /\ sess'[t].peer \in BOOLEAN
  BY <1>1, ClosedFacts
<1>3. DOMAIN Idle = {"pc", "slot", "reported", "version", "settings", "intent", "retried", "stop"}
  BY DEF Idle
<1>4. /\ DOMAIN ovl' = DOMAIN Idle /\ ovl'.pc = "done" /\ ovl'.slot = 0
      /\ ovl'.reported = ovl.reported /\ ovl'.version = ovl.version
      /\ ovl'.settings = ovl.settings /\ ovl'.stop = ovl.stop
      /\ ovl'.intent = ovl.intent /\ ovl'.retried = ovl.retried
  BY <1>1, <1>3 DEF Shape, ClientShape
<1>5. \A t \in Slots : \A i : Carries(t, i)' <=> Carries(t, i)
  BY <1>2, SameCarriers
<1>6. ControlTypeOK'
  BY <1>1, <1>2, <1>3, <1>4, <1>5 DEF ControlTypeOK
<1>7. SessionsShape'
  BY <1>1, <1>2, <1>3, <1>4, <1>5 DEF Shape, SessionsShape, SessionShape
<1>8. ClientShape'
  BY <1>1, <1>2, <1>3, <1>4, <1>5, ZeroInRange DEF Shape, ClientShape
<1>9. LoopShape'
  BY <1>1, <1>2, <1>3, <1>4, <1>5 DEF Shape, LoopShape
<1>10. SlotsAreOwned'
  BY <1>1, <1>2, <1>3, <1>4, <1>5 DEF SlotsAreOwned, ControlTypeOK, Slots
<1>11. AtMostOnce'
  BY <1>1, <1>2, <1>3, <1>4, <1>5 DEF AtMostOnce
<1>12. QueuedIsUntouched'
  BY <1>1, <1>2, <1>3, <1>4, <1>5 DEF IntentsAreSingle, QueuedIsUntouched, Untouched, Shape, LoopShape, Command
<1>13. CarriedOnce'
  BY <1>1, <1>2, <1>3, <1>4, <1>5 DEF IntentsAreSingle, CarriedOnce
<1>14. ClientWaitsForOne'
  BY <1>1, <1>2, <1>3, <1>4, <1>5, ClientSlot DEF IntentsAreSingle, ClientWaitsForOne
<1>15. VersionNamesSettings' /\ SnapshotsAreOld'
  BY <1>1, <1>2, <1>3, <1>4, <1>5, SnapshotsAgree, SnapshotIs DEF Known, Snap
<1>16. LockedWhenAlone'
  BY <1>1, <1>2, <1>3, <1>4, <1>5 DEF LockedWhenAlone, Live
<1>17. LossIsReported' /\ InteractiveOnlyConnected' /\ NewsIsTrue'
  BY <1>1, <1>2, <1>3, <1>4, <1>5 DEF LossIsReported, InteractiveOnlyConnected, NewsIsTrue
<1> QED
  BY <1>6, <1>7, <1>8, <1>9, <1>10, <1>11, <1>12, <1>13, <1>14, <1>15, <1>16, <1>17
     DEF Shape, IntentsAreSingle

\* A restarted overlay forgets its queue; what it had sent is still handled
\* at most once.
LEMMA OverlayRestartsKeeps ==
  ASSUME ControlInv, OverlayRestarts
  PROVE  ControlInv'
<1> USE DEF ControlInv, ControlSafe
<1>1. /\ sess' = ClosedBy(ovl.slot) /\ ovl' = Idle /\ cmds' = <<>> /\ evt' = NoNews
      /\ ui' = UiUnknown
      /\ UNCHANGED <<store, supervisor, uis, asked, caused, effects>>
  BY DEF OverlayRestarts, serverVars, uiVars
<1>2. /\ DOMAIN sess' = Slots /\ \A t \in Slots : t # ovl.slot => sess'[t] = sess[t]
      /\ \A t \in Slots : /\ DOMAIN sess'[t] = DOMAIN FreeSession
                          /\ sess'[t].phase = sess[t].phase /\ sess'[t].role = sess[t].role
                          /\ sess'[t].inbox = sess[t].inbox /\ sess'[t].outbox = sess[t].outbox
                          /\ sess'[t].peer \in BOOLEAN
  BY <1>1, ClosedFacts
<1>3. /\ DOMAIN ovl' = DOMAIN Idle /\ ovl'.pc = "connect" /\ ovl'.slot = 0
      /\ ovl'.version = 0 /\ ovl'.intent.id = 0 /\ ovl'.stop = FALSE
      /\ ovl'.reported = FALSE /\ ovl'.retried = FALSE
  BY <1>1 DEF Idle, NoIntent
<1>4. /\ evt'.kind = "none" /\ ui'.connected = FALSE /\ ui'.version = 0 /\ ui'.mode = "Locked"
      /\ DOMAIN ui' = DOMAIN UiUnknown
  BY <1>1 DEF NoNews, UiUnknown
<1>5. Len(cmds') = 0 /\ IsSequence(cmds')
  BY <1>1, Len(<<>>) = 0, <<>> \in Seq({}), SequenceIsFunction
<1>6. \A t \in Slots : \A i : Carries(t, i)' <=> Carries(t, i)
  BY <1>2, SameCarriers
<1>7. ControlTypeOK'
  BY <1>1, <1>2, <1>3, <1>4, <1>5, <1>6, CapacityAssumption DEF ControlTypeOK
<1>8. SessionsShape'
  BY <1>1, <1>2, <1>3, <1>4, <1>5, <1>6 DEF Shape, SessionsShape, SessionShape
<1>9. ClientShape'
  BY <1>3, ZeroInRange DEF ClientShape
<1>10. LoopShape'
  <2>1. evt' = NoNews /\ UNCHANGED <<caused, effects>>
    BY <1>1
  <2>2. \A k \in 1..Len(cmds') : Command(cmds[k])'
    BY <1>5
  <2>3. ui'.connected \in BOOLEAN /\ ui'.version \in 0..MaxVersion
    BY <1>4, ZeroInRange
  <2> QED
    BY <1>4, <1>5, <2>1, <2>2, <2>3 DEF Shape, LoopShape
<1>11. SlotsAreOwned'
  BY <1>1, <1>2, <1>3 DEF SlotsAreOwned, ControlTypeOK, Slots
<1>12. AtMostOnce'
  BY <1>1, <1>2, <1>3, <1>4, <1>5, <1>6 DEF AtMostOnce
<1>13. QueuedIsUntouched'
  BY <1>1, <1>3, <1>5, <1>6 DEF IntentsAreSingle, QueuedIsUntouched, Untouched
<1>14. CarriedOnce'
  BY <1>1, <1>2, <1>3, <1>4, <1>5, <1>6 DEF IntentsAreSingle, CarriedOnce
<1>15. ClientWaitsForOne'
  BY <1>1, <1>2, <1>3, <1>4, <1>5, <1>6, ClientSlot DEF IntentsAreSingle, ClientWaitsForOne
<1>16. VersionNamesSettings' /\ SnapshotsAreOld'
  BY <1>1, <1>2, <1>3, <1>4, <1>5, <1>6, SnapshotsAgree, SnapshotIs DEF Known
<1>17. LockedWhenAlone'
  BY <1>1, <1>2, <1>3, <1>4, <1>5, <1>6 DEF LockedWhenAlone, Live
<1>18. LossIsReported' /\ InteractiveOnlyConnected' /\ NewsIsTrue'
  BY <1>1, <1>2, <1>3, <1>4, <1>5, <1>6 DEF LossIsReported, InteractiveOnlyConnected, NewsIsTrue
<1> QED
  BY <1>7, <1>8, <1>9, <1>10, <1>11, <1>12, <1>13, <1>14, <1>15, <1>16, <1>17, <1>18
     DEF Shape, IntentsAreSingle

\* The slot of a closed management client has no owner.
LEMMA UiCloseKeeps ==
  ASSUME ControlInv, NEW u \in Uis, UiClose(u)
  PROVE  ControlInv'
<1> USE DEF ControlInv, ControlSafe
<1>1. /\ uis[u] # 0 /\ sess' = ClosedBy(uis[u]) /\ uis' = [uis EXCEPT ![u] = 0]
      /\ UNCHANGED <<store, supervisor, ovl, cmds, evt, ui, asked, caused, effects>>
  BY DEF UiClose, serverVars
<1>2. /\ DOMAIN sess' = Slots /\ \A t \in Slots : t # uis[u] => sess'[t] = sess[t]
      /\ \A t \in Slots : /\ DOMAIN sess'[t] = DOMAIN FreeSession
                          /\ sess'[t].phase = sess[t].phase /\ sess'[t].role = sess[t].role
                          /\ sess'[t].inbox = sess[t].inbox /\ sess'[t].outbox = sess[t].outbox
                          /\ sess'[t].peer \in BOOLEAN
  BY <1>1, ClosedFacts
<1>3. /\ uis' \in [Uis -> 0..MaxSessions] /\ uis'[u] = 0
      /\ \A v \in Uis : v # u => uis'[v] = uis[v]
  BY <1>1, SessionsAssumption DEF ControlTypeOK
<1>4. \A t \in Slots : \A i : Carries(t, i)' <=> Carries(t, i)
  BY <1>2, SameCarriers
<1>5. ControlTypeOK'
  BY <1>1, <1>2, <1>3, <1>4 DEF ControlTypeOK
<1>6. SessionsShape'
  BY <1>1, <1>2, <1>3, <1>4 DEF Shape, SessionsShape, SessionShape
<1>7. ClientShape'
  BY <1>1, <1>2, <1>3, <1>4, ZeroInRange DEF Shape, ClientShape
<1>8. LoopShape'
  BY <1>1, <1>2, <1>3, <1>4 DEF Shape, LoopShape
<1>9. SlotsAreOwned'
  BY <1>1, <1>2, <1>3 DEF SlotsAreOwned, ControlTypeOK, Slots
<1>10. AtMostOnce'
  BY <1>1, <1>2, <1>3, <1>4 DEF AtMostOnce
<1>11. QueuedIsUntouched'
  BY <1>1, <1>2, <1>3, <1>4 DEF IntentsAreSingle, QueuedIsUntouched, Untouched, Shape, LoopShape, Command
<1>12. CarriedOnce'
  BY <1>1, <1>2, <1>3, <1>4 DEF IntentsAreSingle, CarriedOnce
<1>13. ClientWaitsForOne'
  BY <1>1, <1>2, <1>3, <1>4, ClientSlot DEF IntentsAreSingle, ClientWaitsForOne
<1>14. VersionNamesSettings' /\ SnapshotsAreOld'
  BY <1>1, <1>2, <1>3, <1>4, SnapshotsAgree, SnapshotIs DEF Known
<1>15. LockedWhenAlone'
  BY <1>1, <1>2, <1>3, <1>4 DEF LockedWhenAlone, Live
<1>16. LossIsReported' /\ InteractiveOnlyConnected' /\ NewsIsTrue'
  BY <1>1, <1>2, <1>3, <1>4 DEF LossIsReported, InteractiveOnlyConnected, NewsIsTrue
<1> QED
  BY <1>5, <1>6, <1>7, <1>8, <1>9, <1>10, <1>11, <1>12, <1>13, <1>14, <1>15, <1>16
     DEF Shape, IntentsAreSingle

\* A reaped slot was not owned while the core accepted connections.
LEMMA ReapKeeps ==
  ASSUME ControlInv, NEW s \in Slots, Reap(s)
  PROVE  ControlInv'
<1> USE DEF ControlInv, ControlSafe
<1>1. /\ sess[s].phase = "gone" /\ sess' = [sess EXCEPT ![s] = FreeSession]
      /\ UNCHANGED <<store, supervisor, ovl, cmds, evt, ui, uis, asked, caused, effects>>
  BY DEF Reap, serverVars, uiVars
<1>2. /\ DOMAIN sess' = Slots /\ \A t \in Slots : t # s => sess'[t] = sess[t]
      /\ sess'[s] = FreeSession
  BY <1>1 DEF Shape, SessionsShape
<1>3. \A t \in Slots : \A i : Carries(t, i)' => Carries(t, i)
  BY <1>2, FreeShape DEF Carries
<1>4. \A t \in Slots : t # s => \A i : Carries(t, i) => Carries(t, i)'
  BY <1>2 DEF Carries
<1>5. ControlTypeOK'
  BY <1>1, <1>2, <1>3, <1>4, FreeShape DEF ControlTypeOK
<1>6. SessionsShape'
  BY <1>1, <1>2, <1>3, <1>4, FreeShape DEF Shape, SessionsShape, SessionShape
<1>7. ClientShape'
  BY <1>1, <1>2, <1>3, <1>4 DEF Shape, ClientShape
<1>8. LoopShape'
  BY <1>1, <1>2, <1>3, <1>4 DEF Shape, LoopShape
<1>9. SlotsAreOwned'
  BY <1>1, <1>2, <1>3, <1>4, FreeShape DEF SlotsAreOwned, ControlTypeOK
<1>10. AtMostOnce'
  BY <1>1, <1>2, <1>3, <1>4 DEF AtMostOnce
<1>11. QueuedIsUntouched'
  BY <1>1, <1>2, <1>3, <1>4 DEF IntentsAreSingle, QueuedIsUntouched, Untouched
<1>12. CarriedOnce'
  BY <1>1, <1>2, <1>3, <1>4 DEF IntentsAreSingle, CarriedOnce
<1>13. ClientWaitsForOne'
  BY <1>1, <1>2, <1>3, <1>4, FreeShape, ClientSlot DEF IntentsAreSingle, ClientWaitsForOne
<1>14. VersionNamesSettings' /\ SnapshotsAreOld'
  BY <1>1, <1>2, FreeShape, SnapshotsAgree, SnapshotIs DEF Known, Answers
<1>15. LockedWhenAlone'
  BY <1>1, <1>2, <1>3, <1>4, FreeShape DEF LockedWhenAlone, Live
<1>16. LossIsReported' /\ InteractiveOnlyConnected' /\ NewsIsTrue'
  BY <1>1, <1>2, <1>3, <1>4 DEF LossIsReported, InteractiveOnlyConnected, NewsIsTrue
<1> QED
  BY <1>5, <1>6, <1>7, <1>8, <1>9, <1>10, <1>11, <1>12, <1>13, <1>14, <1>15, <1>16
     DEF Shape, IntentsAreSingle

\* The end of a session locks the store, and nothing it carried takes effect
\* any more.
LEMMA EndSessionKeeps ==
  ASSUME ControlInv, NEW s \in Slots, EndSession(s)
  PROVE  ControlInv'
<1> USE DEF ControlInv, ControlSafe
<1>1. /\ sess[s].phase = "open"
      /\ supervisor # "accepting" \/ ~sess[s].peer
      /\ store' = Disconnected(s)
      /\ sess' = [sess EXCEPT ![s] = [FreeSession EXCEPT !.phase = "gone"]]
      /\ UNCHANGED <<supervisor, ovl, cmds, evt, ui, uis, asked, caused, effects>>
  BY DEF EndSession, uiVars
<1>2. /\ DOMAIN sess' = Slots /\ \A t \in Slots : t # s => sess'[t] = sess[t]
      /\ DOMAIN sess'[s] = DOMAIN FreeSession /\ sess'[s].phase = "gone"
      /\ sess'[s].role = "none" /\ sess'[s].peer = FALSE
      /\ sess'[s].inbox = <<>> /\ sess'[s].outbox = NoMsg
  <2> DEFINE new == [FreeSession EXCEPT !.phase = "gone"]
  <2>1. /\ DOMAIN new = DOMAIN FreeSession /\ new.phase = "gone" /\ new.role = "none"
        /\ new.peer = FALSE /\ new.inbox = <<>> /\ new.outbox = NoMsg
    BY FreeShape
  <2> QED
    BY <1>1, <2>1 DEF Shape, SessionsShape
<1>3. \A t \in Slots : \A i : Carries(t, i)' => Carries(t, i)
  BY <1>2 DEF Carries
<1>4. \A t \in Slots : t # s => \A i : Carries(t, i) => Carries(t, i)'
  BY <1>2 DEF Carries
<1>5. /\ StoreOK(store') /\ (store' = store \/ store'.version = store.version + 1)
      /\ sess[s].role = "none" => store' = store
      /\ sess[s].role # "none" => VersionExhausted(store') \/ store'.settings.input_mode = "Locked" 
  BY <1>1, StoreIsOK, ForceLockedOK DEF Disconnected
<1>6. ControlTypeOK'
  BY <1>1, <1>2, <1>3, <1>4, <1>5, StoreTyped, Len(<<>>) = 0 DEF ControlTypeOK
<1>7. SessionsShape'
  BY ZenonT(60), <1>2, FreeShape DEF Shape, SessionsShape, SessionShape, Answers
<1>8. ClientShape'
  BY <1>1 DEF Shape, ClientShape
<1>9. LoopShape'
  BY <1>1 DEF Shape, LoopShape
<1>10. SlotsAreOwned'
  BY <1>1, <1>2 DEF SlotsAreOwned
<1>11. AtMostOnce'
  BY <1>1, <1>2, <1>3, <1>4, <1>5 DEF AtMostOnce
<1>12. QueuedIsUntouched'
  BY <1>1, <1>3 DEF IntentsAreSingle, QueuedIsUntouched, Untouched
<1>13. CarriedOnce'
  BY <1>1, <1>3 DEF IntentsAreSingle, CarriedOnce
<1>14. ClientWaitsForOne'
  BY <1>1, <1>2, <1>3, <1>4, FreeShape, ClientSlot DEF IntentsAreSingle, ClientWaitsForOne
<1>15. VersionNamesSettings' /\ SnapshotsAreOld'
  BY <1>1, <1>2, <1>5, FreeShape, SnapshotsAgree, SnapshotIs DEF Known, Answers
<1>16. LockedWhenAlone'
  <2>1. CASE sess[s].role = "none"
    BY <1>1, <1>2, <1>5, <2>1 DEF LockedWhenAlone, Live
  <2>2. CASE sess[s].role # "none"
    BY <1>5, <2>2 DEF LockedWhenAlone
  <2> QED
    BY <2>1, <2>2
<1>17. LossIsReported' /\ InteractiveOnlyConnected' /\ NewsIsTrue'
  BY <1>1, <1>2, <1>3, <1>4, <1>5 DEF LossIsReported, InteractiveOnlyConnected, NewsIsTrue
<1> QED
  BY <1>6, <1>7, <1>8, <1>9, <1>10, <1>11, <1>12, <1>13, <1>14, <1>15, <1>16, <1>17
     DEF Shape, IntentsAreSingle

LEMMA SupervisorDoneKeeps ==
  ASSUME ControlInv, SupervisorDone
  PROVE  ControlInv'
<1> USE DEF ControlInv, ControlSafe
<1>1. /\ supervisor # "accepting" /\ supervisor' = "stopped"
      /\ \A s \in Slots : sess[s].phase # "open"
      /\ sess' = [s \in Slots |-> FreeSession]
      /\ UNCHANGED <<store, ovl, cmds, evt, ui, uis, asked, caused, effects>>
  BY DEF SupervisorDone, uiVars
<1>2. DOMAIN sess' = Slots /\ \A t \in Slots : sess'[t] = FreeSession
  BY <1>1
<1>3. \A t \in Slots : \A i : ~Carries(t, i)'
  BY <1>2, FreeShape DEF Carries
<1>4. ControlTypeOK'
  BY <1>1, <1>2, <1>3, FreeShape DEF ControlTypeOK
<1>5. SessionsShape'
  <2> SUFFICES ASSUME NEW t \in Slots PROVE SessionShape(t)'
    BY <1>2 DEF SessionsShape
  <2>1. sess'[t] = FreeSession
    BY <1>2
  <2> QED
    BY <2>1, FreeShape DEF SessionShape, Answers
<1>6. ClientShape'
  BY <1>1, <1>2, <1>3 DEF Shape, ClientShape
<1>7. LoopShape'
  BY <1>1, <1>2, <1>3 DEF Shape, LoopShape
<1>8. SlotsAreOwned'
  BY <1>1, <1>2, <1>3, FreeShape DEF SlotsAreOwned, ControlTypeOK
<1>9. AtMostOnce'
  BY <1>1, <1>2, <1>3 DEF AtMostOnce
<1>10. QueuedIsUntouched'
  BY <1>1, <1>2, <1>3 DEF IntentsAreSingle, QueuedIsUntouched, Untouched
<1>11. CarriedOnce'
  BY <1>1, <1>2, <1>3 DEF IntentsAreSingle, CarriedOnce
<1>12. ClientWaitsForOne'
  BY <1>1, <1>2, <1>3, FreeShape, ClientSlot DEF IntentsAreSingle, ClientWaitsForOne
<1>13. VersionNamesSettings' /\ SnapshotsAreOld'
  BY <1>1, <1>2, <1>3, FreeShape, SnapshotsAgree, SnapshotIs DEF Known, Answers
<1>14. LockedWhenAlone'
  BY <1>1, <1>2, <1>3, FreeShape DEF LockedWhenAlone, Live
<1>15. LossIsReported' /\ InteractiveOnlyConnected' /\ NewsIsTrue'
  BY <1>1, <1>2, <1>3 DEF LossIsReported, InteractiveOnlyConnected, NewsIsTrue
<1> QED
  BY <1>4, <1>5, <1>6, <1>7, <1>8, <1>9, <1>10, <1>11, <1>12, <1>13, <1>14, <1>15
     DEF Shape, IntentsAreSingle

\* A new session gets a free slot and carries no intent.
LEMMA ConnectKeeps ==
  ASSUME ControlInv, ConnectPipe
  PROVE  ControlInv'
<1> USE DEF ControlInv, ControlSafe
<1>1. PICK s \in Serving : /\ Opened(s, Greeting)
                          /\ ovl' = [ovl EXCEPT !.pc = "query", !.slot = s]
  BY DEF ConnectPipe, Greeting
<1>2. /\ ovl.pc = "connect" /\ supervisor = "accepting"
      /\ UNCHANGED <<store, supervisor, cmds, evt, ui, uis, asked, caused, effects>>
  BY DEF ConnectPipe, serverVars, uiVars
<1>3. s \in Slots /\ s # 0 /\ s \in 0..MaxSessions /\ sess[s].phase = "free" 
  BY ServingIsFree, SessionsAssumption DEF Slots
<1>4. /\ DOMAIN sess' = Slots /\ \A t \in Slots : t # s => sess'[t] = sess[t]
      /\ DOMAIN sess'[s] = DOMAIN FreeSession
      /\ sess'[s].phase = "open" /\ sess'[s].role = "none" /\ sess'[s].peer = TRUE
      /\ sess'[s].inbox = Greeting /\ sess'[s].outbox = NoMsg
  BY <1>1, <1>3, OpenedFacts
<1>5. DOMAIN Idle = {"pc", "slot", "reported", "version", "settings", "intent", "retried", "stop"}
  BY DEF Idle
<1>6. /\ DOMAIN ovl' = DOMAIN Idle /\ ovl'.pc = "query" /\ ovl'.slot = s
      /\ ovl'.reported = ovl.reported /\ ovl'.version = ovl.version
      /\ ovl'.settings = ovl.settings /\ ovl'.stop = ovl.stop
      /\ ovl'.intent = ovl.intent /\ ovl'.retried = ovl.retried
  BY <1>1, <1>5 DEF Shape, ClientShape
<1>7. \A t \in Slots : \A i \in 1..MaxIntents : Carries(t, i)' => Carries(t, i)
  BY <1>4, GreetingFacts DEF Carries
<1>8. ControlTypeOK'
  <2> SUFFICES ASSUME NEW t \in Slots
               PROVE  /\ sess'[t].phase \in {"free", "open", "gone"}
                      /\ sess'[t].role \in {"none", "Overlay", "ManagementUi"}
                      /\ Len(sess'[t].inbox) <= 3
    BY <1>2, <1>6 DEF ControlTypeOK
  <2>1. CASE t = s
    <3>1. Len(sess'[t].inbox) = 2
      BY <1>4, <2>1, GreetingFacts
    <3>2. sess'[t].phase = "open" /\ sess'[t].role = "none"
      BY <1>4, <2>1
    <3> QED
      BY <3>1, <3>2
  <2>2. CASE t # s
    BY <1>4, GreetingFacts, <2>2 DEF ControlTypeOK
  <2> QED
    BY <2>1, <2>2
<1>9. SessionsShape'
  <2> SUFFICES ASSUME NEW t \in Slots PROVE SessionShape(t)'
    BY <1>4 DEF SessionsShape
  <2>1. CASE t = s
    BY <1>4, <2>1, FreeShape DEF SessionShape, Shape, SessionsShape, Answers
  <2>2. CASE t # s
    BY <1>4, <2>2 DEF SessionShape, Shape, SessionsShape
  <2> QED
    BY <2>1, <2>2
<1>10. ClientShape'
  BY <1>3, <1>6 DEF Shape, ClientShape
<1>11. LoopShape'
  BY <1>2 DEF Shape, LoopShape
<1>12. SlotsAreOwned'
  BY <1>2, <1>3, <1>4, <1>6 DEF SlotsAreOwned
<1>13. AtMostOnce'
  BY <1>2 DEF AtMostOnce
<1>14. QueuedIsUntouched'
  BY <1>2, <1>6, <1>7 DEF IntentsAreSingle, QueuedIsUntouched, Untouched, Shape, LoopShape, Command
<1>15. CarriedOnce'
  BY <1>2, <1>7 DEF IntentsAreSingle, CarriedOnce
<1>16. ClientWaitsForOne'
  BY <1>6 DEF ClientWaitsForOne
<1>17. VersionNamesSettings' /\ SnapshotsAreOld'
  BY <1>2, <1>4, <1>6, FreeShape, SnapshotsAgree, SnapshotIs DEF Known, Answers, Snap
<1>18. LockedWhenAlone'
  BY <1>2, <1>3, <1>4 DEF LockedWhenAlone, Live
<1>19. LossIsReported' /\ InteractiveOnlyConnected' /\ NewsIsTrue'
  BY <1>2, <1>6 DEF LossIsReported, InteractiveOnlyConnected, NewsIsTrue
<1> QED
  BY <1>8, <1>9, <1>10, <1>11, <1>12, <1>13, <1>14, <1>15, <1>16, <1>17, <1>18, <1>19
     DEF Shape, IntentsAreSingle

LEMMA UiOpensKeeps ==
  ASSUME ControlInv, NEW u \in Uis, uis[u] = 0, supervisor = "accepting",
         NEW s \in Serving, Opened(s, <<>>), uis' = [uis EXCEPT ![u] = s],
         UNCHANGED <<store, supervisor, ovl, cmds, evt, ui, caused, effects>>
  PROVE  ControlInv'
<1> USE DEF ControlInv, ControlSafe
<1>1. s \in Slots /\ s # 0 /\ s \in 0..MaxSessions /\ sess[s].phase = "free" 
  BY ServingIsFree, SessionsAssumption DEF Slots
<1>2. /\ DOMAIN sess' = Slots /\ \A t \in Slots : t # s => sess'[t] = sess[t]
      /\ DOMAIN sess'[s] = DOMAIN FreeSession
      /\ sess'[s].phase = "open" /\ sess'[s].role = "none" /\ sess'[s].peer = TRUE
      /\ sess'[s].inbox = <<>> /\ sess'[s].outbox = NoMsg
  BY <1>1, OpenedFacts
<1>3. /\ uis' \in [Uis -> 0..MaxSessions] /\ uis'[u] = s
      /\ \A v \in Uis : v # u => uis'[v] = uis[v]
  BY <1>1 DEF ControlTypeOK
<1>4. \A t \in Slots : \A i : Carries(t, i)' => Carries(t, i)
  BY <1>2 DEF Carries
<1>5. \A t \in Slots : t # s => \A i : Carries(t, i) => Carries(t, i)'
  BY <1>2 DEF Carries
<1>6. ovl.slot # s
  BY <1>1 DEF SlotsAreOwned
<1>7. ControlTypeOK'
  BY <1>2, <1>3, Len(<<>>) = 0 DEF ControlTypeOK
<1>8. SessionsShape'
  <2> SUFFICES ASSUME NEW t \in Slots PROVE SessionShape(t)'
    BY <1>2 DEF SessionsShape
  <2>1. CASE t = s
    BY <1>2, <2>1, FreeShape DEF SessionShape, Shape, SessionsShape, Answers
  <2>2. CASE t # s
    BY <1>2, <2>2 DEF SessionShape, Shape, SessionsShape
  <2> QED
    BY <2>1, <2>2
<1>9. ClientShape'
  BY DEF Shape, ClientShape
<1>10. LoopShape'
  BY DEF Shape, LoopShape
<1>11. SlotsAreOwned'
  BY <1>1, <1>2, <1>3, <1>6 DEF SlotsAreOwned
<1>12. AtMostOnce'
  BY DEF AtMostOnce
<1>13. QueuedIsUntouched'
  BY <1>4 DEF IntentsAreSingle, QueuedIsUntouched, Untouched
<1>14. CarriedOnce'
  BY <1>4 DEF IntentsAreSingle, CarriedOnce
<1>15. ClientWaitsForOne'
  BY <1>2, <1>4, <1>5, <1>6, ClientSlot DEF IntentsAreSingle, ClientWaitsForOne
<1>16. VersionNamesSettings' /\ SnapshotsAreOld'
  BY <1>2, FreeShape, SnapshotsAgree, SnapshotIs DEF Known, Answers
<1>17. LockedWhenAlone'
  BY <1>1, <1>2 DEF LockedWhenAlone, Live
<1>18. LossIsReported' /\ InteractiveOnlyConnected' /\ NewsIsTrue'
  BY DEF LossIsReported, InteractiveOnlyConnected, NewsIsTrue
<1> QED
  BY <1>7, <1>8, <1>9, <1>10, <1>11, <1>12, <1>13, <1>14, <1>15, <1>16, <1>17, <1>18
     DEF Shape, IntentsAreSingle

LEMMA UiRefusedKeeps ==
  ASSUME ControlInv, supervisor = "accepting", supervisor' \in {supervisor, "failed"},
         UNCHANGED <<store, sess, ovl, cmds, evt, ui, uis, caused, effects>>
  PROVE  ControlInv'
<1> USE DEF ControlInv, ControlSafe
<1>1. \A t \in Slots : \A i : Carries(t, i)' <=> Carries(t, i)
  BY SameCarriers
<1>2. ControlTypeOK'
  BY DEF ControlTypeOK
<1>3. SessionsShape'
  BY DEF Shape, SessionsShape, SessionShape
<1>4. ClientShape'
  BY DEF Shape, ClientShape
<1>5. LoopShape'
  BY DEF Shape, LoopShape
<1>6. SlotsAreOwned'
  BY DEF SlotsAreOwned
<1>7. AtMostOnce'
  BY DEF AtMostOnce
<1>8. QueuedIsUntouched'
  BY <1>1 DEF IntentsAreSingle, QueuedIsUntouched, Untouched
<1>9. CarriedOnce'
  BY <1>1 DEF IntentsAreSingle, CarriedOnce
<1>10. ClientWaitsForOne'
  BY <1>1, ClientSlot DEF IntentsAreSingle, ClientWaitsForOne
<1>11. VersionNamesSettings' /\ SnapshotsAreOld'
  BY SnapshotsAgree, SnapshotIs DEF Known
<1>12. LockedWhenAlone'
  BY DEF LockedWhenAlone, Live
<1>13. LossIsReported' /\ InteractiveOnlyConnected' /\ NewsIsTrue'
  BY DEF LossIsReported, InteractiveOnlyConnected, NewsIsTrue
<1> QED
  BY <1>2, <1>3, <1>4, <1>5, <1>6, <1>7, <1>8, <1>9, <1>10, <1>11, <1>12, <1>13
     DEF Shape, IntentsAreSingle

\* A management request carries no intent.
LEMMA UiRequestKeeps ==
  ASSUME ControlInv, NEW u \in Uis, UiRequest(u)
  PROVE  ControlInv'
<1> USE DEF ControlInv, ControlSafe
<1>1. PICK r \in UiRequests, v \in {1, store.version} :
        sess' = [sess EXCEPT ![uis[u]] =
                   [@ EXCEPT !.outbox = NoMsg,
                             !.inbox = <<IF r.kind = "patch" THEN [r EXCEPT !.expected = v]
                                                             ELSE r>>]]
  BY DEF UiRequest
<1>2. /\ uis[u] # 0 /\ sess[uis[u]].phase = "open" /\ sess[uis[u]].inbox = <<>>
      /\ UNCHANGED <<store, supervisor, ovl, cmds, evt, ui, uis, caused, effects>>
  BY DEF UiRequest, serverVars
<1>3. uis[u] \in Slots /\ uis[u] # ovl.slot
  BY <1>2, SessionsAssumption DEF ControlTypeOK, SlotsAreOwned, Slots
<1>4. PICK m : /\ Decodes(m) /\ m.id = 0
              /\ sess' = [sess EXCEPT ![uis[u]] = [@ EXCEPT !.outbox = NoMsg, !.inbox = <<m>>]]
  <2> DEFINE m == IF r.kind = "patch" THEN [r EXCEPT !.expected = v] ELSE r
  <2>1. Decodes(r) /\ r.id = 0
    BY UiRequestsAssumption
  <2>2. CASE r.kind = "patch"
    <3>1. /\ DOMAIN r = {"kind", "id", "expected", "wire", "candidate", "mask"}
          /\ Settled(r.candidate) /\ m = [r EXCEPT !.expected = v]
      BY <2>1, <2>2 DEF Decodes
    <3>2. /\ DOMAIN m = DOMAIN r /\ m.kind = r.kind /\ m.id = r.id
          /\ m.candidate = r.candidate
      BY <3>1
    <3>3. Decodes(m) /\ m.id = 0
      BY <2>1, <2>2, <3>1, <3>2 DEF Decodes
    <3> QED
      BY <1>1, <3>3
  <2>3. CASE r.kind # "patch"
    BY <1>1, <2>1, <2>3
  <2> QED
    BY <2>2, <2>3
<1>5. /\ DOMAIN sess' = Slots /\ \A t \in Slots : t # uis[u] => sess'[t] = sess[t]
      /\ DOMAIN sess'[uis[u]] = DOMAIN FreeSession
      /\ sess'[uis[u]].phase = "open" /\ sess'[uis[u]].role = sess[uis[u]].role
      /\ sess'[uis[u]].peer = sess[uis[u]].peer
      /\ sess'[uis[u]].inbox = <<m>> /\ sess'[uis[u]].outbox = NoMsg
  <2> DEFINE new == [sess[uis[u]] EXCEPT !.outbox = NoMsg, !.inbox = <<m>>]
  <2>1. /\ DOMAIN sess = Slots /\ DOMAIN sess[uis[u]] = DOMAIN FreeSession
        /\ sess' = [sess EXCEPT ![uis[u]] = new]
    BY <1>3, <1>4 DEF Shape, SessionsShape, SessionShape
  <2>2. /\ DOMAIN new = DOMAIN FreeSession /\ new.phase = sess[uis[u]].phase
        /\ new.role = sess[uis[u]].role /\ new.peer = sess[uis[u]].peer
        /\ new.inbox = <<m>> /\ new.outbox = NoMsg
    BY <2>1, FreeShape
  <2> HIDE DEF new
  <2> QED
    BY <1>2, <1>3, <2>1, <2>2
<1>6. OneFrame(<<m>>) /\ Len(<<m>>) = 1 /\ <<m>> # Greeting
  BY <1>4, OneElement, GreetingFacts DEF OneFrame
<1>7. \A t \in Slots : \A i \in 1..MaxIntents : Carries(t, i)' <=> Carries(t, i)
  BY <1>2, <1>4, <1>5, OneElement DEF Carries
<1>8. ControlTypeOK'
  <2> SUFFICES ASSUME NEW t \in Slots
               PROVE  /\ sess'[t].phase \in {"free", "open", "gone"}
                      /\ sess'[t].role \in {"none", "Overlay", "ManagementUi"}
                      /\ Len(sess'[t].inbox) <= 3
    BY <1>2 DEF ControlTypeOK
  <2>1. CASE t = uis[u]
    <3>1. Len(sess'[t].inbox) = 1
      BY <1>5, <1>6, <2>1
    <3>2. sess'[t].phase = "open" /\ sess'[t].role = sess[t].role
      BY <1>5, <2>1
    <3> QED
      BY <3>1, <3>2 DEF ControlTypeOK
  <2>2. CASE t # uis[u]
    BY <1>3, <1>5, <1>6, <2>2 DEF ControlTypeOK
  <2> QED
    BY <2>1, <2>2
<1>9. SessionsShape'
  BY <1>2, <1>3, <1>5, <1>6, FreeShape DEF Shape, SessionsShape, SessionShape, Answers
<1>10. ClientShape'
  BY <1>2 DEF Shape, ClientShape
<1>11. LoopShape'
  BY <1>2 DEF Shape, LoopShape
<1>12. SlotsAreOwned'
  BY <1>2, <1>3, <1>5 DEF SlotsAreOwned
<1>13. AtMostOnce'
  BY <1>2 DEF AtMostOnce
<1>14. QueuedIsUntouched'
  BY <1>2, <1>7 DEF IntentsAreSingle, QueuedIsUntouched, Untouched, Shape, LoopShape, Command
<1>15. CarriedOnce'
  BY <1>2, <1>7 DEF IntentsAreSingle, CarriedOnce
<1>16. ClientWaitsForOne'
  BY <1>2, <1>3, <1>5, <1>7, ClientSlot DEF IntentsAreSingle, ClientWaitsForOne, Command
<1>17. VersionNamesSettings' /\ SnapshotsAreOld'
  BY <1>2, <1>3, <1>5, FreeShape, SnapshotsAgree, SnapshotIs DEF Known, Answers
<1>18. LockedWhenAlone'
  BY <1>2, <1>3, <1>5 DEF LockedWhenAlone, Live
<1>19. LossIsReported' /\ InteractiveOnlyConnected' /\ NewsIsTrue'
  BY <1>2 DEF LossIsReported, InteractiveOnlyConnected, NewsIsTrue
<1> QED
  BY <1>8, <1>9, <1>10, <1>11, <1>12, <1>13, <1>14, <1>15, <1>16, <1>17, <1>18, <1>19
     DEF Shape, IntentsAreSingle

\* The first frame of a session changes no settings.
LEMMA GreetedKeeps ==
  ASSUME ControlInv, NEW s \in Slots, HandleFrame(s), sess[s].role = "none"
  PROVE  ControlInv'
<1> USE DEF ControlInv, ControlSafe
<1>1. /\ sess[s].phase = "open" /\ sess[s].inbox # <<>> /\ sess[s].outbox = NoMsg
      /\ UNCHANGED <<store, supervisor, ovl, cmds, evt, ui, uis, asked, caused, effects>>
  BY DEF HandleFrame, uiVars
<1>2. PICK m, rest :
         /\ Decodes(m)
         /\ \/ rest = <<>>
            \/ /\ rest = <<Query>> /\ m.kind = "hello"
               /\ \A i \in 1..MaxIntents : ~Carries(s, i)
         /\ sess' = [sess EXCEPT ![s] =
                IF m.kind = "hello"
                THEN [@ EXCEPT !.role = m.role, !.inbox = rest]
                ELSE [@ EXCEPT !.inbox = rest, !.outbox = [kind |-> "error", id |-> m.id]]]
  BY <1>1, FrameFacts DEF HandleFrame
<1>3. /\ DOMAIN sess' = Slots /\ \A t \in Slots : t # s => sess'[t] = sess[t]
      /\ DOMAIN sess'[s] = DOMAIN FreeSession /\ sess'[s].phase = "open"
      /\ sess'[s].peer = sess[s].peer /\ sess'[s].inbox = rest
      /\ sess'[s].role \in {"none", "Overlay", "ManagementUi"}
      /\ \/ sess'[s].outbox = NoMsg
         \/ sess'[s].outbox = [kind |-> "error", id |-> m.id] /\ rest = <<>>
  <2>1. DOMAIN sess = Slots /\ DOMAIN sess[s] = DOMAIN FreeSession
    BY DEF Shape, SessionsShape, SessionShape
  <2>2. CASE m.kind = "hello"
    <3> DEFINE new == [sess[s] EXCEPT !.role = m.role, !.inbox = rest]
    <3>1. /\ DOMAIN new = DOMAIN FreeSession /\ new.phase = sess[s].phase
          /\ new.peer = sess[s].peer /\ new.inbox = rest /\ new.role = m.role
          /\ new.outbox = sess[s].outbox
      BY <2>1, FreeShape
    <3>2. sess' = [sess EXCEPT ![s] = new] /\ m.role \in {"Overlay", "ManagementUi"}
      BY <1>2, <2>2 DEF Decodes
    <3> HIDE DEF new
    <3> QED
      BY <1>1, <2>1, <3>1, <3>2
  <2>3. CASE m.kind # "hello"
    <3> DEFINE new == [sess[s] EXCEPT !.inbox = rest, !.outbox = [kind |-> "error", id |-> m.id]]
    <3>1. /\ DOMAIN new = DOMAIN FreeSession /\ new.phase = sess[s].phase
          /\ new.peer = sess[s].peer /\ new.inbox = rest /\ new.role = sess[s].role
          /\ new.outbox = [kind |-> "error", id |-> m.id]
      BY <2>1, FreeShape
    <3>2. sess' = [sess EXCEPT ![s] = new] /\ rest = <<>>
      BY <1>2, <2>3
    <3> HIDE DEF new
    <3> QED
      BY <1>1, <2>1, <3>1, <3>2
  <2> QED
    BY <2>2, <2>3
<1>4. /\ Len(rest) <= 3 /\ rest # Greeting /\ (rest = <<>> \/ OneFrame(rest))
      /\ \A k \in DOMAIN rest : rest[k].id = 0
  <2>1. CASE rest = <<>>
    BY <2>1, GreetingFacts, Len(<<>>) = 0
  <2>2. CASE rest = <<Query>>
    BY <2>2, GreetingFacts, OneElement
  <2> QED
    BY <1>2, <2>1, <2>2
<1>5. \A t \in Slots : \A i \in 1..MaxIntents : Carries(t, i)' => Carries(t, i)
  BY <1>3, <1>4 DEF Carries
<1>6. \A t \in Slots : t # s => \A i : Carries(t, i) => Carries(t, i)'
  BY <1>3 DEF Carries
<1>7. sess[s].inbox = <<>> \/ ~(sess'[s].outbox.kind \in {"action", "patch"})
  BY <1>3, FreeShape
<1>8. ControlTypeOK'
  <2> SUFFICES ASSUME NEW t \in Slots
               PROVE  /\ sess'[t].phase \in {"free", "open", "gone"}
                      /\ sess'[t].role \in {"none", "Overlay", "ManagementUi"}
                      /\ Len(sess'[t].inbox) <= 3
    BY <1>1 DEF ControlTypeOK
  <2>1. CASE t = s
    <3>1. Len(sess'[t].inbox) <= 3
      BY <1>3, <1>4, <2>1
    <3>2. sess'[t].phase = "open" /\ sess'[t].role \in {"none", "Overlay", "ManagementUi"}
      BY <1>3, <2>1
    <3> QED
      BY <3>1, <3>2 DEF ControlTypeOK
  <2>2. CASE t # s
    BY <1>3, <2>2 DEF ControlTypeOK
  <2> QED
    BY <2>1, <2>2
<1>9. SessionsShape'
  <2> SUFFICES ASSUME NEW t \in Slots PROVE SessionShape(t)'
    BY <1>3 DEF SessionsShape
  <2>1. CASE t = s
    BY <1>3, <1>4, <2>1, FreeShape DEF SessionShape, Shape, SessionsShape, Answers
  <2>2. CASE t # s
    BY <1>3, <2>2 DEF SessionShape, Shape, SessionsShape
  <2> QED
    BY <2>1, <2>2
<1>10. ClientShape'
  BY <1>1 DEF Shape, ClientShape
<1>11. LoopShape'
  BY <1>1 DEF Shape, LoopShape
<1>12. SlotsAreOwned'
  BY <1>1, <1>3 DEF SlotsAreOwned
<1>13. AtMostOnce'
  BY <1>1 DEF AtMostOnce
<1>14. QueuedIsUntouched'
  BY <1>1, <1>5 DEF IntentsAreSingle, QueuedIsUntouched, Untouched, Shape, LoopShape, Command
<1>15. CarriedOnce'
  BY <1>1, <1>5 DEF IntentsAreSingle, CarriedOnce
<1>16. ClientWaitsForOne'
  <2>1. ovl.pc = "loop" => ovl.slot # s
    BY <1>1 DEF IntentsAreSingle, ClientWaitsForOne
  <2>2. CASE ovl.slot # s
    BY <1>1, <1>3, <1>5, <1>6, <2>2, ClientSlot
       DEF IntentsAreSingle, ClientWaitsForOne, Command
  <2>3. CASE ovl.slot = s
    BY <1>1, <1>2, <1>3, <1>5, <1>7, <2>1, <2>3, ClientSlot
       DEF IntentsAreSingle, ClientWaitsForOne, Command
  <2> QED
    BY <2>2, <2>3
<1>17. VersionNamesSettings' /\ SnapshotsAreOld'
  BY <1>1, <1>3, FreeShape, SnapshotsAgree, SnapshotIs DEF Known, Answers
<1>18. LockedWhenAlone'
  BY <1>1, <1>3 DEF LockedWhenAlone, Live
<1>19. LossIsReported' /\ InteractiveOnlyConnected' /\ NewsIsTrue'
  BY <1>1 DEF LossIsReported, InteractiveOnlyConnected, NewsIsTrue
<1> QED
  BY <1>8, <1>9, <1>10, <1>11, <1>12, <1>13, <1>14, <1>15, <1>16, <1>17, <1>18, <1>19
     DEF Shape, IntentsAreSingle

\* A conflict, and any other answer that leaves the store alone, is no effect.

\* A handled request: its intent takes effect once, and it was the only one
\* to carry it.
LEMMA HandledKeeps ==
  ASSUME ControlInv, NEW s \in Slots, HandleFrame(s), sess[s].role # "none"
  PROVE  ControlInv'
<1> USE DEF ControlInv, ControlSafe
<1>1. /\ sess[s].phase = "open" /\ sess[s].inbox # <<>> /\ sess[s].outbox = NoMsg
      /\ UNCHANGED <<supervisor, ovl, cmds, evt, ui, uis, asked, caused>>
  BY DEF HandleFrame, uiVars
<1>2. PICK m, h :
         /\ Decodes(m) /\ h = Handle(sess[s].role, m)
         /\ \A i \in 1..MaxIntents : Carries(s, i) <=> m.id = i
         /\ store' = h.store
         /\ effects' = IF h.store # store /\ m.id # 0
                       THEN [effects EXCEPT ![m.id] = @ + 1] ELSE effects
         /\ sess' = [sess EXCEPT ![s] = [@ EXCEPT !.inbox = <<>>, !.outbox = h.reply]]
  BY <1>1, FrameFacts DEF HandleFrame
<1>3. /\ StoreOK(store') /\ (store' = store \/ store'.version = store.version + 1)
      /\ h.reply.kind \in Answers \cup {"error"}
      /\ h.reply.kind \in Answers => Snap(h.reply) = Snap(store') /\ Settled(h.reply.settings)
      /\ h.reply.kind \in {"action", "patch"} /\ h.reply.status = "VersionConflict" => store' = store
  BY <1>2, StoreIsOK, HandleOK DEF Snap, StoreOK
<1>4. /\ DOMAIN sess' = Slots /\ \A t \in Slots : t # s => sess'[t] = sess[t]
      /\ DOMAIN sess'[s] = DOMAIN FreeSession /\ sess'[s].phase = "open"
      /\ sess'[s].peer = sess[s].peer /\ sess'[s].role = sess[s].role
      /\ sess'[s].inbox = <<>> /\ sess'[s].outbox = h.reply
  <2> DEFINE new == [sess[s] EXCEPT !.inbox = <<>>, !.outbox = h.reply]
  <2>1. /\ DOMAIN sess = Slots /\ DOMAIN sess[s] = DOMAIN FreeSession
        /\ sess' = [sess EXCEPT ![s] = new]
    BY <1>2 DEF Shape, SessionsShape, SessionShape
  <2>2. /\ DOMAIN new = DOMAIN FreeSession /\ new.phase = sess[s].phase
        /\ new.peer = sess[s].peer /\ new.role = sess[s].role
        /\ new.inbox = <<>> /\ new.outbox = h.reply
    BY <2>1, FreeShape
  <2> HIDE DEF new
  <2> QED
    BY <1>1, <2>1, <2>2
<1>5. m.id \in 0..MaxIntents /\ effects \in [1..MaxIntents -> Nat]
  BY <1>2 DEF Decodes, Shape, LoopShape
<1>6. /\ effects' \in [1..MaxIntents -> Nat]
      /\ \A i \in 1..MaxIntents : i # m.id => effects'[i] = effects[i]
      /\ store' = store => effects' = effects
      /\ m.id # 0 => effects[m.id] = 0 /\ effects'[m.id] <= 1
  <2>1. m.id # 0 => effects[m.id] = 0
    BY <1>2, <1>5 DEF IntentsAreSingle, CarriedOnce
  <2>2. CASE effects' = effects
    BY <1>2, <1>5, <2>1, <2>2
  <2>3. CASE effects' # effects
    <3>1. m.id \in 1..MaxIntents /\ effects' = [effects EXCEPT ![m.id] = effects[m.id] + 1]
      BY <1>2, <1>5, <2>3, BoundsAssumption
    <3> QED
      BY <1>2, <1>5, <2>1, <2>3, <3>1
  <2> QED
    BY <2>2, <2>3
<1>7. \A t \in Slots : \A i \in 1..MaxIntents : Carries(t, i)' => Carries(t, i) /\ i # m.id
  <2> SUFFICES ASSUME NEW t \in Slots, NEW i \in 1..MaxIntents, Carries(t, i)'
               PROVE  Carries(t, i) /\ i # m.id
    OBVIOUS
  <2>1. t # s
    BY <1>4 DEF Carries
  <2>2. Carries(t, i)
    BY <1>4, <2>1 DEF Carries
  <2> QED
    BY <1>2, <2>1, <2>2 DEF IntentsAreSingle, CarriedOnce
<1>8. \A t \in Slots : t # s => \A i : Carries(t, i) => Carries(t, i)'
  BY <1>4 DEF Carries
<1>9. ControlTypeOK'
  <2>1. /\ store'.version \in 1..MaxVersion /\ DOMAIN store'.settings = FieldNames
        /\ store'.settings.input_mode \in InputModes /\ Valid(store'.settings)
    BY <1>3, StoreTyped
  <2>2. \A t \in Slots : /\ sess'[t].phase \in {"free", "open", "gone"}
                         /\ sess'[t].role \in {"none", "Overlay", "ManagementUi"}
                         /\ Len(sess'[t].inbox) <= 3
    BY <1>4, Len(<<>>) = 0 DEF ControlTypeOK
  <2> QED
    BY <1>1, <2>1, <2>2 DEF ControlTypeOK
<1>10. SessionsShape'
  <2> SUFFICES ASSUME NEW t \in Slots PROVE SessionShape(t)'
    BY <1>4 DEF SessionsShape
  <2>1. CASE t = s
    BY <1>3, <1>4, GreetingFacts, <2>1, FreeShape DEF SessionShape, Shape, SessionsShape, Answers
  <2>2. CASE t # s
    BY <1>4, <2>2 DEF SessionShape, Shape, SessionsShape
  <2> QED
    BY <2>1, <2>2
<1>11. ClientShape'
  BY <1>1 DEF Shape, ClientShape
<1>12. LoopShape'
  BY <1>1, <1>6 DEF Shape, LoopShape
<1>13. SlotsAreOwned'
  BY <1>1, <1>4 DEF SlotsAreOwned
<1>14. AtMostOnce'
  BY <1>5, <1>6 DEF AtMostOnce
<1>15. QueuedIsUntouched'
  <2>1. ASSUME NEW i \in 1..MaxIntents, Untouched(i) PROVE Untouched(i)'
    <3>1. i # m.id
      BY <1>2, <2>1 DEF Untouched
    <3> QED
      BY <1>1, <1>6, <1>7, <2>1, <3>1 DEF Untouched
  <2>2. \A k \in 1..Len(cmds) : cmds[k].id \in 1..MaxIntents
    BY DEF Shape, LoopShape, Command
  <2>3. \A i \in 1..MaxIntents : i > caused' => Untouched(i)'
    BY <1>1, <2>1 DEF IntentsAreSingle, QueuedIsUntouched
  <2>4. \A k \in 1..Len(cmds') : Untouched(cmds[k].id)'
    <3> SUFFICES ASSUME NEW k \in 1..Len(cmds) PROVE Untouched(cmds[k].id)'
      BY <1>1
    <3>1. Untouched(cmds[k].id) /\ cmds[k].id \in 1..MaxIntents /\ cmds' = cmds
      BY <1>1, <2>2 DEF IntentsAreSingle, QueuedIsUntouched
    <3>2. cmds[k].id # m.id
      BY <1>2, <3>1 DEF Untouched
    <3> QED
      BY <1>1, <1>6, <1>7, <3>1, <3>2 DEF Untouched
  <2> QED
    BY <1>1, <2>3, <2>4 DEF IntentsAreSingle, QueuedIsUntouched
<1>16. CarriedOnce'
  BY <1>6, <1>7 DEF IntentsAreSingle, CarriedOnce
<1>17. ClientWaitsForOne'
  <2>1. CASE ovl.pc # "wait"
    <3>1. ovl.pc = "loop" => ovl.slot # s
      BY <1>1 DEF IntentsAreSingle, ClientWaitsForOne
    <3> QED
      BY <1>1, <1>4, <2>1, <3>1, ClientSlot DEF IntentsAreSingle, ClientWaitsForOne
  <2>2. CASE ovl.pc = "wait"
    <3>1. /\ Command(ovl.intent) /\ ovl.slot \in Slots /\ ovl.intent.id \in 1..MaxIntents
          /\ \A t \in Slots : Carries(t, ovl.intent.id) => t = ovl.slot
      BY <2>2, ClientSlot DEF IntentsAreSingle, ClientWaitsForOne, Command
    <3>2. CASE ovl.slot = s
      <4>1. m.id = ovl.intent.id
        BY <1>1, <1>2, <2>2, <3>1, <3>2 DEF IntentsAreSingle, ClientWaitsForOne
      <4>2. store' = store => effects'[ovl.intent.id] = 0
        BY <1>6, <3>1, <4>1
      <4> QED
        BY <1>1, <1>3, <1>4, <1>7, <2>2, <3>1, <3>2, <4>2 DEF ClientWaitsForOne
    <3>3. CASE ovl.slot # s
      <4>1. m.id # ovl.intent.id
        BY <1>2, <3>1, <3>3
      <4> QED
        BY <1>1, <1>4, <1>6, <1>7, <1>8, <2>2, <3>1, <3>3, <4>1
           DEF IntentsAreSingle, ClientWaitsForOne
    <3> QED
      BY <3>2, <3>3
  <2> QED
    BY <2>1, <2>2
<1>18. VersionNamesSettings' /\ SnapshotsAreOld'
  BY <1>1, <1>3, <1>4, FreeShape, SnapshotsAgree, SnapshotIs DEF Known
<1>19. LockedWhenAlone'
  BY <1>1, <1>4 DEF LockedWhenAlone, Live
<1>20. LossIsReported' /\ InteractiveOnlyConnected' /\ NewsIsTrue'
  BY <1>1 DEF LossIsReported, InteractiveOnlyConnected, NewsIsTrue
<1> QED
  BY <1>9, <1>10, <1>11, <1>12, <1>13, <1>14, <1>15, <1>16, <1>17, <1>18, <1>19, <1>20
     DEF Shape, IntentsAreSingle

\* A failed request, whatever failed: the pipe closes and the intent is dropped.

\* A client that gives up an intent never sends it again.
LEMMA ClientFailsKeeps ==
  ASSUME ControlInv, ovl.pc \in {"query", "wait"}, Failed(ovl), sess' = ClosedBy(ovl.slot),
         UNCHANGED <<store, supervisor, cmds, ui, uis, asked, caused, effects>>
  PROVE  ControlInv'
<1> USE DEF ControlInv, ControlSafe
<1>1. /\ DOMAIN ovl' = DOMAIN Idle /\ ovl'.pc = "connect" /\ ovl'.slot = 0
      /\ ovl'.version = 0 /\ ovl'.intent.id = 0 /\ ovl'.stop = ovl.stop
      /\ ovl'.reported = TRUE /\ ovl'.retried = FALSE
      /\ \/ evt' = evt /\ ovl.pc \in {"connect", "query"} /\ ovl.reported
         \/ evt' = [kind |-> "disconnected"]
  BY FailedFacts
<1>2. /\ DOMAIN sess' = Slots /\ \A t \in Slots : t # ovl.slot => sess'[t] = sess[t]
      /\ \A t \in Slots : /\ DOMAIN sess'[t] = DOMAIN FreeSession
                          /\ sess'[t].phase = sess[t].phase /\ sess'[t].role = sess[t].role
                          /\ sess'[t].inbox = sess[t].inbox /\ sess'[t].outbox = sess[t].outbox
                          /\ sess'[t].peer \in BOOLEAN
  BY ClosedFacts
<1>3. \A t \in Slots : \A i : Carries(t, i)' <=> Carries(t, i)
  BY <1>2, SameCarriers
<1>4. ControlTypeOK'
  BY <1>1, <1>2, <1>3 DEF ControlTypeOK
<1>5. SessionsShape'
  BY <1>1, <1>2, <1>3 DEF Shape, SessionsShape, SessionShape
<1>6. ClientShape'
  BY <1>1, ZeroInRange DEF Shape, ClientShape
<1>7. LoopShape'
  BY <1>1, <1>2, <1>3 DEF Shape, LoopShape
<1>8. SlotsAreOwned'
  BY <1>1, <1>2, <1>3 DEF SlotsAreOwned, ControlTypeOK, Slots
<1>9. AtMostOnce'
  BY <1>1, <1>2, <1>3 DEF AtMostOnce
<1>10. QueuedIsUntouched'
  BY <1>1, <1>2, <1>3 DEF IntentsAreSingle, QueuedIsUntouched, Untouched, Shape, LoopShape, Command
<1>11. CarriedOnce'
  BY <1>1, <1>2, <1>3 DEF IntentsAreSingle, CarriedOnce
<1>12. ClientWaitsForOne'
  BY <1>1, <1>2, <1>3, ClientSlot DEF IntentsAreSingle, ClientWaitsForOne
<1>13. VersionNamesSettings' /\ SnapshotsAreOld'
  BY <1>1, <1>2, <1>3, SnapshotsAgree, SnapshotIs DEF Known
<1>14. LockedWhenAlone'
  BY <1>1, <1>2, <1>3 DEF LockedWhenAlone, Live
<1>15. LossIsReported' /\ InteractiveOnlyConnected' /\ NewsIsTrue'
  BY <1>1, <1>2, <1>3 DEF LossIsReported, InteractiveOnlyConnected, NewsIsTrue
<1> QED
  BY <1>4, <1>5, <1>6, <1>7, <1>8, <1>9, <1>10, <1>11, <1>12, <1>13, <1>14, <1>15
     DEF Shape, IntentsAreSingle

\* The answer to the query is a snapshot.
LEMMA ConnectedKeeps ==
  ASSUME ControlInv, Connected
  PROVE  ControlInv'
<1> USE DEF ControlInv, ControlSafe
<1>1. ovl.pc = "query" /\ ovl.slot \in Slots /\ Replied
  BY ClientSlot DEF Connected
<1>2. /\ sess[ovl.slot].outbox # NoMsg /\ sess[ovl.slot].inbox = <<>>
      /\ UNCHANGED <<store, supervisor, cmds, ui, uis, asked, caused, effects>>
  BY <1>1 DEF Connected, Replied, Shape, SessionsShape, SessionShape, serverVars, uiVars
<1>3. SUFFICES ASSUME sess[ovl.slot].outbox.kind = "query" PROVE ControlInv'
  BY <1>1, <1>2, ClientFailsKeeps DEF Connected
<1>4. PICK s, r :
         /\ s = ovl.slot /\ r = sess[s].outbox /\ r.kind = "query"
         /\ ovl' = [ovl EXCEPT !.pc = "loop", !.version = r.version, !.settings = r.settings]
         /\ evt' = [kind |-> "connected", version |-> r.version, settings |-> r.settings]
         /\ sess' = [sess EXCEPT ![s].outbox = NoMsg]
  BY <1>3 DEF Connected
<1>5. DOMAIN Idle = {"pc", "slot", "reported", "version", "settings", "intent", "retried", "stop"}
  BY DEF Idle
<1>6. /\ s \in Slots /\ Snap(r) \in Snapshots /\ Settled(r.settings)
      /\ r.version \in 1..MaxVersion
  BY <1>1, <1>4, SnapshotIs, SnapshotVersion DEF Answers, Shape, SessionsShape, SessionShape
<1>7. /\ DOMAIN ovl' = DOMAIN Idle /\ ovl'.pc = "loop" /\ ovl'.slot = s
      /\ ovl'.reported = ovl.reported /\ ovl'.stop = ovl.stop /\ ovl'.retried = ovl.retried
      /\ ovl'.intent = ovl.intent /\ ovl'.version = r.version /\ ovl'.settings = r.settings
  BY <1>4, <1>5 DEF Shape, ClientShape
<1>8. evt'.kind = "connected" /\ Snap(evt') = Snap(r) /\ Snap(ovl') = Snap(r)
  BY <1>4, <1>7 DEF Snap
<1>9. /\ DOMAIN sess' = Slots /\ \A t \in Slots : t # s => sess'[t] = sess[t]
      /\ DOMAIN sess'[s] = DOMAIN FreeSession /\ sess'[s].phase = sess[s].phase
      /\ sess'[s].peer = sess[s].peer /\ sess'[s].role = sess[s].role
      /\ sess'[s].inbox = <<>> /\ sess'[s].outbox = NoMsg
  <2> DEFINE new == [sess[s] EXCEPT !.outbox = NoMsg]
  <2>1. /\ DOMAIN sess = Slots /\ DOMAIN sess[s] = DOMAIN FreeSession
        /\ sess' = [sess EXCEPT ![s] = new]
    BY <1>4, <1>6 DEF Shape, SessionsShape, SessionShape
  <2>2. /\ DOMAIN new = DOMAIN FreeSession /\ new.phase = sess[s].phase
        /\ new.peer = sess[s].peer /\ new.role = sess[s].role
        /\ new.inbox = sess[s].inbox /\ new.outbox = NoMsg
    BY <2>1, FreeShape
  <2> HIDE DEF new
  <2> QED
    BY <1>2, <1>4, <1>6, <2>1, <2>2
<1>10. \A t \in Slots : \A i : Carries(t, i)' <=> Carries(t, i)
  BY <1>2, <1>4, <1>9 DEF Carries
<1>11. ControlTypeOK'
  BY <1>2, <1>7, <1>9, Len(<<>>) = 0 DEF ControlTypeOK
<1>12. SessionsShape'
  <2> SUFFICES ASSUME NEW t \in Slots PROVE SessionShape(t)'
    BY <1>9 DEF SessionsShape
  <2>1. CASE t = s
    BY <1>9, GreetingFacts, <2>1, FreeShape DEF SessionShape, Shape, SessionsShape, Answers
  <2>2. CASE t # s
    BY <1>9, <2>2 DEF SessionShape, Shape, SessionsShape
  <2> QED
    BY <2>1, <2>2
<1>13. ClientShape'
  BY <1>1, <1>4, <1>6, <1>7, MaxVersionAssumption DEF Shape, ClientShape
<1>14. LoopShape'
  BY <1>2, <1>8 DEF Shape, LoopShape
<1>15. SlotsAreOwned'
  BY <1>2, <1>4, <1>7, <1>9 DEF SlotsAreOwned
<1>16. AtMostOnce'
  BY <1>2 DEF AtMostOnce
<1>17. QueuedIsUntouched'
  BY <1>2, <1>7, <1>10 DEF IntentsAreSingle, QueuedIsUntouched, Untouched
<1>18. CarriedOnce'
  BY <1>2, <1>10 DEF IntentsAreSingle, CarriedOnce
<1>19. ClientWaitsForOne'
  BY <1>7, <1>9 DEF ClientWaitsForOne
<1>20. VersionNamesSettings' /\ SnapshotsAreOld'
  BY <1>2, <1>6, <1>8, <1>9, FreeShape, SnapshotsAgree, SnapshotIs DEF Known, Answers
<1>21. LockedWhenAlone'
  BY <1>2, <1>6, <1>9 DEF LockedWhenAlone, Live
<1>22. LossIsReported' /\ InteractiveOnlyConnected' /\ NewsIsTrue'
  BY <1>1, <1>2, <1>7, <1>8 DEF LossIsReported, InteractiveOnlyConnected, NewsIsTrue
<1> QED
  BY <1>11, <1>12, <1>13, <1>14, <1>15, <1>16, <1>17, <1>18, <1>19, <1>20, <1>21, <1>22
     DEF Shape, IntentsAreSingle

\* The intent leaves the queue and is carried by one request.
LEMMA SendIntentKeeps ==
  ASSUME ControlInv, SendIntent
  PROVE  ControlInv'
<1> USE DEF ControlInv, ControlSafe
<1>1. /\ ovl.pc = "loop" /\ ovl.slot \in Slots /\ cmds # <<>>
      /\ sess[ovl.slot].inbox = <<>> /\ sess[ovl.slot].outbox = NoMsg
      /\ cmds' = Tail(cmds)
      /\ UNCHANGED <<store, supervisor, evt, ui, uis, asked, caused, effects>>
  BY ClientSlot DEF SendIntent, IntentsAreSingle, ClientWaitsForOne, serverVars, uiVars
<1>2. /\ Len(cmds) >= 1 /\ Head(cmds) = cmds[1] /\ Len(cmds) \in Nat
      /\ IsSequence(cmds') /\ Len(cmds') = Len(cmds) - 1
      /\ \A k \in 1..Len(cmds') : cmds'[k] = cmds[k + 1]
  BY <1>1, SequenceTail DEF Shape, LoopShape, IsSequence
<1>3. PICK s, c, v :
         /\ s = ovl.slot /\ c = cmds[1]
         /\ ovl' = [ovl EXCEPT !.pc = "wait", !.intent = c, !.retried = FALSE]
         /\ sess' = [sess EXCEPT ![s].inbox = Append(@, RequestFor(c, v, ovl.settings))]
  BY <1>2 DEF SendIntent
<1>4. /\ Command(c) /\ c.id \in 1..MaxIntents /\ c.id <= caused
      /\ Untouched(c.id) /\ \A k \in 1..Len(cmds') : cmds'[k].id # c.id
  BY SMTT(40), <1>2, <1>3 DEF Shape, LoopShape, Command, IntentsAreSingle, QueuedIsUntouched
<1>5. PICK m : m = RequestFor(c, v, ovl.settings) /\ Decodes(m) /\ m.id = c.id
  BY <1>1, <1>4, RequestDecodes DEF Shape, ClientShape
<1>6. DOMAIN Idle = {"pc", "slot", "reported", "version", "settings", "intent", "retried", "stop"}
  BY DEF Idle
<1>7. /\ DOMAIN ovl' = DOMAIN Idle /\ ovl'.pc = "wait" /\ ovl'.slot = s
      /\ ovl'.reported = ovl.reported /\ ovl'.stop = ovl.stop /\ ovl'.retried = FALSE
      /\ ovl'.intent = c /\ ovl'.version = ovl.version /\ ovl'.settings = ovl.settings
  BY <1>3, <1>6 DEF Shape, ClientShape
<1>8. /\ DOMAIN sess' = Slots /\ \A t \in Slots : t # s => sess'[t] = sess[t]
      /\ DOMAIN sess'[s] = DOMAIN FreeSession /\ sess'[s].phase = sess[s].phase
      /\ sess'[s].peer = sess[s].peer /\ sess'[s].role = sess[s].role
      /\ sess'[s].inbox = <<m>> /\ sess'[s].outbox = NoMsg
  <2> DEFINE new == [sess[s] EXCEPT !.inbox = <<m>>]
  <2>1. /\ DOMAIN sess = Slots /\ DOMAIN sess[s] = DOMAIN FreeSession
        /\ sess' = [sess EXCEPT ![s] = new]
    BY <1>1, <1>3, <1>5, OneElement DEF Shape, SessionsShape, SessionShape
  <2>2. /\ DOMAIN new = DOMAIN FreeSession /\ new.phase = sess[s].phase
        /\ new.peer = sess[s].peer /\ new.role = sess[s].role
        /\ new.inbox = <<m>> /\ new.outbox = sess[s].outbox
    BY <2>1, FreeShape
  <2> HIDE DEF new
  <2> QED
    BY <1>1, <1>3, <2>1, <2>2
<1>9. OneFrame(<<m>>) /\ Len(<<m>>) = 1 /\ <<m>> # <<>> /\ <<m>> # Greeting
  BY <1>5, OneElement, GreetingFacts DEF OneFrame
<1>10. /\ \A t \in Slots : \A i : t # s => (Carries(t, i)' <=> Carries(t, i))
       /\ \A i : Carries(s, i)' <=> i = c.id
       /\ \A i : ~Carries(s, i)
  BY <1>1, <1>3, <1>5, <1>8, OneElement DEF Carries
<1>11. ControlTypeOK'
  <2> SUFFICES ASSUME NEW t \in Slots
               PROVE  /\ sess'[t].phase \in {"free", "open", "gone"}
                      /\ sess'[t].role \in {"none", "Overlay", "ManagementUi"}
                      /\ Len(sess'[t].inbox) <= 3
    BY <1>1, <1>2, <1>7, CapacityAssumption DEF ControlTypeOK
  <2>1. CASE t = s
    <3>1. Len(sess'[t].inbox) = 1
      BY <1>8, <1>9, <2>1
    <3>2. sess'[t].phase = sess[t].phase /\ sess'[t].role = sess[t].role
      BY <1>8, <2>1
    <3> QED
      BY <3>1, <3>2 DEF ControlTypeOK
  <2>2. CASE t # s
    BY <1>8, <2>2 DEF ControlTypeOK
  <2> QED
    BY <2>1, <2>2
<1>12. SessionsShape'
  <2> SUFFICES ASSUME NEW t \in Slots PROVE SessionShape(t)'
    BY <1>8 DEF SessionsShape
  <2>1. CASE t = s
    BY <1>1, <1>3, <1>8, <1>9, <2>1, FreeShape DEF SessionShape, Shape, SessionsShape, Answers
  <2>2. CASE t # s
    BY <1>8, <2>2 DEF SessionShape, Shape, SessionsShape
  <2> QED
    BY <2>1, <2>2
<1>13. ClientShape'
  BY <1>1, <1>3, <1>7 DEF Shape, ClientShape
<1>14. LoopShape'
  BY <1>1, <1>2 DEF Shape, LoopShape
<1>15. SlotsAreOwned'
  BY <1>1, <1>3, <1>7, <1>8 DEF SlotsAreOwned
<1>16. AtMostOnce'
  BY <1>1 DEF AtMostOnce
<1>17. QueuedIsUntouched'
  <2>1. ASSUME NEW i \in 1..MaxIntents, Untouched(i), i # c.id PROVE Untouched(i)'
    BY <1>1, <1>7, <1>10, <2>1 DEF Untouched
  <2>2. \A i \in 1..MaxIntents : i > caused' => Untouched(i)'
    BY <1>1, <1>4, <2>1, BoundsAssumption DEF IntentsAreSingle, QueuedIsUntouched, Shape, LoopShape
  <2>3. ASSUME NEW k \in 1..Len(cmds') PROVE cmds'[k].id <= caused' /\ Untouched(cmds[k].id)'
    <3>1. /\ k + 1 \in 1..Len(cmds) /\ cmds'[k] = cmds[k + 1] /\ cmds'[k].id # c.id
          /\ Untouched(cmds[k + 1].id) /\ cmds[k + 1].id \in 1..MaxIntents
          /\ cmds[k + 1].id <= caused
      BY <1>2, <1>4 DEF IntentsAreSingle, QueuedIsUntouched, Shape, LoopShape, Command
    <3> QED
      BY <1>1, <1>7, <1>10, <3>1 DEF Untouched
  <2>4. \A k, l \in 1..Len(cmds') : cmds'[k].id = cmds'[l].id => k = l
    <3> SUFFICES ASSUME NEW k \in 1..Len(cmds'), NEW l \in 1..Len(cmds'),
                        cmds'[k].id = cmds'[l].id
                 PROVE  k = l
      OBVIOUS
    <3>1. /\ k + 1 \in 1..Len(cmds) /\ l + 1 \in 1..Len(cmds)
          /\ cmds[k + 1].id = cmds[l + 1].id
      BY SMTT(40), <1>2
    <3>2. k + 1 = l + 1
      BY <3>1 DEF IntentsAreSingle, QueuedIsUntouched
    <3> QED
      BY <3>2, <1>2
  <2> QED
    BY <2>2, <2>3, <2>4 DEF QueuedIsUntouched
<1>18. CarriedOnce'
  BY <1>1, <1>4, <1>10 DEF IntentsAreSingle, CarriedOnce, Untouched
<1>19. ClientWaitsForOne'
  <2>1. Carries(ovl.slot, ovl.intent.id)'
    BY <1>5, <1>7, <1>8, OneElement DEF Carries
  <2>2. \A t \in Slots : Carries(t, ovl.intent.id)' => t = ovl'.slot
    BY <1>4, <1>7, <1>8 DEF Carries, Untouched
  <2> QED
    BY <1>4, <1>7, <1>8, <2>1, <2>2, FreeShape DEF ClientWaitsForOne
<1>20. VersionNamesSettings' /\ SnapshotsAreOld'
  BY SMTT(40), <1>1, <1>7, <1>8, FreeShape, SnapshotsAgree, SnapshotIs DEF Known, Answers, Snap
<1>21. LockedWhenAlone'
  BY <1>1, <1>3, <1>8 DEF LockedWhenAlone, Live
<1>22. LossIsReported' /\ InteractiveOnlyConnected' /\ NewsIsTrue'
  BY <1>1, <1>7 DEF LossIsReported, InteractiveOnlyConnected, NewsIsTrue
<1> QED
  BY <1>11, <1>12, <1>13, <1>14, <1>15, <1>16, <1>17, <1>18, <1>19, <1>20, <1>21, <1>22
     DEF Shape, IntentsAreSingle

\* Only a version conflict, which changed nothing, is sent again.
LEMMA AnsweredKeeps ==
  ASSUME ControlInv, Answered
  PROVE  ControlInv'
<1> USE DEF ControlInv, ControlSafe
<1>1. ovl.pc = "wait" /\ ovl.slot \in Slots /\ Replied
  BY ClientSlot DEF Answered
<1>2. /\ sess[ovl.slot].outbox # NoMsg /\ sess[ovl.slot].inbox = <<>>
      /\ UNCHANGED <<store, supervisor, cmds, ui, uis, asked, caused, effects>>
  BY <1>1 DEF Answered, Replied, Shape, SessionsShape, SessionShape, serverVars, uiVars
<1>3. SUFFICES ASSUME sess[ovl.slot].outbox.kind = ovl.intent.kind PROVE ControlInv'
  BY <1>1, <1>2, ClientFailsKeeps DEF Answered
<1>4. PICK s, r, c, m, x :
         /\ s = ovl.slot /\ r = sess[s].outbox /\ c = ovl.intent
         /\ m = RequestFor(c, r.version, r.settings)
         /\ x = (Conflict(r) /\ ~ovl.retried)
  OBVIOUS
<1>5. /\ r.kind = c.kind
      /\ evt' = [kind |-> "applied", version |-> r.version, settings |-> r.settings]
      /\ ovl' = [ovl EXCEPT !.version = r.version, !.settings = r.settings,
                            !.pc = IF x THEN "wait" ELSE "loop",
                            !.retried = x, !.intent = IF x THEN @ ELSE NoIntent]
      /\ sess' = [sess EXCEPT ![s] =
            [sess[s] EXCEPT !.outbox = NoMsg, !.inbox = IF x THEN Append(@, m) ELSE @]]
  BY <1>3, <1>4 DEF Answered
<1>6. x \in BOOLEAN /\ (x => Conflict(r))
  BY <1>4
<1>7. PICK b : \/ b = "again" /\ x /\ Conflict(r)
               \/ b = "done" /\ ~x
  BY <1>6
<1>8. DOMAIN Idle = {"pc", "slot", "reported", "version", "settings", "intent", "retried", "stop"}
  BY DEF Idle
<1>9. /\ Command(c) /\ c.id \in 1..MaxIntents /\ NoIntent.id = 0
      /\ \A t \in Slots : Carries(t, c.id) => t = s
      /\ r.kind \in {"action", "patch"} /\ x \in BOOLEAN /\ (b = "again" => effects[c.id] = 0)
  BY <1>1, <1>4, <1>5, <1>7 DEF IntentsAreSingle, ClientWaitsForOne, Command, Conflict, NoIntent
<1>10. /\ s \in Slots /\ Snap(r) \in Snapshots /\ Settled(r.settings)
       /\ r.version \in 1..MaxVersion
  BY <1>1, <1>4, <1>5, <1>7, <1>9, SnapshotIs, SnapshotVersion DEF Answers, Shape, SessionsShape, SessionShape
<1>11. Decodes(m) /\ m.id = c.id
  BY <1>4, <1>5, <1>7, <1>9, <1>10, RequestDecodes
<1>12. /\ DOMAIN ovl' = DOMAIN Idle /\ ovl'.slot = s /\ ovl'.retried \in BOOLEAN
       /\ ovl'.reported = ovl.reported /\ ovl'.stop = ovl.stop
       /\ ovl'.version = r.version /\ ovl'.settings = r.settings
       /\ \/ b = "again" /\ ovl'.pc = "wait" /\ ovl'.intent = c
          \/ b = "done" /\ ovl'.pc = "loop" /\ ovl'.intent = NoIntent
  <2>1. DOMAIN ovl = DOMAIN Idle /\ ovl.slot = s /\ ovl.intent = c
    BY <1>4 DEF Shape, ClientShape
  <2>2. /\ DOMAIN ovl' = DOMAIN Idle /\ ovl'.slot = s /\ ovl'.retried = x
        /\ ovl'.reported = ovl.reported /\ ovl'.stop = ovl.stop
        /\ ovl'.version = r.version /\ ovl'.settings = r.settings
        /\ ovl'.pc = IF x THEN "wait" ELSE "loop"
        /\ ovl'.intent = IF x THEN c ELSE NoIntent
    BY <1>5, <1>8, <2>1
  <2> QED
    BY <1>6, <1>7, <2>2
<1>13. evt'.kind = "applied" /\ Snap(evt') = Snap(r) /\ Snap(ovl') = Snap(r)
  BY <1>4, <1>5, <1>7, <1>12 DEF Snap
<1>14. /\ DOMAIN sess' = Slots /\ \A t \in Slots : t # s => sess'[t] = sess[t]
       /\ DOMAIN sess'[s] = DOMAIN FreeSession /\ sess'[s].phase = sess[s].phase
       /\ sess'[s].peer = sess[s].peer /\ sess'[s].role = sess[s].role
       /\ sess'[s].outbox = NoMsg
       /\ \/ b = "again" /\ sess'[s].inbox = <<m>>
          \/ b = "done" /\ sess'[s].inbox = <<>>
  <2> DEFINE new == [sess[s] EXCEPT !.outbox = NoMsg, !.inbox = IF x THEN Append(@, m) ELSE @]
  <2>1. /\ DOMAIN sess = Slots /\ DOMAIN sess[s] = DOMAIN FreeSession
        /\ sess' = [sess EXCEPT ![s] = new] /\ sess[s].inbox = <<>>
    <3>1. DOMAIN sess = Slots /\ DOMAIN sess[s] = DOMAIN FreeSession
      BY <1>10 DEF Shape, SessionsShape, SessionShape
    <3>2. sess' = [sess EXCEPT ![s] = new]
      <4>1. sess' = [sess EXCEPT ![s] =
              [sess[s] EXCEPT !.outbox = NoMsg, !.inbox = IF x THEN Append(@, m) ELSE @]]
        BY <1>5
      <4> QED
        BY <4>1
    <3>3. sess[s].inbox = <<>>
      BY <1>2, <1>4, <1>10 DEF Shape, SessionsShape, SessionShape
    <3> QED
      BY <3>1, <3>2, <3>3
  <2>2. /\ DOMAIN new = DOMAIN FreeSession /\ new.phase = sess[s].phase
        /\ new.peer = sess[s].peer /\ new.role = sess[s].role
        /\ new.outbox = NoMsg
        /\ new.inbox = IF x THEN Append(sess[s].inbox, m) ELSE sess[s].inbox
    BY <2>1, FreeShape
  <2>3. \/ b = "again" /\ new.inbox = <<m>>
        \/ b = "done" /\ new.inbox = <<>>
    <3>1. CASE b = "again"
      BY <1>7, <2>1, <2>2, <3>1, OneElement
    <3>2. CASE b = "done"
      BY <1>7, <2>1, <2>2, <3>2
    <3> QED
      BY <1>7, <3>1, <3>2
  <2> HIDE DEF new
  <2> QED
    BY <1>10, <2>1, <2>2, <2>3
<1>15. OneFrame(<<m>>) /\ Len(<<m>>) = 1 /\ <<m>> # <<>> /\ <<m>> # Greeting
  BY <1>11, OneElement, GreetingFacts DEF OneFrame
<1>16. /\ \A t \in Slots : \A i : t # s => (Carries(t, i)' <=> Carries(t, i))
       /\ \A i : Carries(s, i)' <=> (b = "again" /\ i = c.id)
       /\ \A i : ~Carries(s, i)
  <2>1. \A t \in Slots : \A i : t # s => (Carries(t, i)' <=> Carries(t, i))
    BY <1>14 DEF Carries
  <2>2. \A i : ~Carries(s, i)
    BY <1>2, <1>4 DEF Carries
  <2>3. CASE b = "again"
    BY <1>11, <1>14, <2>1, <2>2, <2>3, OneElement DEF Carries
  <2>4. CASE b = "done"
    BY <1>14, <2>1, <2>2, <2>4 DEF Carries
  <2> QED
    BY <1>7, <2>3, <2>4
<1>17. ControlTypeOK'
  <2> SUFFICES ASSUME NEW t \in Slots
               PROVE  /\ sess'[t].phase \in {"free", "open", "gone"}
                      /\ sess'[t].role \in {"none", "Overlay", "ManagementUi"}
                      /\ Len(sess'[t].inbox) <= 3
    BY <1>2, <1>12 DEF ControlTypeOK
  <2>1. CASE t = s
    <3>1. Len(sess'[t].inbox) <= 3
      <4>1. CASE b = "again"
        <5>1. sess'[t].inbox = <<m>>
          BY <1>14, <2>1, <4>1
        <5> QED
          BY <1>15, <5>1
      <4>2. CASE b = "done"
        <5>1. sess'[t].inbox = <<>>
          BY <1>14, <2>1, <4>2
        <5>2. Len(<<>>) = 0
          OBVIOUS
        <5> QED
          BY <5>1, <5>2
      <4> QED
        BY <1>7, <4>1, <4>2
    <3>2. sess'[t].phase = sess[t].phase /\ sess'[t].role = sess[t].role
      BY <1>14, <2>1
    <3> QED
      BY <3>1, <3>2 DEF ControlTypeOK
  <2>2. CASE t # s
    BY <1>14, <2>2 DEF ControlTypeOK
  <2> QED
    BY <2>1, <2>2
<1>18. SessionsShape'
  <2> SUFFICES ASSUME NEW t \in Slots PROVE SessionShape(t)'
    BY <1>14 DEF SessionsShape
  <2>1. CASE t = s
    BY <1>4, <1>5, <1>7, <1>10, <1>14, <1>15, GreetingFacts, <2>1, FreeShape DEF SessionShape, Shape, SessionsShape, Answers
  <2>2. CASE t # s
    BY <1>14, <2>2 DEF SessionShape, Shape, SessionsShape
  <2> QED
    BY <2>1, <2>2
<1>19. ClientShape'
  BY <1>1, <1>4, <1>5, <1>7, <1>10, <1>12, MaxVersionAssumption DEF Shape, ClientShape
<1>20. LoopShape'
  BY <1>2, <1>13 DEF Shape, LoopShape
<1>21. SlotsAreOwned'
  <2>1. /\ uis' = uis /\ supervisor' = supervisor
        /\ ovl'.slot = ovl.slot
    BY <1>2, <1>4, <1>12
  <2>2. \A t \in Slots : sess'[t].phase = sess[t].phase /\ sess'[t].peer = sess[t].peer
    BY <1>14
  <2> QED
    BY <2>1, <2>2 DEF SlotsAreOwned
<1>22. AtMostOnce'
  BY <1>2 DEF AtMostOnce
<1>23. QueuedIsUntouched'
  <2>1. ASSUME NEW i \in 1..MaxIntents, Untouched(i) PROVE Untouched(i)'
    BY <1>2, <1>4, <1>5, <1>7, <1>9, <1>12, <1>16, <2>1 DEF Untouched
  <2>2. \A k \in 1..Len(cmds) : cmds[k].id \in 1..MaxIntents
    BY DEF Shape, LoopShape, Command
  <2>3. \A k \in 1..Len(cmds') : Untouched(cmds[k].id)'
    BY <1>2, <1>4, <1>5, <1>7, <1>9, <1>12, <1>16, <2>2 DEF Untouched, IntentsAreSingle, QueuedIsUntouched
  <2> QED
    BY <1>2, <2>1, <2>3 DEF IntentsAreSingle, QueuedIsUntouched
<1>24. CarriedOnce'
  BY <1>2, <1>9, <1>16 DEF IntentsAreSingle, CarriedOnce
<1>25. ClientWaitsForOne'
  <2>1. CASE b = "done"
    BY <1>12, <1>14, <2>1 DEF ClientWaitsForOne
  <2>2. CASE b = "again"
    <3>1. Carries(ovl.slot, ovl.intent.id)'
      BY <1>11, <1>12, <1>14, <2>2, OneElement DEF Carries
    <3>2. \A t \in Slots : Carries(t, ovl.intent.id)' => t = ovl'.slot
      BY <1>9, <1>12, <1>14, <2>2 DEF Carries
    <3> QED
      BY <1>9, <1>12, <1>14, <2>2, <3>1, <3>2, FreeShape DEF ClientWaitsForOne
  <2> QED
    BY <1>4, <1>5, <1>7, <2>1, <2>2
<1>26. VersionNamesSettings' /\ SnapshotsAreOld'
  BY <1>2, <1>10, <1>13, <1>14, FreeShape, SnapshotsAgree, SnapshotIs DEF Known, Answers
<1>27. LockedWhenAlone'
  BY <1>2, <1>10, <1>14 DEF LockedWhenAlone, Live
<1>28. LossIsReported' /\ InteractiveOnlyConnected' /\ NewsIsTrue'
  BY <1>1, <1>2, <1>12, <1>13 DEF LossIsReported, InteractiveOnlyConnected, NewsIsTrue
<1> QED
  BY <1>17, <1>18, <1>19, <1>20, <1>21, <1>22, <1>23, <1>24, <1>25, <1>26, <1>27, <1>28
     DEF Shape, IntentsAreSingle

-----------------------------------------------------------------------------
\* A step that changes nothing keeps the invariant.
LEMMA ControlStutters ==
  ASSUME ControlInv, UNCHANGED controlVars
  PROVE  ControlInv'
<1> USE DEF ControlInv, ControlSafe
<1>1. UNCHANGED <<store, supervisor, sess, ovl, cmds, evt, ui, uis, caused, effects>>
  BY DEF controlVars
<1>2. \A t \in Slots : \A i : Carries(t, i)' <=> Carries(t, i)
  BY <1>1 DEF Carries
<1>3. Snapshots' = Snapshots
  BY <1>1 DEF Snapshots
<1>4. ControlTypeOK'
  BY <1>1 DEF ControlTypeOK
<1>5. Shape'
  BY <1>1 DEF Shape, SessionsShape, SessionShape, ClientShape, LoopShape
<1>6. SlotsAreOwned'
  BY <1>1 DEF SlotsAreOwned
<1>7. QueuedIsUntouched'
  BY <1>1, <1>2 DEF IntentsAreSingle, QueuedIsUntouched, Untouched
<1>8. CarriedOnce' /\ AtMostOnce'
  BY <1>1, <1>2 DEF IntentsAreSingle, CarriedOnce, AtMostOnce
<1>9. ClientWaitsForOne'
  BY <1>1, <1>2, ClientSlot DEF IntentsAreSingle, ClientWaitsForOne
<1>10. VersionNamesSettings' /\ SnapshotsAreOld'
  BY <1>1, <1>3 DEF VersionNamesSettings, SnapshotsAreOld
<1>11. LockedWhenAlone'
  BY <1>1 DEF LockedWhenAlone, Live
<1>12. LossIsReported' /\ InteractiveOnlyConnected' /\ NewsIsTrue'
  BY <1>1 DEF LossIsReported, InteractiveOnlyConnected, NewsIsTrue
<1> QED
  BY <1>4, <1>5, <1>6, <1>7, <1>8, <1>9, <1>10, <1>11, <1>12 DEF IntentsAreSingle

\* The invariant holds at first.
LEMMA ControlInitial == ControlInit => ControlInv
<1> SUFFICES ASSUME ControlInit PROVE ControlInv
  OBVIOUS
<1> USE DEF ControlInit
<1>1. PICK s \in InitialSettings : store = NewStore(s)
  OBVIOUS
<1>2. store.version = 1 /\ store.settings = s /\ Settled(s) /\ Valid(s) /\ 1 \in 1..MaxVersion
  BY <1>1, StartAssumption, MaxVersionAssumption DEF NewStore
<1>3. \A t \in Slots : sess[t] = FreeSession
  OBVIOUS
<1>4. /\ ovl.pc = "connect" /\ ovl.slot = 0 /\ ovl.version = 0 /\ ovl.intent.id = 0
      /\ ovl.stop = FALSE /\ ovl.reported = FALSE /\ ovl.retried = FALSE
  BY DEF Idle, NoIntent
<1>5. evt.kind = "none" /\ ui.connected = FALSE /\ ui.version = 0 /\ ui.mode = "Locked"
  BY DEF NoNews, UiUnknown
<1>6. Len(cmds) = 0 /\ IsSequence(cmds) /\ 1..0 = {}
  <2>1. cmds \in Seq({})
    OBVIOUS
  <2>2. IsSequence(cmds)
    BY <2>1, SequenceIsFunction
  <2>3. Len(cmds) = 0 /\ 1..0 = {}
    OBVIOUS
  <2> QED
    BY <2>2, <2>3
<1>7. \A t \in Slots : \A i : ~Carries(t, i)
  BY <1>3, FreeShape DEF Carries
<1>8. ControlTypeOK
  <2>1. Len(<<>>) = 0
    OBVIOUS
  <2>2. \A t \in Slots : /\ sess[t].phase = "free" /\ sess[t].role = "none"
                         /\ Len(sess[t].inbox) = 0
    BY <1>3, <2>1, FreeShape
  <2>3. uis \in [Uis -> 0..MaxSessions]
    BY ZeroInRange
  <2> QED
    BY <1>2, <1>4, <1>6, <2>2, <2>3, CapacityAssumption DEF ControlTypeOK, Settled
<1>9. SessionsShape
  BY <1>3, FreeShape DEF SessionsShape, SessionShape, Answers
<1>10. ClientShape
  BY <1>4, ZeroInRange DEF ClientShape
<1>11. LoopShape
  <2>1. caused \in 0..MaxIntents
    BY BoundsAssumption
  <2>2. effects \in [1..MaxIntents -> Nat]
    OBVIOUS
  <2>3. evt = NoNews /\ ui = UiUnknown
    OBVIOUS
  <2>4. \A k \in 1..Len(cmds) : Command(cmds[k])
    BY <1>6
  <2> QED
    BY <1>5, <1>6, <2>1, <2>2, <2>3, <2>4, ZeroInRange DEF LoopShape
<1>12. SlotsAreOwned
  BY <1>4, SessionsAssumption DEF SlotsAreOwned, Slots
<1>13. QueuedIsUntouched
  BY <1>4, <1>6, <1>7 DEF QueuedIsUntouched, Untouched
<1>14. CarriedOnce /\ ClientWaitsForOne /\ AtMostOnce
  BY <1>4, <1>7 DEF CarriedOnce, ClientWaitsForOne, AtMostOnce
<1>15. \A x \in Snapshots : x = Snap(store)
  BY <1>3, <1>4, <1>5, FreeShape, SnapshotIs DEF Answers
<1>16. VersionNamesSettings /\ SnapshotsAreOld
  BY <1>2, <1>15 DEF VersionNamesSettings, SnapshotsAreOld, Snap
<1>17. LockedWhenAlone
  BY <1>2 DEF LockedWhenAlone
<1>18. LossIsReported /\ InteractiveOnlyConnected /\ NewsIsTrue
  BY <1>5 DEF LossIsReported, InteractiveOnlyConnected, NewsIsTrue
<1> QED
  BY <1>8, <1>9, <1>10, <1>11, <1>12, <1>13, <1>14, <1>16, <1>17, <1>18
     DEF ControlInv, ControlSafe, Shape, IntentsAreSingle

LEMMA UiOpenKeeps ==
  ASSUME ControlInv, NEW u \in Uis, UiOpen(u)
  PROVE  ControlInv'
<1>1. uis[u] = 0 /\ supervisor = "accepting" /\ UNCHANGED <<store, ovl, cmds, evt, ui, caused, effects>>
  BY DEF UiOpen
<1>2. CASE \E s \in Serving : /\ Opened(s, <<>>)
                              /\ uis' = [uis EXCEPT ![u] = s]
                              /\ UNCHANGED supervisor
  BY <1>1, <1>2, UiOpensKeeps
<1>3. CASE /\ supervisor' = IF Cardinality(Live) = MaxSessions THEN "failed" ELSE supervisor
           /\ UNCHANGED <<sess, uis>>
  <2>1. supervisor' \in {supervisor, "failed"}
    BY <1>3
  <2> QED
    BY <1>1, <1>3, <2>1, UiRefusedKeeps
<1> QED
  BY <1>2, <1>3 DEF UiOpen

\* The steps of the client thread, of a session worker, and all.
LEMMA WorkerKeeps ==
  ASSUME ControlInv, Worker
  PROVE  ControlInv'
<1>1. CASE RequestFails
  BY <1>1, ClientFailsKeeps DEF RequestFails, serverVars, uiVars
<1> QED
  BY <1>1, ConnectKeeps, ConnectFailsKeeps, ConnectedKeeps, SendIntentKeeps, AnsweredKeeps,
     ClientStopsKeeps DEF Worker

LEMMA SessionKeeps ==
  ASSUME ControlInv, NEW s \in Slots, Session(s)
  PROVE  ControlInv'
<1>1. CASE HandleFrame(s)
  BY <1>1, GreetedKeeps, HandledKeeps
<1> QED
  BY <1>1, EndSessionKeeps, ReapKeeps DEF Session

LEMMA ControlStep == ControlInv /\ [ControlNext]_controlVars => ControlInv'
<1> SUFFICES ASSUME ControlInv, [ControlNext]_controlVars PROVE ControlInv'
  OBVIOUS
<1>1. CASE Worker
  BY <1>1, WorkerKeeps
<1>2. CASE \E s \in Slots : Session(s)
  BY <1>2, SessionKeeps
<1>3. CASE Shutdown \/ SupervisorDone
  BY <1>3, ShutdownKeeps, SupervisorDoneKeeps
<1>4. CASE \E i \in Intents : Submit(i)
  BY <1>4, SubmitKeeps
<1>5. CASE TakeEvent \/ StopClient \/ OverlayRestarts
  BY <1>5, TakeEventKeeps, StopClientKeeps, OverlayRestartsKeeps
<1>6. CASE \E u \in Uis : UiOpen(u) \/ UiRequest(u) \/ UiClose(u)
  BY <1>6, UiOpenKeeps, UiRequestKeeps, UiCloseKeeps
<1>7. CASE UNCHANGED controlVars
  BY <1>7, ControlStutters
<1> QED
  BY <1>1, <1>2, <1>3, <1>4, <1>5, <1>6, <1>7 DEF ControlNext

\* ControlInv is an invariant of the control channel for any number of sessions,
\* management clients, intents and any queue length: every step of the core's
\* session workers, of the overlay's client thread and main loop and of the
\* management clients keeps it.
THEOREM ControlInvariant == ControlSpec => []ControlInv
<1>1. ControlInit => ControlInv
  BY ControlInitial
<1>2. ControlInv /\ [ControlNext]_controlVars => ControlInv'
  BY ControlStep
<1> QED
  BY <1>1, <1>2, PTL DEF ControlSpec

\* ControlSafe always holds: an intent of the overlay takes effect at most once
\* whatever is retried or lost, a settings version names one settings value, the
\* overlay is locked when no established session is left, and a lost connection
\* is reported before the overlay may capture input again.
THEOREM ControlAlwaysSafe == ControlSpec => []ControlSafe
<1>1. ControlInv => ControlSafe
  BY DEF ControlInv
<1> QED
  BY <1>1, ControlInvariant, PTL

-----------------------------------------------------------------------------
(* The cloud session of the desktop application, for every number of       *)
(* callers that share its manager.  The mutex is what everything rests on: *)
(* only the first in the queue is past its lock, so nobody logs out,       *)
(* refreshes or logs in while another does.                                *)

InLogin == {"registering", "waiting", "exchanging"}
Places == {"idle", "locking", "refreshing", "interactive"} \cup InLogin

CloudTypeOK ==
    /\ queue \in Seq(Callers)
    /\ pc \in [Callers -> Places]
    /\ flow \in Nat /\ loggedOut \in Nat
    /\ listener \in {None} \cup
         [flow: Nat, port: Ports, backlog: Seq([flow: Nat, granted: BOOLEAN])]
    /\ tabs \subseteq [flow: Nat, port: Ports]

\* Nobody queues twice or after its call has returned, and only the holder of
\* the mutex is past it.
MutexIsOwned ==
    /\ \A i, j \in 1..Len(queue) : queue[i] = queue[j] => i = j
    /\ \A i \in 1..Len(queue) : pc[queue[i]] # "idle"
    /\ \A c \in Callers : pc[c] \notin {"idle", "locking"} => queue # <<>> /\ Head(queue) = c

\* A listener is of the newest login, which began after the last logout, and
\* there is a code only while it is exchanged.
LoginIsCurrent ==
    /\ loggedOut <= flow
    /\ \A c \in Callers : pc[c] \in InLogin => listener # None /\ listener.flow > loggedOut
    /\ (\A c \in Callers : pc[c] # "exchanging") => code = 0

\* The session belongs to the client registered for its login, and its token
\* is honoured for that client unless the grant was withdrawn.
SessionIsClients ==
    session # None =>
      /\ session.flow = client
      /\ \/ [refresh |-> session.refresh, client |-> client] \in live
         \/ session.flow \in revoked

\* A refresh is of the session held.
RefreshHasSession == \A c \in Callers : pc[c] = "refreshing" => session # None

CloudInv ==
    /\ CloudTypeOK /\ MutexIsOwned /\ LoginIsCurrent /\ SessionIsClients /\ RefreshHasSession
    /\ CodeMeetsItsVerifier /\ LogoutIsFinal

\* CloudInv holds in the first state.
LEMMA CloudStart == CloudInit => CloudInv
  BY DEF CloudInit, CloudInv, CloudTypeOK, MutexIsOwned, LoginIsCurrent, SessionIsClients,
         RefreshHasSession, CodeMeetsItsVerifier, LogoutIsFinal, Places, InLogin, None

\* A caller that queues keeps the mutex owned.
LEMMA CallKeepsMutex ==
    ASSUME CloudInv, NEW c \in Callers, pc[c] = "idle",
           queue' = Append(queue, c), pc' = [pc EXCEPT ![c] = "locking"]
    PROVE  MutexIsOwned' /\ queue' \in Seq(Callers) /\ pc' \in [Callers -> Places]
  <1>t. queue \in Seq(Callers) /\ pc \in [Callers -> Places] BY DEF CloudInv, CloudTypeOK
  <1>1. queue' \in Seq(Callers) /\ pc' \in [Callers -> Places] BY <1>t DEF Places
  <1>2. /\ Len(queue') = Len(queue) + 1 /\ queue'[Len(queue) + 1] = c
        /\ \A i \in 1..Len(queue) : queue'[i] = queue[i]
    BY <1>t
  <1>3. \A i \in 1..Len(queue) : queue[i] \in Callers /\ queue[i] # c
    BY <1>t DEF CloudInv, MutexIsOwned
  <1>4. \A i, j \in 1..Len(queue') : queue'[i] = queue'[j] => i = j
    <2> SUFFICES ASSUME NEW i \in 1..Len(queue'), NEW j \in 1..Len(queue'), queue'[i] = queue'[j]
                 PROVE  i = j
      OBVIOUS
    <2>1. Len(queue) \in Nat BY <1>t
    <2>2. CASE i \in 1..Len(queue) /\ j \in 1..Len(queue)
      BY <1>2, <2>2 DEF CloudInv, MutexIsOwned
    <2>3. CASE i = Len(queue) + 1 \/ j = Len(queue) + 1
      BY <1>2, <1>3, <2>1, <2>3
    <2> QED BY <1>2, <2>1, <2>2, <2>3
  <1>5. \A i \in 1..Len(queue') : pc'[queue'[i]] # "idle"
    <2> SUFFICES ASSUME NEW i \in 1..Len(queue') PROVE pc'[queue'[i]] # "idle"
      OBVIOUS
    <2>1. Len(queue) \in Nat BY <1>t
    <2>2. CASE i \in 1..Len(queue)
      BY <1>t, <1>2, <1>3, <2>2 DEF CloudInv, MutexIsOwned
    <2>3. CASE i = Len(queue) + 1 BY <1>t, <1>2, <2>3
    <2> QED BY <1>2, <2>1, <2>2, <2>3
  <1>6. \A d \in Callers : pc'[d] \notin {"idle", "locking"} => queue' # <<>> /\ Head(queue') = d
    <2> SUFFICES ASSUME NEW d \in Callers, pc'[d] \notin {"idle", "locking"}
                 PROVE  queue' # <<>> /\ Head(queue') = d
      OBVIOUS
    <2>1. pc[d] \notin {"idle", "locking"} BY <1>t
    <2>2. queue # <<>> /\ Head(queue) = d BY <2>1 DEF CloudInv, MutexIsOwned
    <2> QED BY <1>t, <2>2
  <1> QED BY <1>1, <1>4, <1>5, <1>6 DEF MutexIsOwned

\* The holder's call returns: the next one in the queue is not past its lock.
LEMMA ReleaseKeepsMutex ==
    ASSUME CloudInv, NEW c \in Callers, queue # <<>>, Head(queue) = c, Release(c)
    PROVE  /\ MutexIsOwned' /\ queue' \in Seq(Callers) /\ pc' \in [Callers -> Places]
           /\ \A d \in Callers : pc'[d] \in {"idle", "locking"}
  <1>t. queue \in Seq(Callers) /\ pc \in [Callers -> Places] BY DEF CloudInv, CloudTypeOK
  <1>r. queue' = Tail(queue) /\ pc' = [pc EXCEPT ![c] = "idle"] BY DEF Release
  <1>1. queue' \in Seq(Callers) /\ pc' \in [Callers -> Places] BY <1>t, <1>r DEF Places
  <1>2. /\ Len(queue) \in Nat /\ Len(queue') = Len(queue) - 1 /\ queue[1] = c
        /\ \A i \in 1..Len(queue') : queue'[i] = queue[i + 1]
    BY <1>t, <1>r
  <1>3. \A i, j \in 1..Len(queue') : queue'[i] = queue'[j] => i = j
    <2> SUFFICES ASSUME NEW i \in 1..Len(queue'), NEW j \in 1..Len(queue'), queue'[i] = queue'[j]
                 PROVE  i = j
      OBVIOUS
    <2>1. i + 1 \in 1..Len(queue) /\ j + 1 \in 1..Len(queue) BY <1>2
    <2>2. queue[i + 1] = queue[j + 1] BY <1>2
    <2>3. i + 1 = j + 1 BY <2>1, <2>2 DEF CloudInv, MutexIsOwned
    <2> QED BY <2>3, <1>2
  <1>4. \A i \in 1..Len(queue') : pc'[queue'[i]] # "idle"
    <2> SUFFICES ASSUME NEW i \in 1..Len(queue') PROVE pc'[queue'[i]] # "idle"
      OBVIOUS
    <2>1. 1 \in 1..Len(queue) /\ i + 1 \in 1..Len(queue) /\ i + 1 # 1 BY <1>2
    <2>2. queue[i + 1] # c BY <1>2, <2>1 DEF CloudInv, MutexIsOwned
    <2>3. pc[queue[i + 1]] # "idle" /\ queue[i + 1] \in Callers
      BY <1>t, <2>1 DEF CloudInv, MutexIsOwned
    <2> QED BY <1>t, <1>r, <1>2, <2>2, <2>3
  <1>5. \A d \in Callers : pc'[d] \in {"idle", "locking"}
    BY <1>t, <1>r DEF CloudInv, MutexIsOwned
  <1> QED BY <1>1, <1>3, <1>4, <1>5 DEF MutexIsOwned

\* The holder goes on to another place.
LEMMA HolderKeepsMutex ==
    ASSUME CloudInv, NEW c \in Callers, queue # <<>>, Head(queue) = c, pc[c] # "idle",
           NEW to \in Places \ {"idle"}, pc' = [pc EXCEPT ![c] = to], UNCHANGED queue
    PROVE  /\ MutexIsOwned' /\ pc' \in [Callers -> Places]
           /\ \A d \in Callers \ {c} : pc'[d] = pc[d] /\ pc[d] \in {"idle", "locking"}
  <1>t. queue \in Seq(Callers) /\ pc \in [Callers -> Places] BY DEF CloudInv, CloudTypeOK
  <1>1. pc' \in [Callers -> Places] BY <1>t
  <1>2. \A i \in 1..Len(queue') : pc'[queue'[i]] # "idle"
    BY <1>t DEF CloudInv, MutexIsOwned
  <1>3. \A d \in Callers : pc'[d] \notin {"idle", "locking"} => queue' # <<>> /\ Head(queue') = d
    BY <1>t DEF CloudInv, MutexIsOwned
  <1>4. \A d \in Callers \ {c} : pc'[d] = pc[d] /\ pc[d] \in {"idle", "locking"}
    BY <1>t DEF CloudInv, MutexIsOwned
  <1> QED BY <1>1, <1>2, <1>3, <1>4 DEF CloudInv, MutexIsOwned

\* While one caller holds the mutex all others wait or are elsewhere; outside
\* an exchange there is no code.
LEMMA HolderIsAlone ==
    ASSUME CloudInv, NEW c \in Callers, NEW at, Holds(c, at)
    PROVE  /\ queue # <<>> /\ Head(queue) = c /\ pc[c] = at
           /\ \A d \in Callers \ {c} : pc[d] \in {"idle", "locking"}
           /\ at # "exchanging" => code = 0
  <1>1. \A d \in Callers \ {c} : pc[d] \in {"idle", "locking"}
    BY DEF Holds, CloudInv, MutexIsOwned
  <1>2. at # "exchanging" => \A d \in Callers : pc[d] # "exchanging"
    BY <1>1 DEF Holds
  <1> QED BY <1>1, <1>2 DEF Holds, CloudInv, LoginIsCurrent

\* What a call that returns must still show
LEMMA ReturnKeeps ==
    ASSUME CloudInv, NEW c \in Callers, NEW at, Holds(c, at), Release(c),
           code' = 0, listener' \in {None, listener}, UNCHANGED <<flow, tabs>>,
           loggedOut' \in {loggedOut, flow}, SessionIsClients', LogoutIsFinal'
    PROVE  CloudInv'
  <1>1. /\ MutexIsOwned' /\ queue' \in Seq(Callers) /\ pc' \in [Callers -> Places]
        /\ \A d \in Callers : pc'[d] \in {"idle", "locking"}
    BY HolderIsAlone, ReleaseKeepsMutex
  <1>2. CloudTypeOK' BY <1>1 DEF CloudInv, CloudTypeOK
  <1>3. LoginIsCurrent'
    <2>1. loggedOut' <= flow' BY DEF CloudInv, CloudTypeOK, LoginIsCurrent
    <2>2. \A d \in Callers : pc'[d] \notin InLogin BY <1>1 DEF InLogin
    <2> QED BY <2>1, <2>2 DEF LoginIsCurrent
  <1>4. CodeMeetsItsVerifier' BY DEF CodeMeetsItsVerifier
  <1>5. RefreshHasSession' BY <1>1 DEF RefreshHasSession
  <1> QED BY <1>1, <1>2, <1>3, <1>4, <1>5 DEF CloudInv

\* What a step of the holder before its login must still show
LEMMA AdvanceKeeps ==
    ASSUME CloudInv, NEW c \in Callers, NEW at \in Places \ {"idle", "exchanging"}, Holds(c, at),
           NEW to \in Places \ ({"idle"} \cup InLogin), pc' = [pc EXCEPT ![c] = to],
           UNCHANGED <<queue, browser, loggedOut>>, SessionIsClients', LogoutIsFinal',
           to = "refreshing" => session' # None
    PROVE  CloudInv'
  <1>0. /\ queue # <<>> /\ Head(queue) = c /\ pc[c] = at /\ code = 0
        /\ \A d \in Callers \ {c} : pc[d] \in {"idle", "locking"}
    BY HolderIsAlone
  <1>1. MutexIsOwned' /\ pc' \in [Callers -> Places] BY <1>0, HolderKeepsMutex
  <1>2. CloudTypeOK' BY <1>1 DEF CloudInv, CloudTypeOK, browser
  <1>3. \A d \in Callers : pc'[d] \notin InLogin
    BY <1>0, <1>1 DEF CloudInv, CloudTypeOK, InLogin
  <1>4. LoginIsCurrent' BY <1>0, <1>3 DEF CloudInv, LoginIsCurrent, browser
  <1>5. CodeMeetsItsVerifier' BY <1>0 DEF CodeMeetsItsVerifier, browser
  <1>6. RefreshHasSession' BY <1>0, <1>1 DEF RefreshHasSession, CloudInv, CloudTypeOK
  <1> QED BY <1>1, <1>2, <1>4, <1>5, <1>6 DEF CloudInv

\* A session that nobody touches stays what it was.
LEMMA SessionStays ==
    ASSUME CloudInv, UNCHANGED <<session, client, loggedOut>>, live \subseteq live',
           revoked \subseteq revoked'
    PROVE  SessionIsClients' /\ LogoutIsFinal'
  BY DEF CloudInv, SessionIsClients, LogoutIsFinal

\* No session is nobody's.
LEMMA NoSessionIsFine ==
    ASSUME session' = None
    PROVE  SessionIsClients' /\ LogoutIsFinal'
  BY DEF SessionIsClients, LogoutIsFinal

\* Every step keeps CloudInv.
LEMMA CloudStep == CloudInv /\ [CloudNext]_cloudVars => CloudInv'
  <1> SUFFICES ASSUME CloudInv, [CloudNext]_cloudVars PROVE CloudInv'
    OBVIOUS
  <1>a. ASSUME NEW c \in Callers, NEW op, NEW min, NEW login, Call(c, op, min, login)
        PROVE  CloudInv'
    <2>1. MutexIsOwned' /\ queue' \in Seq(Callers) /\ pc' \in [Callers -> Places]
      BY <1>a, CallKeepsMutex DEF Call
    <2>2. UNCHANGED <<session, client, loggedOut, live, revoked, flow, listener, tabs, code>>
      BY <1>a DEF Call, manager, browser, authority
    <2>3. CloudTypeOK' BY <2>1, <2>2 DEF CloudInv, CloudTypeOK
    <2>4. \A d \in Callers : pc'[d] # pc[d] => pc[d] = "idle" /\ pc'[d] = "locking"
      BY <1>a DEF Call, CloudInv, CloudTypeOK
    <2>5. LoginIsCurrent' BY <2>2, <2>4 DEF CloudInv, LoginIsCurrent, InLogin
    <2>6. CodeMeetsItsVerifier' BY <2>2 DEF CloudInv, CodeMeetsItsVerifier
    <2>7. RefreshHasSession' BY <2>2, <2>4 DEF CloudInv, RefreshHasSession
    <2> QED BY <2>1, <2>2, <2>3, <2>5, <2>6, <2>7, SessionStays DEF CloudInv
  <1>1. ASSUME NEW c \in Callers, EnsureSession(c) \/ InvalidateOnStatus(c) \/ Logout(c)
        PROVE  CloudInv'
    BY <1>1, <1>a DEF EnsureSession, InvalidateOnStatus, Logout
  <1>2. ASSUME NEW c \in Callers, Forget(c) PROVE CloudInv'
    <2>1. /\ Holds(c, "locking") /\ session' = None /\ Release(c)
          /\ loggedOut' \in {loggedOut, flow} /\ UNCHANGED <<flow, listener, tabs, code>>
      BY <1>2 DEF Forget, browser
    <2>2. code = 0 BY <2>1, HolderIsAlone
    <2> QED BY <2>1, <2>2, ReturnKeeps, NoSessionIsFine
  <1>3. ASSUME NEW c \in Callers, ReturnCached(c) \/ LoginForbidden(c) PROVE CloudInv'
    <2>1. /\ Holds(c, "locking") \/ Holds(c, "interactive")
          /\ Release(c)
          /\ UNCHANGED <<session, client, loggedOut, live, revoked, flow, listener, tabs, code>>
      BY <1>3 DEF ReturnCached, LoginForbidden, manager, browser, authority
    <2>2. code = 0 BY <2>1, HolderIsAlone
    <2> QED BY <2>1, <2>2, ReturnKeeps, SessionStays
  <1>4. ASSUME NEW c \in Callers, StartRefresh(c) \/ NothingToRefresh(c) PROVE CloudInv'
    <2>1. /\ Holds(c, "locking") /\ UNCHANGED <<queue, browser, loggedOut>>
          /\ UNCHANGED <<session, client, live, revoked>>
          /\ \E to \in {"refreshing", "interactive"} :
               pc' = [pc EXCEPT ![c] = to] /\ (to = "refreshing" => session # None)
      BY <1>4 DEF StartRefresh, NothingToRefresh, manager, authority
    <2>2. "locking" \in Places \ {"idle", "exchanging"} /\
          {"refreshing", "interactive"} \subseteq Places \ ({"idle"} \cup InLogin)
      BY DEF Places, InLogin
    <2> QED BY <2>1, <2>2, AdvanceKeeps, SessionStays
  <1>5. ASSUME NEW c \in Callers, Refreshed(c) PROVE CloudInv'
    <2>1. /\ Holds(c, "refreshing") /\ Honours /\ Release(c)
          /\ UNCHANGED <<client, loggedOut, revoked, flow, listener, tabs, code>>
      BY <1>5 DEF Refreshed, browser
    <2>2. code = 0 BY <2>1, HolderIsAlone
    <2>3. session # None BY <2>1, HolderIsAlone DEF CloudInv, RefreshHasSession
    <2>4. PICK life \in Lives, rotates \in BOOLEAN :
            /\ IF rotates THEN Rotate ELSE UNCHANGED <<live, tokens>>
            /\ session' = [flow |-> session.flow, expires |-> clock + life,
                           refresh |-> IF rotates THEN tokens + 1 ELSE session.refresh]
      BY <1>5 DEF Refreshed
    <2>5. [refresh |-> session'.refresh, client |-> client] \in live'
      BY <2>1, <2>4 DEF Honours, Rotate
    <2>6. session'.flow = session.flow BY <2>4
    <2>7. SessionIsClients' /\ LogoutIsFinal'
      BY <2>1, <2>3, <2>5, <2>6 DEF CloudInv, SessionIsClients, LogoutIsFinal
    <2> QED BY <2>1, <2>2, <2>7, ReturnKeeps
  <1>6. ASSUME NEW c \in Callers, RefreshFailed(c) PROVE CloudInv'
    <2>1. /\ Holds(c, "refreshing") /\ UNCHANGED <<queue, browser, loggedOut>>
          /\ session' = None /\ pc' = [pc EXCEPT ![c] = "interactive"]
      BY <1>6 DEF RefreshFailed
    <2>2. "refreshing" \in Places \ {"idle", "exchanging"} /\
          "interactive" \in Places \ ({"idle"} \cup InLogin)
      BY DEF Places, InLogin
    <2> QED BY <2>1, <2>2, AdvanceKeeps, NoSessionIsFine
  <1>7. ASSUME NEW c \in Callers, BeginLogin(c) PROVE CloudInv'
    <2>1. /\ Holds(c, "interactive") /\ flow' = flow + 1 /\ pc' = [pc EXCEPT ![c] = "registering"]
          /\ UNCHANGED <<queue, session, client, live, revoked, loggedOut, tabs, code>>
          /\ \E port \in Ports : listener' = [flow |-> flow + 1, port |-> port, backlog |-> <<>>]
      BY <1>7 DEF BeginLogin, manager, authority
    <2>2. /\ queue # <<>> /\ Head(queue) = c /\ pc[c] = "interactive" /\ code = 0
          /\ \A d \in Callers \ {c} : pc[d] \in {"idle", "locking"}
      BY <2>1, HolderIsAlone
    <2>3. MutexIsOwned' /\ pc' \in [Callers -> Places]
      BY <2>1, <2>2, HolderKeepsMutex DEF Places, InLogin
    <2>4. /\ listener' \in [flow: Nat, port: Ports, backlog: Seq([flow: Nat, granted: BOOLEAN])]
          /\ listener'.flow = flow + 1 /\ flow \in Nat /\ loggedOut \in Nat /\ loggedOut <= flow
      BY <2>1 DEF CloudInv, CloudTypeOK, LoginIsCurrent
    <2>5. CloudTypeOK' BY <2>1, <2>3, <2>4 DEF CloudInv, CloudTypeOK
    <2>6. listener' # None BY <2>4 DEF None
    <2>7. LoginIsCurrent' BY <2>1, <2>2, <2>4, <2>6 DEF LoginIsCurrent
    <2>8. RefreshHasSession'
      BY <2>1, <2>2 DEF RefreshHasSession, CloudInv, CloudTypeOK
    <2>9. CodeMeetsItsVerifier' BY <2>1, <2>2 DEF CodeMeetsItsVerifier
    <2> QED BY <2>1, <2>3, <2>5, <2>7, <2>8, <2>9, SessionStays DEF CloudInv
  <1>8. ASSUME NEW c \in Callers, OpenBrowser(c) PROVE CloudInv'
    <2>1. /\ Holds(c, "registering") /\ pc' = [pc EXCEPT ![c] = "waiting"]
          /\ tabs' = tabs \cup {[flow |-> listener.flow, port |-> listener.port]}
          /\ UNCHANGED <<queue, session, client, live, revoked, loggedOut, flow, listener, code>>
      BY <1>8 DEF OpenBrowser, manager, authority
    <2>2. /\ queue # <<>> /\ Head(queue) = c /\ pc[c] = "registering" /\ code = 0
          /\ \A d \in Callers \ {c} : pc[d] \in {"idle", "locking"}
      BY <2>1, HolderIsAlone
    <2>3. MutexIsOwned' /\ pc' \in [Callers -> Places]
      BY <2>1, <2>2, HolderKeepsMutex DEF Places, InLogin
    <2>4. listener # None /\ listener.flow > loggedOut
      BY <2>2 DEF CloudInv, LoginIsCurrent, InLogin
    <2>5. [flow |-> listener.flow, port |-> listener.port] \in [flow: Nat, port: Ports]
      BY <2>4 DEF CloudInv, CloudTypeOK
    <2>6. CloudTypeOK' BY <2>1, <2>3, <2>5 DEF CloudInv, CloudTypeOK
    <2>7. LoginIsCurrent' BY <2>1, <2>2, <2>4 DEF CloudInv, LoginIsCurrent
    <2>8. RefreshHasSession' BY <2>1, <2>2 DEF RefreshHasSession, CloudInv, CloudTypeOK
    <2>9. CodeMeetsItsVerifier' BY <2>1, <2>2 DEF CodeMeetsItsVerifier
    <2> QED BY <2>1, <2>3, <2>6, <2>7, <2>8, <2>9, SessionStays DEF CloudInv
  <1>9. ASSUME NEW c \in Callers, Accept(c) PROVE CloudInv'
    <2>1. /\ Holds(c, "waiting")
          /\ UNCHANGED <<session, client, live, revoked, loggedOut, flow, tabs>>
      BY <1>9 DEF Accept, manager, authority
    <2>2. CASE Fail(c)
      BY <2>1, <2>2, ReturnKeeps, SessionStays DEF Fail
    <2>3. CASE /\ code' = listener.flow /\ pc' = [pc EXCEPT ![c] = "exchanging"]
               /\ UNCHANGED <<queue, listener>>
      <3>1. /\ queue # <<>> /\ Head(queue) = c /\ pc[c] = "waiting"
            /\ \A d \in Callers \ {c} : pc[d] \in {"idle", "locking"}
        BY <2>1, HolderIsAlone
      <3>2. MutexIsOwned' /\ pc' \in [Callers -> Places]
        BY <2>3, <3>1, HolderKeepsMutex DEF Places, InLogin
      <3>3. listener # None /\ listener.flow > loggedOut
        BY <3>1 DEF CloudInv, LoginIsCurrent, InLogin
      <3>4. CloudTypeOK' BY <2>1, <2>3, <3>2 DEF CloudInv, CloudTypeOK
      <3>5. pc'[c] = "exchanging" BY <2>3 DEF CloudInv, CloudTypeOK
      <3>6. LoginIsCurrent' BY <2>1, <2>3, <3>3, <3>5 DEF CloudInv, LoginIsCurrent
      <3>7. RefreshHasSession' BY <2>3, <3>1 DEF RefreshHasSession, CloudInv, CloudTypeOK
      <3>8. CodeMeetsItsVerifier' BY <2>3 DEF CodeMeetsItsVerifier
      <3> QED BY <2>1, <2>3, <3>2, <3>4, <3>6, <3>7, <3>8, SessionStays DEF CloudInv
    <2> QED BY <1>9, <2>2, <2>3 DEF Accept, CallbackAccepted
  <1>10. ASSUME NEW c \in Callers, LoginNotStarted(c) \/ CallbackTimesOut(c) \/ ExchangeFailed(c)
         PROVE  CloudInv'
    <2>1. /\ \E at \in Places : Holds(c, at)
          /\ Fail(c) /\ UNCHANGED <<session, client, revoked, loggedOut, flow, tabs>>
      BY <1>10
      DEF LoginNotStarted, CallbackTimesOut, ExchangeFailed, manager, authority, Places, InLogin
    <2>2. live \subseteq live'
      BY <1>10 DEF LoginNotStarted, CallbackTimesOut, ExchangeFailed, Issue, authority
    <2> QED BY <2>1, <2>2, ReturnKeeps, SessionStays DEF Fail
  <1>11. ASSUME NEW c \in Callers, LoggedIn(c) PROVE CloudInv'
    <2>1. /\ Holds(c, "exchanging") /\ Issue /\ client' = listener.flow
          /\ listener' = None /\ code' = 0 /\ Release(c)
          /\ UNCHANGED <<loggedOut, flow, tabs>>
      BY <1>11 DEF LoggedIn
    <2>2. session'.flow = listener.flow /\ session'.refresh = tokens + 1
      BY <1>11 DEF LoggedIn, NewSession, Issue
    <2>3. listener.flow > loggedOut
      BY <2>1, HolderIsAlone DEF CloudInv, LoginIsCurrent, InLogin
    <2>4. SessionIsClients' /\ LogoutIsFinal'
      BY <2>1, <2>2, <2>3 DEF Issue, SessionIsClients, LogoutIsFinal
    <2> QED BY <2>1, <2>4, ReturnKeeps
  <1>12. ASSUME NEW t \in tabs, NEW granted \in BOOLEAN, Redirect(t, granted) PROVE CloudInv'
    <2>1. /\ UNCHANGED <<queue, pc, session, client, live, revoked, loggedOut, flow, code>>
          /\ tabs' \subseteq tabs
      BY <1>12 DEF Redirect, manager
    <2>2. /\ listener' \in {None} \cup
               [flow: Nat, port: Ports, backlog: Seq([flow: Nat, granted: BOOLEAN])]
          /\ listener'.flow = listener.flow /\ (listener # None => listener' # None)
      <3>1. CASE listener' = listener BY <3>1 DEF CloudInv, CloudTypeOK
      <3>2. CASE /\ listener # None
                 /\ listener' = [listener EXCEPT !.backlog =
                                   Append(@, [flow |-> t.flow, granted |-> granted])]
        <4>1. listener \in [flow: Nat, port: Ports, backlog: Seq([flow: Nat, granted: BOOLEAN])]
          BY <3>2 DEF CloudInv, CloudTypeOK
        <4>2. [flow |-> t.flow, granted |-> granted] \in [flow: Nat, granted: BOOLEAN]
          BY <1>12 DEF CloudInv, CloudTypeOK
        <4>3. Append(listener.backlog, [flow |-> t.flow, granted |-> granted])
                \in Seq([flow: Nat, granted: BOOLEAN])
          BY <4>1, <4>2
        <4>4. /\ listener' \in [flow: Nat, port: Ports, backlog: Seq([flow: Nat, granted: BOOLEAN])]
              /\ listener'.flow = listener.flow
          BY <3>2, <4>1, <4>3
        <4>5. listener' # None BY <4>4 DEF None
        <4> QED BY <4>4, <4>5
      <3> QED BY <1>12, <3>1, <3>2 DEF Redirect
    <2>3. CloudTypeOK' BY <2>1, <2>2 DEF CloudInv, CloudTypeOK
    <2>4. MutexIsOwned' /\ RefreshHasSession'
      BY <2>1 DEF CloudInv, MutexIsOwned, RefreshHasSession
    <2>5. LoginIsCurrent' /\ CodeMeetsItsVerifier'
      BY <2>1, <2>2 DEF CloudInv, LoginIsCurrent, CodeMeetsItsVerifier
    <2> QED BY <2>1, <2>3, <2>4, <2>5, SessionStays DEF CloudInv
  <1>13. ASSUME NEW f \in 1..MaxFlows, Revoke(f) PROVE CloudInv'
    <2>1. /\ UNCHANGED <<queue, pc, session, client, loggedOut, flow, listener, tabs, code>>
          /\ revoked' = revoked \cup {f} /\ live' = {t \in live : t.client # f}
      BY <1>13 DEF Revoke, manager, browser
    <2>2. CloudTypeOK' BY <2>1 DEF CloudInv, CloudTypeOK
    <2>3. MutexIsOwned' /\ RefreshHasSession'
      BY <2>1 DEF CloudInv, MutexIsOwned, RefreshHasSession
    <2>4. LoginIsCurrent' /\ CodeMeetsItsVerifier' /\ LogoutIsFinal'
      BY <2>1 DEF CloudInv, LoginIsCurrent, CodeMeetsItsVerifier, LogoutIsFinal
    <2>5. SessionIsClients'
      BY <2>1 DEF CloudInv, SessionIsClients
    <2> QED BY <2>2, <2>3, <2>4, <2>5 DEF CloudInv
  <1>14. CASE Tick \/ UNCHANGED cloudVars
    <2>1. UNCHANGED <<queue, pc, session, client, live, revoked, loggedOut, flow, listener, tabs, code>>
      BY <1>14 DEF Tick, cloudVars, manager, browser, authority
    <2> QED
      BY <2>1
      DEF CloudInv, CloudTypeOK, MutexIsOwned, LoginIsCurrent, SessionIsClients, RefreshHasSession,
          CodeMeetsItsVerifier, LogoutIsFinal
  <1> QED
    BY <1>1, <1>2, <1>3, <1>4, <1>5, <1>6, <1>7, <1>8, <1>9, <1>10, <1>11, <1>12, <1>13, <1>14
    DEF CloudNext, ManagerStep

\* For any number of callers, ports, lifetimes, logins and tokens: whatever
\* answer of the server is lost, whichever redirect comes late and whoever is
\* queued for the mutex of AccessAuthManager, the refresh token held is honoured
\* or was withdrawn, a code meets the verifier of its own login, and no session
\* outlives a logout.
THEOREM SessionAlwaysOwn == CloudSpec => []SessionIsOwn
  <1>1. CloudInv => SessionIsOwn
    BY DEF CloudInv, SessionIsClients, SessionIsOwn, HeldTokenIsLive
  <1> QED BY CloudStart, CloudStep, <1>1, PTL DEF CloudSpec

-----------------------------------------------------------------------------
(* The process tree, for every number of shells, children and faults.      *)

LEMMA TreeStarts == ASSUME TreeBounds, TreeInit PROVE TreeInv
<1> USE DEF TreeInit, Free, NoKid
<1>1. [k \in Kinds |-> Free] \in [Kinds -> [child : 0..MaxKids, retry : BOOLEAN]]
  BY DEF TreeBounds
<1>2. sup \in [Cores -> [Kinds -> [child : 0..MaxKids, retry : BOOLEAN]]]
  BY <1>1
<1>3. NoKid \in [kind : Kinds, core : {0} \cup Cores, at : KidPlaces]
  BY DEF Kinds, KidPlaces
<1>4. kid \in [Kids -> [kind : Kinds, core : {0} \cup Cores, at : KidPlaces]]
  BY <1>3
<1>5. TreeTypeOK
  <2>1. shell \in [n : 0..MaxShells, at : ShellPlaces]
    BY DEF TreeBounds, ShellPlaces
  <2>2. core \in [Cores -> CorePlaces]
    BY DEF CorePlaces
  <2>3. kids \in 0..MaxKids
    BY DEF TreeBounds
  <2>4. runningSet \in BOOLEAN /\ killed \subseteq Cores /\ owned \in {0} \cup Cores
    OBVIOUS
  <2> QED
    BY <1>2, <1>4, <2>1, <2>2, <2>3, <2>4, Zenon DEF TreeTypeOK
<1>6. NumbersAreFresh
  BY DEF NumbersAreFresh
<1>7. \A k \in Kids : kid[k].at = "none"
  OBVIOUS
<1>8. InjectorsAreAlone /\ RunningSignalIsTrue
  BY <1>7 DEF InjectorsAreAlone, RunningSignalIsTrue, Running
<1>9. ChildrenFollow
  BY DEF ChildrenFollow
<1> QED
  BY <1>5, <1>6, <1>8, <1>9 DEF TreeInv

\* The shell moves and starts nothing.
LEMMA ShellMovesKeep ==
  ASSUME TreeInv, FindsCore \/ CoreReady \/ CoreFailed \/ CoreEnded \/ ShellExits \/ ShellCrashes
  PROVE  TreeInv'
<1> USE DEF TreeInv
<1>1. /\ shell'.n = shell.n /\ shell'.at \in {"up", "down", "dropping"}
      /\ shell' \in [n : 0..MaxShells, at : ShellPlaces]
      /\ owned' \in {0, owned} /\ UNCHANGED <<core, killed, sup, kid, kids, runningSet>>
  BY DEF FindsCore, CoreReady, CoreFailed, CoreEnded, ShellExits, ShellCrashes, TreeTypeOK, tree,
     ShellPlaces
<1>2. TreeTypeOK'
  BY <1>1 DEF TreeTypeOK
<1>3. NumbersAreFresh'
  BY <1>1 DEF NumbersAreFresh
<1> QED
  BY <1>1, <1>2, <1>3 DEF InjectorsAreAlone, RunningSignalIsTrue, ChildrenFollow, Running, KidAlive

LEMMA ShellStartsKeeps ==
  ASSUME TreeBounds, TreeInv, ShellStarts
  PROVE  TreeInv'
<1> USE DEF TreeInv
<1>1. /\ shell'.n = shell.n + 1 /\ shell.n + 1 \in Cores /\ shell.n \in Nat
      /\ shell' \in [n : 0..MaxShells, at : ShellPlaces]
      /\ owned' = 0 /\ UNCHANGED <<core, killed, sup, kid, kids, runningSet>>
  BY DEF ShellStarts, TreeTypeOK, tree, ShellPlaces, Cores, TreeBounds
<1>2. TreeTypeOK'
  BY <1>1 DEF TreeTypeOK
<1>3. NumbersAreFresh'
  BY <1>1 DEF NumbersAreFresh, Cores
<1> QED
  BY <1>1, <1>2, <1>3 DEF InjectorsAreAlone, RunningSignalIsTrue, ChildrenFollow, Running, KidAlive

LEMMA SpawnsCoreKeeps ==
  ASSUME TreeInv, SpawnsCore
  PROVE  TreeInv'
<1> USE DEF TreeInv
<1>1. /\ shell.n \in Cores /\ core[shell.n] = "none" /\ shell'.n = shell.n /\ shell'.at = "waiting"
      /\ shell' \in [n : 0..MaxShells, at : ShellPlaces] /\ owned' = shell.n
      /\ core' = [core EXCEPT ![shell.n] = "created"]
      /\ UNCHANGED <<killed, sup, kid, kids, runningSet>>
  BY DEF SpawnsCore, TreeTypeOK, tree, ShellPlaces, NumbersAreFresh
<1>2. core' \in [Cores -> CorePlaces] /\ core'[shell.n] = "created"
  BY <1>1 DEF TreeTypeOK, CorePlaces
<1>3. \A c \in Cores \ {shell.n} : core'[c] = core[c]
  BY <1>1 DEF TreeTypeOK
<1>4. TreeTypeOK'
  BY <1>1, <1>2 DEF TreeTypeOK
<1>5. NumbersAreFresh'
  BY <1>1, <1>3 DEF NumbersAreFresh, Cores
<1>6. ChildrenFollow'
  BY <1>1, <1>2, <1>3 DEF ChildrenFollow, KidAlive
<1> QED
  BY <1>1, <1>4, <1>5, <1>6 DEF InjectorsAreAlone, RunningSignalIsTrue, Running

\* One core moves to st.
LEMMA CoreMoves ==
  ASSUME TreeInv, NEW c \in Cores, NEW st \in {"binding", "running", "ending", "dead"},
         core[c] # "none", core' = [core EXCEPT ![c] = st], UNCHANGED tree,
         shell'.n = shell.n, shell'.at = "probing" => shell.at = "probing",
         shell' \in [n : 0..MaxShells, at : ShellPlaces], owned' \in {0, owned},
         killed' = killed \/ killed' = killed \cup {c},
         st = "binding" => core[c] = "created",
         st = "dead" => c \in killed' \/ core[c] \in {"created", "binding", "unpiped"}
  PROVE  TreeInv'
<1> USE DEF TreeInv
<1>1. core' \in [Cores -> CorePlaces] /\ core'[c] = st
  BY DEF TreeTypeOK, CorePlaces
<1>2. \A d \in Cores \ {c} : core'[d] = core[d] /\ (d \in killed' <=> d \in killed)
  BY DEF TreeTypeOK
<1>3. UNCHANGED <<sup, kid, kids, runningSet>>
  BY DEF tree
<1>4. TreeTypeOK'
  BY <1>1, <1>3 DEF TreeTypeOK
<1>5. NumbersAreFresh'
  BY <1>2, <1>3 DEF NumbersAreFresh
<1>6. ChildrenFollow'
  <2> SUFFICES ASSUME NEW d \in Cores, NEW k \in Kinds
               PROVE  /\ core'[d] \in {"none", "created", "binding"} => sup[d][k].child = 0
                      /\ (core'[d] = "unpiped" \/ (core'[d] = "dead" /\ d \notin killed'))
                           /\ sup[d][k].child # 0 => ~KidAlive(sup[d][k].child)
    BY <1>3 DEF ChildrenFollow, KidAlive
  <2>1. CASE d = c
    BY <1>1, <2>1 DEF ChildrenFollow
  <2>2. CASE d # c
    BY <1>2, <2>2 DEF ChildrenFollow
  <2> QED
    BY <2>1, <2>2
<1> QED
  BY <1>3, <1>4, <1>5, <1>6 DEF InjectorsAreAlone, RunningSignalIsTrue, Running

LEMMA CoreKeeps ==
  ASSUME TreeInv, NEW c \in Cores,
         \/ RunControl(c) \/ BindPipe(c) \/ LoopEnds(c) \/ HealthFails(c) \/ CloseEvent(c)
         \/ CoreCrashes(c)
  PROVE  TreeInv'
<1>1. shell \in [n : 0..MaxShells, at : ShellPlaces]
  BY DEF TreeInv, TreeTypeOK
<1>2. CASE RunControl(c)
  <2>1. PICK st \in {"binding", "dead"} : core' = [core EXCEPT ![c] = st]
    BY <1>2 DEF RunControl
  <2> QED
    BY <1>1, <1>2, <2>1, CoreMoves DEF RunControl
<1>3. CASE BindPipe(c)
  <2>1. PICK st \in {"running", "dead"} : core' = [core EXCEPT ![c] = st]
    BY <1>3 DEF BindPipe, CoreGone
  <2> QED
    BY <1>1, <1>3, <2>1, CoreMoves DEF BindPipe
<1>4. CASE LoopEnds(c)
  BY <1>1, <1>4, CoreMoves DEF LoopEnds
<1>5. CASE HealthFails(c)
  BY <1>1, <1>5, CoreMoves DEF HealthFails
<1>6. CASE CloseEvent(c)
  BY <1>1, <1>6, CoreMoves DEF CloseEvent, CoreGone
<1>7. CASE CoreCrashes(c)
  BY <1>1, <1>7, CoreMoves DEF CoreCrashes, Kill, CoreGone, Alive
<1> QED
  BY <1>2, <1>3, <1>4, <1>5, <1>6, <1>7

LEMMA KillsCoreKeeps ==
  ASSUME TreeInv, KillsCore
  PROVE  TreeInv'
<1>1. owned \in Cores /\ core[owned] # "none"
  BY DEF KillsCore, TreeInv, TreeTypeOK, Alive
<1>2. /\ shell'.n = shell.n /\ shell'.at = "down" /\ shell' \in [n : 0..MaxShells, at : ShellPlaces]
      /\ owned' = 0
  BY DEF KillsCore, TreeInv, TreeTypeOK, ShellPlaces
<1>3. /\ core' = [core EXCEPT ![owned] = "dead"] /\ killed' = killed \cup {owned} /\ UNCHANGED tree
  BY DEF KillsCore, Kill, CoreGone
<1> QED
  BY <1>1, <1>2, <1>3, CoreMoves

\* The children of a core that is dropped.
LEMMA DropChildrenKeeps ==
  ASSUME TreeInv, NEW c \in Cores, DropChildren(c)
  PROVE  TreeInv'
<1> USE DEF TreeInv
<1> DEFINE mine == {sup[c][k].child : k \in Kinds}
<1>1. /\ core[c] = "ending" /\ core' = [core EXCEPT ![c] = "unpiped"]
      /\ kid' = [k \in Kids |-> IF k \in mine THEN [kid[k] EXCEPT !.at = "dead"] ELSE kid[k]]
      /\ runningSet' = (runningSet /\ \E k \in Kids : kid'[k].kind = "overlay" /\ kid'[k].at = "running")
      /\ UNCHANGED <<shell, owned, killed, sup, kids>>
  BY DEF DropChildren
<1>2. core' \in [Cores -> CorePlaces] /\ core'[c] = "unpiped" /\ \A d \in Cores \ {c} : core'[d] = core[d]
  BY <1>1 DEF TreeTypeOK, CorePlaces
<1>3. \A k \in Kids :
        /\ kid'[k] \in [kind : Kinds, core : {0} \cup Cores, at : KidPlaces]
        /\ kid'[k].kind = kid[k].kind /\ kid'[k].at \in {kid[k].at, "dead"}
        /\ k \in mine => kid'[k].at = "dead"
        /\ k \notin mine => kid'[k] = kid[k]
  <2> SUFFICES ASSUME NEW k \in Kids
               PROVE  /\ kid'[k] \in [kind : Kinds, core : {0} \cup Cores, at : KidPlaces]
                      /\ kid'[k].kind = kid[k].kind /\ kid'[k].at \in {kid[k].at, "dead"}
                      /\ k \in mine => kid'[k].at = "dead"
                      /\ k \notin mine => kid'[k] = kid[k]
    OBVIOUS
  <2> HIDE DEF mine
  <2>1. kid[k] \in [kind : Kinds, core : {0} \cup Cores, at : KidPlaces]
    BY DEF TreeTypeOK
  <2> QED
    BY <1>1, <2>1 DEF KidPlaces
<1>4. kid' \in [Kids -> [kind : Kinds, core : {0} \cup Cores, at : KidPlaces]]
  BY <1>1, <1>3
<1>5. \A k \in Kids : k > kids => k \notin mine
  <2>1. \A k \in Kinds : sup[c][k].child <= kids /\ sup[c][k].child \in Int
    BY DEF NumbersAreFresh, TreeTypeOK
  <2> QED
    BY <2>1 DEF Kids, TreeTypeOK
<1> HIDE DEF mine
<1>6. TreeTypeOK'
  <2>1. runningSet' \in BOOLEAN
    BY <1>1
  <2> QED
    BY <1>1, <1>2, <1>4, <2>1 DEF TreeTypeOK
<1>7. NumbersAreFresh'
  BY <1>1, <1>2, <1>3, <1>5 DEF NumbersAreFresh
<1>8. InjectorsAreAlone'
  BY <1>3 DEF InjectorsAreAlone, Running
<1>9. RunningSignalIsTrue'
  <2>1. Running("overlay")' \subseteq Running("overlay")
    BY <1>3 DEF Running
  <2>2. Running("overlay")' # {} <=> \E k \in Kids : kid'[k].kind = "overlay" /\ kid'[k].at = "running"
    BY DEF Running
  <2> QED
    BY <1>1, <2>1, <2>2 DEF RunningSignalIsTrue
<1>10. ChildrenFollow'
  <2> SUFFICES ASSUME NEW d \in Cores, NEW k \in Kinds
               PROVE  /\ core'[d] \in {"none", "created", "binding"} => sup[d][k].child = 0
                      /\ (core'[d] = "unpiped" \/ (core'[d] = "dead" /\ d \notin killed))
                           /\ sup[d][k].child # 0 => ~(kid'[sup[d][k].child].at \in {"starting", "running"})
    BY <1>1 DEF ChildrenFollow, KidAlive
  <2>1. sup[d][k].child # 0 => sup[d][k].child \in Kids
    BY DEF TreeTypeOK, Kids
  <2>2. CASE d = c
    <3>1. sup[d][k].child \in mine
      BY <2>2 DEF mine
    <3> QED
      BY <1>2, <1>3, <2>1, <2>2, <3>1
  <2>3. CASE d # c
    BY <1>2, <1>3, <2>1, <2>3 DEF ChildrenFollow, KidAlive
  <2> QED
    BY <2>2, <2>3
<1> QED
  BY <1>6, <1>7, <1>8, <1>9, <1>10

\* A supervisor gives its child up or changes its backoff.
LEMMA SlotKeeps ==
  ASSUME TreeBounds, TreeInv, NEW c \in Cores, NEW k \in Kinds,
         ReapChild(c, k) \/ WaitFails(c, k) \/ BackoffEnds(c, k) \/ SpawnFails(c, k)
  PROVE  TreeInv'
<1> USE DEF TreeInv
<1>1. UNCHANGED <<shell, owned, core, killed, kid, kids, runningSet>>
  BY DEF ReapChild, WaitFails, BackoffEnds, SpawnFails
<1>2. sup[c][k] \in [child : 0..MaxKids, retry : BOOLEAN] /\ kids \in Nat
  BY DEF TreeTypeOK
<1>3. PICK s \in [child : 0..MaxKids, retry : BOOLEAN] :
        s.child \in {0, sup[c][k].child} /\ sup' = [sup EXCEPT ![c][k] = s]
  <2>1. CASE ReapChild(c, k) \/ WaitFails(c, k)
    <3>1. Reaped(c, k) \in [child : 0..MaxKids, retry : BOOLEAN]
      BY DEF Reaped, TreeBounds
    <3> QED
      BY <2>1, <3>1 DEF ReapChild, WaitFails, Reaped
  <2>2. CASE BackoffEnds(c, k) \/ SpawnFails(c, k)
    <3>1. PICK r \in BOOLEAN : sup' = [sup EXCEPT ![c][k].retry = r]
      BY <2>2 DEF BackoffEnds, SpawnFails
    <3> DEFINE s == [sup[c][k] EXCEPT !.retry = r]
    <3>2. s \in [child : 0..MaxKids, retry : BOOLEAN] /\ s.child = sup[c][k].child
      BY <1>2
    <3>3. sup' = [sup EXCEPT ![c][k] = s]
      BY <3>1
    <3> QED
      BY <3>2, <3>3
  <2> QED
    BY <2>1, <2>2
<1>4. sup' \in [Cores -> [Kinds -> [child : 0..MaxKids, retry : BOOLEAN]]]
  BY <1>3 DEF TreeTypeOK
<1>5. \A d \in Cores, j \in Kinds : sup'[d][j].child \in {0, sup[d][j].child}
  BY <1>3 DEF TreeTypeOK
<1>6. TreeTypeOK'
  BY <1>1, <1>4 DEF TreeTypeOK
<1>7. NumbersAreFresh'
  BY <1>1, <1>2, <1>5 DEF NumbersAreFresh
<1>8. ChildrenFollow'
  BY <1>1, <1>5 DEF ChildrenFollow, KidAlive
<1> QED
  BY <1>1, <1>6, <1>7, <1>8 DEF InjectorsAreAlone, RunningSignalIsTrue, Running

LEMMA SpawnKeeps ==
  ASSUME TreeBounds, TreeInv, NEW c \in Cores, NEW k \in Kinds, Spawn(c, k)
  PROVE  TreeInv'
<1> USE DEF TreeInv
<1> DEFINE new == [kind |-> k, core |-> c, at |-> "starting"]
           s == [sup[c][k] EXCEPT !.child = kids + 1]
<1>1. /\ UNCHANGED <<shell, owned, core, killed, runningSet>> /\ core[c] = "running"
      /\ kids' = kids + 1 /\ kid' = [kid EXCEPT ![kids + 1] = new]
      /\ sup' = [sup EXCEPT ![c][k] = s]
  BY DEF Spawn, Loops
<1>2. kids \in Nat /\ kids + 1 \in Kids /\ kids + 1 \in 0..MaxKids
  BY DEF Spawn, TreeTypeOK, Kids, TreeBounds
<1>3. new \in [kind : Kinds, core : {0} \cup Cores, at : KidPlaces] /\ new.at = "starting"
  BY DEF KidPlaces
<1>4. s \in [child : 0..MaxKids, retry : BOOLEAN] /\ s.child = kids + 1
  <2>1. sup[c][k] \in [child : 0..MaxKids, retry : BOOLEAN]
    BY DEF TreeTypeOK
  <2> QED
    BY <1>2, <2>1
<1> HIDE DEF new, s
<1>5. /\ kid' \in [Kids -> [kind : Kinds, core : {0} \cup Cores, at : KidPlaces]]
      /\ kid'[kids + 1] = new /\ \A j \in Kids \ {kids + 1} : kid'[j] = kid[j]
  BY <1>1, <1>2, <1>3 DEF TreeTypeOK
<1>6. /\ sup' \in [Cores -> [Kinds -> [child : 0..MaxKids, retry : BOOLEAN]]]
      /\ sup'[c][k] = s
      /\ \A d \in Cores, j \in Kinds : d # c \/ j # k => sup'[d][j] = sup[d][j]
  BY <1>1, <1>4 DEF TreeTypeOK
<1>7. TreeTypeOK'
  BY <1>1, <1>2, <1>5, <1>6 DEF TreeTypeOK
<1>8. NumbersAreFresh'
  <2>1. \A j \in Kids : j > kids' => kid'[j].at = "none"
    BY <1>1, <1>2, <1>5 DEF NumbersAreFresh, Kids
  <2>2. \A d \in Cores, j \in Kinds : sup'[d][j].child <= kids'
    <3> SUFFICES ASSUME NEW d \in Cores, NEW j \in Kinds PROVE sup'[d][j].child <= kids'
      OBVIOUS
    <3>1. sup[d][j].child \in Int /\ sup[d][j].child <= kids
      BY DEF TreeTypeOK, NumbersAreFresh
    <3> QED
      BY <1>1, <1>2, <1>4, <1>6, <3>1
  <2> QED
    BY <1>1, <2>1, <2>2 DEF NumbersAreFresh
<1>9. Running("injector")' = Running("injector") /\ Running("overlay")' = Running("overlay")
  <2>1. kid[kids + 1].at = "none"
    BY <1>2 DEF NumbersAreFresh
  <2>2. \A j \in Kids : kid'[j].at = "running" <=> kid[j].at = "running"
    BY <1>3, <1>5, <2>1
  <2>3. \A j \in Kids : kid[j].at = "running" => kid'[j] = kid[j]
    BY <1>5, <2>1
  <2> QED
    BY <2>2, <2>3 DEF Running
<1>10. ChildrenFollow'
  <2> SUFFICES ASSUME NEW d \in Cores, NEW j \in Kinds
               PROVE  /\ core[d] \in {"none", "created", "binding"} => sup'[d][j].child = 0
                      /\ (core[d] = "unpiped" \/ (core[d] = "dead" /\ d \notin killed))
                           /\ sup'[d][j].child # 0 => ~(kid'[sup'[d][j].child].at \in {"starting", "running"})
    BY <1>1 DEF ChildrenFollow, KidAlive
  <2>1. CASE d = c
    BY <1>1, <2>1
  <2>2. CASE d # c
    <3>1. sup'[d][j] = sup[d][j] /\ sup[d][j].child <= kids /\ sup[d][j].child \in 0..MaxKids
      BY <1>6, <2>2 DEF TreeTypeOK, NumbersAreFresh
    <3>2. sup[d][j].child # 0 => sup[d][j].child \in Kids \ {kids + 1}
      BY <1>2, <3>1 DEF Kids
    <3> QED
      BY <1>5, <3>1, <3>2 DEF ChildrenFollow, KidAlive
  <2> QED
    BY <2>1, <2>2
<1> QED
  BY <1>1, <1>7, <1>8, <1>9, <1>10 DEF InjectorsAreAlone, RunningSignalIsTrue

\* A child moves to st; a dead one stays dead.
LEMMA KidMoves ==
  ASSUME TreeInv, NEW k \in Kids, NEW st \in {"running", "dead"}, SetKid(k, st),
         UNCHANGED <<shell, owned, core, killed, sup, kids>>, KidAlive(k), runningSet' \in BOOLEAN
  PROVE  /\ TreeTypeOK' /\ NumbersAreFresh' /\ ChildrenFollow'
         /\ kid'[k].at = st /\ kid'[k].kind = kid[k].kind
         /\ \A j \in Kids \ {k} : kid'[j] = kid[j]
<1> USE DEF TreeInv
<1>1. kid[k] \in [kind : Kinds, core : {0} \cup Cores, at : KidPlaces]
  BY DEF TreeTypeOK
<1> DEFINE new == [kid[k] EXCEPT !.at = st]
<1>2. new \in [kind : Kinds, core : {0} \cup Cores, at : KidPlaces] /\ new.at = st /\ new.kind = kid[k].kind
  BY <1>1 DEF KidPlaces
<1>3. kid' = [kid EXCEPT ![k] = new]
  BY DEF SetKid
<1> HIDE DEF new
<1>4. /\ kid' \in [Kids -> [kind : Kinds, core : {0} \cup Cores, at : KidPlaces]]
      /\ kid'[k] = new /\ \A j \in Kids \ {k} : kid'[j] = kid[j]
  BY <1>2, <1>3 DEF TreeTypeOK
<1>5. TreeTypeOK'
  BY <1>4 DEF TreeTypeOK
<1>6. NumbersAreFresh'
  BY <1>4 DEF NumbersAreFresh, KidAlive
<1>7. ChildrenFollow'
  <2>1. \A j \in Kids : KidAlive(j)' => KidAlive(j)
    BY <1>4 DEF KidAlive
  <2>2. \A d \in Cores, j \in Kinds : sup[d][j].child # 0 => sup[d][j].child \in Kids
    BY DEF TreeTypeOK, Kids
  <2> QED
    BY <2>1, <2>2 DEF ChildrenFollow, KidAlive
<1> QED
  BY <1>2, <1>4, <1>5, <1>6, <1>7

LEMMA OverlayKeeps ==
  ASSUME TreeInv, NEW k \in Kids, OverlayStarts(k) \/ OverlayEnds(k)
  PROVE  TreeInv'
<1>1. /\ kid[k].kind = "overlay" /\ KidAlive(k) /\ UNCHANGED <<shell, owned, core, killed, sup, kids>>
      /\ runningSet' \in BOOLEAN
  BY DEF OverlayStarts, OverlayEnds, KidAlive, EventAfter, TreeInv, TreeTypeOK
<1>2. PICK st \in {"running", "dead"} :
        /\ SetKid(k, st) /\ (st = "running" => runningSet' = TRUE)
        /\ st = "dead" => runningSet' = EventAfter(k)
  BY DEF OverlayStarts, OverlayEnds
<1>3. /\ TreeTypeOK' /\ NumbersAreFresh' /\ ChildrenFollow'
      /\ kid'[k].at = st /\ kid'[k].kind = "overlay"
      /\ \A j \in Kids \ {k} : kid'[j] = kid[j]
  BY <1>1, <1>2, KidMoves
<1>4. InjectorsAreAlone'
  BY <1>1, <1>3 DEF TreeInv, InjectorsAreAlone, Running
<1>5. RunningSignalIsTrue'
  <2>1. CASE st = "running"
    BY <1>2, <1>3, <2>1 DEF RunningSignalIsTrue, Running
  <2>2. CASE st = "dead"
    <3>1. Running("overlay")' = Running("overlay") \ {k}
      BY <1>3, <2>2 DEF Running
    <3> QED
      BY <1>2, <2>2, <3>1 DEF RunningSignalIsTrue, EventAfter, TreeInv
  <2> QED
    BY <2>1, <2>2
<1> QED
  BY <1>3, <1>4, <1>5 DEF TreeInv

LEMMA InjectorKeeps ==
  ASSUME TreeInv, NEW k \in Kids, InjectorStarts(k) \/ InjectorEnds(k) \/ InjectorFails(k)
  PROVE  TreeInv'
<1>1. /\ kid[k].kind = "injector" /\ KidAlive(k)
      /\ UNCHANGED <<shell, owned, core, killed, sup, kids, runningSet>> /\ runningSet' \in BOOLEAN
  BY DEF InjectorStarts, InjectorEnds, InjectorFails, KidAlive, TreeInv, TreeTypeOK
<1>2. PICK st \in {"running", "dead"} : SetKid(k, st) /\ (st = "running" => InstanceFree)
  BY DEF InjectorStarts, InjectorEnds, InjectorFails
<1>3. /\ TreeTypeOK' /\ NumbersAreFresh' /\ ChildrenFollow'
      /\ kid'[k].at = st /\ kid'[k].kind = "injector"
      /\ \A j \in Kids \ {k} : kid'[j] = kid[j]
  BY <1>1, <1>2, KidMoves
<1>4. InjectorsAreAlone'
  <2>1. Running("injector")' \subseteq Running("injector") \cup {k}
    BY <1>3 DEF Running
  <2>2. st = "dead" => k \notin Running("injector")'
    BY <1>3 DEF Running
  <2> QED
    BY <1>2, <2>1, <2>2 DEF TreeInv, InjectorsAreAlone, InstanceFree
<1>5. RunningSignalIsTrue'
  <2>1. Running("overlay")' = Running("overlay")
    BY <1>1, <1>3 DEF Running
  <2> QED
    BY <1>1, <2>1 DEF TreeInv, RunningSignalIsTrue
<1> QED
  BY <1>3, <1>4, <1>5 DEF TreeInv

LEMMA TreeStep == ASSUME TreeBounds, TreeInv, [TreeNext]_treeVars PROVE TreeInv'
<1>1. CASE UNCHANGED treeVars
  BY <1>1 DEF treeVars, TreeInv, TreeTypeOK, NumbersAreFresh, InjectorsAreAlone, RunningSignalIsTrue,
     ChildrenFollow, Running, KidAlive
<1>2. CASE ShellStep \/ ShellStarts \/ ShellExits \/ KillsCore \/ ShellCrashes
  BY <1>2, ShellMovesKeep, ShellStartsKeeps, SpawnsCoreKeeps, KillsCoreKeeps DEF ShellStep
<1>3. ASSUME NEW c \in Cores, CoreStep(c) \/ TickStep(c) \/ HealthFails(c) \/ CoreCrashes(c)
      PROVE  TreeInv'
  BY <1>3, CoreKeeps, DropChildrenKeeps, SlotKeeps, SpawnKeeps DEF CoreStep, TickStep
<1>4. ASSUME NEW c \in Cores, NEW k \in Kinds, SpawnFails(c, k) \/ WaitFails(c, k)
      PROVE  TreeInv'
  BY <1>4, SlotKeeps
<1>5. ASSUME NEW k \in Kids, KidStep(k) \/ OverlayEnds(k) \/ InjectorFails(k)
      PROVE  TreeInv'
  BY <1>5, OverlayKeeps, InjectorKeeps DEF KidStep
<1> QED
  BY <1>1, <1>2, <1>3, <1>4, <1>5 DEF TreeNext

\* Numbers are given once, the mutex holds one injector, the running event
\* tells the truth, and a core that was dropped has taken its children along.
THEOREM TreeInvariant == ASSUME TreeBounds PROVE TreeSpec => []TreeInv
<1>1. TreeInit => TreeInv
  BY TreeStarts
<1>2. TreeInv /\ [TreeNext]_treeVars => TreeInv'
  BY TreeStep
<1> QED
  BY <1>1, <1>2, PTL DEF TreeSpec

\* However shells, cores and children overlap, crash and are killed: one
\* injector at most is past its guard, the running event is set exactly while
\* an overlay runs, and an orderly end of a core takes its children along
\* (overlay_supervisor.rs, runtime_signals.rs and the injector's main.rs).
THEOREM TreeAlwaysAccounted == ASSUME TreeBounds PROVE TreeSpec => []ProcessesAreAccounted
<1>1. TreeInv => ProcessesAreAccounted
  <2> SUFFICES ASSUME TreeInv PROVE ProcessesAreAccounted
    OBVIOUS
  <2>1. OneInjector
    <3>1. CASE Running("injector") = {}
      BY <3>1, FS_EmptySet DEF OneInjector
    <3>2. CASE Running("injector") # {}
      <4>1. PICK k : k \in Running("injector")
        BY <3>2
      <4>2. Running("injector") = {k}
        BY <4>1 DEF TreeInv, InjectorsAreAlone
      <4> QED
        BY <4>2, FS_Singleton DEF OneInjector
    <3> QED
      BY <3>1, <3>2
  <2>2. OrderlyEndTakesChildren
    BY DEF TreeInv, ChildrenFollow, OrderlyEndTakesChildren
  <2> QED
    BY <2>1, <2>2 DEF ProcessesAreAccounted, TreeInv
<1> QED
  BY <1>1, TreeInvariant, PTL

-----------------------------------------------------------------------------
(* Proofs, for every set of looks and every bound, for a core whose pipe no *)
(* client reaches before its persistence thread runs: a change that comes   *)
(* earlier is taken for persisted, since the thread starts from the version *)
(* it finds (settings_persistence.rs, start).                               *)

Usual == Looks # {} /\ EarlyClients = FALSE

LEMMA SettingsFacts ==
    ASSUME Usual
    PROVE  /\ DefaultSettings \in Settings
           /\ \A s \in Settings : FromDomain(s) \in Settings /\ ToDomain(s) \in Settings
<1>1. (CHOOSE l \in Looks : TRUE) \in Looks
  BY DEF Usual
<1> QED
  BY <1>1 DEF DefaultSettings, Settings, FromDomain, ToDomain

\* A reader of the file leaves it as it is or writes a later document.
LEMMA ReadFacts ==
    ASSUME Usual, FileTypeOK
    PROVE  ReadOrCreate \in Documents /\ ReadOrCreate.stamp >= file.stamp
<1>1. \A s \in Settings, n \in Nat :
        Written(s, n) \in Documents /\ Written(s, n).stamp = file.stamp + 1
  BY DEF Written, FileTypeOK, Documents
<1>2. FromDomain(ToDomain(file.s)) \in Settings
  BY SettingsFacts DEF FileTypeOK, Documents
<1>3. file.version \in Nat /\ file.stamp \in Nat /\ file \in Documents
  BY DEF FileTypeOK, Documents
<1>4. ReadOrCreate \in {Written(DefaultSettings, 0), file,
                       Written(FromDomain(ToDomain(file.s)), file.version)}
  BY DEF ReadOrCreate
<1> QED
  BY <1>1, <1>2, <1>3, <1>4, SettingsFacts

LEMMA FileStarts == ASSUME Usual, FileInit PROVE FileInv
<1> USE DEF FileInit, NoDoc, Down, NoSaver, NoWatcher
<1>1. file \in Documents /\ file.stamp >= 0
  BY SettingsFacts DEF Documents, Settings
<1>2. FileTypeOK
  BY <1>1, SettingsFacts DEF FileTypeOK, Documents
<1>3. WatcherIsOrdered
  BY <1>1 DEF WatcherIsOrdered, Latest
<1> QED
  BY <1>2, <1>3 DEF FileInv, SaverIsOfCore

\* Core and persistence thread.
LEMMA FileCoreKeeps ==
    ASSUME Usual, FileInv,
           \/ CoreStarts \/ PersistenceStarts \/ SessionEnds \/ CoreShutdownRequested \/ CoreExits
           \/ \E s \in {t \in Settings : ~t.hidden} : StoreChanges(s)
           \/ Saver
    PROVE  FileInv'
<1> USE DEF FileInv
<1>1. UNCHANGED <<desktop, watcher, shown>>
  BY DEF CoreStarts, PersistenceStarts, SessionEnds, CoreShutdownRequested, CoreExits, StoreChanges,
     Saver, SaverWakes, SaverFails, SaverWrites
<1>2. file' \in Documents /\ file'.stamp >= file.stamp
  <2>1. CASE UNCHANGED file
    BY <2>1 DEF FileTypeOK, Documents
  <2>2. CASE file' = ReadOrCreate
    BY <2>2, ReadFacts
  <2>3. CASE SaverWrites
    <3>1. file' = [version |-> saver.base + 1, s |-> FromDomain(saver.s), stamp |-> file.stamp + 1]
      BY <2>3 DEF SaverWrites, Written
    <3>2. saver.s \in Settings /\ saver.base \in Nat /\ file.stamp \in Nat
      BY DEF FileTypeOK, Documents
    <3>3. FromDomain(saver.s) \in Settings
      BY <3>2, SettingsFacts
    <3> QED
      BY <3>1, <3>2, <3>3 DEF Documents
  <2> QED
    BY <2>1, <2>2, <2>3 DEF CoreStarts, PersistenceStarts, SessionEnds, CoreShutdownRequested,
       CoreExits, StoreChanges, Saver, SaverWakes, SaverFails
<1>3. WatcherIsOrdered'
  BY SMTT(40), <1>1, <1>2 DEF WatcherIsOrdered, Latest, FileTypeOK, Documents
<1>4. file'.s \in Settings /\ file'.version \in Nat
  BY <1>2 DEF Documents
<1>5. FileTypeOK' /\ SaverIsOfCore'
  <2>1. CASE CoreStarts
    BY <1>1, <1>2, <1>4, <2>1, SettingsFacts DEF CoreStarts, FileTypeOK, SaverIsOfCore
  <2>2. CASE PersistenceStarts
    BY <1>1, <1>2, <2>2, SettingsFacts DEF PersistenceStarts, NoSaver, FileTypeOK, SaverIsOfCore
  <2>3. CASE SessionEnds
    <3>1. coreState.s \in Settings /\ [coreState.s EXCEPT !.mode = "Locked"] \in Settings
      BY DEF FileTypeOK, Settings
    <3>2. coreState'.s = [coreState.s EXCEPT !.mode = "Locked"]
      BY <2>3 DEF SessionEnds, FileTypeOK
    <3>3. \E s \in Settings, n \in {coreState.version, coreState.version + 1} :
            coreState' = [coreState EXCEPT !.sessions = FALSE, !.s = s, !.version = n]
      BY <2>3, <3>1 DEF SessionEnds, FileTypeOK
    <3>4. coreState' \in [phase : {"down", "starting", "up", "dropping"}, version : Nat,
                     s : Settings, sessions : BOOLEAN]
      <4>1. coreState.version \in Nat
        BY DEF FileTypeOK
      <4>2. PICK s \in Settings, n \in {coreState.version, coreState.version + 1} :
              coreState' = [coreState EXCEPT !.sessions = FALSE, !.s = s, !.version = n]
        BY <3>3
      <4>3. n \in Nat
        BY <4>1, <4>2
      <4> QED
        BY <4>2, <4>3 DEF FileTypeOK
    <3> QED
      BY <1>1, <1>2, <2>3, <3>3, <3>4 DEF SessionEnds, FileTypeOK, SaverIsOfCore
  <2>4. CASE CoreShutdownRequested
    BY <1>1, <1>2, <2>4 DEF CoreShutdownRequested, FileTypeOK, SaverIsOfCore
  <2>5. CASE CoreExits
    BY <1>1, <1>2, <2>5, SettingsFacts DEF CoreExits, NoSaver, FileTypeOK, SaverIsOfCore
  <2>6. ASSUME NEW s \in Settings, StoreChanges(s)
        PROVE  FileTypeOK' /\ SaverIsOfCore'
    <3>1. coreState.phase = "up"
      BY <2>6, Zenon DEF StoreChanges, Usual
    <3>2. coreState.version + 1 \in Nat
      BY DEF FileTypeOK
    <3>3. coreState' = [coreState EXCEPT !.s = s, !.version = coreState.version + 1, !.sessions = TRUE]
      BY <2>6 DEF StoreChanges
    <3>4. FileTypeOK'
      <4>1. coreState' \in [phase : {"down", "starting", "up", "dropping"}, version : Nat,
                       s : Settings, sessions : BOOLEAN]
        BY <3>2, <3>3 DEF FileTypeOK
      <4> QED
        BY <1>1, <1>2, <2>6, <4>1 DEF StoreChanges, FileTypeOK
    <3>5. coreState'.phase = "up"
      BY <3>1, <3>3 DEF FileTypeOK
    <3> QED
      BY <2>6, <3>1, <3>4, <3>5 DEF StoreChanges, SaverIsOfCore
  <2>7. CASE SaverWakes
    BY ZenonT(60), <1>1, <1>2, <1>4, <2>7 DEF SaverWakes, FileTypeOK, SaverIsOfCore
  <2>8. CASE SaverFails
    BY <1>1, <1>2, <2>8 DEF SaverFails, FileTypeOK, SaverIsOfCore
  <2>9. CASE SaverWrites
    BY <1>1, <1>2, <2>9 DEF SaverWrites, FileTypeOK, SaverIsOfCore
  <2> QED
    BY <2>1, <2>2, <2>3, <2>4, <2>5, <2>6, <2>7, <2>8, <2>9 DEF Saver
<1> QED
  BY <1>3, <1>5

\* The desktop application reads, compares and writes.
LEMMA DesktopKeeps ==
    ASSUME Usual, FileInv,
           DesktopOpens \/ DesktopCompares \/ \E look \in Looks : DesktopWrites(look)
    PROVE  FileInv'
<1> USE DEF FileInv
<1>1. UNCHANGED <<coreState, saver, watcher, shown, inFile>>
  BY DEF DesktopOpens, DesktopCompares, DesktopWrites
<1>2. CASE DesktopOpens \/ DesktopCompares
  <2>1. file' \in Documents /\ file'.stamp >= file.stamp
    BY <1>2, ReadFacts DEF DesktopOpens, DesktopCompares
  <2>2. FileTypeOK'
    BY ZenonT(60), <1>1, <1>2, <2>1 DEF DesktopOpens, DesktopCompares, FileTypeOK, Documents
  <2> QED
    BY SMTT(40), <1>1, <2>1, <2>2 DEF SaverIsOfCore, WatcherIsOrdered, Latest, FileTypeOK, Documents
<1>3. ASSUME NEW look \in Looks, DesktopWrites(look)
      PROVE  FileInv'
  <2>1. [desktop.form.s EXCEPT !.look = look] \in Settings
    BY DEF FileTypeOK, Documents, Settings
  <2>2. file' \in Documents /\ file'.stamp >= file.stamp
    BY <1>3, <2>1 DEF DesktopWrites, Written, FileTypeOK, Documents
  <2>3. FileTypeOK'
    BY <1>1, <1>3, <2>2 DEF DesktopWrites, FileTypeOK
  <2> QED
    BY SMTT(40), <1>1, <2>2, <2>3 DEF SaverIsOfCore, WatcherIsOrdered, Latest, FileTypeOK, Documents
<1> QED
  BY <1>2, <1>3

\* The overlay and its watcher thread.
LEMMA FileOverlayKeeps ==
    ASSUME Usual, FileInv, OverlayBegins \/ Watcher \/ OverlayTakes
    PROVE  FileInv'
<1> USE DEF FileInv
<1>1. UNCHANGED <<coreState, saver, desktop, inFile>>
  BY DEF OverlayBegins, Watcher, FirstSignature, SignatureChanged, WatcherReads, WatcherSends,
     WatcherReadFails, OverlayTakes
<1>2. SaverIsOfCore'
  BY <1>1 DEF SaverIsOfCore
<1>3. file.stamp \in Nat
  BY DEF FileTypeOK, Documents
<1>4. CASE OverlayBegins
  <2>1. file' \in Documents /\ file'.stamp \in Nat
    BY <1>4, ReadFacts DEF OverlayBegins, Documents
  <2>2. FileTypeOK'
    <3>1. <<>> \in Seq(Nat)
      OBVIOUS
    <3>2. watcher' = [pc |-> "start", signature |-> 0, seen |-> FALSE, doc |-> 0, queue |-> <<>>]
      BY <1>4 DEF OverlayBegins, NoWatcher
    <3> QED
      <4>1. watcher' \in [pc : {"none", "start", "watch", "read", "send"}, signature : Nat,
                          seen : BOOLEAN, doc : Nat, queue : Seq(Nat)]
        BY <3>1, <3>2
      <4> QED
        BY <1>1, <1>4, <2>1, <4>1 DEF OverlayBegins, FileTypeOK
  <2> QED
    BY <1>2, <1>4, <2>1, <2>2 DEF OverlayBegins, NoWatcher, WatcherIsOrdered, Latest
<1>5. CASE WatcherSends
  <2>1. watcher'.queue = Append(watcher.queue, watcher.doc) /\ watcher'.queue \in Seq(Nat)
    BY <1>5 DEF WatcherSends, FileTypeOK
  <2>2. watcher'.queue # <<>> /\ watcher'.queue[Len(watcher'.queue)] = watcher.doc
    BY <2>1 DEF FileTypeOK
  <2>3. FileTypeOK'
    BY <1>1, <1>5, <2>1 DEF WatcherSends, FileTypeOK
  <2>4. Latest' = watcher.doc
    BY <2>2 DEF Latest
  <2> QED
    BY <1>2, <1>5, <2>3, <2>4 DEF WatcherSends, WatcherIsOrdered, FileTypeOK
<1>6. CASE OverlayTakes
  <2>1. Len(watcher.queue) \in 1..Len(watcher.queue) /\ shown' \in Nat
    BY <1>6 DEF OverlayTakes, FileTypeOK
  <2>2. FileTypeOK' /\ Latest' = Latest
    <3>1. <<>> \in Seq(Nat)
      OBVIOUS
    <3>2. FileTypeOK'
      BY <1>1, <1>6, <2>1, <3>1 DEF OverlayTakes, FileTypeOK
    <3> QED
      BY <1>6, <3>2 DEF OverlayTakes, FileTypeOK, Latest
  <2> QED
    BY <1>2, <1>6, <2>2 DEF OverlayTakes, WatcherIsOrdered, FileTypeOK
<1>7. CASE FirstSignature \/ SignatureChanged \/ WatcherReads \/ WatcherReadFails
  <2>0. /\ watcher'.queue = watcher.queue /\ shown' = shown /\ file' = file
        /\ watcher' \in [pc : {"none", "start", "watch", "read", "send"}, signature : Nat,
                          seen : BOOLEAN, doc : Nat, queue : Seq(Nat)]
    BY <1>3, <1>7 DEF FirstSignature, SignatureChanged, WatcherReads, WatcherReadFails, FileTypeOK
  <2>1. FileTypeOK' /\ Latest' = Latest /\ Latest \in Nat
    <3>1. FileTypeOK'
      BY <1>1, <2>0 DEF FileTypeOK
    <3>2. Latest \in Nat
      <4>1. CASE watcher.queue # <<>>
        <5>1. watcher.queue \in Seq(Nat) /\ Len(watcher.queue) \in 1..Len(watcher.queue)
          BY <4>1 DEF FileTypeOK
        <5> QED
          BY <4>1, <5>1 DEF Latest
      <4> QED
        BY <4>1 DEF Latest, FileTypeOK
    <3> QED
      BY <2>0, <3>1, <3>2 DEF Latest
  <2>2. CASE FirstSignature
    BY <1>2, <1>3, <2>1, <2>2 DEF FirstSignature, WatcherIsOrdered, FileTypeOK
  <2>3. CASE SignatureChanged
    BY <1>2, <1>3, <2>1, <2>3 DEF SignatureChanged, WatcherIsOrdered, FileTypeOK
  <2>4. CASE WatcherReads
    BY <1>2, <1>3, <2>1, <2>4 DEF WatcherReads, WatcherIsOrdered, FileTypeOK
  <2>5. CASE WatcherReadFails
    BY <1>2, <1>3, <2>1, <2>5 DEF WatcherReadFails, WatcherIsOrdered, FileTypeOK
  <2> QED
    BY <1>7, <2>2, <2>3, <2>4, <2>5
<1> QED
  BY <1>4, <1>5, <1>6, <1>7 DEF Watcher

LEMMA FileStep == ASSUME Usual, FileInv, [FileNext]_fileVars PROVE FileInv'
<1>1. CASE UNCHANGED fileVars
  BY <1>1 DEF fileVars, FileInv, FileTypeOK, SaverIsOfCore, WatcherIsOrdered, Latest
<1> QED
  BY <1>1, FileCoreKeeps, DesktopKeeps, FileOverlayKeeps DEF FileNext

\* FileInv is an invariant of the four users of the control file.
THEOREM FileInvariant == ASSUME Usual PROVE FileSpec => []FileInv
<1>1. FileInit => FileInv
  BY FileStarts
<1>2. FileInv /\ [FileNext]_fileVars => FileInv'
  BY FileStep
<1> QED
  BY <1>1, <1>2, PTL DEF FileSpec

\* The persistence thread takes for persisted exactly what it wrote, and the
\* watcher for known only what the overlay has or is about to take, for every
\* number of writes, failures and restarts between a read and its use.
THEOREM FileAlwaysFollowed == ASSUME Usual PROVE FileSpec => []FileIsFollowed
<1>1. FileInv => FileIsFollowed
  BY DEF FileInv, FileIsFollowed, PersistedMeansWritten, KnownIsShown, SaverIsOfCore,
     WatcherIsOrdered, FileTypeOK, Documents, Latest
<1> QED
  BY <1>1, FileInvariant, PTL

-----------------------------------------------------------------------------
(* The publication and review of knowledge, for every set of datasets,      *)
(* errors, drafts, operators, publishers and readers.  A statement and its   *)
(* triggers are one step, so what the step does to the manifest follows from *)
(* the state of the dataset and of its Error Book after the statement.       *)

ManifestStatus == {NoRow, "candidate", "validated", "published"}

\* What the triggers make of a manifest.
LEMMA PublishFacts ==
  ASSUME NEW m \in [Datasets -> Versioned(ManifestStatus)], NEW v, NEW b, NEW d \in Datasets
  PROVE  /\ Publish(m, v, b, d) \in [Datasets -> Versioned(ManifestStatus)]
         /\ \A x \in Datasets : x # d => Publish(m, v, b, d)[x] = m[x]
         /\ Publish(m, v, b, d)[d].status = NoRow <=> m[d].status = NoRow
         /\ Publish(m, v, b, d)[d].status = "candidate" <=> m[d].status = "candidate"
         /\ Publish(m, v, b, d)[d].status = "published" /\ m[d].status # "published" =>
              v[d].verified /\ OpenErrors(b, d) = {}
         /\ m[d].status = "validated" /\ v[d].verified /\ v[d].active /\ OpenErrors(b, d) = {} =>
              Publish(m, v, b, d)[d].status = "published"
  BY DEF Publish, Versioned, ManifestStatus, NoRow

LEMMA DemoteFacts ==
  ASSUME NEW m \in [Datasets -> Versioned(ManifestStatus)], NEW d \in Datasets
  PROVE  /\ Demote(m, d) \in [Datasets -> Versioned(ManifestStatus)]
         /\ \A x \in Datasets : x # d => Demote(m, d)[x] = m[x]
         /\ Demote(m, d)[d].status = NoRow <=> m[d].status = NoRow
         /\ Demote(m, d)[d].status \in {NoRow, "candidate"}
  BY DEF Demote, Versioned, ManifestStatus, NoRow

-----------------------------------------------------------------------------
\* The invariant of the database, without the requests in flight.
DatabaseInv ==
  /\ DatabaseTypeOK
  /\ \A d \in Public : \A k \in seed[d] : 1..k \subseteq seed[d]
  /\ RowsAreLoaded /\ CandidateIsBlamed /\ PublishedHasNoError /\ PageShowsReviewed

tables == <<data, manifest, book, revision, page, seed>>

LEMMA TablesKeep == ASSUME DatabaseInv, UNCHANGED tables PROVE DatabaseInv'
<1> USE DEF DatabaseInv, tables
<1>1. DatabaseTypeOK'
  BY DEF DatabaseTypeOK
<1>2. RowsAreLoaded'
  BY DEF RowsAreLoaded
<1>3. CandidateIsBlamed' /\ PublishedHasNoError'
  BY DEF CandidateIsBlamed, PublishedHasNoError, OpenErrors
<1>4. PageShowsReviewed'
  BY DEF PageShowsReviewed
<1> QED
  BY <1>1, <1>2, <1>3, <1>4

\* A dataset stays verified, a revision that was reviewed stays so, and files
\* that are loaded stay loaded: what requests rely on.
OnlyGrows ==
  /\ \A d \in Datasets : data[d].verified => data'[d].verified
  /\ \A d \in Datasets, r \in Revisions :
       revision[d][r].status \in {"reviewed", "superseded"} =>
         revision'[d][r].status \in {"reviewed", "superseded"}
  /\ \A d \in Public : seed[d] \subseteq seed'[d]

LEMMA ReadersKeep ==
  ASSUME KPInv, OnlyGrows, UNCHANGED <<reader, cache>>, ScopesAssumption
  PROVE  ReadersAreServed'
<1> USE DEF KPInv, RequestsTypeOK
<1>1. ASSUME NEW n \in Readers, reader[n].step # "idle"
      PROVE  reader[n].d \in Datasets
  BY <1>1
<1>2. ASSUME NEW n \in Readers, reader[n].step \in {"linking", "served"}
      PROVE  reader[n].d \in Datasets /\ reader[n].page \in {0} \cup Revisions
  BY <1>2
<1>3. cache # <<>> => cache[1].d \in Datasets /\ cache[1].page \in {0} \cup Revisions
  OBVIOUS
<1>4. ASSUME NEW n \in Readers, reader[n].step \in {"linking", "served"}
      PROVE  WasReviewed(reader[n].d, reader[n].page)'
  BY <1>2, <1>4 DEF ReadersAreServed, WasReviewed, OnlyGrows
<1>5. ASSUME NEW n \in Readers, reader[n].step # "idle"
      PROVE  data'[reader[n].d].verified
  BY <1>1, <1>5 DEF ReadersAreServed, OnlyGrows
<1>6. cache # <<>> => WasReviewed(cache[1].d, cache[1].page)'
  BY <1>3 DEF ReadersAreServed, WasReviewed, OnlyGrows
<1> QED
  BY <1>4, <1>5, <1>6 DEF ReadersAreServed

LEMMA FilesKeep ==
  ASSUME KPInv, OnlyGrows, UNCHANGED publisher
  PROVE  \A p \in Publishers :
           /\ publisher[p].step = "apply" =>
                /\ publisher[p].next <= publisher[p].last
                /\ publisher[p].next > 1 => publisher[p].next - 1 \in seed'[publisher[p].d]
           /\ publisher[p].step = "promote" => 4 \in seed'[publisher[p].d]
<1> SUFFICES ASSUME NEW p \in Publishers
             PROVE  /\ publisher[p].step = "apply" =>
                        /\ publisher[p].next <= publisher[p].last
                        /\ publisher[p].next > 1 =>
                             publisher[p].next - 1 \in seed'[publisher[p].d]
                    /\ publisher[p].step = "promote" => 4 \in seed'[publisher[p].d]
  OBVIOUS
<1>1. publisher[p].step \in {"apply", "promote"} => publisher[p].d \in Public
  BY DEF KPInv, RequestsTypeOK
<1> QED
  BY <1>1 DEF KPInv, FilesInOrder, OnlyGrows

\* The invariant of one dataset.
DatasetInv(d) ==
  /\ d \in Public =>
       /\ \A k \in seed[d] : 1..k \subseteq seed[d]
       /\ data[d].quality # NoRow <=> 1 \in seed[d]
       /\ page[d] # 0 <=> 2 \in seed[d]
       /\ manifest[d].status # NoRow <=> 3 \in seed[d]
       /\ data[d].verified => 4 \in seed[d]
  /\ d \in Full =>
       /\ page[d] # 0 <=> data[d].quality # NoRow
       /\ manifest[d].status # NoRow <=> data[d].quality # NoRow
       /\ data[d].verified => data[d].quality # NoRow
  /\ data[d].active => data[d].verified
  /\ page[d] = 0 => \A r \in Revisions : revision[d][r].status = NoRow
  /\ manifest[d].status = "candidate" /\ (d \in Public => 4 \in seed[d]) =>
       OpenErrors(book, d) # {}
  /\ manifest[d].status = "published" => data[d].verified /\ OpenErrors(book, d) = {}
  /\ page[d] # 0 =>
       {r \in DOMAIN revision[d] : revision[d][r].status = "reviewed"} = {page[d]}

LEMMA DatasetsSplit == DatabaseInv <=> DatabaseTypeOK /\ \A d \in Datasets : DatasetInv(d)
  BY DEF DatabaseInv, RowsAreLoaded, CandidateIsBlamed, PublishedHasNoError, PageShowsReviewed,
         DatasetInv, Datasets

\* A dataset whose rows a step leaves alone keeps its invariant.
LEMMA UntouchedKeeps ==
  ASSUME NEW d \in Datasets, DatasetInv(d), data'[d] = data[d], manifest'[d] = manifest[d],
         book'[d] = book[d], revision'[d] = revision[d], page'[d] = page[d],
         d \in Public => seed'[d] = seed[d]
  PROVE  DatasetInv(d)'
<1>1. OpenErrors(book, d)' = OpenErrors(book, d)
  BY DEF OpenErrors
<1>2. {r \in DOMAIN revision'[d] : revision'[d][r].status = "reviewed"}
        = {r \in DOMAIN revision[d] : revision[d][r].status = "reviewed"}
  OBVIOUS
<1> QED
  BY <1>1, <1>2 DEF DatasetInv

LEMMA DatabaseFromParts ==
  ASSUME DatabaseTypeOK', \A x \in Datasets : DatasetInv(x)'
  PROVE  DatabaseInv'
  BY DEF DatabaseInv, RowsAreLoaded, CandidateIsBlamed, PublishedHasNoError, PageShowsReviewed,
         DatasetInv, Datasets

\* A step that touches one dataset.
LEMMA OneDataset ==
  ASSUME KPInv, NEW d \in Datasets, DatabaseTypeOK', DatasetInv(d)',
         \A x \in Datasets \ {d} :
           /\ data'[x] = data[x] /\ manifest'[x] = manifest[x] /\ book'[x] = book[x]
           /\ revision'[x] = revision[x] /\ page'[x] = page[x]
           /\ x \in Public => seed'[x] = seed[x]
  PROVE  DatabaseInv'
<1>1. \A x \in Datasets : DatasetInv(x)
  BY DatasetsSplit DEF KPInv, DatabaseInv, FilesInOrder
<1>2. \A x \in Datasets : DatasetInv(x)'
  BY <1>1, UntouchedKeeps
<1> QED
  BY <1>2, DatabaseFromParts

LEMMA InvSplits == KPInv <=> DatabaseInv /\ RequestsTypeOK /\ FilesInOrder /\ ReadersAreServed
  BY DEF KPInv, DatabaseInv, FilesInOrder

-----------------------------------------------------------------------------
(* The steps.                                                              *)

LEMMA KPStarts == ASSUME ScopesAssumption, KPInit PROVE KPInv
<1> USE DEF KPInit
<1>1. DatabaseTypeOK
  BY DEF DatabaseTypeOK, Versioned, NoRow, Revisions, Datasets
<1>2. RequestsTypeOK
  BY DEF RequestsTypeOK, IdlePublisher, IdleReview, IdleReader
<1>3. FilesInOrder
  BY DEF FilesInOrder, IdlePublisher
<1>4. RowsAreLoaded /\ CandidateIsBlamed /\ PublishedHasNoError /\ PageShowsReviewed
  BY DEF RowsAreLoaded, CandidateIsBlamed, PublishedHasNoError, PageShowsReviewed, Datasets,
         NoRow, Revisions
<1>5. ReadersAreServed
  BY DEF ReadersAreServed, IdleReader
<1> QED
  BY <1>1, <1>2, <1>3, <1>4, <1>5 DEF KPInv


\* A step of the database leaves readers and cache alone.
LEMMA StepKeeps ==
  ASSUME KPInv, ScopesAssumption, DatabaseInv', OnlyGrows, UNCHANGED <<reader, cache>>,
         RequestsTypeOK',
         \/ UNCHANGED publisher
         \/ \A p \in Publishers :
              /\ publisher'[p].step = "apply" =>
                   /\ publisher'[p].next <= publisher'[p].last
                   /\ publisher'[p].next > 1 => publisher'[p].next - 1 \in seed'[publisher'[p].d]
              /\ publisher'[p].step = "promote" => 4 \in seed'[publisher'[p].d]
  PROVE  KPInv'
<1>1. ReadersAreServed'
  BY ReadersKeep
<1>2. FilesInOrder'
  BY FilesKeep DEF FilesInOrder, DatabaseInv
<1> QED
  BY <1>1, <1>2 DEF KPInv, DatabaseInv

\* Requests that only look.
LEMMA LooksKeep ==
  ASSUME KPInv, ScopesAssumption, UNCHANGED tables, UNCHANGED publisher,
         UNCHANGED <<reader, cache>>, RequestsTypeOK'
  PROVE  KPInv'
<1>1. DatabaseInv'
  BY InvSplits, TablesKeep
<1>2. OnlyGrows
  BY DEF OnlyGrows, tables
<1>3. ReadersAreServed'
  BY <1>2, ReadersKeep
<1>4. FilesInOrder'
  BY <1>1, <1>2, FilesKeep DEF FilesInOrder, DatabaseInv
<1>5. DatabaseInv' /\ RequestsTypeOK' /\ FilesInOrder' /\ ReadersAreServed'
  BY <1>1, <1>3, <1>4
<1> QED
  BY <1>5 DEF KPInv, DatabaseInv

LEMMA BrowsingKeeps ==
  ASSUME KPInv, ScopesAssumption, NEW o \in Operators,
         \/ \E d \in Datasets, e \in Errors : BrowseErrors(o, d, e)
         \/ \E d \in Datasets : BrowseManifests(o, d)
         \/ \E d \in Datasets, r \in Drafts : BrowseRevisions(o, d, r)
         \/ \E c \in {"approve", "reject"} : GateRevision(o, c)
  PROVE  KPInv'
<1>1. UNCHANGED tables /\ UNCHANGED publisher /\ UNCHANGED <<reader, cache>>
  BY DEF BrowseErrors, BrowseManifests, BrowseRevisions, GateRevision, tables
<1> DEFINE Errs == [step : {"error"}, d : Datasets, e : Errors, seen : Versioned(BookStatus)]
           Mans == [step : {"manifest", "validate"}, d : Datasets, seen : Nat]
           Revs == [step : {"revision", "approve", "reject"}, d : Datasets, r : Drafts, seen : Nat]
           Idles == [step : {"idle"}, outcome : {"none", "audited", "audited_conflict",
                                                "audited_blocked", "conflict"}]
<1>2. review \in [Operators -> Idles \cup Errs \cup Mans \cup Revs]
  BY DEF KPInv, RequestsTypeOK
<1>3. \E q \in Idles \cup Errs \cup Mans \cup Revs : review' = [review EXCEPT ![o] = q]
  <2>1. ASSUME NEW d \in Datasets, NEW e \in Errors, BrowseErrors(o, d, e)
        PROVE  \E q \in Errs : review' = [review EXCEPT ![o] = q]
    <3>1. book[d][e] \in Versioned(BookStatus)
      BY <2>1 DEF BrowseErrors, KPInv, DatabaseTypeOK, Versioned
    <3> QED
      BY <2>1, <3>1 DEF BrowseErrors
  <2>2. ASSUME NEW d \in Datasets, BrowseManifests(o, d)
        PROVE  \E q \in Mans : review' = [review EXCEPT ![o] = q]
    <3>1. manifest[d].version \in Nat
      BY DEF KPInv, DatabaseTypeOK, Versioned
    <3> QED
      BY <2>2, <3>1 DEF BrowseManifests
  <2>3. ASSUME NEW d \in Datasets, NEW r \in Drafts, BrowseRevisions(o, d, r)
        PROVE  \E q \in Revs : review' = [review EXCEPT ![o] = q]
    <3>1. revision[d][r].version \in Nat
      BY DEF KPInv, DatabaseTypeOK, Revisions
    <3> QED
      BY <2>3, <3>1 DEF BrowseRevisions
  <2>4. ASSUME NEW c \in {"approve", "reject"}, GateRevision(o, c)
        PROVE  \E q \in Idles \cup Revs : review' = [review EXCEPT ![o] = q]
    <3>1. review[o] \in Revs
      BY <1>2, <2>4 DEF GateRevision
    <3>2. [review[o] EXCEPT !.step = c] \in Revs
      BY <3>1
    <3> QED
      BY <2>4, <3>1, <3>2 DEF GateRevision, Ended
  <2> HIDE DEF Errs, Mans, Revs, Idles
  <2> QED
    BY <2>1, <2>2, <2>3, <2>4
<1>4. review' \in [Operators -> Idles \cup Errs \cup Mans \cup Revs]
  <2> HIDE DEF Errs, Mans, Revs, Idles
  <2> QED
    BY <1>2, <1>3
<1>5. RequestsTypeOK'
  BY <1>1, <1>4 DEF KPInv, RequestsTypeOK
<1> QED
  BY <1>1, <1>5, LooksKeep

\* Readers and the cache.
LEMMA ReadingKeeps ==
  ASSUME KPInv, ScopesAssumption,
         \/ \E n \in Readers :
              \/ \E d \in Datasets :
                   PickDataset(n, d) \/ ReadPage(n, d) \/ AskAssistant(n, d)
              \/ SearchPages(n) \/ GatherEvidence(n) \/ LoadLinks(n) \/ ReadCached(n) \/ EndRead(n)
         \/ ExpireCache
  PROVE  KPInv'
<1> DEFINE Picks == [step : {"picked", "asked"}, d : Datasets]
           Reads == [step : {"linking", "served"}, d : Datasets, page : {0} \cup Revisions]
           CachedPages == [d : Datasets, page : {0} \cup Revisions]
           Good(q) == \/ q = IdleReader
                      \/ q \in Picks /\ data[q.d].verified
                      \/ q \in Reads /\ WasReviewed(q.d, q.page)
           Kept(c) == c = <<>> \/ \E x \in CachedPages : c = <<x>> /\ WasReviewed(x.d, x.page)
<1>1. UNCHANGED tables /\ UNCHANGED publisher /\ UNCHANGED review
  BY DEF PickDataset, ReadPage, AskAssistant, SearchPages, GatherEvidence, LoadLinks, ReadCached,
         EndRead, ExpireCache, tables
<1>2. reader \in [Readers -> {IdleReader} \cup Picks \cup Reads] /\ \A n \in Readers : Good(reader[n])
  <2>1. reader \in [Readers -> {IdleReader} \cup Picks \cup Reads]
    BY DEF KPInv, RequestsTypeOK, IdleReader
  <2> QED
    BY <2>1 DEF KPInv, ReadersAreServed, IdleReader
<1>3. Kept(cache)
  BY DEF KPInv, RequestsTypeOK, ReadersAreServed
<1>4. ASSUME NEW d \in Datasets, data[d].verified
      PROVE  page[d] \in Revisions /\ WasReviewed(d, page[d])
  <2>1. page[d] # 0
    BY <1>4 DEF KPInv, RowsAreLoaded, DatabaseTypeOK, FilesInOrder, Datasets, SeedFiles
  <2>2. page[d] \in Revisions /\ DOMAIN revision[d] = Revisions
    BY <2>1 DEF KPInv, DatabaseTypeOK
  <2> QED
    BY <1>4, <2>1, <2>2 DEF KPInv, PageShowsReviewed, WasReviewed
<1>5. ASSUME NEW d \in Datasets, Preferred(d) PROVE data[d].verified
  BY <1>5 DEF Preferred, Retrievable
<1>6. ASSUME NEW d \in Datasets, manifest[d].status = "published" PROVE data[d].verified
  BY <1>6 DEF KPInv, PublishedHasNoError
<1>7. /\ Kept(cache')
      /\ \/ UNCHANGED reader
         \/ \E n \in Readers : \E q : Good(q) /\ reader' = [reader EXCEPT ![n] = q]
  <2>1. ASSUME NEW n \in Readers, NEW d \in Datasets, PickDataset(n, d)
        PROVE  cache' = cache /\ \E q : Good(q) /\ reader' = [reader EXCEPT ![n] = q]
    BY <2>1, <1>5 DEF PickDataset
  <2>2. ASSUME NEW n \in Readers, NEW d \in Datasets, ReadPage(n, d)
        PROVE  cache' = cache /\ \E q : Good(q) /\ reader' = [reader EXCEPT ![n] = q]
    <3>1. [step |-> "linking", d |-> d, page |-> page[d]] \in Reads /\ WasReviewed(d, page[d])
      BY <2>2, <1>4, <1>5 DEF ReadPage
    <3>2. Good([step |-> "linking", d |-> d, page |-> page[d]])
      BY <3>1
    <3> HIDE DEF Good
    <3> QED
      BY <2>2, <3>2 DEF ReadPage
  <2>3. ASSUME NEW n \in Readers, NEW d \in Datasets, AskAssistant(n, d)
        PROVE  cache' = cache /\ \E q : Good(q) /\ reader' = [reader EXCEPT ![n] = q]
    BY <2>3, <1>6 DEF AskAssistant
  <2>4. ASSUME NEW n \in Readers, SearchPages(n) \/ GatherEvidence(n)
        PROVE  cache' = cache /\ \E q : Good(q) /\ reader' = [reader EXCEPT ![n] = q]
    <3> DEFINE d == reader[n].d
    <3>1. reader[n] \in Picks /\ data[d].verified
      BY <2>4, <1>2 DEF SearchPages, GatherEvidence, IdleReader
    <3>2. Good([step |-> "served", d |-> d, page |-> page[d]])
      BY <3>1, <1>4
    <3> HIDE DEF Good
    <3> QED
      BY <2>4, <3>2 DEF SearchPages, GatherEvidence
  <2>5. ASSUME NEW n \in Readers, LoadLinks(n)
        PROVE  Kept(cache') /\ \E q : Good(q) /\ reader' = [reader EXCEPT ![n] = q]
    <3>1. reader[n] \in Reads /\ WasReviewed(reader[n].d, reader[n].page)
      BY <2>5, <1>2 DEF LoadLinks, IdleReader
    <3>2. Good([reader[n] EXCEPT !.step = "served"]) /\ Good(IdleReader)
      BY <3>1
    <3> DEFINE x == [d |-> reader[n].d, page |-> reader[n].page]
    <3>3. x \in CachedPages /\ WasReviewed(x.d, x.page)
      BY <3>1
    <3>4. Kept(<<x>>)
      BY <3>3
    <3> HIDE DEF Good, Kept
    <3> QED
      BY <2>5, <1>3, <3>2, <3>4 DEF LoadLinks
  <2>6. ASSUME NEW n \in Readers, ReadCached(n)
        PROVE  cache' = cache /\ \E q : Good(q) /\ reader' = [reader EXCEPT ![n] = q]
    <3>1. Good([step |-> "served", d |-> cache[1].d, page |-> cache[1].page])
      BY <2>6, <1>3 DEF ReadCached
    <3> HIDE DEF Good
    <3> QED
      BY <2>6, <3>1 DEF ReadCached
  <2>7. ASSUME NEW n \in Readers, EndRead(n)
        PROVE  cache' = cache /\ \E q : Good(q) /\ reader' = [reader EXCEPT ![n] = q]
    BY <2>7 DEF EndRead
  <2>8. ExpireCache => Kept(cache') /\ UNCHANGED reader
    BY DEF ExpireCache
  <2> HIDE DEF Good, Kept
  <2> QED
    BY <1>3, <2>1, <2>2, <2>3, <2>4, <2>5, <2>6, <2>7, <2>8
<1>8. reader' \in [Readers -> {IdleReader} \cup Picks \cup Reads] /\ \A n \in Readers : Good(reader'[n])
  <2>1. CASE UNCHANGED reader
    BY <1>2, <2>1
  <2>2. ASSUME NEW n \in Readers, NEW q, Good(q), reader' = [reader EXCEPT ![n] = q]
        PROVE  reader' \in [Readers -> {IdleReader} \cup Picks \cup Reads]
               /\ \A m \in Readers : Good(reader'[m])
    <3>1. q \in {IdleReader} \cup Picks \cup Reads
      BY <2>2
    <3> HIDE DEF Good, Picks, Reads
    <3> QED
      BY <2>2, <3>1, <1>2
  <2> HIDE DEF Good, Picks, Reads
  <2> QED
    BY <1>7, <2>1, <2>2
<1>9. RequestsTypeOK'
  BY <1>1, <1>7, <1>8 DEF KPInv, RequestsTypeOK, IdleReader
<1>10. ReadersAreServed'
  <2>1. ASSUME NEW d, NEW r, WasReviewed(d, r) PROVE WasReviewed(d, r)'
    BY <2>1, <1>1 DEF WasReviewed, tables
  <2>2. ASSUME NEW n \in Readers, reader'[n].step # "idle" PROVE data'[reader'[n].d].verified
    BY <1>1, <1>8, <2>2 DEF IdleReader, tables, WasReviewed
  <2>3. ASSUME NEW n \in Readers, reader'[n].step \in {"linking", "served"}
        PROVE  WasReviewed(reader'[n].d, reader'[n].page)
    BY <1>8, <2>3 DEF IdleReader
  <2>4. cache' # <<>> => WasReviewed(cache'[1].d, cache'[1].page)
    BY <1>7
  <2> QED
    BY <1>1, <2>2, <2>3, <2>4 DEF ReadersAreServed, WasReviewed, tables
<1>11. DatabaseInv'
  BY <1>1, InvSplits, TablesKeep
<1>12. FilesInOrder'
  BY <1>1 DEF KPInv, FilesInOrder, tables
<1> QED
  BY <1>9, <1>10, <1>11, <1>12 DEF KPInv, DatabaseInv


-----------------------------------------------------------------------------
LEMMA SeedFullKeeps ==
  ASSUME KPInv, ScopesAssumption, NEW d \in Full, NEW q \in Qualities, NEW E \in GapSets,
         SeedFull(d, q, E)
  PROVE  KPInv'
<1> USE DEF SeedFull
<1>0. d \in Datasets /\ d \notin Public /\ DatasetInv(d) /\ DatabaseTypeOK
  BY InvSplits, DatasetsSplit DEF Datasets, ScopesAssumption
<1>1. DatabaseTypeOK'
  <2> DEFINE Rows == [quality : Qualities \cup {NoRow}, verified : BOOLEAN, active : BOOLEAN]
  <2>1. data' \in [Datasets -> Rows]
    <3>1. data \in [Datasets -> Rows] /\ data' = [data EXCEPT ![d] = [@ EXCEPT !.quality = q]]
      BY <1>0 DEF DatabaseTypeOK
    <3>2. [data[d] EXCEPT !.quality = q] \in Rows
      BY <1>0, <3>1
    <3> QED
      BY <1>0, <3>1, <3>2
  <2>2. manifest' \in [Datasets -> Versioned({NoRow, "candidate", "validated", "published"})]
    BY <1>0 DEF DatabaseTypeOK, Versioned
  <2>3. book' \in [Datasets -> [Errors -> Versioned(BookStatus \cup {NoRow})]]
    BY <1>0 DEF DatabaseTypeOK, Versioned, BookStatus, Unresolved
  <2>4. Compiled(IF q = "exact" THEN "valid" ELSE "invalid") \in [Revisions ->
            [status : {NoRow, "draft", "reviewed", "superseded", "rejected"},
             version : Nat, claims : {"valid", "invalid"}]]
    BY DEF Compiled, Revisions
  <2>5. page' \in [Datasets -> {0} \cup Revisions]
    BY <1>0 DEF DatabaseTypeOK, Revisions
  <2> QED
    BY <1>0, <2>1, <2>2, <2>3, <2>4, <2>5 DEF DatabaseTypeOK
<1>2. /\ data'[d].quality = q /\ q # NoRow
      /\ data'[d].verified = data[d].verified /\ data'[d].active = data[d].active
      /\ manifest'[d].status = (IF E = {} THEN "validated" ELSE "candidate")
      /\ \A e \in E : book'[d][e].status = "open"
      /\ page'[d] = 1
      /\ revision'[d] = Compiled(IF q = "exact" THEN "valid" ELSE "invalid")
  BY <1>0 DEF DatabaseTypeOK, Qualities, NoRow, GapSets
<1>3. ~data[d].verified /\ ~data[d].active
  BY <1>0 DEF DatasetInv
<1>4. DatasetInv(d)'
  <2>1. E # {} => OpenErrors(book', d) # {}
    BY <1>2 DEF OpenErrors, GapSets, Unresolved
  <2>2. {r \in DOMAIN revision'[d] : revision'[d][r].status = "reviewed"} = {1}
    BY <1>2 DEF Compiled, NoRow
  <2> QED
    BY <1>0, <1>2, <1>3, <2>1, <2>2 DEF DatasetInv, NoRow, OpenErrors
<1>5. DatabaseInv'
  BY <1>0, <1>1, <1>4, OneDataset DEF DatabaseTypeOK
<1>6. OnlyGrows
  <2>1. \A r \in Revisions : revision[d][r].status = NoRow
    BY <1>0 DEF DatasetInv
  <2> QED
    BY <1>0, <1>2, <2>1 DEF OnlyGrows, DatabaseTypeOK, NoRow
<1>7. RequestsTypeOK'
  BY DEF KPInv, RequestsTypeOK
<1> QED
  BY <1>5, <1>6, <1>7, StepKeeps

LEMMA ActivateKeeps ==
  ASSUME KPInv, ScopesAssumption, NEW d \in Full, ActivateFull(d)
  PROVE  KPInv'
<1> DEFINE Rows == [quality : Qualities \cup {NoRow}, verified : BOOLEAN, active : BOOLEAN]
<1>0. d \in Datasets /\ d \notin Public /\ DatabaseTypeOK /\ \A x \in Datasets : DatasetInv(x)
  BY InvSplits, DatasetsSplit DEF Datasets, ScopesAssumption
<1>1. manifest \in [Datasets -> Versioned(ManifestStatus)] /\ data \in [Datasets -> Rows]
  BY <1>0 DEF DatabaseTypeOK, ManifestStatus
<1>2. /\ manifest' \in [Datasets -> Versioned(ManifestStatus)]
      /\ \A x \in Datasets : x # d => manifest'[x] = manifest[x]
      /\ manifest'[d].status = NoRow <=> manifest[d].status = NoRow
      /\ manifest'[d].status = "candidate" <=> manifest[d].status = "candidate"
      /\ manifest'[d].status = "published" /\ manifest[d].status # "published" =>
           data'[d].verified /\ OpenErrors(book, d) = {}
  <2>1. manifest' = Publish(manifest, data', book, d)
    BY DEF ActivateFull
  <2> QED
    BY <1>0, <1>1, <2>1, PublishFacts
<1>3. data' \in [Datasets -> Rows]
  <2>1. \A x \in Datasets : /\ [data[x] EXCEPT !.verified = TRUE, !.active = TRUE] \in Rows
                            /\ [data[x] EXCEPT !.active = FALSE] \in Rows
    BY <1>1
  <2> HIDE DEF Rows
  <2> QED
    BY <1>1, <2>1 DEF ActivateFull
<1>4. /\ data'[d].verified /\ data'[d].quality = data[d].quality
      /\ \A x \in Datasets \ {d} :
           /\ data'[x].verified = data[x].verified /\ data'[x].quality = data[x].quality
           /\ data'[x].active => data[x].active
  BY <1>0, <1>1 DEF ActivateFull
<1>5. \A x \in Datasets : OpenErrors(book', x) = OpenErrors(book, x)
  BY DEF ActivateFull
<1>6. DatasetInv(d)'
  BY <1>0, <1>2, <1>4, <1>5 DEF DatasetInv, ActivateFull
<1>7. ASSUME NEW x \in Datasets \ {d} PROVE DatasetInv(x)'
  BY ZenonT(60), <1>0, <1>2, <1>4, <1>5 DEF DatasetInv, ActivateFull
<1>8. DatabaseTypeOK'
  BY <1>0, <1>2, <1>3 DEF DatabaseTypeOK, ManifestStatus, ActivateFull
<1>9. DatabaseInv'
  BY <1>6, <1>7, <1>8, DatabaseFromParts
<1>10. OnlyGrows /\ RequestsTypeOK'
  BY <1>4 DEF OnlyGrows, KPInv, RequestsTypeOK, ActivateFull
<1> QED
  BY <1>9, <1>10, StepKeeps DEF ActivateFull

LEMMA ReportErrorKeeps ==
  ASSUME KPInv, ScopesAssumption, NEW d \in Datasets, NEW e \in Errors, ReportError(d, e)
  PROVE  KPInv'
<1> USE DEF ReportError
<1>0. DatasetInv(d) /\ DatabaseTypeOK
  BY InvSplits, DatasetsSplit
<1>1. manifest \in [Datasets -> Versioned(ManifestStatus)]
  BY <1>0 DEF DatabaseTypeOK, ManifestStatus
<1>2. /\ manifest' \in [Datasets -> Versioned(ManifestStatus)]
      /\ \A x \in Datasets : x # d => manifest'[x] = manifest[x]
      /\ manifest'[d].status = NoRow <=> manifest[d].status = NoRow
      /\ manifest'[d].status \in {NoRow, "candidate"}
  BY <1>1, DemoteFacts
<1>3. /\ book' \in [Datasets -> [Errors -> Versioned(BookStatus \cup {NoRow})]]
      /\ book'[d][e].status = "open" /\ \A x \in Datasets : x # d => book'[x] = book[x]
  BY <1>0 DEF DatabaseTypeOK, Versioned, BookStatus, Unresolved
<1>4. DatabaseTypeOK'
  BY <1>0, <1>2, <1>3 DEF DatabaseTypeOK, ManifestStatus
<1>5. DatasetInv(d)'
  <2>1. OpenErrors(book', d) # {}
    BY <1>3 DEF OpenErrors, Unresolved
  <2> QED
    BY <1>0, <1>2, <2>1 DEF DatasetInv, NoRow
<1>6. DatabaseInv'
  BY <1>2, <1>3, <1>4, <1>5, OneDataset
<1>7. OnlyGrows /\ RequestsTypeOK'
  BY DEF OnlyGrows, KPInv, RequestsTypeOK
<1> QED
  BY <1>6, <1>7, StepKeeps

LEMMA DraftKeeps ==
  ASSUME KPInv, ScopesAssumption, NEW d \in Datasets, NEW r \in Drafts,
         NEW c \in {"valid", "invalid"}, DraftRevision(d, r, c)
  PROVE  KPInv'
<1> USE DEF DraftRevision
<1>0. DatasetInv(d) /\ DatabaseTypeOK /\ r \in Revisions
  BY InvSplits, DatasetsSplit DEF Revisions
<1>1. DatabaseTypeOK'
  BY <1>0 DEF DatabaseTypeOK
<1>2. /\ revision'[d] = [revision[d] EXCEPT ![r] = [status |-> "draft", version |-> 0, claims |-> c]]
      /\ DOMAIN revision[d] = Revisions
      /\ \A x \in Datasets : x # d => revision'[x] = revision[x]
  BY <1>0 DEF DatabaseTypeOK
<1>3. DatasetInv(d)'
  <2>1. {x \in DOMAIN revision'[d] : revision'[d][x].status = "reviewed"}
          = {x \in DOMAIN revision[d] : revision[d][x].status = "reviewed"}
    BY <1>0, <1>2 DEF NoRow
  <2> QED
    BY <1>0, <2>1 DEF DatasetInv
<1>4. DatabaseInv'
  BY <1>1, <1>2, <1>3, OneDataset
<1>5. OnlyGrows
  BY <1>0, <1>2 DEF OnlyGrows, NoRow
<1>6. RequestsTypeOK'
  BY DEF KPInv, RequestsTypeOK
<1> QED
  BY <1>4, <1>5, <1>6, StepKeeps


-----------------------------------------------------------------------------
(* The publish script.                                                     *)

LEMMA PlanKeeps ==
  ASSUME KPInv, ScopesAssumption, NEW p \in Publishers, NEW d \in Public,
         NEW k \in SeedFiles \cup {0}, PlanSeed(p, d, k)
  PROVE  KPInv'
<1> USE DEF PlanSeed
<1> DEFINE Plans == [step : {"idle"}]
                    \cup [step : {"apply"}, d : Public, next : SeedFiles, last : SeedFiles]
                    \cup [step : {"promote"}, d : Public]
           n == Cardinality(seed[d])
<1>1. seed[d] \subseteq SeedFiles /\ seed[d] = 1..n /\ n \in Nat
  <2>1. seed[d] \subseteq SeedFiles
    BY DEF KPInv, DatabaseTypeOK
  <2>2. IsFiniteSet(seed[d])
    <3>1. IsFiniteSet(1..4)
      <4>1. 1 \in Int /\ 4 \in Int
        OBVIOUS
      <4> QED
        BY <4>1, FS_Interval, Zenon
    <3> QED
      BY <2>1, <3>1, FS_Subset DEF SeedFiles
  <2> QED
    BY <2>1, <2>2, FS_CardinalityType
<1>2. publisher \in [Publishers -> Plans]
  BY DEF KPInv, RequestsTypeOK
<1>3. \E q \in Plans :
        /\ publisher' = [publisher EXCEPT ![p] = q]
        /\ q.step = "apply" => q.next <= q.last /\ (q.next > 1 => q.next - 1 \in seed[q.d])
        /\ q.step = "promote" => 4 \in seed[q.d]
  <2>1. CASE k \in SeedFiles \ seed[d]
    <3> DEFINE q == [step |-> "apply", d |-> d, next |-> n + 1, last |-> k]
    <3>1. k > n /\ n + 1 \in SeedFiles /\ (n + 1 > 1 => n \in seed[d])
      BY <1>1, <2>1 DEF SeedFiles
    <3>2. q \in Plans /\ q.next <= q.last /\ (q.next > 1 => q.next - 1 \in seed[q.d])
      BY <1>1, <2>1, <3>1 DEF SeedFiles
    <3>3. publisher' = [publisher EXCEPT ![p] = q]
      BY <2>1 DEF SeedFiles
    <3> QED
      BY <3>2, <3>3
  <2>2. CASE k = 0 /\ seed[d] = SeedFiles
    <3> DEFINE q == [step |-> "promote", d |-> d]
    <3>1. publisher' = [publisher EXCEPT ![p] = q]
      BY <2>2 DEF SeedFiles
    <3>2. q \in Plans /\ q.step = "promote" /\ 4 \in seed[q.d]
      BY <2>2 DEF SeedFiles
    <3> QED
      BY <3>1, <3>2
  <2> QED
    BY <2>1, <2>2
<1>4. publisher' \in [Publishers -> Plans]
  <2> HIDE DEF Plans
  <2> QED
    BY <1>2, <1>3
<1>5. UNCHANGED tables /\ UNCHANGED <<reader, cache>> /\ UNCHANGED review
  BY DEF tables
<1>6. RequestsTypeOK'
  BY <1>4, <1>5 DEF KPInv, RequestsTypeOK
<1>7. DatabaseInv' /\ OnlyGrows
  BY <1>5, InvSplits, TablesKeep DEF OnlyGrows, tables
<1>8. \A x \in Publishers :
        /\ publisher'[x].step = "apply" =>
             /\ publisher'[x].next <= publisher'[x].last
             /\ publisher'[x].next > 1 => publisher'[x].next - 1 \in seed'[publisher'[x].d]
        /\ publisher'[x].step = "promote" => 4 \in seed'[publisher'[x].d]
  BY <1>2, <1>3, <1>5 DEF KPInv, FilesInOrder, tables
<1> QED
  BY <1>5, <1>6, <1>7, <1>8, StepKeeps

LEMMA FailKeeps ==
  ASSUME KPInv, ScopesAssumption, NEW p \in Publishers, PublisherFails(p)
  PROVE  KPInv'
<1> USE DEF PublisherFails, IdlePublisher
<1>1. UNCHANGED tables /\ UNCHANGED <<reader, cache>> /\ UNCHANGED review
  BY DEF tables
<1>2. RequestsTypeOK'
  BY <1>1 DEF KPInv, RequestsTypeOK
<1>3. DatabaseInv' /\ OnlyGrows
  BY <1>1, InvSplits, TablesKeep DEF OnlyGrows, tables
<1>4. \A x \in Publishers :
        /\ publisher'[x].step = "apply" =>
             /\ publisher'[x].next <= publisher'[x].last
             /\ publisher'[x].next > 1 => publisher'[x].next - 1 \in seed'[publisher'[x].d]
        /\ publisher'[x].step = "promote" => 4 \in seed'[publisher'[x].d]
  BY <1>1 DEF KPInv, FilesInOrder, tables, RequestsTypeOK
<1> QED
  BY <1>1, <1>2, <1>3, <1>4, StepKeeps


\* One file of a seed: the dataset goes from one stage to the next.
LEMMA FileKeeps ==
  ASSUME KPInv, ScopesAssumption, NEW d \in Public, NEW k \in SeedFiles, k \notin seed[d],
         k > 1 => k - 1 \in seed[d], FileEffect(d, k), UNCHANGED book,
         seed' = [seed EXCEPT ![d] = @ \cup {k}]
  PROVE  DatabaseInv' /\ OnlyGrows
<1> DEFINE Rows == [quality : Qualities \cup {NoRow}, verified : BOOLEAN, active : BOOLEAN]
           RevisionRows == [Revisions -> [status : {NoRow, "draft", "reviewed", "superseded", "rejected"},
                                          version : Nat, claims : {"valid", "invalid"}]]
<1>0. d \in Datasets /\ d \notin Full /\ DatabaseTypeOK /\ DatasetInv(d)
  BY InvSplits, DatasetsSplit DEF Datasets, ScopesAssumption
<1>1. k \in 1..4 /\ seed[d] = 1..(k - 1) /\ seed'[d] = 1..k
  <2>1. seed[d] \subseteq 1..4 /\ \A j \in seed[d] : 1..j \subseteq seed[d]
    BY <1>0 DEF DatabaseTypeOK, DatasetInv, SeedFiles
  <2>2. k \in 1..4
    BY DEF SeedFiles
  <2>3. \A j \in seed[d] : j < k
    BY <2>1, <2>2
  <2>4. 1..(k - 1) \subseteq seed[d]
    BY <2>1, <2>2
  <2>5. seed'[d] = seed[d] \cup {k}
    BY <1>0 DEF DatabaseTypeOK
  <2>6. seed[d] \subseteq 1..(k - 1)
    BY <2>1, <2>2, <2>3
  <2>7. 1..k = 1..(k - 1) \cup {k}
    BY <2>2
  <2>8. seed[d] = 1..(k - 1)
    BY <2>4, <2>6
  <2> QED
    BY <2>2, <2>5, <2>7, <2>8
<1>2. \A x \in Public : x # d => seed'[x] = seed[x]
  BY <1>0 DEF DatabaseTypeOK
<1>3. seed' \in [Public -> SUBSET SeedFiles]
  BY <1>0, <1>1 DEF DatabaseTypeOK
<1>4. /\ data' \in [Datasets -> Rows]
      /\ \A x \in Datasets : x # d => data'[x] = data[x]
      /\ data'[d].quality = (IF k = 1 THEN "exact" ELSE data[d].quality)
      /\ data'[d].verified = data[d].verified /\ data'[d].active = data[d].active
  <2>1. data \in [Datasets -> Rows] /\ data' = (IF k = 1 THEN [data EXCEPT ![d] = [@ EXCEPT !.quality = "exact"]] ELSE data)
    BY <1>0 DEF DatabaseTypeOK, FileEffect
  <2>2. [data[d] EXCEPT !.quality = "exact"] \in Rows
    BY <1>0, <2>1 DEF Qualities
  <2> QED
    BY <1>0, <2>1, <2>2
<1>5. Compiled("valid") \in RevisionRows /\ revision \in [Datasets -> RevisionRows]
  BY <1>0 DEF DatabaseTypeOK, Compiled, Revisions
<1>6. /\ revision' \in [Datasets -> RevisionRows]
      /\ \A x \in Datasets : x # d => revision'[x] = revision[x]
      /\ revision'[d] = (IF k = 2 THEN Compiled("valid") ELSE revision[d])
  <2> HIDE DEF RevisionRows
  <2> QED
    BY <1>0, <1>5 DEF FileEffect
<1>7. /\ page' \in [Datasets -> {0} \cup Revisions]
      /\ \A x \in Datasets : x # d => page'[x] = page[x]
      /\ page'[d] = (IF k = 2 THEN 1 ELSE page[d])
  BY <1>0 DEF DatabaseTypeOK, FileEffect, Revisions
<1>8. /\ manifest' \in [Datasets -> Versioned(ManifestStatus)]
      /\ \A x \in Datasets : x # d => manifest'[x] = manifest[x]
      /\ manifest'[d].status =
           (IF k = 3 THEN "candidate"
            ELSE IF k = 4 /\ manifest[d].status = "candidate" /\ OpenErrors(book, d) = {}
            THEN "validated" ELSE manifest[d].status)
  <2>1. manifest \in [Datasets -> Versioned(ManifestStatus)]
    BY <1>0 DEF DatabaseTypeOK, ManifestStatus
  <2>2. CASE k = 3
    BY <1>0, <2>1, <2>2 DEF FileEffect, Versioned, ManifestStatus
  <2>3. CASE k = 4 /\ manifest[d].status = "candidate" /\ OpenErrors(book, d) = {}
    BY <1>0, <2>1, <2>3 DEF FileEffect, Versioned, ManifestStatus
  <2>4. CASE k # 3 /\ ~(k = 4 /\ manifest[d].status = "candidate" /\ OpenErrors(book, d) = {})
    <3>1. manifest' = manifest
      BY <2>4 DEF FileEffect
    <3> QED
      BY <2>1, <2>4, <3>1
  <2> QED
    BY <2>2, <2>3, <2>4
<1>9. DatabaseTypeOK'
  BY <1>0, <1>3, <1>4, <1>6, <1>7, <1>8 DEF DatabaseTypeOK, ManifestStatus
<1>10. {r \in DOMAIN Compiled("valid") : Compiled("valid")[r].status = "reviewed"} = {1}
  BY DEF Compiled, NoRow
<1>11. OpenErrors(book', d) = OpenErrors(book, d)
  OBVIOUS
<1>12. DatasetInv(d)'
  <2>0. k # 2 => {r \in DOMAIN revision'[d] : revision'[d][r].status = "reviewed"}
                  = {r \in DOMAIN revision[d] : revision[d][r].status = "reviewed"}
    BY <1>6
  <2>a. /\ \A j \in 1..4 : (j \in seed[d] <=> j < k) /\ (j \in seed'[d] <=> j <= k)
        /\ \A j \in seed'[d] : 1..j \subseteq seed'[d]
    BY <1>1
  <2>1. CASE k = 1
    BY <1>0, <1>1, <1>4, <1>6, <1>7, <1>8, <1>11, <2>1 DEF DatasetInv, NoRow
  <2>2. CASE k = 2
    <3>1. /\ (1 \in seed[d] /\ 2 \notin seed[d] /\ 3 \notin seed[d] /\ 4 \notin seed[d])
          /\ (1 \in seed'[d] /\ 2 \in seed'[d] /\ 3 \notin seed'[d] /\ 4 \notin seed'[d])
      BY <2>a, <2>2
    <3>2. /\ ~data'[d].verified /\ ~data'[d].active
          /\ data'[d].quality # NoRow
      BY <1>0, <1>4, <2>2, <3>1 DEF DatasetInv
    <3>3. manifest'[d].status = NoRow
      BY <1>0, <1>8, <2>2, <3>1 DEF DatasetInv
    <3>4. page'[d] = 1
      BY <1>7, <2>2
    <3>5. {r \in DOMAIN revision'[d] : revision'[d][r].status = "reviewed"} = {page'[d]}
      BY <1>6, <1>10, <2>2, <3>4
    <3> QED
      BY <1>0, <2>a, <3>1, <3>2, <3>3, <3>4, <3>5 DEF DatasetInv, NoRow
  <2>3. CASE k = 3 \/ k = 4
    <3>1. /\ (1 \in seed[d] /\ 2 \in seed[d] /\ (3 \in seed[d] <=> k = 4) /\ 4 \notin seed[d])
          /\ (1 \in seed'[d] /\ 2 \in seed'[d] /\ 3 \in seed'[d] /\ (4 \in seed'[d] <=> k = 4))
      BY <2>a, <2>3
    <3>2. page'[d] = page[d] /\ page[d] # 0 /\ data'[d].quality = data[d].quality
      BY <1>0, <1>4, <1>7, <2>3, <3>1 DEF DatasetInv
    <3>3. /\ ~data'[d].verified /\ ~data'[d].active
          /\ data'[d].quality # NoRow
      BY <1>0, <1>4, <3>1, <3>2 DEF DatasetInv
    <3>4. /\ manifest'[d].status # NoRow /\ manifest'[d].status # "published"
          /\ manifest'[d].status = "candidate" /\ k = 4 => OpenErrors(book, d) # {}
      BY <1>0, <1>8, <2>3, <3>1, <3>3, <1>4 DEF DatasetInv, NoRow
    <3>5. {r \in DOMAIN revision'[d] : revision'[d][r].status = "reviewed"} = {page'[d]}
      BY <1>0, <2>0, <2>3, <3>2 DEF DatasetInv
    <3> QED
      BY <1>0, <1>11, <2>a, <3>1, <3>2, <3>3, <3>4, <3>5 DEF DatasetInv
  <2> QED
    BY <1>1, <2>1, <2>2, <2>3
<1>13. DatabaseInv'
  BY <1>0, <1>2, <1>4, <1>6, <1>7, <1>8, <1>9, <1>12, OneDataset
<1>14. OnlyGrows
  <2>1. k = 2 => \A r \in Revisions : revision[d][r].status = NoRow
    BY <1>0, <1>1 DEF DatasetInv
  <2>2. \A x \in Public : seed[x] \subseteq seed'[x]
    BY <1>0, <1>1, <1>2
  <2> QED
    BY <1>4, <1>6, <2>1, <2>2 DEF OnlyGrows, NoRow
<1> QED
  BY <1>13, <1>14

LEMMA ApplyKeeps ==
  ASSUME KPInv, ScopesAssumption, NEW p \in Publishers, ApplyFile(p)
  PROVE  KPInv'
<1> DEFINE b == publisher[p]
           Plans == [step : {"idle"}]
                    \cup [step : {"apply"}, d : Public, next : SeedFiles, last : SeedFiles]
                    \cup [step : {"promote"}, d : Public]
<1>1. publisher \in [Publishers -> Plans] /\ b.step = "apply"
  BY DEF KPInv, RequestsTypeOK, ApplyFile
<1>2. b \in [step : {"apply"}, d : Public, next : SeedFiles, last : SeedFiles]
  BY <1>1
<1>3. b.next <= b.last /\ (b.next > 1 => b.next - 1 \in seed[b.d])
  BY <1>1 DEF KPInv, FilesInOrder
<1>4. UNCHANGED <<book, review, reader, cache>>
  BY DEF ApplyFile
<1>5. \A x \in Publishers :
        /\ publisher[x].step = "apply" =>
             /\ publisher[x].next <= publisher[x].last
             /\ publisher[x].next > 1 => publisher[x].next - 1 \in seed[publisher[x].d]
        /\ publisher[x].step = "promote" => 4 \in seed[publisher[x].d]
  BY DEF KPInv, FilesInOrder
<1>6. CASE b.next \in seed[b.d]
  <2>1. UNCHANGED tables /\ publisher' = [publisher EXCEPT ![p] = IdlePublisher]
    BY <1>6 DEF ApplyFile, tables
  <2>2. DatabaseInv' /\ OnlyGrows
    BY <2>1, InvSplits, TablesKeep DEF OnlyGrows, tables
  <2>3. RequestsTypeOK'
    BY <1>1, <1>4, <2>1 DEF KPInv, RequestsTypeOK, IdlePublisher
  <2>4. \A x \in Publishers :
          /\ publisher'[x].step = "apply" =>
               /\ publisher'[x].next <= publisher'[x].last
               /\ publisher'[x].next > 1 => publisher'[x].next - 1 \in seed'[publisher'[x].d]
          /\ publisher'[x].step = "promote" => 4 \in seed'[publisher'[x].d]
    BY <1>1, <1>5, <2>1 DEF tables, IdlePublisher
  <2> QED
    BY <1>4, <2>2, <2>3, <2>4, StepKeeps
<1>7. CASE b.next \notin seed[b.d]
  <2> DEFINE q == IF b.next = b.last THEN IdlePublisher ELSE [b EXCEPT !.next = @ + 1]
  <2>1. /\ FileEffect(b.d, b.next) /\ seed' = [seed EXCEPT ![b.d] = @ \cup {b.next}]
        /\ publisher' = [publisher EXCEPT ![p] = q]
    BY <1>7 DEF ApplyFile
  <2>2. DatabaseInv' /\ OnlyGrows
    BY <1>2, <1>3, <1>4, <1>7, <2>1, FileKeeps
  <2>3. /\ q \in Plans /\ q.step # "promote"
        /\ q.step = "apply" => q.d = b.d /\ q.next = b.next + 1 /\ q.next <= q.last
    BY <1>2, <1>3 DEF IdlePublisher, SeedFiles
  <2>4. b.next \in seed'[b.d] /\ b.next \in Nat
    BY <1>2, <2>1 DEF KPInv, DatabaseTypeOK, SeedFiles
  <2>5. publisher' \in [Publishers -> Plans]
    <3> HIDE DEF Plans, q
    <3> QED
      BY <1>1, <2>1, <2>3
  <2>6. RequestsTypeOK'
    BY <1>4, <2>5 DEF KPInv, RequestsTypeOK
  <2>7. ASSUME NEW x \in Publishers
        PROVE  /\ publisher'[x].step = "apply" =>
                   /\ publisher'[x].next <= publisher'[x].last
                   /\ publisher'[x].next > 1 => publisher'[x].next - 1 \in seed'[publisher'[x].d]
               /\ publisher'[x].step = "promote" => 4 \in seed'[publisher'[x].d]
    <3>1. CASE x = p
      <4> HIDE DEF q
      <4> QED
        BY <3>1, <1>1, <2>1, <2>3, <2>4
    <3>2. CASE x # p
      <4>1. publisher'[x] = publisher[x]
        BY <3>2, <1>1, <2>1
      <4>2. publisher[x].step \in {"apply", "promote"} => publisher[x].d \in Public
        BY <1>1
      <4> QED
        BY <1>5, <2>2, <4>1, <4>2 DEF OnlyGrows
    <3> QED
      BY <3>1, <3>2
  <2> QED
    BY <1>4, <2>2, <2>6, <2>7, StepKeeps
<1> QED
  BY <1>6, <1>7


\* The promotion: the other public datasets go off whether or not this one
\* goes on.
LEMMA PromoteFacts ==
  ASSUME KPInv, ScopesAssumption, NEW p \in Publishers, Promote(p), NEW d, d = publisher[p].d
  PROVE  /\ DatabaseInv' /\ OnlyGrows
         /\ \A x \in Public : ~data[x].active /\ data'[x].active => manifest'[x].status = "published"
<1> DEFINE Rows == [quality : Qualities \cup {NoRow}, verified : BOOLEAN, active : BOOLEAN]
           ready == /\ ~data[d].verified /\ ~data[d].active
                    /\ manifest[d].status = "validated"
                    /\ OpenErrors(book, d) = {}
           off == [x \in Datasets |->
             IF x \in Public \ {d} THEN [data[x] EXCEPT !.active = FALSE] ELSE data[x]]
           on == [off EXCEPT ![d].verified = TRUE, ![d].active = TRUE]
<1>0. d \in Public /\ d \in Datasets /\ d \notin Full /\ 4 \in seed[d]
  <2>1. d \in Public
    BY DEF KPInv, RequestsTypeOK, Promote
  <2> QED
    BY <2>1 DEF KPInv, FilesInOrder, Promote, Datasets, ScopesAssumption
<1>1. DatabaseTypeOK /\ \A x \in Datasets : DatasetInv(x)
  BY InvSplits, DatasetsSplit
<1>2. /\ data' = (IF ready THEN on ELSE off)
      /\ manifest' = (IF ready THEN Publish(manifest, on, book, d) ELSE manifest)
      /\ UNCHANGED <<book, revision, page, seed>>
  <2>1. /\ data' = (IF Promotable(d) THEN Promoted(d) ELSE OthersOff(d))
        /\ manifest' = (IF Promotable(d) THEN Publish(manifest, Promoted(d), book, d)
                        ELSE manifest)
        /\ UNCHANGED <<book, revision, page, seed>>
    BY DEF Promote
  <2>2. OthersOff(d) = off
    BY DEF OthersOff
  <2>3. Promoted(d) = on
    BY DEF Promoted, OthersOff
  <2>4. Promotable(d) <=> ready
    BY DEF Promotable
  <2> HIDE DEF ready, off, on
  <2> QED
    BY <2>1, <2>2, <2>3, <2>4
<1>3. manifest \in [Datasets -> Versioned(ManifestStatus)] /\ data \in [Datasets -> Rows]
  BY <1>1 DEF DatabaseTypeOK, ManifestStatus
<1>4. /\ off \in [Datasets -> Rows]
      /\ \A x \in Datasets : /\ off[x].verified = data[x].verified /\ off[x].quality = data[x].quality
                             /\ off[x].active => data[x].active
  <2>1. \A x \in Datasets : [data[x] EXCEPT !.active = FALSE] \in Rows
    BY <1>3
  <2>2. off \in [Datasets -> Rows]
    <3> HIDE DEF Rows
    <3> QED
      BY <1>3, <2>1
  <2> QED
    BY <1>3, <2>2
<1>5. /\ on \in [Datasets -> Rows] /\ on[d].verified /\ on[d].active /\ on[d].quality = data[d].quality
      /\ \A x \in Datasets \ {d} : on[x] = off[x]
  <2>1. on = [off EXCEPT ![d] = [@ EXCEPT !.verified = TRUE, !.active = TRUE]]
    BY <1>0, <1>4
  <2> HIDE DEF on, off
  <2>2. /\ [off[d] EXCEPT !.verified = TRUE, !.active = TRUE] \in Rows
        /\ [off[d] EXCEPT !.verified = TRUE, !.active = TRUE].verified
        /\ [off[d] EXCEPT !.verified = TRUE, !.active = TRUE].active
        /\ [off[d] EXCEPT !.verified = TRUE, !.active = TRUE].quality = off[d].quality
    BY <1>0, <1>4
  <2> HIDE DEF on, off, Rows
  <2> QED
    BY <1>0, <1>4, <2>1, <2>2
<1> HIDE DEF on, off, Rows
<1>6. /\ manifest' \in [Datasets -> Versioned(ManifestStatus)]
      /\ \A x \in Datasets : x # d => manifest'[x] = manifest[x]
      /\ manifest'[d].status = NoRow <=> manifest[d].status = NoRow
      /\ manifest'[d].status = "candidate" <=> manifest[d].status = "candidate"
      /\ ready => manifest'[d].status = "published"
      /\ ~ready => manifest'[d] = manifest[d]
  <2>1. CASE ready
    BY <1>0, <1>2, <1>3, <1>5, <2>1, PublishFacts
  <2>2. CASE ~ready
    BY <1>0, <1>2, <1>3, <2>2
  <2> QED
    BY <2>1, <2>2
<1>7. /\ data' \in [Datasets -> Rows]
      /\ \A x \in Datasets :
           /\ data'[x].quality = data[x].quality
           /\ data[x].verified => data'[x].verified
           /\ x # d \/ ~ready => data'[x].verified = data[x].verified /\ (data'[x].active => data[x].active)
      /\ ready => data'[d].verified
  BY <1>0, <1>2, <1>3, <1>4, <1>5
<1>8. \A x \in Datasets :
        /\ OpenErrors(book', x) = OpenErrors(book, x)
        /\ {r \in DOMAIN revision'[x] : revision'[x][r].status = "reviewed"}
             = {r \in DOMAIN revision[x] : revision[x][r].status = "reviewed"}
  BY <1>2
<1>9. ASSUME NEW x \in Datasets, x # d \/ ~ready PROVE DatasetInv(x)'
  <2>1. manifest'[x] = manifest[x]
    BY <1>6, <1>9
  <2> QED
    BY SMTT(60), <1>1, <1>2, <1>7, <1>8, <1>9, <2>1 DEF DatasetInv
<1>10. ASSUME ready PROVE DatasetInv(d)'
  <2>1. /\ manifest[d].status # NoRow /\ manifest'[d].status = "published" /\ OpenErrors(book', d) = {}
        /\ data'[d].verified /\ data'[d].quality = data[d].quality
    BY <1>0, <1>6, <1>7, <1>8, <1>10 DEF NoRow
  <2>2. seed'[d] = seed[d] /\ page'[d] = page[d] /\ revision'[d] = revision[d]
    BY <1>2
  <2> QED
    BY <1>0, <1>1, <1>8, <2>1, <2>2 DEF DatasetInv, NoRow
<1>11. DatabaseTypeOK'
  BY <1>1, <1>2, <1>6, <1>7 DEF DatabaseTypeOK, ManifestStatus, Rows
<1>12. DatabaseInv'
  <2>1. \A x \in Datasets : DatasetInv(x)'
    BY <1>9, <1>10
  <2> QED
    BY <1>11, <2>1, DatabaseFromParts
<1>13. OnlyGrows
  BY <1>2, <1>7 DEF OnlyGrows
<1>14. \A x \in Public : ~data[x].active /\ data'[x].active => manifest'[x].status = "published"
  BY <1>6, <1>7 DEF Datasets
<1> QED
  BY <1>12, <1>13, <1>14

LEMMA PromoteKeeps ==
  ASSUME KPInv, ScopesAssumption, NEW p \in Publishers, Promote(p)
  PROVE  KPInv'
<1>1. DatabaseInv' /\ OnlyGrows
  BY PromoteFacts
<1>2. publisher' = [publisher EXCEPT ![p] = IdlePublisher] /\ UNCHANGED <<review, reader, cache, seed>>
  BY DEF Promote
<1>3. RequestsTypeOK'
  BY <1>2 DEF KPInv, RequestsTypeOK, IdlePublisher
<1>4. \A x \in Publishers :
        /\ publisher'[x].step = "apply" =>
             /\ publisher'[x].next <= publisher'[x].last
             /\ publisher'[x].next > 1 => publisher'[x].next - 1 \in seed'[publisher'[x].d]
        /\ publisher'[x].step = "promote" => 4 \in seed'[publisher'[x].d]
  BY <1>2 DEF KPInv, FilesInOrder, RequestsTypeOK, IdlePublisher
<1> QED
  BY <1>1, <1>2, <1>3, <1>4, StepKeeps


-----------------------------------------------------------------------------
(* The decisions of the operators.                                         *)

\* A request that ends.
LEMMA EndedTyped ==
  ASSUME KPInv, NEW o \in Operators, UNCHANGED <<publisher, reader, cache>>,
         NEW q, review' = [review EXCEPT ![o] = q],
         \/ \E c \in {"audited", "audited_conflict", "audited_blocked", "conflict"} : q = Ended(c)
         \/ /\ review[o].step = "manifest"
            /\ q = [review[o] EXCEPT !.step = "validate"]
  PROVE  RequestsTypeOK'
<1> DEFINE Errs == [step : {"error"}, d : Datasets, e : Errors, seen : Versioned(BookStatus)]
           Mans == [step : {"manifest", "validate"}, d : Datasets, seen : Nat]
           Revs == [step : {"revision", "approve", "reject"}, d : Datasets, r : Drafts, seen : Nat]
           Idles == [step : {"idle"}, outcome : {"none", "audited", "audited_conflict",
                                                "audited_blocked", "conflict"}]
<1>1. review \in [Operators -> Idles \cup Errs \cup Mans \cup Revs]
  BY DEF KPInv, RequestsTypeOK
<1>2. q \in Idles \cup Mans
  <2>1. CASE review[o].step = "manifest" /\ q = [review[o] EXCEPT !.step = "validate"]
    <3>1. review[o] \in Mans
      BY <1>1, <2>1
    <3> QED
      BY <2>1, <3>1
  <2>2. CASE \E c \in {"audited", "audited_conflict", "audited_blocked", "conflict"} : q = Ended(c)
    BY <2>2 DEF Ended
  <2> QED
    BY <2>1, <2>2
<1>3. review' \in [Operators -> Idles \cup Errs \cup Mans \cup Revs]
  <2> HIDE DEF Errs, Mans, Revs, Idles
  <2> QED
    BY <1>1, <1>2
<1> QED
  BY <1>3 DEF KPInv, RequestsTypeOK

LEMMA ReviewErrorKeeps ==
  ASSUME KPInv, ScopesAssumption, NEW o \in Operators, NEW to \in BookStatus, ReviewError(o, to)
  PROVE  KPInv'
<1>1. PICK q : q = review[o]
  OBVIOUS
<1>2. /\ q.d \in Datasets /\ q.e \in Errors /\ q.seen \in Versioned(BookStatus)
  BY <1>1 DEF KPInv, RequestsTypeOK, ReviewError
<1>3. PICK d \in Datasets, e \in Errors : d = q.d /\ e = q.e
  BY <1>2
<1>4. UNCHANGED <<data, revision, page, seed, publisher, reader, cache>>
  BY DEF ReviewError
<1>5. RequestsTypeOK'
  <2>1. \E c \in {"audited", "audited_conflict"} : review' = [review EXCEPT ![o] = Ended(c)]
    BY DEF ReviewError
  <2> QED
    BY <1>4, <2>1, EndedTyped
<1>6. OnlyGrows
  BY <1>4 DEF OnlyGrows
<1>7. DatabaseInv'
  <2>0. DatasetInv(d) /\ DatabaseTypeOK
    BY InvSplits, DatasetsSplit
  <2>1. CASE ~StillSeen(book[d][e], q.seen)
    <3>1. UNCHANGED tables
      BY <1>1, <1>3, <1>4, <2>1 DEF ReviewError, tables
    <3> QED
      BY <3>1, InvSplits, TablesKeep
  <2>2. CASE StillSeen(book[d][e], q.seen)
    <3> DEFINE from == book[d][e].status
    <3>1. /\ book' = [book EXCEPT ![d][e] = [status |-> to, version |-> book[d][e].version + 1]]
          /\ manifest' = AfterErrorUpdate(manifest, data, book', d, from, to)
          /\ <<from, to>> \in Transitions
      BY <1>1, <1>3, <2>2 DEF ReviewError, StillSeen
    <3>2. (from \in Unresolved \/ to \in Unresolved) /\ (from \notin Unresolved => to \in Unresolved)
      BY <3>1 DEF Transitions, Unresolved
    <3>3. /\ book' \in [Datasets -> [Errors -> Versioned(BookStatus \cup {NoRow})]]
          /\ book'[d][e].status = to /\ \A x \in Datasets : x # d => book'[x] = book[x]
          /\ \A x \in Errors : x # e => book'[d][x] = book[d][x]
      BY <2>0, <3>1 DEF DatabaseTypeOK, Versioned
    <3>4. manifest \in [Datasets -> Versioned(ManifestStatus)]
      BY <2>0 DEF DatabaseTypeOK, ManifestStatus
    <3> HIDE DEF from
    <3>5. /\ manifest' \in [Datasets -> Versioned(ManifestStatus)]
          /\ \A x \in Datasets : x # d => manifest'[x] = manifest[x]
          /\ manifest'[d].status = NoRow <=> manifest[d].status = NoRow
          /\ to \in Unresolved => manifest'[d].status \in {NoRow, "candidate"}
          /\ to \notin Unresolved /\ manifest'[d].status = "candidate" => OpenErrors(book', d) # {}
          /\ manifest'[d].status = "published" =>
               \/ manifest[d].status = "published" /\ to \notin Unresolved
               \/ data[d].verified /\ OpenErrors(book', d) = {}
      <4> DEFINE n == [manifest EXCEPT ![d].status = "validated"]
      <4>1. CASE to \in Unresolved
        <5>1. manifest' = Demote(manifest, d)
          BY <3>1, <4>1 DEF AfterErrorUpdate
        <5> QED
          BY <3>4, <4>1, <5>1, DemoteFacts DEF NoRow
      <4>2. CASE to \notin Unresolved /\ OpenErrors(book', d) = {} /\ manifest[d].status # NoRow
        <5>1. n \in [Datasets -> Versioned(ManifestStatus)] /\ n[d].status = "validated"
              /\ \A x \in Datasets : x # d => n[x] = manifest[x]
          BY <3>4 DEF Versioned, ManifestStatus, NoRow
        <5>2. manifest' = Publish(n, data, book', d)
          BY <3>1, <3>2, <4>2 DEF AfterErrorUpdate
        <5> HIDE DEF n
        <5> QED
          BY <4>2, <5>1, <5>2, PublishFacts DEF NoRow
      <4>3. CASE to \notin Unresolved /\ ~(OpenErrors(book', d) = {} /\ manifest[d].status # NoRow)
        <5>1. manifest' = manifest
          BY <3>1, <4>3 DEF AfterErrorUpdate
        <5> QED
          BY <3>4, <4>3, <5>1 DEF NoRow
      <4> QED
        BY <4>1, <4>2, <4>3
    <3>6. DatabaseTypeOK'
      BY <1>4, <2>0, <3>3, <3>5 DEF DatabaseTypeOK, ManifestStatus
    <3>7. to \in Unresolved => OpenErrors(book', d) # {}
      BY <3>3 DEF OpenErrors
    <3>8. to \notin Unresolved => OpenErrors(book', d) \subseteq OpenErrors(book, d)
      BY <3>3 DEF OpenErrors
    <3>9. DatasetInv(d)'
      <4>1. manifest'[d].status = "candidate" => OpenErrors(book', d) # {}
        BY <3>5, <3>7
      <4>2. manifest'[d].status = "published" => data'[d].verified /\ OpenErrors(book', d) = {}
        BY <1>4, <2>0, <3>5, <3>8 DEF DatasetInv
      <4> QED
        BY <1>4, <2>0, <3>5, <4>1, <4>2 DEF DatasetInv
    <3> QED
      BY <1>4, <3>3, <3>5, <3>6, <3>9, OneDataset
  <2> QED
    BY <2>1, <2>2
<1> QED
  BY <1>4, <1>5, <1>6, <1>7, StepKeeps

LEMMA ValidateKeeps ==
  ASSUME KPInv, ScopesAssumption, NEW o \in Operators, ValidateManifest(o)
  PROVE  KPInv'
<1>1. PICK q : q = review[o]
  OBVIOUS
<1>2. q.d \in Datasets /\ q.seen \in Nat
  BY <1>1 DEF KPInv, RequestsTypeOK, ValidateManifest
<1>3. PICK d \in Datasets : d = q.d
  BY <1>2
<1>4. UNCHANGED <<data, book, revision, page, seed, publisher, reader, cache>>
  BY DEF ValidateManifest
<1>5. RequestsTypeOK'
  <2>1. PICK x : /\ review' = [review EXCEPT ![o] = x]
                 /\ \/ \E c \in {"audited", "audited_conflict", "audited_blocked", "conflict"} : x = Ended(c)
                    \/ review[o].step = "manifest" /\ x = [review[o] EXCEPT !.step = "validate"]
    BY DEF ValidateManifest
  <2> QED
    BY <1>4, <2>1, EndedTyped
<1>6. OnlyGrows
  BY <1>4 DEF OnlyGrows
<1>7. DatabaseInv'
  <2> DEFINE ok == q.step = "validate" /\ manifest[d].version = q.seen /\ ReadyForValidation(d)
             m2 == [manifest EXCEPT ![d] = [status |-> "validated", version |-> q.seen + 1]]
  <2>0. DatasetInv(d) /\ DatabaseTypeOK
    BY InvSplits, DatasetsSplit
  <2>1. CASE ~ok
    <3>1. UNCHANGED tables
      BY <1>1, <1>3, <1>4, <2>1 DEF ValidateManifest, tables
    <3> QED
      BY <3>1, InvSplits, TablesKeep
  <2>2. CASE ok
    <3>1. manifest' = Publish(m2, data, book, d)
      BY <1>1, <1>3, <2>2 DEF ValidateManifest
    <3>2. manifest \in [Datasets -> Versioned(ManifestStatus)]
      BY <2>0 DEF DatabaseTypeOK, ManifestStatus
    <3>3. /\ m2 \in [Datasets -> Versioned(ManifestStatus)] /\ m2[d].status = "validated"
          /\ \A x \in Datasets : x # d => m2[x] = manifest[x]
      BY <1>2, <3>2 DEF Versioned, ManifestStatus
    <3> HIDE DEF m2
    <3>4. /\ manifest' \in [Datasets -> Versioned(ManifestStatus)]
          /\ \A x \in Datasets : x # d => manifest'[x] = manifest[x]
          /\ manifest'[d].status # NoRow /\ manifest'[d].status # "candidate"
          /\ manifest'[d].status = "published" => data[d].verified /\ OpenErrors(book, d) = {}
      BY <3>1, <3>3, PublishFacts DEF NoRow
    <3>5. manifest[d].status = "candidate"
      BY <2>2 DEF ReadyForValidation
    <3>6. DatabaseTypeOK'
      BY <1>4, <2>0, <3>4 DEF DatabaseTypeOK, ManifestStatus
    <3>7. OpenErrors(book', d) = OpenErrors(book, d)
      BY <1>4
    <3>8. DatasetInv(d)'
      BY <1>4, <2>0, <3>4, <3>5, <3>7 DEF DatasetInv, NoRow
    <3> QED
      BY <1>4, <3>4, <3>6, <3>8, OneDataset
  <2> QED
    BY <2>1, <2>2
<1> QED
  BY <1>4, <1>5, <1>6, <1>7, StepKeeps


RevisionRow == [status : {NoRow, "draft", "reviewed", "superseded", "rejected"},
                version : Nat, claims : {"valid", "invalid"}]

LEMMA RowUpdates ==
  ASSUME NEW row \in RevisionRow, NEW v \in Nat, NEW t \in {"reviewed", "superseded", "rejected"}
  PROVE  /\ [row EXCEPT !.status = t, !.version = v] \in RevisionRow
         /\ [row EXCEPT !.status = t, !.version = v].status = t
         /\ row.version + 1 \in Nat
<1> DEFINE new == [row EXCEPT !.status = t, !.version = v]
<1>1. row.claims \in {"valid", "invalid"} /\ row.version \in Nat
  BY DEF RevisionRow
<1>2. new = [status |-> t, version |-> v, claims |-> row.claims]
  <2>1. DOMAIN row = {"status", "version", "claims"}
    BY DEF RevisionRow
  <2>2. new = [x \in {"status", "version", "claims"} |->
                IF x = "version" THEN v ELSE IF x = "status" THEN t ELSE row[x]]
    BY <2>1, Zenon
  <2> QED
    BY <2>2
<1>3. [status |-> t, version |-> v, claims |-> row.claims] \in RevisionRow
  BY <1>1 DEF RevisionRow
<1> QED
  BY <1>1, <1>2, <1>3

LEMMA DecideKeeps ==
  ASSUME KPInv, ScopesAssumption, NEW o \in Operators, DecideRevision(o)
  PROVE  KPInv'
<1>1. PICK q : q = review[o]
  OBVIOUS
<1>2. q.d \in Datasets /\ q.r \in Drafts /\ q.seen \in Nat
  BY <1>1 DEF KPInv, RequestsTypeOK, DecideRevision
<1>3. PICK d \in Datasets, r \in Drafts : d = q.d /\ r = q.r
  BY <1>2
<1>4. UNCHANGED <<data, manifest, book, seed, publisher, reader, cache>>
  BY DEF DecideRevision
<1>5. RequestsTypeOK'
  <2>1. \E c \in {"audited", "audited_conflict"} : review' = [review EXCEPT ![o] = Ended(c)]
    BY DEF DecideRevision
  <2> QED
    BY <1>4, <2>1, EndedTyped
<1>6. /\ DatasetInv(d) /\ DatabaseTypeOK /\ r \in Revisions /\ r # 0
      /\ revision \in [Datasets -> [Revisions -> RevisionRow]]
  BY InvSplits, DatasetsSplit DEF DatabaseTypeOK, RevisionRow, Revisions, ScopesAssumption
<1>7. CASE ~StillDraft(revision[d][r], q.seen)
  <2>1. UNCHANGED tables
    BY <1>1, <1>3, <1>4, <1>7 DEF DecideRevision, tables
  <2> QED
    BY <1>4, <1>5, <2>1, InvSplits, TablesKeep, StepKeeps DEF OnlyGrows, tables
<1>8. CASE StillDraft(revision[d][r], q.seen) /\ q.step = "reject"
  <2>1. /\ revision' = [revision EXCEPT ![d][r].status = "rejected", ![d][r].version = @ + 1]
        /\ UNCHANGED page
    BY <1>1, <1>3, <1>8 DEF DecideRevision
  <2>2. /\ revision' \in [Datasets -> [Revisions -> RevisionRow]]
        /\ revision'[d][r].status = "rejected"
        /\ \A x \in Datasets : x # d => revision'[x] = revision[x]
        /\ \A x \in Revisions : x # r => revision'[d][x] = revision[d][x]
    <3>1. [revision[d][r] EXCEPT !.status = "rejected", !.version = @ + 1] \in RevisionRow
            /\ [revision[d][r] EXCEPT !.status = "rejected", !.version = @ + 1].status = "rejected"
      <4>1. revision[d][r] \in RevisionRow /\ "rejected" \in {"reviewed", "superseded", "rejected"}
        BY <1>6
      <4>2. revision[d][r].version + 1 \in Nat
        BY <4>1 DEF RevisionRow
      <4> QED
        BY <4>1, <4>2, RowUpdates, Zenon
    <3>2. revision' = [revision EXCEPT ![d] = [@ EXCEPT ![r] =
                         [revision[d][r] EXCEPT !.status = "rejected", !.version = @ + 1]]]
      BY <1>6, <2>1
    <3> QED
      BY <1>6, <3>1, <3>2
  <2>3. revision[d][r].status = "draft"
    BY <1>8 DEF StillDraft
  <2>4. {x \in DOMAIN revision'[d] : revision'[d][x].status = "reviewed"}
          = {x \in DOMAIN revision[d] : revision[d][x].status = "reviewed"}
    BY <1>6, <2>2, <2>3
  <2>5. page[d] # 0
    BY <1>6, <2>3 DEF DatasetInv, NoRow
  <2>6. DatabaseTypeOK'
    BY <1>4, <1>6, <2>1, <2>2 DEF DatabaseTypeOK, RevisionRow
  <2>7. OpenErrors(book', d) = OpenErrors(book, d)
    BY <1>4
  <2>8. DatasetInv(d)'
    BY <1>4, <1>6, <2>1, <2>4, <2>5, <2>7 DEF DatasetInv
  <2>9. DatabaseInv'
    BY <1>4, <2>1, <2>2, <2>6, <2>8, OneDataset
  <2>10. OnlyGrows
    BY <1>4, <2>2, <2>3 DEF OnlyGrows
  <2> QED
    BY <1>4, <1>5, <2>9, <2>10, StepKeeps
<1>9. CASE StillDraft(revision[d][r], q.seen) /\ q.step = "approve"
  <2>1. /\ revision' = [revision EXCEPT ![d] = Approved(d, r, q.seen + 1)]
        /\ page' = [page EXCEPT ![d] = r]
    BY <1>1, <1>3, <1>9 DEF DecideRevision
  <2>2. /\ Approved(d, r, q.seen + 1) \in [Revisions -> RevisionRow]
        /\ Approved(d, r, q.seen + 1)[r].status = "reviewed"
        /\ \A x \in Revisions \ {r} :
             Approved(d, r, q.seen + 1)[x].status =
               IF revision[d][x].status = "reviewed" THEN "superseded" ELSE revision[d][x].status
    <3>1. \A x \in Revisions :
            /\ [revision[d][x] EXCEPT !.status = "reviewed", !.version = q.seen + 1] \in RevisionRow
            /\ [revision[d][x] EXCEPT !.status = "superseded", !.version = @ + 1] \in RevisionRow
            /\ [revision[d][x] EXCEPT !.status = "reviewed", !.version = q.seen + 1].status = "reviewed"
            /\ [revision[d][x] EXCEPT !.status = "superseded", !.version = @ + 1].status = "superseded"
      <4> TAKE x \in Revisions
      <4>1. revision[d][x] \in RevisionRow /\ "reviewed" \in {"reviewed", "superseded", "rejected"}
            /\ "superseded" \in {"reviewed", "superseded", "rejected"}
        BY <1>6
      <4>2. revision[d][x].version + 1 \in Nat /\ q.seen + 1 \in Nat
        BY <1>2, <4>1 DEF RevisionRow
      <4> QED
        BY <4>1, <4>2, RowUpdates, Zenon
    <3>2. DOMAIN revision[d] = Revisions /\ revision[d] \in [Revisions -> RevisionRow]
      BY <1>6
    <3>3. Approved(d, r, q.seen + 1) \in [Revisions -> RevisionRow]
      BY <3>1, <3>2 DEF Approved
    <3> QED
      BY <1>6, <3>1, <3>2, <3>3 DEF Approved
  <2>3. /\ revision'[d] = Approved(d, r, q.seen + 1)
        /\ \A x \in Datasets : x # d => revision'[x] = revision[x]
        /\ revision' \in [Datasets -> [Revisions -> RevisionRow]]
    BY <1>6, <2>1, <2>2
  <2>4. revision[d][r].status = "draft"
    BY <1>9 DEF StillDraft
  <2>5. {x \in DOMAIN revision'[d] : revision'[d][x].status = "reviewed"} = {r}
    <3>1. DOMAIN revision'[d] = Revisions
      BY <2>2, <2>3
    <3>2. \A x \in Revisions : revision'[d][x].status = "reviewed" <=> x = r
      BY <2>2, <2>3
    <3> QED
      BY <1>6, <3>1, <3>2
  <2>6. /\ page[d] # 0 /\ page'[d] = r
        /\ page' \in [Datasets -> {0} \cup Revisions] /\ \A x \in Datasets : x # d => page'[x] = page[x]
    BY <1>6, <2>1, <2>4 DEF DatasetInv, NoRow, DatabaseTypeOK
  <2>7. DatabaseTypeOK'
    BY <1>4, <1>6, <2>3, <2>6 DEF DatabaseTypeOK, RevisionRow
  <2>8. OpenErrors(book', d) = OpenErrors(book, d)
    BY <1>4
  <2>9. DatasetInv(d)'
    BY <1>4, <1>6, <2>5, <2>6, <2>8 DEF DatasetInv
  <2>10. DatabaseInv'
    BY <1>4, <2>3, <2>6, <2>7, <2>9, OneDataset
  <2>11. OnlyGrows
    <3>1. \A x \in Revisions : revision[d][x].status \in {"reviewed", "superseded"} =>
                                 revision'[d][x].status \in {"reviewed", "superseded"}
      BY <2>2, <2>3, <2>4
    <3> QED
      BY <1>4, <2>3, <3>1 DEF OnlyGrows
  <2> QED
    BY <1>4, <1>5, <2>10, <2>11, StepKeeps
<1> QED
  BY <1>1, <1>7, <1>8, <1>9 DEF DecideRevision

-----------------------------------------------------------------------------
LEMMA KPStep == ASSUME ScopesAssumption, KPInv, [KPNext]_kpVars PROVE KPInv'
<1>1. CASE UNCHANGED kpVars
  <2>1. UNCHANGED tables /\ UNCHANGED publisher /\ UNCHANGED <<reader, cache>> /\ UNCHANGED review
    BY <1>1 DEF kpVars, tables
  <2>2. RequestsTypeOK'
    BY <2>1 DEF KPInv, RequestsTypeOK
  <2> QED
    BY <2>1, <2>2, LooksKeep
<1>2. CASE KPNext
  BY <1>2, SeedFullKeeps, ActivateKeeps, PlanKeeps, ApplyKeeps, PromoteKeeps, FailKeeps,
     ReportErrorKeeps, DraftKeeps, BrowsingKeeps, ReviewErrorKeeps, ValidateKeeps, DecideKeeps,
     ReadingKeeps DEF KPNext
<1> QED
  BY <1>1, <1>2

\* Requests, triggers and seeds keep the database and what they know of it.
THEOREM KnowledgeInvariant == ASSUME ScopesAssumption PROVE KPSpec => []KPInv
<1>1. KPInit => KPInv
  BY KPStarts
<1>2. KPInv /\ [KPNext]_kpVars => KPInv'
  BY KPStep
<1> QED
  BY <1>1, <1>2, PTL DEF KPSpec

\* The publication gate of the triggers, the order of the seed files, one
\* reviewed revision per page, and what readers are served.
THEOREM KnowledgeAlwaysReviewed ==
  ASSUME ScopesAssumption PROVE KPSpec => []KnowledgeIsReviewed
<1>1. ASSUME KPInv PROVE KnowledgeIsReviewed
  <2>1. DatabaseInv /\ \A d \in Datasets : DatasetInv(d)
    BY <1>1, InvSplits, DatasetsSplit
  <2>2. ASSUME NEW d \in Datasets, manifest[d].status = "published" PROVE page[d] # 0
    BY <1>1, <2>1, <2>2 DEF DatasetInv, Datasets, NoRow, KPInv, DatabaseTypeOK, SeedFiles
  <2>3. PublishedIsClean
    BY <1>1, <2>2 DEF PublishedIsClean, KPInv, PublishedHasNoError
  <2>4. CandidateHasError
    BY <1>1 DEF CandidateHasError, KPInv, CandidateIsBlamed, RowsAreLoaded
  <2>5. SeedIsPrefix
    <3> SUFFICES ASSUME NEW d \in Public
                 PROVE  /\ seed[d] = 1..Cardinality(seed[d])
                        /\ data[d].active => seed[d] = SeedFiles
      BY DEF SeedIsPrefix
    <3>1. seed[d] \subseteq 1..4 /\ \A k \in seed[d] : 1..k \subseteq seed[d]
      BY <1>1 DEF KPInv, FilesInOrder, DatabaseTypeOK, SeedFiles
    <3>2. \E n \in 0..4 : seed[d] = 1..n
      <4>1. CASE 4 \in seed[d]
        BY <3>1, <4>1
      <4>2. CASE 4 \notin seed[d] /\ 3 \in seed[d]
        BY <3>1, <4>2
      <4>3. CASE 4 \notin seed[d] /\ 3 \notin seed[d] /\ 2 \in seed[d]
        BY <3>1, <4>3
      <4>4. CASE 4 \notin seed[d] /\ 3 \notin seed[d] /\ 2 \notin seed[d]
        BY <3>1, <4>4
      <4> QED
        BY <4>1, <4>2, <4>3, <4>4
    <3>3. ASSUME NEW n \in 0..4 PROVE Cardinality(1..n) = n
      <4>1. 1 \in Int /\ n \in Int
        OBVIOUS
      <4>2. Cardinality(1..n) = IF 1 > n THEN 0 ELSE n - 1 + 1
        BY <4>1, FS_Interval, Zenon
      <4> QED
        BY <4>2
    <3>4. data[d].active => 4 \in seed[d]
      BY <1>1 DEF KPInv, RowsAreLoaded, Datasets
    <3> QED
      BY <3>1, <3>2, <3>3, <3>4 DEF SeedFiles
  <2>6. ServedWasReviewed
    BY <1>1 DEF ServedWasReviewed, KPInv, ReadersAreServed, WasReviewed
  <2> QED
    BY <1>1, <2>3, <2>4, <2>5, <2>6 DEF KnowledgeIsReviewed, KPInv
<1> QED
  BY <1>1, KnowledgeInvariant, PTL


-----------------------------------------------------------------------------
(* What a step may never do.                                               *)

\* Promotion activates only a public dataset that is published by the same
\* statement, whatever happened between the plan and the SQL.
THEOREM PromotionsAlwaysValidated ==
  ASSUME ScopesAssumption PROVE KPSpec => [][ActivatedWasValidated]_kpVars
<1>1. ASSUME KPInv, [KPNext]_kpVars PROVE [ActivatedWasValidated]_kpVars
  <2> SUFFICES ASSUME KPNext, NEW d \in Public, ~data[d].active, data'[d].active
               PROVE  manifest'[d].status = "published"
    BY <1>1 DEF ActivatedWasValidated
  <2>1. \/ \E p \in Publishers : Promote(p)
        \/ \E x \in Full : ActivateFull(x)
        \/ \E x \in Full, q \in Qualities, E \in GapSets : SeedFull(x, q, E)
        \/ \E p \in Publishers : ApplyFile(p)
        \/ UNCHANGED data
    BY DEF KPNext, PlanSeed, PublisherFails, ReportError, DraftRevision, BrowseErrors, ReviewError,
           BrowseManifests, ValidateManifest, BrowseRevisions, GateRevision, DecideRevision,
           PickDataset, ReadPage, AskAssistant, SearchPages, GatherEvidence, LoadLinks, ReadCached,
           EndRead, ExpireCache
  <2>2. /\ d \in Datasets /\ d \notin Full
        /\ data \in [Datasets -> [quality : Qualities \cup {NoRow}, verified : BOOLEAN, active : BOOLEAN]]
    BY <1>1 DEF Datasets, ScopesAssumption, KPInv, DatabaseTypeOK
  <2>3. ASSUME NEW p \in Publishers, Promote(p) PROVE manifest'[d].status = "published"
    BY <1>1, <2>3, PromoteFacts
  <2>4. ASSUME NEW x \in Full, ActivateFull(x) PROVE FALSE
    BY <2>2, <2>4 DEF ActivateFull
  <2>5. ASSUME NEW x \in Full, NEW q \in Qualities, NEW E \in GapSets, SeedFull(x, q, E) PROVE FALSE
    BY <2>2, <2>5 DEF SeedFull
  <2>6. ASSUME NEW p \in Publishers, ApplyFile(p) PROVE FALSE
    <3>1. \/ UNCHANGED data
          \/ data' = [data EXCEPT ![publisher[p].d].quality = "exact"]
      BY <2>6 DEF ApplyFile, FileEffect
    <3> QED
      BY <2>2, <3>1
  <2> QED
    BY <2>1, <2>3, <2>4, <2>5, <2>6
<1> QED
  BY <1>1, KnowledgeInvariant, PTL DEF KPSpec

\* A decision is applied only to the very row its operator saw.
THEOREM ReviewsAlwaysCurrent ==
  ASSUME ScopesAssumption PROVE KPSpec => [][ReviewsAreCurrent]_kpVars
<1>1. ASSUME KPInv, [KPNext]_kpVars PROVE [ReviewsAreCurrent]_kpVars
  <2> SUFFICES ASSUME KPNext, NEW d \in Datasets, NEW e \in Errors,
                      book'[d][e].version > book[d][e].version
               PROVE  \E o \in Operators : /\ review[o].step = "error"
                                           /\ review[o].d = d /\ review[o].e = e
                                           /\ review[o].seen = book[d][e]
    BY <1>1 DEF ReviewsAreCurrent
  <2>1. \/ \E x \in Full, q \in Qualities, E \in GapSets : SeedFull(x, q, E)
        \/ \E x \in Datasets, y \in Errors : ReportError(x, y)
        \/ \E o \in Operators, to \in BookStatus : ReviewError(o, to)
        \/ UNCHANGED book
    BY DEF KPNext, ActivateFull, PlanSeed, ApplyFile, Promote, PublisherFails, DraftRevision,
           BrowseErrors, BrowseManifests, ValidateManifest, BrowseRevisions, GateRevision,
           DecideRevision, PickDataset, ReadPage, AskAssistant, SearchPages, GatherEvidence,
           LoadLinks, ReadCached, EndRead, ExpireCache
  <2>2. /\ book \in [Datasets -> [Errors -> Versioned(BookStatus \cup {NoRow})]]
        /\ book[d][e].version \in Nat
    BY <1>1 DEF KPInv, DatabaseTypeOK, Versioned
  <2>3. ASSUME NEW x \in Full, NEW q \in Qualities, NEW E \in GapSets, SeedFull(x, q, E) PROVE FALSE
    <3>1. book'[d][e] \in {book[d][e], [status |-> "open", version |-> 0]}
      BY <2>2, <2>3 DEF SeedFull
    <3> QED
      BY <2>2, <3>1
  <2>4. ASSUME NEW x \in Datasets, NEW y \in Errors, ReportError(x, y) PROVE FALSE
    <3>1. book'[d][e] \in {book[d][e], [status |-> "open", version |-> 0]}
      BY <2>2, <2>4 DEF ReportError
    <3> QED
      BY <2>2, <3>1
  <2>5. ASSUME NEW o \in Operators, NEW to \in BookStatus, ReviewError(o, to)
        PROVE  /\ review[o].step = "error"
               /\ review[o].d = d /\ review[o].e = e
               /\ review[o].seen = book[d][e]
    <3>1. review[o].step = "error" /\ review[o].d \in Datasets /\ review[o].e \in Errors
      BY <1>1, <2>5 DEF ReviewError, KPInv, RequestsTypeOK
    <3>2. book' # book
      BY <2>2
    <3>3. /\ StillSeen(book[review[o].d][review[o].e], review[o].seen)
          /\ \E v : book' = [book EXCEPT ![review[o].d][review[o].e] = v]
      BY <2>5, <3>2 DEF ReviewError
    <3>4. review[o].d = d /\ review[o].e = e
      BY <2>2, <3>1, <3>3
    <3> QED
      BY <3>1, <3>3, <3>4 DEF StillSeen
  <2>6. book' = book => FALSE
    BY <2>2
  <2> QED
    BY <2>1, <2>3, <2>4, <2>5, <2>6
<1> QED
  BY <1>1, KnowledgeInvariant, PTL DEF KPSpec

=============================================================================
