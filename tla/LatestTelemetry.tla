-------------------------- MODULE LatestTelemetry --------------------------
(***************************************************************************)
(* The agent's single-value publisher and the streams that follow it:      *)
(* LatestTelemetry of crates/pal-telemetry/src/cursor.rs and the subscribe *)
(* stream of crates/pal-telemetry/src/server.rs.                           *)
(*                                                                         *)
(* connect, publish and close change state and watch channel under one     *)
(* mutex, so each is one action.  A stream's next_after reads the channel  *)
(* (borrow_and_update) and, if there is nothing for it, waits for a change *)
(* after that read.  Envelopes of another world or subject change nothing  *)
(* and are left out; the drop counters are abstracted to the guards.       *)
(***************************************************************************)
EXTENDS PositionEvents

CONSTANTS
  Subscribers,   \* the client's subscribe streams
  ForeignBoots   \* boots of earlier agent processes, known to clients only

ASSUME ForeignAssumption == ForeignBoots \subseteq Boots

VARIABLES
  lClosed,      \* LatestState.closed
  lGeneration,  \* LatestState.generation
  lBoot,        \* LatestState.active_boot_id
  lSequence,    \* LatestState.last_sequence, 0 for None
  lRetired,     \* LatestState.retired_boots: the bits that are set
  signal,       \* the value in the watch channel
  cursor,       \* cursor[s]: the resume cursor of stream s
  stream,       \* stream[s]: "ready", "waiting" or "ended"
  changed,      \* changed[s]: the channel changed since s last read it
  left          \* history: boots client s has moved on from

latestVars == <<lClosed, lGeneration, lBoot, lSequence, lRetired, signal>>
streamVars == <<cursor, stream, changed, left>>
telemetryVars == <<latestVars, streamVars>>

-----------------------------------------------------------------------------
Empty == [kind |-> "Empty"]    \* LatestSignal::Open(None)
Closed == [kind |-> "Closed"]  \* LatestSignal::Closed
Value(boot, sequence, payload) ==
  [kind |-> "Value", boot |-> boot, sequence |-> sequence, payload |-> payload]

NoCursor == [boot |-> NoBoot, sequence |-> 0]
CursorOf(value) == [boot |-> value.boot, sequence |-> value.sequence]

\* What a client may bring along from before this agent was started.
ForeignCursors ==
  [boot : ForeignBoots, sequence : SequenceNumbers \ {0}] \cup {NoCursor}

\* Mutant: a cursor of another boot is taken for an up-to-date one.
NeedsCurrentSameBoot(s) ==
  /\ signal.kind = "Value"
  /\ \/ cursor[s] = NoCursor
     \/ cursor[s].boot = signal.boot /\ signal.sequence > cursor[s].sequence

\* cursor_needs_current
NeedsCurrent(s) ==
  /\ signal.kind = "Value"
  /\ \/ cursor[s] = NoCursor
     \/ cursor[s].boot # signal.boot
     \/ signal.sequence > cursor[s].sequence

\* sender.send_replace: every receiver sees a change.
SendReplace(value) ==
  /\ signal' = value
  /\ changed' = [s \in Subscribers |-> TRUE]

\* RetiredBootFilter::contains
Retired(boot) == BootBits[boot] \subseteq lRetired

LatestInit ==
  /\ lClosed = FALSE
  /\ lGeneration = 0
  /\ lBoot = NoBoot
  /\ lSequence = 0
  /\ lRetired = {}
  /\ signal = Empty

StreamInit ==
  /\ cursor \in [Subscribers -> ForeignCursors]
  /\ stream = [s \in Subscribers |-> "ready"]
  /\ changed = [s \in Subscribers |-> FALSE]
  /\ left = [s \in Subscribers |-> {}]

TelemetryInit == LatestInit /\ StreamInit

-----------------------------------------------------------------------------
\* Mutant: the boot of the connection that is replaced is not retired.
LatestConnectForgets(g) ==
  /\ ~lClosed /\ g > lGeneration
  /\ lBoot' = NoBoot
  /\ lGeneration' = g
  /\ lSequence' = 0
  /\ SendReplace(Empty)
  /\ UNCHANGED <<lClosed, lRetired, cursor, stream, left>>

\* A newer connection retires the active boot and clears the channel.
LatestConnect(g) ==
  /\ ~lClosed
  /\ g > lGeneration
  /\ lRetired' = IF lBoot = NoBoot THEN lRetired ELSE lRetired \cup BootBits[lBoot]
  /\ lBoot' = NoBoot
  /\ lGeneration' = g
  /\ lSequence' = 0
  /\ SendReplace(Empty)
  /\ UNCHANGED <<lClosed, cursor, stream, left>>

\* Whether publish returns Accepted or AcceptedWithGap.
Publishable(g, boot, sequence) ==
  /\ ~lClosed
  /\ g # 0 /\ g = lGeneration
  /\ ~Retired(boot)
  /\ lBoot \in {NoBoot, boot}
  /\ sequence > lSequence

LatestPublish(g, boot, sequence, payload) ==
  /\ payload \in ValidPayloads
  /\ Publishable(g, boot, sequence)
  /\ lBoot' = boot
  /\ lSequence' = sequence
  /\ SendReplace(Value(boot, sequence, payload))
  /\ UNCHANGED <<lClosed, lGeneration, lRetired, cursor, stream, left>>

\* Mutant: the streams that wait are not woken.
LatestCloseSilent ==
  /\ lClosed' = TRUE
  /\ signal' = Closed
  /\ UNCHANGED <<lGeneration, lBoot, lSequence, lRetired, streamVars>>

LatestClose ==
  /\ lClosed' = TRUE
  /\ SendReplace(Closed)
  /\ UNCHANGED <<lGeneration, lBoot, lSequence, lRetired, cursor, stream, left>>

-----------------------------------------------------------------------------
\* The stream yields the current value and advances its cursor.
Yields(s) ==
  /\ NeedsCurrent(s)
  /\ stream' = [stream EXCEPT ![s] = "ready"]
  /\ cursor' = [cursor EXCEPT ![s] = CursorOf(signal)]
  /\ left' = [left EXCEPT ![s] = @ \cup ({cursor[s].boot} \ {signal.boot, NoBoot})]

\* One read of the channel by next_after of stream s.
NextAfter(s) ==
  /\ \/ stream[s] = "ready"
     \/ stream[s] = "waiting" /\ changed[s]
  /\ changed' = [changed EXCEPT ![s] = FALSE]
  /\ \/ Yields(s)
     \/ /\ signal = Closed
        /\ stream' = [stream EXCEPT ![s] = "ended"]
        /\ UNCHANGED <<cursor, left>>
     \/ /\ signal # Closed /\ ~NeedsCurrent(s)
        /\ stream' = [stream EXCEPT ![s] = "waiting"]
        /\ UNCHANGED <<cursor, left>>
  /\ UNCHANGED latestVars

\* A client whose stream broke subscribes again with the cursor it has.
Resubscribe(s) ==
  /\ stream' = [stream EXCEPT ![s] = "ready"]
  /\ changed' = [changed EXCEPT ![s] = FALSE]
  /\ UNCHANGED <<latestVars, cursor, left>>

-----------------------------------------------------------------------------
TelemetryNext ==
  \/ \E g \in Generations : LatestConnect(g)
  \/ \E g \in Generations, b \in Boots \ ForeignBoots, n \in SequenceNumbers \ {0},
        p \in Payloads : LatestPublish(g, b, n, p)
  \/ LatestClose
  \/ \E s \in Subscribers : NextAfter(s)
  \/ \E s \in Subscribers : stream[s] # "ended" /\ Resubscribe(s)

\* Tokio polls every stream task that is woken.
TelemetrySpec ==
  /\ TelemetryInit
  /\ [][TelemetryNext]_telemetryVars
  /\ \A s \in Subscribers : WF_telemetryVars(NextAfter(s))

-----------------------------------------------------------------------------
\* The fields keep the types their Rust declarations give them.
TelemetryTypeOK ==
  /\ lClosed \in BOOLEAN
  /\ lGeneration \in Nat
  /\ lBoot \in Boots \cup {NoBoot}
  /\ lSequence \in Nat
  /\ signal \in {Empty, Closed}
       \cup [kind : {"Value"}, boot : Boots, sequence : Nat \ {0},
             payload : ValidPayloads]
  /\ cursor \in [Subscribers -> [boot : Boots, sequence : Nat \ {0}] \cup {NoCursor}]
  /\ stream \in [Subscribers -> {"ready", "waiting", "ended"}]
  /\ changed \in [Subscribers -> BOOLEAN]
  /\ left \in [Subscribers -> SUBSET Boots]

\* No wakeup is lost: a stream that sleeps on an unchanged channel has
\* nothing to yield and no end to report, however its read interleaved with
\* publish, connect and close.
NoLostWakeup ==
  \A s \in Subscribers :
    stream[s] = "waiting" /\ ~changed[s] => ~NeedsCurrent(s) /\ signal # Closed

\* A step of a stream only moves it forward: within a boot to higher
\* sequences, and never back to a boot it has moved on from.
MovesForward ==
  \A s \in Subscribers : cursor'[s] # cursor[s] =>
    /\ cursor'[s].boot \notin left[s]
    /\ cursor'[s].boot = cursor[s].boot =>
         cursor'[s].sequence > cursor[s].sequence

\* After close no value is visible in the channel again.
ClosedIsFinal == lClosed => signal' = Closed

\* A subscriber's stream never goes back to an earlier position or boot, also
\* when it is opened again after the agent has moved on; and closing is final
\* even for a publish or a connect that was already on its way, so trust that
\* was lost cannot be papered over by a late sample.
StreamNeverGoesBack == [][MovesForward /\ ClosedIsFinal]_telemetryVars

-----------------------------------------------------------------------------
\* A boot no publication can name any more.
Gone(boot) == boot \in ForeignBoots \/ Retired(boot)

\* What publisher and streams know of each other between any two steps: a
\* closed publisher shows its end, a visible value is of the active boot,
\* which is not retired, and a stream stands at that boot or at one that is
\* gone for good, as are all it has moved on from.
StreamsFollowPublisher ==
  /\ TelemetryTypeOK
  /\ lClosed => signal = Closed
  /\ signal.kind = "Value" => signal.boot = lBoot /\ ~Gone(lBoot)
  /\ \A s \in Subscribers :
       /\ cursor[s] # NoCursor => cursor[s].boot = lBoot \/ Gone(cursor[s].boot)
       /\ \A b \in left[s] : Gone(b)
  /\ NoLostWakeup

=============================================================================
