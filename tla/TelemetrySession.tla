-------------------------- MODULE TelemetrySession --------------------------
(***************************************************************************)
(* The network path of a position: the agent's publisher, the subscribe    *)
(* stream, the wire, and the client's session supervisor with its clock    *)
(* evidence (NetworkConsumer and TelemetryIngest of                        *)
(* crates/pal-telemetry/src/client.rs, ClockEstimator of clock.rs), which  *)
(* feeds the inbox of ServerAgentInbox.                                    *)
(*                                                                         *)
(* A session runs from await to await; each stretch between two awaits     *)
(* that takes the inbox lock once is one action.  The agent may crash and  *)
(* come back with another boot, the connection may break at any await, the *)
(* caller may cancel, and the clock evidence may be refused or expire.     *)
(* Errors that configuration causes (TLS, identity, descriptor) are one    *)
(* refusal before the session opens.                                       *)
(***************************************************************************)
EXTENDS LatestTelemetry, ServerAgentInbox

CONSTANTS
  Client,       \* the one subscriber
  MaxAttempts,  \* bound: failed sessions
  MaxWire       \* bound: messages between the stream and the client

VARIABLES
  agentBoot,      \* boot_id of the running agent, NoBoot while there is none
  spentBoots,     \* history: boots of all agent processes so far
  phase,          \* where run_until_cancelled and run_session are
  ending,         \* how the session that is being dropped ended
  attempt,        \* attempt: the generation is attempt + 1
  resume,         \* NetworkConsumer.resume
  clock,          \* ClockEstimator.current: "none", "valid" or "expired"
  clockReported,  \* TelemetryIngest.clock_invalid_emitted
  wire,           \* messages the stream yielded and the client has not read
  linked,         \* the HTTP/2 connection of the session is alive
  cancelled       \* the cancellation channel's value

agentSide == <<agentBoot, spentBoots>>
ingestVars == <<clock, clockReported>>
clientVars == <<phase, ending, attempt, resume, ingestVars, wire, linked, cancelled>>
sessionVars == <<telemetryVars, inboxVars, agentSide, clientVars>>

-----------------------------------------------------------------------------
Generation == attempt + 1  \* initial_generation is 1

\* Phases in which run_session holds a TelemetryIngest.
InSession == {"probing", "subscribing", "streaming", "reprobing"}

SessionInit ==
  /\ TelemetryInit /\ cursor[Client] = NoCursor
  /\ InboxInit
  /\ agentBoot = NoBoot
  /\ spentBoots = {}
  /\ phase = "idle"
  /\ ending = "none"
  /\ attempt = 0
  /\ resume = NoCursor
  /\ clock = "none"
  /\ clockReported = FALSE
  /\ wire = <<>>
  /\ linked = FALSE
  /\ cancelled = FALSE

-----------------------------------------------------------------------------
(* The agent.                                                              *)

\* A new process: a fresh random boot, an empty publisher, generation 1.
AgentStart ==
  /\ agentBoot = NoBoot
  /\ \E b \in Boots \ spentBoots :
       agentBoot' = b /\ spentBoots' = spentBoots \cup {b}
  /\ lGeneration' = 1
  /\ lBoot' = NoBoot
  /\ lSequence' = 0
  /\ signal' = Empty
  /\ UNCHANGED <<lClosed, lRetired, streamVars, inboxVars, clientVars>>

AgentPublish ==
  /\ agentBoot # NoBoot
  /\ lSequence + 1 \in SequenceNumbers
  /\ \E p \in ValidPayloads :
       LatestPublish(1, agentBoot, lSequence + 1, p)
  /\ UNCHANGED <<inboxVars, agentSide, clientVars>>

\* The process ends, and its connections with it.  Bounded by the attempts
\* the client has left and the boots there are for a successor.
AgentCrash ==
  /\ agentBoot # NoBoot /\ attempt < MaxAttempts
  /\ Boots # spentBoots
  /\ agentBoot' = NoBoot
  /\ signal' = Empty
  /\ linked' = FALSE
  /\ UNCHANGED <<lClosed, lGeneration, lBoot, lSequence, lRetired, streamVars,
                 inboxVars, spentBoots, phase, ending, attempt, resume,
                 ingestVars, wire, cancelled>>

\* The subscribe stream reads the publisher and writes what it yields.
AgentStream ==
  /\ phase \in {"streaming", "reprobing"} /\ linked
  /\ Len(wire) < MaxWire
  /\ NextAfter(Client)
  /\ wire' = IF NeedsCurrent(Client) THEN Append(wire, signal) ELSE wire
  /\ UNCHANGED <<inboxVars, agentSide, phase, ending, attempt, resume,
                 ingestVars, linked, cancelled>>

-----------------------------------------------------------------------------
(* run_until_cancelled and run_session.                                    *)

\* The top of the loop.
Begin ==
  /\ phase = "idle"
  /\ phase' = IF cancelled THEN "stopped" ELSE "dialing"
  /\ UNCHANGED <<telemetryVars, inboxVars, agentSide, ending, attempt, resume,
                 ingestVars, wire, linked, cancelled>>

\* connect_channel and get_descriptor.
Dial ==
  /\ phase = "dialing" /\ agentBoot # NoBoot
  /\ linked' = TRUE
  /\ phase' = "opening"
  /\ UNCHANGED <<telemetryVars, inboxVars, agentSide, ending, attempt, resume,
                 ingestVars, wire, cancelled>>

DialFails ==
  /\ phase = "dialing" /\ attempt < MaxAttempts
  /\ phase' = "backoff"
  /\ attempt' = attempt + 1
  /\ UNCHANGED <<telemetryVars, inboxVars, agentSide, ending, resume,
                 ingestVars, wire, linked, cancelled>>

\* A refusal of class Terminal before the session opens.
DialRefused ==
  /\ phase = "dialing"
  /\ phase' = "failed"
  /\ UNCHANGED <<telemetryVars, inboxVars, agentSide, ending, attempt, resume,
                 ingestVars, wire, linked, cancelled>>

\* TelemetryIngest::new; a refused connect is terminal.
Open ==
  /\ phase = "opening"
  /\ clock' = "none"
  /\ clockReported' = FALSE
  /\ \/ Connect(Generation) /\ phase' = "probing"
     \/ /\ ConnectOutcome(Generation) # "Accepted"
        /\ phase' = "failed"
        /\ UNCHANGED inboxVars
  /\ UNCHANGED <<telemetryVars, agentSide, ending, attempt, resume, wire,
                 linked, cancelled>>

\* The session future is on its way out; its ingest is still to be dropped.
EndWith(how) == phase' = "closing" /\ ending' = how

\* The clock probe is answered and accepted.
ProbeAccepted ==
  /\ phase \in {"probing", "reprobing"} /\ linked
  /\ clock' = "valid"
  /\ clockReported' = FALSE
  /\ phase' = IF phase = "probing" THEN "subscribing" ELSE "streaming"
  /\ UNCHANGED <<telemetryVars, inboxVars, agentSide, ending, attempt, resume,
                 wire, linked, cancelled>>

\* The evidence is refused: an outlier, a step of the wall clock, ...
ProbeRejected ==
  /\ phase \in {"probing", "reprobing"} /\ linked
  /\ clock' = "none"
  /\ clockReported' = TRUE
  /\ IF ControlOutcome(Generation) = "Accepted"
       THEN ClockInvalid(Generation)
       ELSE UNCHANGED inboxVars
  /\ EndWith("terminal")
  /\ UNCHANGED <<telemetryVars, agentSide, attempt, resume, wire, linked, cancelled>>

\* subscribe with the resume cursor.
OpenStream ==
  /\ phase = "subscribing" /\ linked
  /\ cursor' = [cursor EXCEPT ![Client] = resume]
  /\ stream' = [stream EXCEPT ![Client] = "ready"]
  /\ changed' = [changed EXCEPT ![Client] = FALSE]
  /\ wire' = <<>>
  /\ phase' = "streaming"
  /\ UNCHANGED <<latestVars, left, inboxVars, agentSide, ending, attempt,
                 resume, ingestVars, linked, cancelled>>

FrameOf(value) ==
  [identityMatches |-> TRUE, boot |-> value.boot, generation |-> Generation,
   sequence |-> value.sequence, payload |-> value.payload]

\* The cursor is advanced by an accepted message only.
ResumeAfter(value, outcome) ==
  IF outcome = "Accepted" THEN CursorOf(value) ELSE resume

\* stream.message(), with clock evidence that is not too old.  The receive
\* time is monotonic and the envelope has passed validate_envelope, so the
\* inbox either accepts the frame or drops it unchanged.
Receive ==
  /\ phase = "streaming" /\ wire # <<>> /\ clock = "valid"
  /\ \E now \in Times :
       LET frame == FrameOf(Head(wire))
           outcome == PublishOutcome(frame, now)
       IN  /\ now >= lastReceived
           /\ resume' = ResumeAfter(Head(wire), outcome)
           /\ \/ PublishPosition(frame, now)
              \/ outcome # "Accepted" /\ UNCHANGED inboxVars
  /\ wire' = Tail(wire)
  /\ UNCHANGED <<telemetryVars, agentSide, phase, ending, attempt, ingestVars,
                 linked, cancelled>>

\* stream.message(), but the clock evidence has expired.
ReceiveUndated ==
  /\ phase = "streaming" /\ wire # <<>> /\ clock # "valid"
  /\ wire' = Tail(wire)
  /\ clockReported' = TRUE
  /\ IF ~clockReported /\ ControlOutcome(Generation) = "Accepted"
       THEN ClockInvalid(Generation)
       ELSE UNCHANGED inboxVars
  /\ EndWith("terminal")
  /\ UNCHANGED <<telemetryVars, agentSide, attempt, resume, clock, linked, cancelled>>

ProbeDue ==
  /\ phase = "streaming"
  /\ phase' = "reprobing"
  /\ UNCHANGED <<telemetryVars, inboxVars, agentSide, ending, attempt, resume,
                 ingestVars, wire, linked, cancelled>>

\* ESTIMATE_EXPIRY passed without a probe (a suspended machine).
ClockExpires ==
  /\ clock = "valid" /\ phase \in InSession
  /\ clock' = "expired"
  /\ UNCHANGED <<telemetryVars, inboxVars, agentSide, phase, ending, attempt,
                 resume, clockReported, wire, linked, cancelled>>

LinkBreaks ==
  /\ linked /\ attempt < MaxAttempts
  /\ linked' = FALSE
  /\ UNCHANGED <<telemetryVars, inboxVars, agentSide, phase, ending, attempt,
                 resume, ingestVars, wire, cancelled>>

\* Whatever the session awaits fails with a transient error.
SessionBreaks ==
  /\ phase \in InSession /\ ~linked
  /\ EndWith("transient")
  /\ UNCHANGED <<telemetryVars, inboxVars, agentSide, attempt, resume,
                 ingestVars, wire, linked, cancelled>>

\* The biased select drops the session future.
CancelSession ==
  /\ phase \in InSession /\ cancelled
  /\ EndWith("cancelled")
  /\ UNCHANGED <<telemetryVars, inboxVars, agentSide, attempt, resume,
                 ingestVars, wire, linked, cancelled>>

\* Mutant: only errors close the session, not the drop of its future.
DropIngestOnError ==
  /\ phase = "closing"
  /\ IF ControlOutcome(Generation) = "Accepted" /\ ending # "cancelled"
       THEN Disconnect(Generation)
       ELSE UNCHANGED inboxVars
  /\ phase' = IF ending = "transient" THEN "backoff"
              ELSE IF ending = "terminal" THEN "failed" ELSE "stopped"
  /\ attempt' = IF ending = "transient" THEN attempt + 1 ELSE attempt
  /\ ending' = "none"
  /\ linked' = FALSE
  /\ wire' = <<>>
  /\ UNCHANGED <<telemetryVars, agentSide, resume, ingestVars, cancelled>>

\* Drop of TelemetryIngest on every way out of run_session, and what
\* run_until_cancelled makes of the result.
DropIngest ==
  /\ phase = "closing"
  /\ IF ControlOutcome(Generation) = "Accepted"
       THEN Disconnect(Generation)
       ELSE UNCHANGED inboxVars
  /\ phase' = IF ending = "transient" THEN "backoff"
              ELSE IF ending = "terminal" THEN "failed" ELSE "stopped"
  /\ attempt' = IF ending = "transient" THEN attempt + 1 ELSE attempt
  /\ ending' = "none"
  /\ linked' = FALSE
  /\ wire' = <<>>
  /\ UNCHANGED <<telemetryVars, agentSide, resume, ingestVars, cancelled>>

BackoffElapses ==
  /\ phase = "backoff"
  /\ phase' = "idle"
  /\ UNCHANGED <<telemetryVars, inboxVars, agentSide, ending, attempt, resume,
                 ingestVars, wire, linked, cancelled>>

\* Cancellation while no session is open.
CancelOutside ==
  /\ phase \in {"dialing", "backoff"} /\ cancelled
  /\ phase' = "stopped"
  /\ UNCHANGED <<telemetryVars, inboxVars, agentSide, ending, attempt, resume,
                 ingestVars, wire, linked, cancelled>>

Cancel ==
  /\ ~cancelled
  /\ cancelled' = TRUE
  /\ UNCHANGED <<telemetryVars, inboxVars, agentSide, phase, ending, attempt,
                 resume, ingestVars, wire, linked>>

\* The overlay polls the inbox at its own pace.
Consume == Poll /\ UNCHANGED <<telemetryVars, agentSide, clientVars>>

-----------------------------------------------------------------------------
ClientStep ==
  \/ Begin \/ Dial \/ Open \/ ProbeAccepted \/ OpenStream
  \/ Receive \/ ReceiveUndated \/ SessionBreaks \/ DropIngest \/ BackoffElapses

SessionNext ==
  \/ ClientStep \/ CancelSession \/ CancelOutside
  \/ DialFails \/ DialRefused \/ ProbeRejected \/ ProbeDue
  \/ AgentStart \/ AgentPublish \/ AgentCrash \/ AgentStream
  \/ ClockExpires \/ LinkBreaks \/ Cancel \/ Consume

\* The client's runtime keeps running, a crashed agent is restarted, and an
\* open stream makes progress.  Faults need not happen.  A session that
\* alternates between probes and messages serves both.
SessionSpec ==
  /\ SessionInit
  /\ [][SessionNext]_sessionVars
  /\ WF_sessionVars(ClientStep) /\ SF_sessionVars(Receive)
  /\ WF_sessionVars(CancelSession) /\ WF_sessionVars(CancelOutside)
  /\ WF_sessionVars(AgentStart) /\ WF_sessionVars(AgentStream)

-----------------------------------------------------------------------------
\* However a session ends (an error at any await, a refused probe, expired
\* evidence, cancellation at any point), the inbox is told: while the client
\* is not in a session, the inbox has none open.
SessionOverMeansClosed ==
  phase \notin InSession \cup {"closing"} => ~connected

\* The cursor the client would resume from is exactly what the inbox has
\* accepted last, so a reconnect neither repeats nor skips a position.
ResumeFollowsInbox ==
  resume # NoCursor => resume.boot = activeBoot /\ resume.sequence = lastSequence

\* Agent, stream, wire and client together deliver each position once and in
\* order: the only reason for which the inbox turns one down is a boot that
\* the retired-boot filter takes for an old one.
OnlyTheFilterRefuses ==
  phase = "streaming" /\ wire # <<>> =>
    \A now \in Times :
      now >= lastReceived =>
        PublishOutcome(FrameOf(Head(wire)), now)
          \in {"Accepted", "RetiredBootDropped"}

\* A reconnect is only ever refused for lack of room: its generation is
\* newer than every generation used before, attempts that never opened a
\* session included.
GenerationsNeverCollide ==
  phase = "opening" =>
    ConnectOutcome(Generation) \in {"Accepted", "QueueFullDropped"}

\* Agent publisher, stream cursor, wire, client cursor and inbox stay in step.
SessionInStep ==
  /\ SessionOverMeansClosed
  /\ ResumeFollowsInbox
  /\ OnlyTheFilterRefuses
  /\ GenerationsNeverCollide

\* The agent publishes a position the inbox has not accepted.
Undelivered ==
  signal.kind = "Value" /\ highest[signal.boot] < signal.sequence

-----------------------------------------------------------------------------
\* The types of what agent, client and inbox hand to each other.
Values == [kind : {"Value"}, boot : Boots, sequence : Nat \ {0}, payload : ValidPayloads]
Cursors == [boot : Boots \cup {NoBoot}, sequence : Nat]
OutsideSession == {"idle", "dialing", "opening", "backoff"}

LinkTypeOK ==
  /\ lSequence \in Nat
  /\ signal \in {Empty, Closed} \cup Values
  /\ cursor \in [Subscribers -> Cursors]
  /\ generation \in Nat
  /\ connected \in BOOLEAN
  /\ generationHasSample \in BOOLEAN
  /\ activeBoot \in Boots \cup {NoBoot}
  /\ lastSequence \in Nat
  /\ lastReceived \in Times \cup {NoTime}
  /\ agentBoot \in Boots \cup {NoBoot}
  /\ phase \in InSession \cup OutsideSession \cup {"closing", "stopped", "failed"}
  /\ attempt \in Nat
  /\ linked \in BOOLEAN
  /\ wire \in Seq(Values)

\* A connection is to the process that runs, and so is what it publishes.
AgentIsLinked ==
  /\ linked => agentBoot # NoBoot
  /\ signal.kind = "Value" => signal.boot = agentBoot

\* A session has the inbox's newest generation to itself; the next one will
\* have a newer generation.
GenerationIsOwn ==
  /\ phase \in InSession \cup {"closing"} => generation = attempt + 1
  /\ phase \in InSession => connected
  /\ phase \in OutsideSession => generation <= attempt

\* The client's cursor is the inbox's.
ResumeIsInbox ==
  /\ resume = [boot |-> activeBoot, sequence |-> lastSequence]
  /\ activeBoot = NoBoot => lastSequence = 0

\* What is on the wire is of the one boot b the session is connected to, in
\* order, and behind the stream's cursor and ahead of the inbox's.
WireIsFresh(b) ==
  /\ linked => agentBoot = b
  /\ generationHasSample => activeBoot = b
  /\ \A i \in 1 .. Len(wire) :
       wire[i].boot = b /\ (activeBoot = b => wire[i].sequence > lastSequence)
  /\ \A i, j \in 1 .. Len(wire) : i < j => wire[i].sequence < wire[j].sequence
  /\ phase \in {"streaming", "reprobing"} =>
       /\ b # NoBoot /\ activeBoot = b =>
            cursor[Client].boot = b /\ lastSequence <= cursor[Client].sequence
       /\ \A i \in 1 .. Len(wire) :
            cursor[Client].boot = b /\ wire[i].sequence <= cursor[Client].sequence

OneBootPerSession ==
  /\ phase \notin {"streaming", "reprobing", "closing"} => wire = <<>>
  /\ phase \in InSession => \E b \in Boots \cup {NoBoot} : WireIsFresh(b)

LinkInv ==
  /\ LinkTypeOK
  /\ AgentIsLinked
  /\ GenerationIsOwn
  /\ ResumeIsInbox
  /\ OneBootPerSession
  /\ SessionOverMeansClosed

=============================================================================
