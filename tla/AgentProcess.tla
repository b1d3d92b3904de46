---------------------------- MODULE AgentProcess ----------------------------
(***************************************************************************)
(* The pal-agent process: the poller task (crates/pal-agent/src/poller.rs) *)
(* that asks the game server for the player's position and hands it to the *)
(* pipeline (pipeline.rs), the gRPC server with its subscribe streams, and *)
(* the shutdown protocol between the two (main.rs).                        *)
(*                                                                         *)
(* The stretches of a task between two awaits are one action.  The game    *)
(* server may stop being the approved one at any time; from then on its    *)
(* answers are not genuine.  Signal handling, HTTP and TLS are tokio's and *)
(* tonic's: the model has their effects.                                   *)
(***************************************************************************)
EXTENDS LatestTelemetry

CONSTANTS
  AgentBoot,        \* boot_id, random per process
  GenuinePayloads,  \* what the approved game server may report
  MaxSequence       \* u64::MAX

VARIABLES
  binding,       \* RestTrustBinding: "LocalProcess" or "ExplicitRemoteHttps"
  trusted,       \* the endpoint is still the approved game server
  identityDue,   \* RemoteIdentityCheck::is_due
  poller,        \* where the poll task is
  answer,        \* what game_data() has resolved to
  nextSequence,  \* AgentPipeline.next_sequence
  sends,         \* version of the shutdown watch channel
  server         \* where the main task is

pollerVars == <<poller, answer, nextSequence>>
agentVars == <<binding, trusted, identityDue, pollerVars, sends, server>>
processVars == <<telemetryVars, agentVars>>

-----------------------------------------------------------------------------
NoAnswer == [kind |-> "None"]
Failed == [kind |-> "Error"]
ConnectionUntrusted == [kind |-> "ConnectionUntrusted"]
Sample(payload) == [kind |-> "Sample", payload |-> payload]

\* GameDataSource::revalidate_trust
RevalidateTrust == binding = "LocalProcess" => trusted

AgentInit ==
  /\ lClosed = FALSE
  /\ lGeneration = 1
  /\ lBoot = NoBoot
  /\ lSequence = 0
  /\ lRetired = {}
  /\ signal = Empty
  /\ cursor \in [Subscribers -> ForeignCursors]
  /\ stream = [s \in Subscribers |-> "ended"]
  /\ changed = [s \in Subscribers |-> FALSE]
  /\ left = [s \in Subscribers |-> {}]
  /\ binding \in {"LocalProcess", "ExplicitRemoteHttps"}
  /\ trusted = TRUE
  /\ identityDue = FALSE
  /\ poller = "waiting"
  /\ answer = NoAnswer
  /\ nextSequence = 1
  /\ sends = 0
  /\ server = "starting"

-----------------------------------------------------------------------------
(* The poll task.                                                          *)

\* A tick of the interval: trust is checked before the request goes out.
PollTick ==
  /\ poller = "waiting"
  /\ poller' = IF RevalidateTrust THEN "fetching" ELSE "untrusted"
  /\ answer' = NoAnswer
  /\ UNCHANGED <<telemetryVars, binding, trusted, identityDue, nextSequence,
                 sends, server>>

\* The identity question a remote source asks first when it is due.
IdentityConfirmed ==
  /\ trusted \/ ~identityDue
  /\ identityDue' = FALSE

IdentityRefused ==
  /\ identityDue /\ ~trusted
  /\ answer' = ConnectionUntrusted
  /\ UNCHANGED identityDue

\* game_data() resolves: to an error, to an identity mismatch, or to what
\* the server behind the endpoint reports at that moment.
GameData ==
  /\ poller = "fetching" /\ answer = NoAnswer
  /\ \/ answer' = Failed /\ (IdentityConfirmed \/ UNCHANGED identityDue)
     \/ IdentityRefused
     \/ /\ IdentityConfirmed
        /\ \E p \in Payloads : /\ p \in GenuinePayloads <=> trusted
                               /\ answer' = Sample(p)
  /\ UNCHANGED <<telemetryVars, binding, trusted, poller, nextSequence, sends,
                 server>>

\* AgentPipeline::emit: the sequence advances only with an accepted sample,
\* and the last sequence number is never used.
Emit(payload) ==
  \/ /\ nextSequence < MaxSequence
     /\ LatestPublish(1, AgentBoot, nextSequence, payload)
     /\ nextSequence' = nextSequence + 1
  \/ /\ \/ nextSequence = MaxSequence
        \/ payload \notin ValidPayloads
        \/ ~Publishable(1, AgentBoot, nextSequence)
     /\ UNCHANGED <<telemetryVars, nextSequence>>

\* Mutant: trust is not checked again once the answer is there.
CompleteUnchecked ==
  /\ poller = "fetching" /\ answer # NoAnswer
  /\ answer' = NoAnswer
  /\ IF answer.kind = "ConnectionUntrusted"
       THEN poller' = "untrusted" /\ UNCHANGED <<telemetryVars, nextSequence>>
       ELSE /\ poller' = "waiting"
            /\ IF answer.kind = "Sample"
                 THEN Emit(answer.payload)
                 ELSE UNCHANGED <<telemetryVars, nextSequence>>
  /\ UNCHANGED <<binding, trusted, identityDue, sends, server>>

\* The poller goes on with the answer: trust is checked once more before
\* anything of it is used.
Complete ==
  /\ poller = "fetching" /\ answer # NoAnswer
  /\ answer' = NoAnswer
  /\ IF answer.kind = "ConnectionUntrusted" \/ ~RevalidateTrust
       THEN poller' = "untrusted" /\ UNCHANGED <<telemetryVars, nextSequence>>
       ELSE /\ poller' = "waiting"
            /\ IF answer.kind = "Sample"
                 THEN Emit(answer.payload)
                 ELSE UNCHANGED <<telemetryVars, nextSequence>>
  /\ UNCHANGED <<binding, trusted, identityDue, sends, server>>

\* Both selects of the loop: shutdown may win over a tick and an answer.
PollShutdown ==
  /\ poller \in {"waiting", "fetching"}
  /\ sends > 0
  /\ poller' = "shutdown"
  /\ answer' = NoAnswer
  /\ UNCHANGED <<telemetryVars, binding, trusted, identityDue, nextSequence,
                 sends, server>>

\* Mutant: trust loss shuts the agent down without closing the publisher.
CloseOnTrustLossSkipped ==
  /\ poller = "untrusted"
  /\ poller' = "closed"
  /\ UNCHANGED <<telemetryVars, binding, trusted, identityDue, answer,
                 nextSequence, sends, server>>

\* After PollerExit::TrustLost: close the publisher, then tell the server.
CloseOnTrustLoss ==
  /\ poller = "untrusted"
  /\ LatestClose
  /\ poller' = "closed"
  /\ UNCHANGED <<binding, trusted, identityDue, answer, nextSequence, sends,
                 server>>

SendOnTrustLoss ==
  /\ poller = "closed"
  /\ sends' = sends + 1
  /\ poller' = "trustLost"
  /\ UNCHANGED <<telemetryVars, binding, trusted, identityDue, answer,
                 nextSequence, server>>

-----------------------------------------------------------------------------
(* The main task: serve_with_incoming_shutdown and what follows it.        *)

StartServing ==
  /\ server = "starting"
  /\ server' = "serving"
  /\ UNCHANGED <<telemetryVars, binding, trusted, identityDue, pollerVars, sends>>

\* shutdown_signal: ctrl-c, or a change of the shutdown channel.
ShutdownSignal ==
  /\ server = "serving"
  /\ server' = "draining"
  /\ sends' = sends + 1
  /\ UNCHANGED <<telemetryVars, binding, trusted, identityDue, pollerVars>>

CtrlC == ShutdownSignal

\* The service's receiver subscribed at version 0, before the poll task was
\* spawned, so no send is missed.
ShutdownSeen == sends > 0 /\ ShutdownSignal

\* Graceful shutdown ends once the open streams have; then the poll task is
\* told (again) and joined.
Drained ==
  /\ server = "draining"
  /\ \A s \in Subscribers : stream[s] = "ended"
  /\ server' = "joining"
  /\ sends' = sends + 1
  /\ UNCHANGED <<telemetryVars, binding, trusted, identityDue, pollerVars>>

Exit ==
  /\ server = "joining"
  /\ poller \in {"shutdown", "trustLost"}
  /\ server' = IF poller = "trustLost" THEN "GateRefused" ELSE "Ok"
  /\ UNCHANGED <<telemetryVars, binding, trusted, identityDue, pollerVars, sends>>

Exited == server \in {"GateRefused", "Ok"}

-----------------------------------------------------------------------------
(* Clients and the outside world.                                          *)

\* A draining server takes no new requests.
Subscribe(s) ==
  /\ server = "serving" /\ stream[s] = "ended"
  /\ Resubscribe(s)
  /\ UNCHANGED agentVars

HangUp(s) ==
  /\ ~Exited /\ stream[s] # "ended"
  /\ stream' = [stream EXCEPT ![s] = "ended"]
  /\ UNCHANGED <<latestVars, cursor, changed, left, agentVars>>

Stream(s) == NextAfter(s) /\ UNCHANGED agentVars

LoseTrust ==
  /\ trusted /\ ~Exited
  /\ trusted' = FALSE
  /\ UNCHANGED <<telemetryVars, binding, identityDue, pollerVars, sends, server>>

\* REMOTE_IDENTITY_RECHECK_INTERVAL has passed.
IdentityCheckDue ==
  /\ binding = "ExplicitRemoteHttps" /\ ~identityDue /\ ~Exited
  /\ identityDue' = TRUE
  /\ UNCHANGED <<telemetryVars, binding, trusted, pollerVars, sends, server>>

-----------------------------------------------------------------------------
PollTask ==
  \/ PollTick \/ GameData \/ Complete \/ PollShutdown
  \/ CloseOnTrustLoss \/ SendOnTrustLoss

MainTask == StartServing \/ ShutdownSeen \/ Drained \/ Exit

AgentNext ==
  \/ PollTask \/ MainTask \/ CtrlC \/ LoseTrust \/ IdentityCheckDue
  \/ \E s \in Subscribers : Subscribe(s) \/ HangUp(s) \/ Stream(s)

\* Tokio runs every task that is ready, ticks and timeouts fire, so each
\* branch a task waits on is taken if it stays ready.  Nothing makes a
\* client hang up, a user press ctrl-c or a game server change.
AgentFairness ==
  /\ WF_processVars(PollTick) /\ WF_processVars(GameData)
  /\ WF_processVars(Complete) /\ WF_processVars(PollShutdown)
  /\ WF_processVars(CloseOnTrustLoss) /\ WF_processVars(SendOnTrustLoss)
  /\ WF_processVars(MainTask)
  /\ \A s \in Subscribers : WF_processVars(Stream(s))

AgentSpec == AgentInit /\ [][AgentNext]_processVars /\ AgentFairness

-----------------------------------------------------------------------------
\* Only the approved server's answers are published by an agent bound to a
\* local process, even when another process takes over the port while a
\* request is under way: the answer is discarded by the second check.
GenuineIsPublished ==
  binding = "LocalProcess" /\ signal.kind = "Value" =>
    signal.payload \in GenuinePayloads

\* Pipeline and publisher count alike: what the pipeline is about to emit is
\* exactly one past what was published, so the publisher never sees a gap or
\* a duplicate whatever polls, samples and publications failed before.
PipelineInStep == lSequence + 1 = nextSequence

\* What the agent publishes: genuine answers, numbered without a gap.
OnlyGenuinePublished == GenuineIsPublished /\ PipelineInStep

\* Once the poll task has told the server that trust was lost, and so when the
\* process ends with GateRefused, the publisher is closed and no client can
\* read a position any more.
TrustLossCloses ==
  poller \in {"closed", "trustLost"} \/ server = "GateRefused" =>
    lClosed /\ signal = Closed

-----------------------------------------------------------------------------
\* An answer that is not the approved server's came after it was replaced.
AnswerIsDated ==
  answer.kind = "Sample" =>
    /\ answer.payload \in Payloads
    /\ trusted => answer.payload \in GenuinePayloads

\* The agent publishes as the one boot of the one generation it opened.
OneBoot ==
  /\ lGeneration = 1
  /\ lBoot \in {NoBoot, AgentBoot}
  /\ nextSequence \in Nat \ {0}

\* What poll task, main task, publisher and streams know of each other.
AgentInv ==
  /\ StreamsFollowPublisher
  /\ OneBoot
  /\ AnswerIsDated
  /\ TrustLossCloses
  /\ OnlyGenuinePublished

=============================================================================
