--------------------------- MODULE MCPositionPath ---------------------------
(***************************************************************************)
(* The position path, one component at a time: the handoff with its state  *)
(* owner, the state owner alone, the agent's publisher, the agent process, *)
(* its start, and the network client from the publisher to the handoff.    *)
(* The agent process publishes through the publisher's variables; the      *)
(* other components share none, so no step of one changes what a property  *)
(* of another says. Every behaviour observes one of them.                  *)
(***************************************************************************)
EXTENDS PositionHandoff, LatestTelemetry, AgentProcess, AgentStartup, TLC

\* The components a run observes.
CONSTANT Parts
CONSTANTS b1, b2, b3

VARIABLE part    \* the component this behaviour observes
\* The variables of the components: one that several of them have belongs
\* to the one observed.
VARIABLES xRGeneration, xRConnected, xRBoot, xRSequence, xPosition,
    xClockValid, xHeadingAvailable, newest
VARIABLES aClosed, aGeneration, aBoot, aSequence, aRetired, aSignal, aCursor,
    aStream, aChanged, aLeft
VARIABLES sGeneration, sConnected, sGenerationHasSample, sActiveBoot,
    sRetiredBits, sLastSequence, sLastReceived, sPendingControls,
    sPendingSample, sAccepted, sMissing, sHighest, agentBoot, spentBoots,
    phase, ending, attempt, resume, clock, clockReported, wire, linked,
    cancelled

\* The third boot's bits are covered by those of the other two, so the
\* filter refuses it once both are retired.
MCBootBits == (b1 :> {1, 2}) @@ (b2 :> {2, 3}) @@ (b3 :> {1, 3})
MCPayloadAge == ("heading" :> 0) @@ ("plain" :> 1) @@ ("nonfinite" :> 0)

\* Two boots of which the second is refused once the first is retired.
TwoBootBits == ("b1" :> {1, 2}) @@ ("b2" :> {2})

MCImages == {"pal", "other"}
MCVersion == [image \in MCImages |-> IF image = "pal" THEN "v1" ELSE "v2"]
Genuine ==
  [signed |-> TRUE, canonical |-> TRUE, configured |-> TRUE, pid |-> 1,
   created |-> 1, image |-> "pal", issued |-> 0, expires |-> 1, version |-> "v1",
   fingerprint |-> <<"v1", "pal">>]
\* The profile of the first process, of a later one, and unusable ones.
MCProfiles ==
  {Genuine, [Genuine EXCEPT !.created = 2], [Genuine EXCEPT !.signed = FALSE],
   [Genuine EXCEPT !.canonical = FALSE], [Genuine EXCEPT !.configured = FALSE],
   [Genuine EXCEPT !.fingerprint = <<"v1", "other">>]}

Owner == INSTANCE StateReducer WITH
    Generations <- {0, 1, 2, 3}, HeadingPayloads <- {"heading"},
    LiveLimit <- 0, DelayedLimit <- 1, NoBoot <- "no boot",
    Boots <- {"b1", "b2"}, BootBits <- TwoBootBits,
    SequenceNumbers <- {0, 1, 2, 3}, Times <- {0, 1, 2},
    Payloads <- {"heading", "plain"}, ValidPayloads <- {"heading", "plain"},
    PayloadAge <- MCPayloadAge, rGeneration <- xRGeneration,
    rConnected <- xRConnected, rBoot <- xRBoot, rSequence <- xRSequence,
    position <- xPosition, clockValid <- xClockValid,
    headingAvailable <- xHeadingAvailable

Session == INSTANCE TelemetrySession WITH
    Generations <- {0, 1, 2, 3}, HeadingPayloads <- {}, LiveLimit <- 1,
    DelayedLimit <- 2, NoBoot <- "no boot", Boots <- {"b1", "b2"},
    BootBits <- TwoBootBits, SequenceNumbers <- {0, 1, 2}, Times <- {0},
    Payloads <- {"plain"}, ValidPayloads <- {"plain"},
    PayloadAge <- MCPayloadAge, Subscribers <- {"overlay"},
    ForeignBoots <- {}, Client <- "overlay", MaxAttempts <- 2, MaxWire <- 2,
    Capacity <- 5, generation <- sGeneration, connected <- sConnected,
    generationHasSample <- sGenerationHasSample, activeBoot <- sActiveBoot,
    retiredBits <- sRetiredBits, lastSequence <- sLastSequence,
    lastReceived <- sLastReceived, pendingControls <- sPendingControls,
    pendingSample <- sPendingSample, accepted <- sAccepted,
    missing <- sMissing, highest <- sHighest,
    lClosed <- aClosed, lGeneration <- aGeneration, lBoot <- aBoot,
    lSequence <- aSequence, lRetired <- aRetired, signal <- aSignal,
    cursor <- aCursor, stream <- aStream, changed <- aChanged, left <- aLeft

\* A component that is not observed is idle from the start.
Unused == "unused"
IdleAtFirst ==
  /\ IF part = "handoff" THEN TRUE ELSE HandoffInit
  /\ IF part = "reducer" THEN TRUE ELSE
       xRGeneration = Unused /\ xRConnected = Unused /\ xRBoot = Unused /\
       xRSequence = Unused /\ xPosition = Unused /\ xClockValid = Unused /\
       xHeadingAvailable = Unused /\ newest = Unused
  /\ IF part \in {"publisher", "agent"} THEN TRUE ELSE
       LatestInit /\ StreamInit /\ cursor = [s \in Subscribers |-> NoCursor]
  /\ IF part = "agent" THEN TRUE ELSE
       /\ binding = "ExplicitRemoteHttps" /\ trusted = TRUE /\ identityDue = FALSE
       /\ poller = "waiting" /\ answer = NoAnswer /\ nextSequence = 1
       /\ sends = 0 /\ server = "starting"
  /\ IF part = "session" THEN TRUE ELSE
       aClosed = Unused /\ aGeneration = Unused /\ aBoot = Unused /\
       aSequence = Unused /\ aRetired = Unused /\ aSignal = Unused /\
       aCursor = Unused /\ aStream = Unused /\ aChanged = Unused /\
       aLeft = Unused /\ sGeneration = Unused /\ sConnected = Unused /\
       sGenerationHasSample = Unused /\ sActiveBoot = Unused /\
       sRetiredBits = Unused /\ sLastSequence = Unused /\
       sLastReceived = Unused /\ sPendingControls = Unused /\
       sPendingSample = Unused /\ sAccepted = Unused /\ sMissing = Unused /\
       sHighest = Unused /\ agentBoot = Unused /\ spentBoots = Unused /\
       phase = Unused /\ ending = Unused /\ attempt = Unused /\
       resume = Unused /\ clock = Unused /\ clockReported = Unused /\
       wire = Unused /\ linked = Unused /\ cancelled = Unused
  /\ IF part = "startup" THEN TRUE ELSE StartupInit /\ profile = Genuine
\* The publisher alone: its next value is the one a pipeline would number.
StaysIdle ==
  /\ part' = part
  /\ IF part = "handoff" THEN TRUE ELSE UNCHANGED handoffVars
  /\ IF part = "reducer" THEN TRUE ELSE
       UNCHANGED <<xRGeneration, xRConnected, xRBoot, xRSequence, xPosition,
         xClockValid, xHeadingAvailable, newest>>
  /\ IF part \in {"publisher", "agent"} THEN TRUE ELSE UNCHANGED telemetryVars
  /\ IF part = "agent" THEN TRUE ELSE
       /\ UNCHANGED <<binding, trusted, identityDue, poller, answer, sends, server>>
       /\ nextSequence' = lSequence' + 1
  /\ IF part = "session" THEN TRUE ELSE
       UNCHANGED <<aClosed, aGeneration, aBoot, aSequence, aRetired, aSignal,
         aCursor, aStream, aChanged, aLeft, sGeneration, sConnected, sGenerationHasSample,
         sActiveBoot, sRetiredBits, sLastSequence, sLastReceived,
         sPendingControls, sPendingSample, sAccepted, sMissing, sHighest,
         agentBoot, spentBoots, phase, ending, attempt, resume, clock,
         clockReported, wire, linked, cancelled>>
  /\ IF part = "startup" THEN TRUE ELSE UNCHANGED startupVars

\* The newest position the state owner has taken over.
Accepts == xPosition' # xPosition /\ xPosition' # Owner!NoEvent
RecordNewest ==
  newest' = IF Accepts THEN <<xPosition'.generation, xPosition'.sequence>> ELSE newest

HandoffStarts == part = "handoff" /\ HandoffInit
HandoffRuns == part = "handoff" /\ HandoffNext /\ StaysIdle

ReducerStarts == part = "reducer" /\ Owner!ReducerInit /\ newest = <<0, 0>>
ReducerRuns == part = "reducer" /\ Owner!ReducerNext /\ RecordNewest /\ StaysIdle

PublisherStarts == part = "publisher" /\ TelemetryInit
PublisherRuns == part = "publisher" /\ TelemetryNext /\ StaysIdle

AgentStarts == part = "agent" /\ AgentInit
AgentRuns == part = "agent" /\ AgentNext /\ StaysIdle

SessionStarts == part = "session" /\ Session!SessionInit
SessionRuns == part = "session" /\ Session!SessionNext /\ StaysIdle

StartupStarts == part = "startup" /\ StartupInit
StartupRuns == part = "startup" /\ StartupNext /\ StaysIdle

Init ==
  /\ part \in Parts
  /\ \/ HandoffStarts
     \/ ReducerStarts
     \/ PublisherStarts
     \/ AgentStarts
     \/ SessionStarts
     \/ StartupStarts
  /\ IdleAtFirst

Next ==
  \/ HandoffRuns
  \/ ReducerRuns
  \/ PublisherRuns
  \/ AgentRuns
  \/ SessionRuns
  \/ StartupRuns

vars == <<part, handoffVars, xRGeneration, xRConnected, xRBoot, xRSequence,
    xPosition, xClockValid, xHeadingAvailable, newest, telemetryVars, aClosed,
    aGeneration, aBoot, aSequence, aRetired, aSignal, aCursor, aStream,
    aChanged, aLeft, agentVars, sGeneration, sConnected, sGenerationHasSample, sActiveBoot,
    sRetiredBits, sLastSequence, sLastReceived, sPendingControls,
    sPendingSample, sAccepted, sMissing, sHighest, agentBoot, spentBoots,
    phase, ending, attempt, resume, clock, clockReported, wire, linked,
    cancelled, startupVars>>

Spec == Init /\ [][Next]_vars

\* Each component's own scheduling, while it is the one observed: the overlay
\* loop ticks, tokio runs what is ready, timers fire, the client's thread
\* runs, and a crashed agent is started again.  No fault is ever required.
AgentRunsFairly ==
  /\ WF_processVars(part = "agent" /\ PollTick)
  /\ WF_processVars(part = "agent" /\ GameData)
  /\ WF_processVars(part = "agent" /\ Complete)
  /\ WF_processVars(part = "agent" /\ PollShutdown)
  /\ WF_processVars(part = "agent" /\ CloseOnTrustLoss)
  /\ WF_processVars(part = "agent" /\ SendOnTrustLoss)
  /\ WF_processVars(part = "agent" /\ MainTask)
  /\ \A s \in {"s1", "s2"} : WF_processVars(part = "agent" /\ Stream(s))
linkVars == Session!sessionVars
SessionFairness ==
  /\ WF_linkVars(part = "session" /\ Session!ClientStep)
  /\ SF_linkVars(part = "session" /\ Session!Receive)
  /\ WF_linkVars(part = "session" /\ Session!CancelSession)
  /\ WF_linkVars(part = "session" /\ Session!CancelOutside)
  /\ WF_linkVars(part = "session" /\ Session!AgentStart)
  /\ WF_linkVars(part = "session" /\ Session!AgentStream)
FairSpec ==
  /\ Spec
  /\ WF_handoffVars(Deliver)
  /\ \A s \in Subscribers : WF_telemetryVars(part = "publisher" /\ NextAfter(s))
  /\ AgentRunsFairly /\ SessionFairness
  /\ WF_startupVars(part = "startup" /\ RunStep)

-----------------------------------------------------------------------------
sourceVars == <<Owner!reducerVars, newest>>

\* Agent publisher, stream cursor, wire, client cursor and inbox stay in step:
\* every way out of a session ends in disconnect, a stream is resumed after
\* what the inbox has, only its filter of retired boots refuses a position,
\* and two sessions never use one generation.
SessionInStep == part = "session" => Session!SessionInStep

\* Whatever a position source repeats, reorders or makes up, the state owner's
\* snapshot does not panic and it never goes back: a position it takes over
\* is of a newer generation than all before, or has a higher sequence in it.
ReducerSurvivesAnySource ==
  /\ [](part = "reducer" => Owner!CoreStateNeverPanics)
  /\ [][part = "reducer" => Owner!ReducerAdvances]_sourceVars
  /\ [][part = "reducer" /\ Accepts =>
          \/ xPosition'.generation > newest[1]
          \/ /\ xPosition'.generation = newest[1]
             /\ xPosition'.sequence > newest[2]]_sourceVars

\* Every wait ends: a disconnect is noticed by the state owner unless a newer
\* session opens first, a stream reports the current value or a newer one, a
\* position the agent has and the client may accept reaches the inbox, through
\* any crash and reconnect, unless the client ended, and a draining agent ends
\* once no stream is open.
Waits ==
  \/ part = "handoff" /\ ~connected
  \/ part = "publisher" /\ NeedsCurrent("s1")
  \/ part = "session" /\ Session!Undelivered
  \/ part = "agent" /\ server = "draining"
Served ==
  \/ part = "handoff" /\ (connected \/ (rGeneration = generation /\ ~rConnected))
  \/ part = "publisher" /\ ~NeedsCurrent("s1")
  \/ /\ part = "session"
     /\ \/ ~Session!Undelivered
        \/ phase \in {"stopped", "failed"}
        \/ aSignal.kind = "Value" /\ Session!FilterContains(aSignal.boot)
  \/ part = "agent" /\ (Exited \/ \E s \in Subscribers : stream[s] # "ended")
WaitsEnd == Waits ~> Served

\* Who is told to stop stops: a stream learns of the close, a cancelled client
\* ends whatever it was waiting for, and an agent that lost trust in its local
\* server ends, or has at least stopped polling, without the help of a client,
\* before and after its first poll.
ToldToStop ==
  \/ part = "publisher" /\ lClosed
  \/ part = "session" /\ cancelled
  \/ part = "agent" /\ binding = "LocalProcess" /\ ~trusted
  \/ part = "startup" /\ approved /\ handle \notin alive
HasStopped ==
  \/ part = "publisher" /\ stream["s1"] = "ended"
  \/ part = "session" /\ phase \in {"stopped", "failed"}
  \/ part = "agent" /\ (Exited \/ poller = "shutdown")
  \/ part = "startup" /\ pc = "stopped"
StopTakesEffect == ToldToStop ~> HasStopped
=============================================================================
