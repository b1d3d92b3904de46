-------------------------- MODULE ServerAgentInbox --------------------------
(***************************************************************************)
(* The bounded, nonblocking handoff between a position producer (the       *)
(* network client or the local memory pump) and the overlay's state        *)
(* owner: crates/pal-state/src/server_agent.rs.                            *)
(*                                                                         *)
(* Producer and consumer share one mutex-protected Inbox, so every public  *)
(* method is one atomic action.  A call that returns early without         *)
(* changing the inbox (it only bumps a saturating drop counter) is the     *)
(* action's guard being false; the operators ...Outcome give the value     *)
(* the caller sees in every case, in the order the code tests them.        *)
(*                                                                         *)
(* Coordinates, heading and age travel as an opaque payload.  The          *)
(* diagnostics kept are the two that account for sequence numbers.         *)
(***************************************************************************)
EXTENDS PositionEvents

CONSTANT Capacity  \* CONTROL_QUEUE_CAPACITY

ASSUME InboxAssumption ==
  /\ Capacity \in Nat
  /\ Capacity >= 3

VARIABLES
  generation,           \* the newest generation a producer has opened
  connected,            \* whether that generation is still open
  generationHasSample,  \* a sample of this generation has been accepted
  activeBoot,           \* the agent boot whose samples are accepted
  retiredBits,          \* RetiredBootFilter: the bits that are set
  lastSequence,         \* last accepted sequence, 0 for None
  lastReceived,         \* last accepted receive time, NoTime for None
  pendingControls,      \* ControlQueue, oldest first
  pendingSample,        \* the latest-wins slot
  accepted,             \* diagnostics.accepted_samples
  missing,              \* diagnostics.missing_sequences
  highest               \* history: highest sequence ever accepted, per boot

inboxVars == <<generation, connected, generationHasSample, activeBoot,
               retiredBits, lastSequence, lastReceived, pendingControls,
               pendingSample, accepted, missing, highest>>

-----------------------------------------------------------------------------
\* The size of a complete session: Connected, ClockInvalid, Disconnected.
SessionEvents == 3

Frames == [identityMatches : BOOLEAN, boot : Boots, generation : Generations,
           sequence : SequenceNumbers, payload : Payloads]

\* The sample a frame becomes once PositionSample::new accepted it.
SampleOf(frame, now) ==
  [kind |-> "Sample", generation |-> frame.generation, boot |-> frame.boot,
   sequence |-> frame.sequence, received |-> now, payload |-> frame.payload]

-----------------------------------------------------------------------------
(* The control queue.                                                      *)

Remaining == Capacity - Len(pendingControls)

\* ControlQueue::push: refuses the event when the ring is full.
Pushed(event) ==
  IF Len(pendingControls) = Capacity THEN pendingControls
                                     ELSE Append(pendingControls, event)

HasClockInvalid(g) ==
  \E i \in 1 .. Len(pendingControls) :
    pendingControls[i] = Control("ClockInvalid", g)

\* Mutant: queues a ClockInvalid per call.
WithClockInvalidRepeated(g) == Pushed(Control("ClockInvalid", g))

\* queue_clock_invalid: at most one queued ClockInvalid per generation.
WithClockInvalid(g) ==
  IF HasClockInvalid(g) THEN pendingControls
                        ELSE Pushed(Control("ClockInvalid", g))

ClockInvalidQueued(g) == HasClockInvalid(g) \/ Len(pendingControls) < Capacity

(* The Bloom filter of retired boots.                                      *)

FilterContains(boot) == BootBits[boot] \subseteq retiredBits

WithRetired(boot) == retiredBits \cup BootBits[boot]

-----------------------------------------------------------------------------
InboxInit ==
  /\ generation = 0
  /\ connected = FALSE
  /\ generationHasSample = FALSE
  /\ activeBoot = NoBoot
  /\ retiredBits = {}
  /\ lastSequence = 0
  /\ lastReceived = NoTime
  /\ pendingControls = <<>>
  /\ pendingSample = NoEvent
  /\ accepted = 0
  /\ missing = 0
  /\ highest = [b \in Boots |-> 0]

-----------------------------------------------------------------------------
(* connect                                                                 *)

\* Mutant: reserves room for the Connected event alone.
ConnectOutcomeUnreserved(g) ==
  IF g = 0 \/ g = generation THEN "Dropped"
  ELSE IF g < generation THEN "OldGenerationDropped"
  ELSE IF Remaining < 1 THEN "QueueFullDropped"
  ELSE "Accepted"

ConnectOutcome(g) ==
  IF g = 0 \/ g = generation THEN "Dropped"
  ELSE IF g < generation THEN "OldGenerationDropped"
  ELSE IF Remaining < SessionEvents THEN "QueueFullDropped"
  ELSE "Accepted"

\* Mutant: keeps the sample slot of the session it replaces.
ConnectKeepsSample(g) ==
  /\ ConnectOutcome(g) = "Accepted"
  /\ generation' = g
  /\ connected' = TRUE
  /\ generationHasSample' = FALSE
  /\ pendingControls' = Pushed(Control("Connected", g))
  /\ UNCHANGED <<pendingSample, activeBoot, retiredBits, lastSequence,
                 lastReceived, accepted, missing, highest>>

Connect(g) ==
  /\ ConnectOutcome(g) = "Accepted"
  /\ generation' = g
  /\ connected' = TRUE
  /\ generationHasSample' = FALSE
  /\ pendingSample' = NoEvent
  /\ pendingControls' = Pushed(Control("Connected", g))
  /\ UNCHANGED <<activeBoot, retiredBits, lastSequence, lastReceived,
                 accepted, missing, highest>>

-----------------------------------------------------------------------------
(* publish_position                                                        *)

\* The frame's boot differs from the active one.
ChangesBoot(frame) == activeBoot # NoBoot /\ activeBoot # frame.boot

\* last_sequence and last_received as the frame is compared with them: the
\* first frame of another boot retires the active boot and clears both.
PreviousSequence(frame) == IF ChangesBoot(frame) THEN 0 ELSE lastSequence

PreviousReceived(frame) == IF ChangesBoot(frame) THEN NoTime ELSE lastReceived

\* Mutant: the boot that is replaced is not remembered.
RetireActiveBootForgotten(frame) == retiredBits' = retiredBits

\* retire_active_boot
RetireActiveBoot(frame) ==
  retiredBits' = IF ChangesBoot(frame) THEN WithRetired(activeBoot)
                                       ELSE retiredBits

PublishOutcome(frame, now) ==
  IF ~frame.identityMatches THEN "IdentityMismatchDropped"
  ELSE IF frame.generation = 0 \/ frame.sequence = 0
    THEN "InvalidTransitionDropped"
  ELSE IF frame.generation < generation THEN "OldGenerationDropped"
  ELSE IF ~connected \/ frame.generation # generation THEN "Dropped"
  ELSE IF FilterContains(frame.boot) THEN "RetiredBootDropped"
  ELSE IF ChangesBoot(frame) /\ generationHasSample THEN "BootMismatchDropped"
  ELSE IF frame.sequence = PreviousSequence(frame) THEN "DuplicateDropped"
  ELSE IF frame.sequence < PreviousSequence(frame) THEN "OutOfOrderDropped"
  ELSE IF now < PreviousReceived(frame) THEN "ClockRegressionDropped"
  ELSE IF frame.payload \notin ValidPayloads THEN "PositionError"
  ELSE "Accepted"

AcceptFrame(frame, now) ==
  /\ PublishOutcome(frame, now) = "Accepted"
  /\ RetireActiveBoot(frame)
  /\ activeBoot' = frame.boot
  /\ generationHasSample' = TRUE
  /\ lastSequence' = frame.sequence
  /\ lastReceived' = now
  /\ pendingSample' = SampleOf(frame, now)
  /\ accepted' = accepted + 1
  /\ missing' = missing + (frame.sequence - PreviousSequence(frame) - 1)
  /\ highest' = [highest EXCEPT ![frame.boot] = frame.sequence]
  /\ UNCHANGED <<generation, connected, pendingControls>>

\* The receive clock went backwards.
RegressedFrame(frame, now) ==
  /\ PublishOutcome(frame, now) = "ClockRegressionDropped"
  /\ pendingSample' = NoEvent
  /\ pendingControls' = WithClockInvalid(frame.generation)
  /\ UNCHANGED <<generation, connected, generationHasSample, activeBoot,
                 retiredBits, lastSequence, lastReceived, accepted, missing,
                 highest>>

\* PositionSample::new fails after the boot switch was already recorded.
RejectedFrame(frame, now) ==
  /\ PublishOutcome(frame, now) = "PositionError"
  /\ ChangesBoot(frame)
  /\ RetireActiveBoot(frame)
  /\ activeBoot' = NoBoot
  /\ lastSequence' = 0
  /\ lastReceived' = NoTime
  /\ UNCHANGED <<generation, connected, generationHasSample, pendingControls,
                 pendingSample, accepted, missing, highest>>

\* Every other outcome drops the frame and changes nothing.
PublishPosition(frame, now) ==
  /\ PublishOutcome(frame, now) \in {"Accepted", "ClockRegressionDropped", "PositionError"}
  /\ \/ AcceptFrame(frame, now)
     \/ RegressedFrame(frame, now)
     \/ RejectedFrame(frame, now)

-----------------------------------------------------------------------------
(* unavailable, disconnect, clock_invalid                                  *)

\* Mutant: a late caller of an older generation is still served.
ControlOutcomeLate(g) == IF g = 0 \/ ~connected THEN "Dropped" ELSE "Accepted"

ControlOutcome(g) ==
  IF g < generation THEN "OldGenerationDropped"
  ELSE IF g = 0 \/ g # generation \/ ~connected THEN "Dropped"
  ELSE "Accepted"

Unavailable(g) ==
  /\ ControlOutcome(g) = "Accepted"
  /\ pendingSample' = Control("Unavailable", g)
  /\ UNCHANGED <<generation, connected, generationHasSample, activeBoot,
                 retiredBits, lastSequence, lastReceived, pendingControls,
                 accepted, missing, highest>>

\* A full queue loses the Disconnected event; the session is closed anyway.
Disconnect(g) ==
  /\ ControlOutcome(g) = "Accepted"
  /\ connected' = FALSE
  /\ generationHasSample' = FALSE
  /\ pendingSample' = NoEvent
  /\ pendingControls' = Pushed(Control("Disconnected", g))
  /\ UNCHANGED <<generation, activeBoot, retiredBits, lastSequence,
                 lastReceived, accepted, missing, highest>>

\* A full queue loses the ClockInvalid event and closes the session.
ClockInvalid(g) ==
  /\ ControlOutcome(g) = "Accepted"
  /\ pendingSample' = NoEvent
  /\ connected' = ClockInvalidQueued(g)
  /\ pendingControls' = WithClockInvalid(g)
  /\ UNCHANGED <<generation, generationHasSample, activeBoot, retiredBits,
                 lastSequence, lastReceived, accepted, missing, highest>>

-----------------------------------------------------------------------------
(* poll: control events first, then the sample slot                        *)

NextEvent ==
  IF pendingControls # <<>> THEN Head(pendingControls) ELSE pendingSample

Poll ==
  /\ NextEvent # NoEvent
  /\ IF pendingControls # <<>>
       THEN /\ pendingControls' = Tail(pendingControls)
            /\ UNCHANGED pendingSample
       ELSE /\ pendingSample' = NoEvent
            /\ UNCHANGED pendingControls
  /\ UNCHANGED <<generation, connected, generationHasSample, activeBoot,
                 retiredBits, lastSequence, lastReceived, accepted, missing,
                 highest>>

-----------------------------------------------------------------------------
\* Every call a holder of a ServerAgentSender may make.
Send ==
  \/ \E g \in Generations : Connect(g)
  \/ \E frame \in Frames, now \in Times : PublishPosition(frame, now)
  \/ \E g \in Generations : Unavailable(g)
  \/ \E g \in Generations : Disconnect(g)
  \/ \E g \in Generations : ClockInvalid(g)

InboxNext == Send \/ Poll

InboxSpec == InboxInit /\ [][InboxNext]_inboxVars

-----------------------------------------------------------------------------
(* Properties                                                              *)

\* The fields keep the types their Rust declarations give them, the queue
\* stays within its fixed ring, and no filled slot belongs to no session.
InboxTypeOK ==
  /\ generation \in Nat
  /\ connected \in BOOLEAN
  /\ generationHasSample \in BOOLEAN
  /\ activeBoot \in Boots \cup {NoBoot}
  /\ lastSequence \in Nat
  /\ lastReceived \in Times \cup {NoTime}
  /\ pendingControls \in Seq(ControlEvents)
  /\ Len(pendingControls) <= Capacity
  /\ pendingSample \in SampleEvents \cup UnavailableEvents \cup {NoEvent}
  /\ accepted \in Nat
  /\ missing \in Nat
  /\ highest \in [Boots -> Nat]

\* Only an event of the open session waits in the sample slot: once a
\* session has ended, was replaced or lost its clock, nothing it published
\* can be delivered after the control event that says so.
SampleIsCurrent ==
  pendingSample # NoEvent => connected /\ pendingSample.generation = generation

\* Events queued for the consumer never come from a generation newer than
\* the inbox has opened, and older generations are delivered first.
QueueFollowsGenerations ==
  /\ \A i \in 1 .. Len(pendingControls) :
       pendingControls[i].generation <= generation
  /\ \A i, j \in 1 .. Len(pendingControls) :
       i < j => pendingControls[i].generation <= pendingControls[j].generation

\* connect "reserved the complete lifecycle": while a session is open the
\* queue has room for the ClockInvalid and the Disconnected it may still
\* have to queue, however slowly the consumer polls.
LifecycleReserved ==
  connected => Remaining >= IF HasClockInvalid(generation) THEN 1 ELSE 2

\* What holds of an open session between any two calls: the sample is of
\* that session, the queue is in the order of the generations, and there is
\* room for the ClockInvalid and the Disconnected it may still queue.
SessionInv ==
  InboxTypeOK /\ SampleIsCurrent /\ QueueFollowsGenerations /\ LifecycleReserved

\* Closing a session is never silent: whenever an open session ends, its
\* Disconnected event is what the step appends to the queue, even when the
\* consumer has not polled since the session opened.
NoSessionEndLost ==
  [][connected /\ ~connected' =>
       pendingControls' = Append(pendingControls,
                                 Control("Disconnected", generation))]_inboxVars

\* A sample the consumer may get is newer than every sample ever accepted
\* from the same agent boot, and every number in between is counted as missing
\* once: across reconnects, and after the agent was restarted and the old
\* process speaks up again, nothing is replayed and nothing is unaccounted
\* for.
NoReplay ==
  [][accepted' > accepted =>
       LET seen == highest[pendingSample'.boot]
       IN  /\ pendingSample'.sequence > seen
           /\ (accepted' + missing') - (accepted + missing)
                = pendingSample'.sequence - seen]_inboxVars

\* The Bloom filter has no false negative: every boot that was ever accepted
\* and is no longer the active one is refused.
RetiredBootsRefused ==
  \A b \in Boots : highest[b] > 0 /\ b # activeBoot => FilterContains(b)

\* The handoff implements the unbounded, loss-free feed: a full ring, a
\* dropped event or a replayed sample never shows through.
Feed == INSTANCE ReliableFeed WITH
          session <- generation,
          open <- connected,
          controls <- pendingControls,
          slot <- pendingSample,
          seen <- highest

FeedRefinement == Feed!FeedSpec

=============================================================================
