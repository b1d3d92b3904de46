-------------------------- MODULE PositionHandoff --------------------------
(***************************************************************************)
(* Handoff and state owner together: any producer holding the sender on    *)
(* one side, the overlay loop's `while let Some(event) = source.poll()     *)
(* { reducer.apply(event) }` on the other (ActualMapPreviewRuntime::tick,  *)
(* crates/pal-overlay-win/src/actual_map_runtime.rs).                      *)
(***************************************************************************)
EXTENDS ServerAgentInbox, StateReducer

handoffVars == <<inboxVars, reducerVars>>

HandoffInit == InboxInit /\ ReducerInit

\* One turn of the loop: poll an event and apply it.
Deliver == Poll /\ ApplyPositionSource(NextEvent)

HandoffNext ==
  \/ Send /\ UNCHANGED reducerVars
  \/ Deliver

\* The overlay's loop keeps ticking; producers may stop at any time.
HandoffSpec == HandoffInit /\ [][HandoffNext]_handoffVars /\ WF_handoffVars(Deliver)

-----------------------------------------------------------------------------
\* The two sides agree on every event: the reducer applies whatever the
\* inbox hands over; none of its drop branches (old generation, invalid
\* transition, boot mismatch, duplicate, out of order) is ever taken.
NothingDroppedDownstream ==
  NextEvent # NoEvent => EventOutcome(NextEvent) = "Applied"

\* Once the consumer has drained the inbox it follows the producer's
\* session: same generation, same connection state, and a position it
\* trusts is the newest one the producer had accepted.
DrainedMeansAgreed ==
  NextEvent = NoEvent =>
    /\ rGeneration = generation
    /\ rConnected = connected
    /\ clockValid => /\ position.sequence = lastSequence
                     /\ position.boot = activeBoot

\* Handoff and state owner agree on every position: the state owner applies
\* what it is handed, it follows the producer's session once it has drained
\* the inbox, its snapshot never panics, and a retired boot stays refused,
\* whatever was dropped or superseded in between.
HandoffAgrees ==
  /\ NothingDroppedDownstream
  /\ DrainedMeansAgreed
  /\ CoreStateNeverPanics
  /\ RetiredBootsRefused

-----------------------------------------------------------------------------
\* Whether the controls q lead on from a session g that is open or not, and
\* where they lead to.
Continues(q, g, open) ==
  \A i \in 1 .. Len(q) :
    LET before == IF i = 1 THEN g ELSE q[i - 1].generation
        was == IF i = 1 THEN open ELSE q[i - 1].kind # "Disconnected"
    IN  IF q[i].kind = "Connected" THEN q[i].generation > before
                                   ELSE q[i].generation = before /\ was
LastGeneration(q, g) == IF q = <<>> THEN g ELSE q[Len(q)].generation
LastOpen(q, open) == IF q = <<>> THEN open ELSE q[Len(q)].kind # "Disconnected"

\* The queue leads the state owner from the session it follows to the one the
\* producer has reached.
QueueLeadsOn ==
  /\ rGeneration <= generation
  /\ Continues(pendingControls, rGeneration, rConnected)
  /\ LastGeneration(pendingControls, rGeneration) = generation
  /\ LastOpen(pendingControls, rConnected) <=> connected

\* In one open session the state owner is never ahead: it stands at the
\* producer's boot and behind the sample that waits, and without one, and
\* without a ClockInvalid on its way, at the newest position.
OwnerFollows ==
  /\ pendingSample.kind = "Sample" =>
       /\ generationHasSample
       /\ pendingSample.boot = activeBoot
       /\ pendingSample.sequence = lastSequence
  /\ rGeneration = generation /\ connected =>
       /\ rBoot # NoBoot => generationHasSample /\ rBoot = activeBoot /\ rSequence <= lastSequence
       /\ pendingSample.kind = "Sample" => rSequence < pendingSample.sequence
       /\ clockValid /\ pendingSample = NoEvent /\ ~HasClockInvalid(generation) =>
            position.sequence = lastSequence /\ position.boot = activeBoot

\* The inductive invariant of inbox and state owner.
HandoffInv == SessionInv /\ FieldsAgree /\ QueueLeadsOn /\ OwnerFollows
=============================================================================
