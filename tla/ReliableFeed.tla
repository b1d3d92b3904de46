---------------------------- MODULE ReliableFeed ----------------------------
(***************************************************************************)
(* What the handoff promises to its consumer, without its bounds: sessions *)
(* are announced and closed through a queue that never loses an event, a   *)
(* one-place slot holds the newest observation of the open session, and an *)
(* observation is offered only if it is newer than all earlier ones of the *)
(* same agent boot.  ServerAgentInbox implements this with a ring of fixed *)
(* size and a Bloom filter of retired boots (see FeedRefinement there).    *)
(***************************************************************************)
EXTENDS PositionEvents

VARIABLES
  session,   \* the newest session
  open,      \* whether it is still open
  controls,  \* session events not yet taken
  slot,      \* the observation not yet taken
  seen       \* highest sequence offered so far, per boot

feedVars == <<session, open, controls, slot, seen>>

FeedInit ==
  /\ session = 0
  /\ open = FALSE
  /\ controls = <<>>
  /\ slot = NoEvent
  /\ seen = [b \in Boots |-> 0]

\* A newer session replaces the current one, closed or not.
OpenSession ==
  /\ session' \in Nat
  /\ session' > session
  /\ open' = TRUE
  /\ controls' = Append(controls, Control("Connected", session'))
  /\ slot' = NoEvent
  /\ UNCHANGED seen

Offer ==
  /\ open
  /\ slot' \in SampleEvents
  /\ slot'.generation = session
  /\ slot'.sequence > seen[slot'.boot]
  /\ seen' = [seen EXCEPT ![slot'.boot] = slot'.sequence]
  /\ UNCHANGED <<session, open, controls>>

Retract ==
  /\ open
  /\ slot' = Control("Unavailable", session)
  /\ UNCHANGED <<session, open, controls, seen>>

\* The clock of the session cannot be trusted; said at least once.
Distrust ==
  /\ open
  /\ slot' = NoEvent
  /\ \/ controls' = Append(controls, Control("ClockInvalid", session))
     \/ /\ \E i \in 1 .. Len(controls) :
             controls[i] = Control("ClockInvalid", session)
        /\ UNCHANGED controls
  /\ UNCHANGED <<session, open, seen>>

CloseSession ==
  /\ open
  /\ open' = FALSE
  /\ controls' = Append(controls, Control("Disconnected", session))
  /\ slot' = NoEvent
  /\ UNCHANGED <<session, seen>>

\* The consumer takes session events first.
Take ==
  /\ \/ /\ controls # <<>>
        /\ controls' = Tail(controls)
        /\ UNCHANGED slot
     \/ /\ controls = <<>>
        /\ slot # NoEvent
        /\ slot' = NoEvent
        /\ UNCHANGED controls
  /\ UNCHANGED <<session, open, seen>>

FeedNext ==
  OpenSession \/ Offer \/ Retract \/ Distrust \/ CloseSession \/ Take

FeedSpec == FeedInit /\ [][FeedNext]_feedVars

=============================================================================
