----------------------- MODULE PositionHandoffProofs -----------------------
(***************************************************************************)
(* Proofs about the path of a position: the handoff of ServerAgentInbox,   *)
(* the state owner and its handoff together, the publisher of the agent    *)
(* (LatestTelemetry), the agent process with its poller (AgentProcess) and *)
(* its start (AgentStartup), the client's network session                  *)
(* (TelemetrySession), and the binding to the game process a local         *)
(* position is read from (ProcessBinding).  They hold for every set of     *)
(* boots, generations, sequence numbers, payloads and processes, every     *)
(* queue capacity of at least 3 and every way of emptying the queue.       *)
(***************************************************************************)
EXTENDS PositionHandoff, AgentProcess, AgentStartup, TelemetrySession,
        ProcessBinding, SequenceTheorems, TLAPS

-----------------------------------------------------------------------------
(* What the outcome operators say when they let a call through.            *)

LEMMA AcceptedFrame ==
  ASSUME NEW frame \in Frames, NEW now \in Times, InboxTypeOK,
         PublishOutcome(frame, now) = "Accepted"
  PROVE  /\ connected
         /\ frame.generation = generation
         /\ frame.generation \in Nat \ {0}
         /\ frame.sequence \in Nat \ {0}
         /\ frame.sequence > PreviousSequence(frame)
         /\ frame.boot \in Boots
         /\ ~FilterContains(frame.boot)
         /\ frame.payload \in ValidPayloads
<1>1. /\ frame.boot \in Boots
      /\ frame.generation \in Nat
      /\ frame.sequence \in Nat
  BY EventsAssumption DEF Frames, EventsAssumption
<1>2. PreviousSequence(frame) \in Nat
  BY DEF PreviousSequence, InboxTypeOK
<1>3. /\ frame.generation # 0 /\ frame.sequence # 0
      /\ connected /\ frame.generation = generation
      /\ ~FilterContains(frame.boot)
      /\ frame.sequence # PreviousSequence(frame)
      /\ ~(frame.sequence < PreviousSequence(frame))
      /\ frame.payload \in ValidPayloads
  BY Zenon DEF PublishOutcome
<1> QED
  BY <1>1, <1>2, <1>3

LEMMA RegressedFrameFacts ==
  ASSUME NEW frame \in Frames, NEW now \in Times, InboxTypeOK,
         PublishOutcome(frame, now) = "ClockRegressionDropped"
  PROVE  /\ connected
         /\ frame.generation = generation
         /\ generation \in Nat \ {0}
  BY EventsAssumption DEF PublishOutcome, Frames, InboxTypeOK, EventsAssumption

LEMMA AcceptedControl ==
  ASSUME NEW g \in Generations, InboxTypeOK, ControlOutcome(g) = "Accepted"
  PROVE  /\ connected
         /\ g = generation
         /\ generation \in Nat \ {0}
  BY EventsAssumption DEF ControlOutcome, InboxTypeOK, EventsAssumption

LEMMA AcceptedConnect ==
  ASSUME NEW g \in Generations, InboxTypeOK, ConnectOutcome(g) = "Accepted"
  PROVE  /\ g \in Nat \ {0}
         /\ g > generation
         /\ Remaining >= 3
  BY EventsAssumption, InboxAssumption
     DEF ConnectOutcome, InboxTypeOK, Remaining, SessionEvents,
         EventsAssumption, InboxAssumption

-----------------------------------------------------------------------------
(* The control queue.                                                      *)

LEMMA PushedType ==
  ASSUME NEW e \in ControlEvents, InboxTypeOK
  PROVE  /\ Pushed(e) \in Seq(ControlEvents)
         /\ Len(Pushed(e)) <= Capacity
  BY InboxAssumption DEF Pushed, InboxTypeOK, InboxAssumption

LEMMA ControlType ==
  ASSUME NEW g \in Nat \ {0}
  PROVE  /\ Control("Connected", g) \in ControlEvents
         /\ Control("Disconnected", g) \in ControlEvents
         /\ Control("ClockInvalid", g) \in ControlEvents
         /\ Control("Unavailable", g) \in UnavailableEvents
  BY DEF Control, ControlEvents, UnavailableEvents

LEMMA WithClockInvalidType ==
  ASSUME NEW g \in Nat \ {0}, InboxTypeOK
  PROVE  /\ WithClockInvalid(g) \in Seq(ControlEvents)
         /\ Len(WithClockInvalid(g)) <= Capacity
  BY PushedType, ControlType DEF WithClockInvalid, InboxTypeOK

LEMMA TailFacts ==
  ASSUME NEW S, NEW q \in Seq(S), q # <<>>
  PROVE  /\ Tail(q) \in Seq(S)
         /\ Len(Tail(q)) = Len(q) - 1
         /\ Len(q) \in Nat \ {0}
         /\ \A i \in 1 .. Len(Tail(q)) :
              i + 1 \in 1 .. Len(q) /\ Tail(q)[i] = q[i + 1]
<1>1. Len(q) \in Nat \ {0}
  BY EmptySeq
<1>2. Tail(q) \in Seq(S) /\ Len(Tail(q)) = Len(q) - 1
  BY HeadTailProperties
<1>3. \A i \in 1 .. Len(Tail(q)) : Tail(q)[i] = q[i + 1]
  BY HeadTailProperties
<1> QED
  BY <1>1, <1>2, <1>3

-----------------------------------------------------------------------------
(* Type correctness.                                                       *)

LEMMA TypeInit == InboxInit => InboxTypeOK
<1> SUFFICES ASSUME InboxInit PROVE InboxTypeOK
  OBVIOUS
<1>1. pendingControls \in Seq(ControlEvents) /\ Len(pendingControls) <= Capacity
  BY InboxAssumption DEF InboxInit, InboxAssumption
<1>2. highest \in [Boots -> Nat]
  BY DEF InboxInit
<1> QED
  BY <1>1, <1>2 DEF InboxInit, InboxTypeOK

LEMMA TypeStep == InboxTypeOK /\ [InboxNext]_inboxVars => InboxTypeOK'
<1> SUFFICES ASSUME InboxTypeOK, [InboxNext]_inboxVars
             PROVE  InboxTypeOK'
  OBVIOUS
<1>1. ASSUME NEW g \in Generations, Connect(g) PROVE InboxTypeOK'
  <2>1. g \in Nat \ {0}
    BY <1>1, AcceptedConnect DEF Connect
  <2>2. /\ pendingControls' \in Seq(ControlEvents)
        /\ Len(pendingControls') <= Capacity
    BY <1>1, <2>1, ControlType, PushedType DEF Connect
  <2> QED
    BY <1>1, <2>1, <2>2 DEF Connect, InboxTypeOK
<1>2. ASSUME NEW frame \in Frames, NEW now \in Times, AcceptFrame(frame, now)
      PROVE  InboxTypeOK'
  <2>1. /\ frame.generation \in Nat \ {0}
        /\ frame.sequence \in Nat \ {0}
        /\ frame.sequence > PreviousSequence(frame)
        /\ frame.boot \in Boots
        /\ frame.payload \in ValidPayloads
    BY <1>2, AcceptedFrame DEF AcceptFrame
  <2>2. SampleOf(frame, now) \in SampleEvents
    BY <2>1 DEF SampleOf, SampleEvents
  <2>3. missing' \in Nat
    BY <1>2, <2>1 DEF AcceptFrame, InboxTypeOK, PreviousSequence
  <2> QED
    BY <1>2, <2>1, <2>2, <2>3 DEF AcceptFrame, InboxTypeOK
<1>3. ASSUME NEW frame \in Frames, NEW now \in Times,
             RegressedFrame(frame, now)
      PROVE  InboxTypeOK'
  <2>1. frame.generation \in Nat \ {0}
    BY <1>3, RegressedFrameFacts DEF RegressedFrame
  <2>2. /\ pendingControls' \in Seq(ControlEvents)
        /\ Len(pendingControls') <= Capacity
    BY <1>3, <2>1, WithClockInvalidType DEF RegressedFrame
  <2> QED
    BY <1>3, <2>2 DEF RegressedFrame, InboxTypeOK
<1>4. ASSUME NEW frame \in Frames, NEW now \in Times, RejectedFrame(frame, now)
      PROVE  InboxTypeOK'
  BY <1>4 DEF RejectedFrame, InboxTypeOK
<1>5. ASSUME NEW g \in Generations, Unavailable(g) PROVE InboxTypeOK'
  <2>1. Control("Unavailable", g) \in UnavailableEvents
    BY <1>5, AcceptedControl, ControlType DEF Unavailable
  <2> QED
    BY <1>5, <2>1 DEF Unavailable, InboxTypeOK
<1>6. ASSUME NEW g \in Generations, Disconnect(g) PROVE InboxTypeOK'
  <2>1. /\ pendingControls' \in Seq(ControlEvents)
        /\ Len(pendingControls') <= Capacity
    BY <1>6, AcceptedControl, ControlType, PushedType DEF Disconnect
  <2> QED
    BY <1>6, <2>1 DEF Disconnect, InboxTypeOK
<1>7. ASSUME NEW g \in Generations, ClockInvalid(g) PROVE InboxTypeOK'
  <2>1. /\ pendingControls' \in Seq(ControlEvents)
        /\ Len(pendingControls') <= Capacity
    BY <1>7, AcceptedControl, WithClockInvalidType DEF ClockInvalid
  <2>2. connected' \in BOOLEAN
    BY <1>7 DEF ClockInvalid, ClockInvalidQueued, HasClockInvalid
  <2> QED
    BY <1>7, <2>1, <2>2 DEF ClockInvalid, InboxTypeOK
<1>8. CASE Poll
  <2>1. CASE pendingControls # <<>>
    <3>1. /\ pendingControls' \in Seq(ControlEvents)
          /\ Len(pendingControls') <= Capacity
      BY <1>8, <2>1, TailFacts, InboxAssumption
         DEF Poll, InboxTypeOK, InboxAssumption
    <3> QED
      BY <1>8, <2>1, <3>1 DEF Poll, InboxTypeOK
  <2>2. CASE pendingControls = <<>>
    BY <1>8, <2>2 DEF Poll, InboxTypeOK
  <2> QED
    BY <2>1, <2>2
<1>9. CASE UNCHANGED inboxVars
  BY <1>9 DEF inboxVars, InboxTypeOK
<1> QED
  BY <1>1, <1>2, <1>3, <1>4, <1>5, <1>6, <1>7, <1>8, <1>9
     DEF InboxNext, Send, PublishPosition

\* The inbox keeps its types and its ring never overflows.
THEOREM InboxTypeCorrect == InboxSpec => []InboxTypeOK
  BY TypeInit, TypeStep, PTL DEF InboxSpec

-----------------------------------------------------------------------------
(* Order of the queue.                                                     *)

Ordered(q, g) ==
  /\ \A i \in 1 .. Len(q) : q[i].generation <= g
  /\ \A i, j \in 1 .. Len(q) : i < j => q[i].generation <= q[j].generation

LEMMA OrderedAppend ==
  ASSUME NEW q \in Seq(ControlEvents), NEW e \in ControlEvents,
         NEW g \in Nat, Ordered(q, g),
         NEW h \in Nat, h >= g, e.generation = h
  PROVE  Ordered(Append(q, e), h)
<1> DEFINE r == Append(q, e)
<1>1. /\ r \in Seq(ControlEvents)
      /\ Len(r) = Len(q) + 1
      /\ \A i \in 1 .. Len(q) : r[i] = q[i]
      /\ r[Len(q) + 1] = e
      /\ Len(q) \in Nat
  BY AppendProperties, LenProperties
<1>2. \A i \in 1 .. Len(q) : q[i].generation \in Nat
  <2>1. \A i \in 1 .. Len(q) : q[i] \in ControlEvents
    BY ElementOfSeq
  <2> QED
    BY <2>1 DEF ControlEvents
<1> HIDE DEF r
<1>3. \A i \in 1 .. Len(r) : r[i].generation <= h
  <2> TAKE i \in 1 .. Len(r)
  <2>1. CASE i = Len(q) + 1
    BY <1>1, <2>1
  <2>2. CASE i # Len(q) + 1
    <3>1. i \in 1 .. Len(q)
      BY <1>1, <2>2
    <3>2. r[i].generation <= g /\ r[i].generation \in Nat
      BY <3>1, <1>1, <1>2 DEF Ordered
    <3> QED
      BY <3>2
  <2> QED
    BY <2>1, <2>2
<1>4. ASSUME NEW i \in 1 .. Len(r), NEW j \in 1 .. Len(r), i < j
      PROVE  r[i].generation <= r[j].generation
  <2>1. i \in 1 .. Len(q)
    BY <1>1, <1>4
  <2>2. CASE j = Len(q) + 1
    <3>1. r[j].generation = h
      BY <1>1, <2>2
    <3> QED
      BY <1>3, <3>1
  <2>3. CASE j # Len(q) + 1
    <3>1. j \in 1 .. Len(q)
      BY <1>1, <2>3
    <3> QED
      BY <1>1, <1>4, <2>1, <3>1 DEF Ordered
  <2> QED
    BY <2>2, <2>3
<1> QED
  BY <1>3, <1>4 DEF Ordered, r

LEMMA OrderedTail ==
  ASSUME NEW q \in Seq(ControlEvents), q # <<>>, NEW g, Ordered(q, g)
  PROVE  Ordered(Tail(q), g)
<1> DEFINE r == Tail(q)
<1>1. /\ Len(r) = Len(q) - 1
      /\ Len(q) \in Nat
      /\ \A i \in 1 .. Len(r) : i + 1 \in 1 .. Len(q) /\ r[i] = q[i + 1]
  BY TailFacts
<1> HIDE DEF r
<1>2. \A i \in 1 .. Len(r) : r[i].generation <= g
  BY <1>1 DEF Ordered
<1>3. ASSUME NEW i \in 1 .. Len(r), NEW j \in 1 .. Len(r), i < j
      PROVE  r[i].generation <= r[j].generation
  <2>1. i + 1 < j + 1
    BY <1>1, <1>3
  <2> QED
    BY <1>1, <2>1 DEF Ordered
<1> QED
  BY <1>2, <1>3 DEF Ordered, r

LEMMA QueueOrder == QueueFollowsGenerations <=> Ordered(pendingControls, generation)
  BY DEF QueueFollowsGenerations, Ordered

-----------------------------------------------------------------------------
(* The session invariant: what is queued and what is still reserved.       *)

LEMMA QueueUntouched ==
  ASSUME SessionInv, UNCHANGED <<pendingControls, generation>>,
         connected' => connected
  PROVE  QueueFollowsGenerations' /\ LifecycleReserved'
<1>1. QueueFollowsGenerations'
  BY DEF SessionInv, QueueFollowsGenerations
<1>2. Remaining' = Remaining /\ (HasClockInvalid(generation)' <=> HasClockInvalid(generation))
  BY DEF Remaining, HasClockInvalid
<1>3. LifecycleReserved'
  BY <1>2 DEF SessionInv, LifecycleReserved
<1> QED
  BY <1>1, <1>3

LEMMA Reserve ==
  ASSUME SessionInv, connected
  PROVE  /\ Remaining \in Nat \ {0}
         /\ Len(pendingControls) < Capacity
         /\ ~HasClockInvalid(generation) => Remaining >= 2
<1>1. Len(pendingControls) \in Nat /\ Capacity \in Nat
  BY InboxAssumption, LenProperties DEF SessionInv, InboxTypeOK, InboxAssumption
<1>2. Remaining = Capacity - Len(pendingControls)
  BY DEF Remaining
<1>3. CASE HasClockInvalid(generation)
  BY <1>1, <1>2, <1>3 DEF SessionInv, LifecycleReserved
<1>4. CASE ~HasClockInvalid(generation)
  BY <1>1, <1>2, <1>4 DEF SessionInv, LifecycleReserved
<1> QED
  BY <1>3, <1>4

\* Appending an event of the (possibly new) generation keeps the order and
\* takes one place.
LEMMA QueueGrows ==
  ASSUME SessionInv, NEW e \in ControlEvents,
         pendingControls' = Append(pendingControls, e),
         generation' \in Nat, generation' >= generation,
         e.generation = generation'
  PROVE  /\ QueueFollowsGenerations'
         /\ Remaining' = Remaining - 1
         /\ e = Control("ClockInvalid", generation') => HasClockInvalid(generation)'
<1>1. pendingControls \in Seq(ControlEvents) /\ generation \in Nat
  BY DEF SessionInv, InboxTypeOK
<1>2. Ordered(pendingControls, generation)
  BY QueueOrder DEF SessionInv
<1>3. Ordered(pendingControls', generation')
  BY <1>1, <1>2, OrderedAppend
<1>4. QueueFollowsGenerations'
  BY <1>3 DEF QueueFollowsGenerations, Ordered
<1>5. /\ Len(pendingControls') = Len(pendingControls) + 1
      /\ pendingControls'[Len(pendingControls) + 1] = e
      /\ Len(pendingControls) \in Nat
  BY <1>1, AppendProperties, LenProperties
<1>6. Remaining' = Remaining - 1
  BY <1>5, InboxAssumption DEF Remaining, InboxAssumption
<1>7. ASSUME e = Control("ClockInvalid", generation')
      PROVE  HasClockInvalid(generation)'
  <2>1. Len(pendingControls) + 1 \in 1 .. Len(pendingControls')
    BY <1>5
  <2> QED
    BY <1>5, <1>7, <2>1 DEF HasClockInvalid
<1> QED
  BY <1>4, <1>6, <1>7

\* queue_clock_invalid on an open session.
LEMMA ClockInvalidStep ==
  ASSUME SessionInv, connected, generation \in Nat \ {0},
         pendingControls' = WithClockInvalid(generation), UNCHANGED generation
  PROVE  QueueFollowsGenerations' /\ LifecycleReserved'
<1>1. CASE HasClockInvalid(generation)
  BY <1>1, QueueUntouched DEF WithClockInvalid
<1>2. CASE ~HasClockInvalid(generation)
  <2> DEFINE e == Control("ClockInvalid", generation)
  <2>1. pendingControls' = Append(pendingControls, e)
    BY <1>2, Reserve DEF WithClockInvalid, Pushed
  <2>2. e \in ControlEvents /\ e.generation = generation
    BY ControlType DEF Control
  <2>3. /\ QueueFollowsGenerations'
        /\ Remaining' = Remaining - 1
        /\ HasClockInvalid(generation)'
    BY <2>1, <2>2, QueueGrows
  <2>4. Remaining \in Nat /\ Remaining >= 2
    BY <1>2, Reserve
  <2> QED
    BY <2>3, <2>4 DEF LifecycleReserved
<1> QED
  BY <1>1, <1>2

LEMMA SessionStarts == InboxInit => SessionInv
<1> SUFFICES ASSUME InboxInit PROVE SessionInv
  OBVIOUS
<1>1. InboxTypeOK
  BY TypeInit
<1>2. SampleIsCurrent /\ LifecycleReserved
  BY DEF InboxInit, SampleIsCurrent, LifecycleReserved
<1>3. QueueFollowsGenerations
  BY DEF InboxInit, QueueFollowsGenerations
<1> QED
  BY <1>1, <1>2, <1>3 DEF SessionInv

LEMMA SessionStep == SessionInv /\ [InboxNext]_inboxVars => SessionInv'
<1> SUFFICES ASSUME SessionInv, [InboxNext]_inboxVars
             PROVE  SessionInv'
  OBVIOUS
<1> USE DEF SessionInv
<1>1. InboxTypeOK'
  BY TypeStep
<1>2. ASSUME NEW g \in Generations, Connect(g) PROVE SessionInv'
  <2> DEFINE e == Control("Connected", g)
  <2>1. g \in Nat \ {0} /\ g > generation /\ Remaining >= 3
    BY <1>2, AcceptedConnect DEF Connect
  <2>2. e \in ControlEvents /\ e.generation = g
    BY <2>1, ControlType DEF Control
  <2>3. pendingControls' = Append(pendingControls, e)
    BY <1>2, <2>1, InboxAssumption
       DEF Connect, Pushed, Remaining, InboxTypeOK, InboxAssumption
  <2>4. generation' = g /\ generation \in Nat
    BY <1>2 DEF Connect, InboxTypeOK
  <2>5. QueueFollowsGenerations' /\ Remaining' = Remaining - 1
    BY <2>1, <2>2, <2>3, <2>4, QueueGrows
  <2>6. Remaining \in Int
    BY InboxAssumption, LenProperties DEF Remaining, InboxTypeOK, InboxAssumption
  <2>7. LifecycleReserved'
    BY <2>1, <2>5, <2>6 DEF LifecycleReserved
  <2>8. SampleIsCurrent'
    BY <1>2 DEF Connect, SampleIsCurrent
  <2> QED
    BY <1>1, <2>5, <2>7, <2>8
<1>3. ASSUME NEW frame \in Frames, NEW now \in Times, AcceptFrame(frame, now)
      PROVE  SessionInv'
  <2>1. connected /\ frame.generation = generation
    BY <1>3, AcceptedFrame DEF AcceptFrame
  <2>2. SampleIsCurrent'
    BY <1>3, <2>1 DEF AcceptFrame, SampleOf, SampleIsCurrent
  <2>3. QueueFollowsGenerations' /\ LifecycleReserved'
    BY <1>3, QueueUntouched DEF AcceptFrame
  <2> QED
    BY <1>1, <2>2, <2>3
<1>4. ASSUME NEW frame \in Frames, NEW now \in Times,
             RegressedFrame(frame, now)
      PROVE  SessionInv'
  <2>1. connected /\ frame.generation = generation /\ generation \in Nat \ {0}
    BY <1>4, RegressedFrameFacts DEF RegressedFrame
  <2>2. QueueFollowsGenerations' /\ LifecycleReserved'
    BY <1>4, <2>1, ClockInvalidStep DEF RegressedFrame
  <2>3. SampleIsCurrent'
    BY <1>4 DEF RegressedFrame, SampleIsCurrent
  <2> QED
    BY <1>1, <2>2, <2>3
<1>5. ASSUME NEW frame \in Frames, NEW now \in Times, RejectedFrame(frame, now)
      PROVE  SessionInv'
  <2>1. QueueFollowsGenerations' /\ LifecycleReserved'
    BY <1>5, QueueUntouched DEF RejectedFrame
  <2>2. SampleIsCurrent'
    BY <1>5 DEF RejectedFrame, SampleIsCurrent
  <2> QED
    BY <1>1, <2>1, <2>2
<1>6. ASSUME NEW g \in Generations, Unavailable(g) PROVE SessionInv'
  <2>1. connected /\ g = generation
    BY <1>6, AcceptedControl DEF Unavailable
  <2>2. QueueFollowsGenerations' /\ LifecycleReserved'
    BY <1>6, QueueUntouched DEF Unavailable
  <2>3. SampleIsCurrent'
    BY <1>6, <2>1 DEF Unavailable, SampleIsCurrent, Control
  <2> QED
    BY <1>1, <2>2, <2>3
<1>7. ASSUME NEW g \in Generations, Disconnect(g) PROVE SessionInv'
  <2> DEFINE e == Control("Disconnected", g)
  <2>1. connected /\ g = generation /\ generation \in Nat \ {0}
    BY <1>7, AcceptedControl DEF Disconnect
  <2>2. e \in ControlEvents /\ e.generation = generation
    BY <2>1, ControlType DEF Control
  <2>3. pendingControls' = Append(pendingControls, e)
    BY <1>7, <2>1, Reserve DEF Disconnect, Pushed
  <2>4. generation' = generation
    BY <1>7 DEF Disconnect
  <2>5. QueueFollowsGenerations'
    BY <2>1, <2>2, <2>3, <2>4, QueueGrows
  <2>6. SampleIsCurrent' /\ LifecycleReserved'
    BY <1>7 DEF Disconnect, SampleIsCurrent, LifecycleReserved
  <2> QED
    BY <1>1, <2>5, <2>6
<1>8. ASSUME NEW g \in Generations, ClockInvalid(g) PROVE SessionInv'
  <2>1. connected /\ g = generation /\ generation \in Nat \ {0}
    BY <1>8, AcceptedControl DEF ClockInvalid
  <2>2. QueueFollowsGenerations' /\ LifecycleReserved'
    BY <1>8, <2>1, ClockInvalidStep DEF ClockInvalid
  <2>3. SampleIsCurrent'
    BY <1>8 DEF ClockInvalid, SampleIsCurrent
  <2> QED
    BY <1>1, <2>2, <2>3
<1>9. CASE Poll
  <2>1. connected' = connected /\ generation' = generation
    BY <1>9 DEF Poll
  <2>2. SampleIsCurrent'
    BY <1>9, <2>1 DEF Poll, SampleIsCurrent
  <2>3. CASE pendingControls = <<>>
    <3>1. QueueFollowsGenerations' /\ LifecycleReserved'
      BY <1>9, <2>1, <2>3, QueueUntouched DEF Poll
    <3> QED
      BY <1>1, <2>2, <3>1
  <2>4. CASE pendingControls # <<>>
    <3>1. pendingControls' = Tail(pendingControls)
      BY <1>9, <2>4 DEF Poll
    <3>2. Ordered(pendingControls', generation')
      BY <2>1, <2>4, <3>1, QueueOrder, OrderedTail DEF InboxTypeOK
    <3>3. QueueFollowsGenerations'
      BY <3>2 DEF QueueFollowsGenerations, Ordered
    <3>4. Remaining' = Remaining + 1
      BY <2>4, <3>1, TailFacts, InboxAssumption
         DEF Remaining, InboxTypeOK, InboxAssumption
    <3>5. connected => Remaining \in Nat \ {0}
      BY Reserve
    <3>6. LifecycleReserved'
      BY <2>1, <3>4, <3>5 DEF LifecycleReserved
    <3> QED
      BY <1>1, <2>2, <3>3, <3>6
  <2> QED
    BY <2>3, <2>4
<1>10. CASE UNCHANGED inboxVars
  <2>1. QueueFollowsGenerations' /\ LifecycleReserved'
    BY <1>10, QueueUntouched DEF inboxVars
  <2>2. SampleIsCurrent'
    BY <1>10 DEF inboxVars, SampleIsCurrent
  <2> QED
    BY <1>1, <2>1, <2>2
<1> QED
  BY <1>2, <1>3, <1>4, <1>5, <1>6, <1>7, <1>8, <1>9, <1>10
     DEF InboxNext, Send, PublishPosition

\* The session invariant, inductive as it stands: types, the sample of the
\* open session, the queue's order and connect's reservation.
THEOREM SessionInvariant == InboxSpec => []SessionInv
  BY SessionStarts, SessionStep, PTL DEF InboxSpec

\* connect's reservation holds at all times: an open session always finds
\* room for the ClockInvalid and the Disconnected it may still queue.
THEOREM LifecycleAlwaysReserved == InboxSpec => []LifecycleReserved
<1>1. SessionInv => LifecycleReserved
  BY DEF SessionInv
<1> QED
  BY <1>1, SessionInvariant, PTL

\* An event in the sample slot is always one of the open session.
THEOREM SampleAlwaysCurrent == InboxSpec => []SampleIsCurrent
<1>1. SessionInv => SampleIsCurrent
  BY DEF SessionInv
<1> QED
  BY <1>1, SessionInvariant, PTL

\* Control events are delivered in the order of their generations.
THEOREM QueueAlwaysOrdered == InboxSpec => []QueueFollowsGenerations
<1>1. SessionInv => QueueFollowsGenerations
  BY DEF SessionInv
<1> QED
  BY <1>1, SessionInvariant, PTL

\* Which step can close a session, and that it then queues the Disconnected.
LEMMA ClosingStep ==
  ASSUME SessionInv, [InboxNext]_inboxVars, connected, ~connected'
  PROVE  pendingControls' = Append(pendingControls,
                                   Control("Disconnected", generation))
<1>1. ASSUME NEW g \in Generations, Disconnect(g)
      PROVE  pendingControls' = Append(pendingControls,
                                       Control("Disconnected", generation))
  <2>1. g = generation
    BY <1>1, AcceptedControl DEF Disconnect, SessionInv
  <2> QED
    BY <1>1, <2>1, Reserve DEF Disconnect, Pushed
<1>2. ASSUME NEW g \in Generations, ClockInvalid(g) PROVE FALSE
  <2>1. Len(pendingControls) < Capacity
    BY Reserve
  <2> QED
    BY <1>2, <2>1 DEF ClockInvalid, ClockInvalidQueued
<1>3. ASSUME NEW g \in Generations, Connect(g) PROVE FALSE
  BY <1>3 DEF Connect
<1>4. ASSUME NEW g \in Generations, Unavailable(g) PROVE FALSE
  BY <1>4 DEF Unavailable
<1>5. ASSUME NEW frame \in Frames, NEW now \in Times,
             PublishPosition(frame, now)
      PROVE  FALSE
  BY <1>5 DEF PublishPosition, AcceptFrame, RegressedFrame, RejectedFrame
<1>6. CASE Poll
  BY <1>6 DEF Poll
<1>7. CASE UNCHANGED inboxVars
  BY <1>7 DEF inboxVars
<1> QED
  BY <1>1, <1>2, <1>3, <1>4, <1>5, <1>6, <1>7 DEF InboxNext, Send

\* No session ends without its Disconnected event, whatever the capacity of
\* the ring and however far the consumer lags behind.
THEOREM SessionEndNeverLost == InboxSpec => NoSessionEndLost
<1>1. SessionInv /\ [InboxNext]_inboxVars =>
        [connected /\ ~connected' =>
           pendingControls' = Append(pendingControls,
                                     Control("Disconnected", generation))]_inboxVars
  BY ClosingStep
<1> QED
  BY <1>1, SessionInvariant, PTL DEF InboxSpec, NoSessionEndLost

-----------------------------------------------------------------------------
(* Agent boots: nothing is replayed.                                       *)

\* The active boot's highest sequence is the last one accepted.
ActiveBootTracked ==
  /\ activeBoot = NoBoot => lastSequence = 0
  /\ activeBoot # NoBoot => highest[activeBoot] = lastSequence

BootInv == InboxTypeOK /\ RetiredBootsRefused /\ ActiveBootTracked

LEMMA BootInit == InboxInit => BootInv
<1> SUFFICES ASSUME InboxInit PROVE BootInv
  OBVIOUS
<1>1. InboxTypeOK
  BY TypeInit
<1>2. RetiredBootsRefused /\ ActiveBootTracked
  BY DEF InboxInit, RetiredBootsRefused, ActiveBootTracked
<1> QED
  BY <1>1, <1>2 DEF BootInv

\* A boot the filter lets through has had nothing accepted, unless it is the
\* active one: the frame is compared with the highest sequence of its boot.
LEMMA AdmittedBoot ==
  ASSUME BootInv, NEW frame \in Frames, NEW now \in Times,
         PublishOutcome(frame, now) = "Accepted"
  PROVE  /\ frame.sequence > highest[frame.boot]
         /\ PreviousSequence(frame) = highest[frame.boot]
<1> USE DEF BootInv
<1>1. /\ frame.boot \in Boots
      /\ frame.sequence \in Nat \ {0}
      /\ frame.sequence > PreviousSequence(frame)
      /\ ~FilterContains(frame.boot)
      /\ highest[frame.boot] \in Nat
  BY AcceptedFrame DEF InboxTypeOK
<1>2. CASE frame.boot = activeBoot
  <2>1. activeBoot # NoBoot
    BY <1>1, <1>2, EventsAssumption DEF EventsAssumption
  <2>2. PreviousSequence(frame) = lastSequence
    BY <1>2 DEF PreviousSequence, ChangesBoot
  <2> QED
    BY <1>1, <1>2, <2>1, <2>2 DEF ActiveBootTracked
<1>3. CASE frame.boot # activeBoot
  <2>1. highest[frame.boot] = 0
    BY <1>1, <1>3 DEF RetiredBootsRefused
  <2>2. PreviousSequence(frame) = 0
    BY <1>3 DEF PreviousSequence, ChangesBoot, ActiveBootTracked
  <2> QED
    BY <1>1, <2>1, <2>2
<1> QED
  BY <1>2, <1>3

\* retire_active_boot keeps every filtered boot and adds the active one.
LEMMA RetiredStep ==
  ASSUME NEW frame, RetireActiveBoot(frame)
  PROVE  /\ \A b \in Boots : FilterContains(b) => FilterContains(b)'
         /\ ChangesBoot(frame) => BootBits[activeBoot] \subseteq retiredBits'
<1>1. CASE ChangesBoot(frame)
  BY <1>1 DEF RetireActiveBoot, WithRetired, FilterContains
<1>2. CASE ~ChangesBoot(frame)
  BY <1>2 DEF RetireActiveBoot, FilterContains
<1> QED
  BY <1>1, <1>2

LEMMA BootStep == BootInv /\ [InboxNext]_inboxVars => BootInv'
<1> SUFFICES ASSUME BootInv, [InboxNext]_inboxVars
             PROVE  BootInv'
  OBVIOUS
<1> USE DEF BootInv
<1>1. InboxTypeOK'
  BY TypeStep
<1>2. ASSUME NEW frame \in Frames, NEW now \in Times, AcceptFrame(frame, now)
      PROVE  BootInv'
  <2>1. frame.boot \in Boots /\ frame.boot # NoBoot
    BY <1>2, AcceptedFrame, EventsAssumption DEF AcceptFrame, EventsAssumption
  <2>2. /\ activeBoot' = frame.boot
        /\ lastSequence' = frame.sequence
        /\ highest' = [highest EXCEPT ![frame.boot] = frame.sequence]
        /\ RetireActiveBoot(frame)
    BY <1>2 DEF AcceptFrame
  <2>3. highest'[frame.boot] = frame.sequence
    BY <2>1, <2>2 DEF InboxTypeOK
  <2>4. ActiveBootTracked'
    BY <2>1, <2>2, <2>3 DEF ActiveBootTracked
  <2>5. ASSUME NEW b \in Boots, highest'[b] > 0, b # activeBoot'
        PROVE  FilterContains(b)'
    <3>1. highest[b] > 0
      BY <2>1, <2>2, <2>5 DEF InboxTypeOK
    <3>2. CASE b = activeBoot
      <4>1. ChangesBoot(frame)
        BY <2>2, <2>5, <3>2, EventsAssumption DEF ChangesBoot, EventsAssumption
      <4> QED
        BY <2>2, <3>2, <4>1, RetiredStep DEF FilterContains
    <3>3. CASE b # activeBoot
      BY <2>2, <3>1, <3>3, RetiredStep DEF RetiredBootsRefused
    <3> QED
      BY <3>2, <3>3
  <2>6. RetiredBootsRefused'
    BY <2>5 DEF RetiredBootsRefused, FilterContains
  <2> QED
    BY <1>1, <2>4, <2>6
<1>3. ASSUME NEW frame \in Frames, NEW now \in Times, RejectedFrame(frame, now)
      PROVE  BootInv'
  <2>1. /\ activeBoot' = NoBoot /\ lastSequence' = 0 /\ highest' = highest
        /\ ChangesBoot(frame) /\ RetireActiveBoot(frame)
    BY <1>3 DEF RejectedFrame
  <2>2. ASSUME NEW b \in Boots, highest[b] > 0
        PROVE  FilterContains(b)'
    <3>1. CASE b = activeBoot
      BY <2>1, <3>1, RetiredStep DEF FilterContains
    <3>2. CASE b # activeBoot
      BY <2>1, <2>2, <3>2, RetiredStep DEF RetiredBootsRefused
    <3> QED
      BY <3>1, <3>2
  <2>3. RetiredBootsRefused' /\ ActiveBootTracked'
    BY <2>1, <2>2 DEF RetiredBootsRefused, ActiveBootTracked, FilterContains
  <2> QED
    BY <1>1, <2>3
<1>4. ASSUME UNCHANGED <<activeBoot, lastSequence, highest, retiredBits>>
      PROVE  BootInv'
  BY <1>1, <1>4 DEF RetiredBootsRefused, ActiveBootTracked, FilterContains
<1>5. ASSUME NEW g \in Generations,
             Connect(g) \/ Unavailable(g) \/ Disconnect(g) \/ ClockInvalid(g)
      PROVE  BootInv'
  BY <1>4, <1>5 DEF Connect, Unavailable, Disconnect, ClockInvalid
<1>6. ASSUME NEW frame \in Frames, NEW now \in Times,
             RegressedFrame(frame, now)
      PROVE  BootInv'
  BY <1>4, <1>6 DEF RegressedFrame
<1>7. CASE Poll \/ UNCHANGED inboxVars
  BY <1>4, <1>7 DEF Poll, inboxVars
<1> QED
  BY <1>2, <1>3, <1>5, <1>6, <1>7 DEF InboxNext, Send, PublishPosition

LEMMA BootInvariant == InboxSpec => []BootInv
  BY BootInit, BootStep, PTL DEF InboxSpec

\* The Bloom filter never forgets a boot that was accepted and replaced.
THEOREM RetiredBootsAlwaysRefused == InboxSpec => []RetiredBootsRefused
<1>1. BootInv => RetiredBootsRefused
  BY DEF BootInv
<1> QED
  BY <1>1, BootInvariant, PTL

\* Only AcceptFrame counts a sample; the sample is a new one, and it accounts
\* for every number since the last one of its boot.
LEMMA AcceptingStep ==
  ASSUME BootInv, [InboxNext]_inboxVars, accepted' > accepted
  PROVE  LET seen == highest[pendingSample'.boot]
         IN  /\ pendingSample'.sequence > seen
             /\ (accepted' + missing') - (accepted + missing)
                  = pendingSample'.sequence - seen
<1> DEFINE seen == highest[pendingSample'.boot]
<1>1. ASSUME NEW frame \in Frames, NEW now \in Times, AcceptFrame(frame, now)
      PROVE  /\ pendingSample'.sequence > seen
             /\ (accepted' + missing') - (accepted + missing)
                  = pendingSample'.sequence - seen
  <2>1. /\ frame.sequence > highest[frame.boot]
        /\ PreviousSequence(frame) = highest[frame.boot]
    BY <1>1, AdmittedBoot DEF AcceptFrame
  <2>2. /\ pendingSample'.sequence = frame.sequence
        /\ pendingSample'.boot = frame.boot
    BY <1>1 DEF AcceptFrame, SampleOf
  <2>3. /\ frame.sequence \in Nat
        /\ highest[frame.boot] \in Nat
        /\ accepted \in Nat /\ missing \in Nat
    BY <1>1, AcceptedFrame DEF AcceptFrame, BootInv, InboxTypeOK
  <2>4. /\ accepted' = accepted + 1
        /\ missing' = missing + (frame.sequence - highest[frame.boot] - 1)
    BY <1>1, <2>1 DEF AcceptFrame
  <2> QED
    BY <2>1, <2>2, <2>3, <2>4
<1>2. accepted' # accepted
  BY DEF BootInv, InboxTypeOK
<1>3. ASSUME NEW g \in Generations,
             Connect(g) \/ Unavailable(g) \/ Disconnect(g) \/ ClockInvalid(g)
      PROVE  FALSE
  BY <1>2, <1>3 DEF Connect, Unavailable, Disconnect, ClockInvalid
<1>4. ASSUME NEW frame \in Frames, NEW now \in Times,
             RegressedFrame(frame, now) \/ RejectedFrame(frame, now)
      PROVE  FALSE
  BY <1>2, <1>4 DEF RegressedFrame, RejectedFrame
<1>5. CASE Poll \/ UNCHANGED inboxVars
  BY <1>2, <1>5 DEF Poll, inboxVars
<1> QED
  BY <1>1, <1>3, <1>4, <1>5 DEF InboxNext, Send, PublishPosition

\* Across reconnects and agent restarts no sample is accepted twice, and the
\* counters account for every sequence number of a boot.
THEOREM NeverReplayed == InboxSpec => NoReplay
<1>1. BootInv /\ [InboxNext]_inboxVars =>
        [accepted' > accepted =>
           LET seen == highest[pendingSample'.boot]
           IN  /\ pendingSample'.sequence > seen
               /\ (accepted' + missing') - (accepted + missing)
                    = pendingSample'.sequence - seen]_inboxVars
  BY AcceptingStep
<1> QED
  BY <1>1, BootInvariant, PTL DEF InboxSpec, NoReplay

-----------------------------------------------------------------------------
(* The handoff implements the unbounded feed.                              *)

LEMMA FeedInitial == InboxInit => Feed!FeedInit
  BY DEF InboxInit, Feed!FeedInit, NoEvent, Feed!NoEvent

\* queue_clock_invalid on an open session is the feed's Distrust.
LEMMA DistrustStep ==
  ASSUME SessionInv, connected, UNCHANGED <<generation, connected, highest>>,
         pendingControls' = WithClockInvalid(generation),
         pendingSample' = NoEvent
  PROVE  Feed!Distrust
<1>1. CASE HasClockInvalid(generation)
  BY <1>1 DEF WithClockInvalid, HasClockInvalid, Feed!Distrust, Control,
              Feed!Control, NoEvent, Feed!NoEvent
<1>2. CASE ~HasClockInvalid(generation)
  <2>1. pendingControls' = Append(pendingControls,
                                  Control("ClockInvalid", generation))
    BY <1>2, Reserve DEF WithClockInvalid, Pushed
  <2> QED
    BY <2>1 DEF Feed!Distrust, Control, Feed!Control, NoEvent, Feed!NoEvent
<1> QED
  BY <1>1, <1>2

LEMMA FeedStep ==
  SessionInv /\ BootInv /\ [InboxNext]_inboxVars => [Feed!FeedNext]_Feed!feedVars
<1> SUFFICES ASSUME SessionInv, BootInv, [InboxNext]_inboxVars
             PROVE  Feed!FeedNext \/ UNCHANGED Feed!feedVars
  BY DEF Feed!feedVars
<1>0. InboxTypeOK
  BY DEF SessionInv
<1> USE DEF NoEvent, Feed!NoEvent, Control, Feed!Control
<1>1. ASSUME NEW g \in Generations, Connect(g) PROVE Feed!OpenSession
  <2>1. g \in Nat /\ g > generation /\ Remaining >= 3
    BY <1>0, <1>1, AcceptedConnect DEF Connect
  <2>2. pendingControls' = Append(pendingControls, Control("Connected", g))
    BY <1>0, <1>1, <2>1, InboxAssumption
       DEF Connect, Pushed, Remaining, InboxTypeOK, InboxAssumption
  <2> QED
    BY <1>1, <2>1, <2>2 DEF Connect, Feed!OpenSession
<1>2. ASSUME NEW frame \in Frames, NEW now \in Times, AcceptFrame(frame, now)
      PROVE  Feed!Offer
  <2>1. /\ connected
        /\ frame.generation = generation
        /\ frame.generation \in Nat \ {0}
        /\ frame.sequence \in Nat \ {0}
        /\ frame.boot \in Boots
        /\ frame.payload \in ValidPayloads
    BY <1>0, <1>2, AcceptedFrame DEF AcceptFrame
  <2>2. frame.sequence > highest[frame.boot]
    BY <1>2, AdmittedBoot DEF AcceptFrame
  <2>3. SampleOf(frame, now) \in Feed!SampleEvents
    BY <2>1 DEF SampleOf, Feed!SampleEvents
  <2> QED
    BY <1>2, <2>1, <2>2, <2>3 DEF AcceptFrame, SampleOf, Feed!Offer
<1>3. ASSUME NEW frame \in Frames, NEW now \in Times,
             RegressedFrame(frame, now)
      PROVE  Feed!Distrust
  <2>1. connected /\ frame.generation = generation
    BY <1>0, <1>3, RegressedFrameFacts DEF RegressedFrame
  <2> QED
    BY <1>3, <2>1, DistrustStep DEF RegressedFrame
<1>4. ASSUME NEW frame \in Frames, NEW now \in Times, RejectedFrame(frame, now)
      PROVE  UNCHANGED Feed!feedVars
  BY <1>4 DEF RejectedFrame, Feed!feedVars
<1>5. ASSUME NEW g \in Generations, Unavailable(g) PROVE Feed!Retract
  <2>1. connected /\ g = generation
    BY <1>0, <1>5, AcceptedControl DEF Unavailable
  <2> QED
    BY <1>5, <2>1 DEF Unavailable, Feed!Retract
<1>6. ASSUME NEW g \in Generations, Disconnect(g) PROVE Feed!CloseSession
  <2>1. connected /\ g = generation
    BY <1>0, <1>6, AcceptedControl DEF Disconnect
  <2>2. pendingControls' = Append(pendingControls,
                                  Control("Disconnected", generation))
    BY <1>6, <2>1, Reserve DEF Disconnect, Pushed
  <2> QED
    BY <1>6, <2>1, <2>2 DEF Disconnect, Feed!CloseSession
<1>7. ASSUME NEW g \in Generations, ClockInvalid(g) PROVE Feed!Distrust
  <2>1. connected /\ g = generation
    BY <1>0, <1>7, AcceptedControl DEF ClockInvalid
  <2>2. connected' = connected
    BY <1>0, <1>7, <2>1, Reserve, TypeStep
       DEF ClockInvalid, ClockInvalidQueued, InboxTypeOK
  <2> QED
    BY <1>7, <2>1, <2>2, DistrustStep DEF ClockInvalid
<1>8. CASE Poll
  <2>1. CASE pendingControls # <<>>
    BY <1>8, <2>1 DEF Poll, Feed!Take, Feed!FeedNext
  <2>2. CASE pendingControls = <<>>
    BY <1>8, <2>2 DEF Poll, NextEvent, Feed!Take, Feed!FeedNext
  <2> QED
    BY <2>1, <2>2
<1>9. CASE UNCHANGED inboxVars
  BY <1>9 DEF inboxVars, Feed!feedVars
<1> QED
  BY <1>1, <1>2, <1>3, <1>4, <1>5, <1>6, <1>7, <1>8, <1>9
     DEF InboxNext, Send, PublishPosition, Feed!FeedNext

\* The bounded handoff implements the loss-free feed, for every capacity of at
\* least 3 and whatever the bits of the Bloom filter are.
THEOREM ImplementsFeed == InboxSpec => FeedRefinement
  BY FeedInitial, FeedStep, SessionInvariant, BootInvariant, PTL
     DEF InboxSpec, FeedRefinement, Feed!FeedSpec

-----------------------------------------------------------------------------
(* The state owner by itself, whatever a position source hands over.       *)

SourceEvents ==
  [kind : {"Connected", "Disconnected", "ClockInvalid", "Unavailable"},
   generation : Nat]
  \cup [kind : {"Sample"}, generation : Nat, boot : Boots, sequence : Nat,
        received : Times, payload : ValidPayloads]

LEMMA FieldsInit == ReducerInit => FieldsAgree
<1> SUFFICES ASSUME ReducerInit PROVE FieldsAgree
  OBVIOUS
<1>1. ReducerTypeOK
  BY DEF ReducerInit, ReducerTypeOK
<1> QED
  BY <1>1 DEF ReducerInit, FieldsAgree

\* A sample that is applied has a generation and a sequence.
LEMMA AppliedSample ==
  ASSUME FieldsAgree, NEW event \in SourceEvents, event.kind = "Sample",
         EventOutcome(event) = "Applied"
  PROVE  /\ event \in SampleEvents
         /\ event.boot # NoBoot
         /\ event # NoEvent
         /\ rConnected
<1>1. SampleOutcome(event) = "Applied"
  BY DEF EventOutcome
<1>2. event.sequence # 0 /\ SessionOutcome(event.generation) = "Applied"
  BY <1>1 DEF SampleOutcome
<1>3. event.generation # 0 /\ rConnected
  BY <1>2 DEF SessionOutcome
<1>4. event \in [kind : {"Sample"}, generation : Nat, boot : Boots,
                 sequence : Nat, received : Times, payload : ValidPayloads]
  BY DEF SourceEvents
<1>5. event \in SampleEvents
  BY <1>2, <1>3, <1>4 DEF SampleEvents
<1>6. event.boot # NoBoot
  BY <1>4, EventsAssumption DEF EventsAssumption
<1> QED
  BY <1>3, <1>5, <1>6 DEF NoEvent

LEMMA FieldsStep ==
  ASSUME FieldsAgree, NEW event \in SourceEvents, ApplyPositionSource(event)
  PROVE  FieldsAgree'
<1> USE DEF FieldsAgree, ReducerTypeOK
<1>0. event.generation \in Nat
  BY DEF SourceEvents
<1>1. ASSUME ApplyConnected(event) PROVE FieldsAgree'
  BY <1>0, <1>1 DEF ApplyConnected
<1>2. ASSUME EventOutcome(event) = "Applied", ApplySample(event)
      PROVE  FieldsAgree'
  <2>1. /\ event \in SampleEvents
        /\ event.boot # NoBoot
        /\ event # NoEvent
        /\ rConnected
    BY <1>2, AppliedSample DEF ApplySample
  <2>2. event.boot \in Boots /\ event.sequence \in Nat
    BY <2>1 DEF SampleEvents
  <2>3. headingAvailable' = (event.payload \in HeadingPayloads)
    BY <1>2 DEF ApplySample
  <2>4. /\ headingAvailable' \in BOOLEAN
        /\ headingAvailable' => event.payload \in HeadingPayloads
    <3>1. CASE event.payload \in HeadingPayloads
      BY <2>3, <3>1
    <3>2. CASE event.payload \notin HeadingPayloads
      <4>1. (event.payload \in HeadingPayloads) = FALSE
        BY <3>2
      <4>2. headingAvailable' = FALSE
        BY <2>3, <4>1, Zenon
      <4> QED
        BY <4>2
    <3> QED
      BY <3>1, <3>2
  <2>5. /\ rBoot' = event.boot
        /\ rSequence' = event.sequence
        /\ position' = event
        /\ clockValid' = TRUE
        /\ UNCHANGED <<rGeneration, rConnected>>
    BY <1>2 DEF ApplySample
  <2>6. ReducerTypeOK'
    BY <2>1, <2>2, <2>4, <2>5
  <2> QED
    BY <2>1, <2>4, <2>5, <2>6
<1>3. ASSUME ApplyUnavailable(event) PROVE FieldsAgree'
  BY <1>3 DEF ApplyUnavailable
<1>4. ASSUME ApplyDisconnected(event) PROVE FieldsAgree'
  BY <1>4 DEF ApplyDisconnected
<1>5. ASSUME ApplyClockInvalid(event) PROVE FieldsAgree'
  BY <1>5 DEF ApplyClockInvalid
<1>6. CASE UNCHANGED reducerVars
  BY <1>6 DEF reducerVars
<1> QED
  BY <1>1, <1>2, <1>3, <1>4, <1>5, <1>6 DEF ApplyPositionSource

\* The freshness classes in use.
LEMMA FreshnessClasses ==
  ASSUME FieldsAgree, NEW now \in Times
  PROVE  /\ Freshness(now) = "Offline" <=> ~rConnected
         /\ Freshness(now) \in {"Live", "Delayed"} => HasTrustedPosition
<1>1. ClassifyFreshness(AgeUpperBound(position, now)) # "Offline"
  BY DEF ClassifyFreshness
<1> QED
  BY <1>1 DEF Freshness, HasTrustedPosition, FieldsAgree, ReducerTypeOK

LEMMA FieldsSuffice == FieldsAgree => CoreStateNeverPanics
<1> SUFFICES ASSUME FieldsAgree, NEW now \in Times
             PROVE  CoreStateAccepted(now)
  BY DEF CoreStateNeverPanics
<1> DEFINE fresh == Freshness(now) \in {"Live", "Delayed"}
<1>1. rConnected # (Freshness(now) = "Offline")
  BY FreshnessClasses DEF FieldsAgree, ReducerTypeOK
<1>2. fresh => rConnected /\ clockValid /\ position # NoEvent
  BY FreshnessClasses DEF HasTrustedPosition
<1>3. InterpolatePosition(now) = (rConnected /\ position # NoEvent /\ fresh)
  BY <1>2, Zenon DEF InterpolatePosition, HasTrustedPosition
<1>4. headingAvailable => position # NoEvent /\ position.payload \in HeadingPayloads
  BY DEF FieldsAgree
<1> QED
  BY <1>1, <1>2, <1>3, <1>4, Zenon DEF CoreStateAccepted

\* Whatever a position source hands over, malformed events and events in any
\* order included, the expect in core_state is never reached with a state the
\* domain rules refuse.
THEOREM ReducerNeverPanics == ReducerSpec => []CoreStateNeverPanics
<1>1. ReducerInputs \subseteq SourceEvents
  BY EventsAssumption DEF ReducerInputs, SourceEvents, EventsAssumption
<1>2. FieldsAgree /\ [ReducerNext]_reducerVars => FieldsAgree'
  <2> SUFFICES ASSUME FieldsAgree, [ReducerNext]_reducerVars
               PROVE  FieldsAgree'
    OBVIOUS
  <2>1. CASE ReducerNext
    BY <1>1, <2>1, FieldsStep DEF ReducerNext
  <2>2. CASE UNCHANGED reducerVars
    BY <2>2 DEF reducerVars, FieldsAgree, ReducerTypeOK
  <2> QED
    BY <2>1, <2>2
<1> QED
  BY <1>2, FieldsInit, FieldsSuffice, PTL DEF ReducerSpec

\* Whatever a position source repeats, reorders or makes up, the state owner
\* does not go back: apply_position_source takes a position over only when it
\* is beyond what its session has reached, and generation and sequence grow.
THEOREM ReducerNeverGoesBack == ReducerSpec => [][ReducerAdvances]_reducerVars
<1>1. ReducerInputs \subseteq SourceEvents
  BY EventsAssumption DEF ReducerInputs, SourceEvents, EventsAssumption
<1>2. FieldsAgree /\ [ReducerNext]_reducerVars => FieldsAgree'
  <2>1. ASSUME FieldsAgree, ReducerNext PROVE FieldsAgree'
    BY <1>1, <2>1, FieldsStep DEF ReducerNext
  <2>2. ASSUME FieldsAgree, UNCHANGED reducerVars PROVE FieldsAgree'
    BY <2>2 DEF reducerVars, FieldsAgree, ReducerTypeOK
  <2> QED
    BY <2>1, <2>2
<1>3. ASSUME FieldsAgree, ReducerNext PROVE ReducerAdvances \/ UNCHANGED reducerVars
  <2>1. PICK event \in ReducerInputs : ApplyPositionSource(event)
    BY <1>3 DEF ReducerNext
  <2>2. rGeneration \in Nat /\ rSequence \in Nat /\ rConnected \in BOOLEAN
    BY <1>3 DEF FieldsAgree, ReducerTypeOK
  <2>3. CASE EventOutcome(event) = "Applied" /\ ApplyConnected(event)
    <3>1. event \in SourceEvents /\ event.kind = "Connected"
      BY <1>1, <2>1, <2>3 DEF ApplyConnected
    <3>2. event.generation > rGeneration
      BY <2>2, <2>3, <3>1 DEF EventOutcome, ConnectedOutcome, SourceEvents
    <3> QED
      BY <2>2, <2>3, <3>2 DEF ApplyConnected, ReducerAdvances
  <2>4. CASE EventOutcome(event) = "Applied" /\ ApplySample(event)
    <3>0. event \in SampleEvents
      BY <1>1, <1>3, <2>1, <2>4, AppliedSample DEF ApplySample
    <3>1. event.sequence \in Nat /\ event.generation \in Nat
      BY <3>0 DEF SampleEvents
    <3>2. /\ rConnected /\ event.generation = rGeneration
          /\ event.sequence > rSequence
      BY <2>2, <2>4, <3>1 DEF ApplySample, EventOutcome, SampleOutcome, SessionOutcome
    <3> QED
      BY <2>2, <2>4, <3>1, <3>2 DEF ApplySample, ReducerAdvances
  <2>5. CASE ApplyUnavailable(event)
    BY <2>2, <2>5 DEF ApplyUnavailable, ReducerAdvances
  <2>6. CASE ApplyDisconnected(event)
    BY <2>2, <2>6 DEF ApplyDisconnected, ReducerAdvances
  <2>7. CASE ApplyClockInvalid(event)
    BY <2>2, <2>7 DEF ApplyClockInvalid, ReducerAdvances
  <2> QED
    BY <2>1, <2>3, <2>4, <2>5, <2>6, <2>7 DEF ApplyPositionSource
<1> QED
  BY <1>2, <1>3, FieldsInit, PTL DEF ReducerSpec

-----------------------------------------------------------------------------
(* The queue as a path of sessions.                                        *)

\* Where an event may follow in a path that has led to session g.
Follows(e, g, open) ==
  IF e.kind = "Connected" THEN e.generation > g ELSE e.generation = g /\ open

LEMMA ContinuesAppend ==
  ASSUME NEW q \in Seq(ControlEvents), NEW e \in ControlEvents,
         NEW g, NEW open, Continues(q, g, open),
         Follows(e, LastGeneration(q, g), LastOpen(q, open))
  PROVE  /\ Continues(Append(q, e), g, open)
         /\ LastGeneration(Append(q, e), g) = e.generation
         /\ LastOpen(Append(q, e), open) <=> e.kind # "Disconnected"
<1> DEFINE r == Append(q, e)
<1>1. /\ r \in Seq(ControlEvents)
      /\ Len(r) = Len(q) + 1
      /\ \A i \in 1 .. Len(q) : r[i] = q[i]
      /\ r[Len(q) + 1] = e
      /\ Len(q) \in Nat
      /\ r # <<>>
      /\ q = <<>> <=> Len(q) = 0
  BY AppendProperties, LenProperties, EmptySeq
<1> HIDE DEF r
<1>2. ASSUME NEW i \in 1 .. Len(r)
      PROVE  Follows(r[i], IF i = 1 THEN g ELSE r[i - 1].generation,
                           IF i = 1 THEN open ELSE r[i - 1].kind # "Disconnected")
  <2>1. CASE i = Len(q) + 1 /\ Len(q) = 0
    BY <1>1, <2>1 DEF Follows, LastGeneration, LastOpen
  <2>2. CASE i = Len(q) + 1 /\ Len(q) # 0
    <3>1. i # 1 /\ i - 1 = Len(q) /\ i - 1 \in 1 .. Len(q) /\ q # <<>>
      BY <1>1, <2>2
    <3>2. r[i - 1] = q[Len(q)] /\ r[i] = e
      BY <1>1, <2>2, <3>1
    <3> QED
      BY <3>1, <3>2 DEF Follows, LastGeneration, LastOpen
  <2>3. CASE i # Len(q) + 1
    <3>1. i \in 1 .. Len(q) /\ (i # 1 => i - 1 \in 1 .. Len(q))
      BY <1>1, <2>3
    <3>2. r[i] = q[i] /\ (i # 1 => r[i - 1] = q[i - 1])
      BY <1>1, <3>1
    <3> QED
      BY <3>1, <3>2 DEF Follows, Continues
  <2> QED
    BY <2>1, <2>2, <2>3
<1>3. Continues(r, g, open)
  BY <1>2 DEF Continues, Follows
<1>4. r[Len(r)] = e
  BY <1>1
<1> QED
  BY <1>1, <1>3, <1>4 DEF LastGeneration, LastOpen, r

LEMMA ContinuesTail ==
  ASSUME NEW q \in Seq(ControlEvents), q # <<>>, NEW g, NEW open,
         Continues(q, g, open)
  PROVE  /\ Head(q) \in ControlEvents
         /\ Follows(Head(q), g, open)
         /\ Continues(Tail(q), Head(q).generation, Head(q).kind # "Disconnected")
         /\ LastGeneration(Tail(q), Head(q).generation) = LastGeneration(q, g)
         /\ LastOpen(Tail(q), Head(q).kind # "Disconnected") <=> LastOpen(q, open)
<1> DEFINE r == Tail(q)
<1>1. /\ Len(r) = Len(q) - 1
      /\ Len(q) \in Nat \ {0}
      /\ \A i \in 1 .. Len(r) : i + 1 \in 1 .. Len(q) /\ r[i] = q[i + 1]
      /\ r = <<>> <=> Len(r) = 0
  BY TailFacts, EmptySeq
<1>2. Head(q) = q[1] /\ Head(q) \in ControlEvents
  BY HeadTailProperties
<1>3. Follows(Head(q), g, open)
  <2>1. 1 \in 1 .. Len(q)
    BY <1>1
  <2> QED
    BY <1>2, <2>1 DEF Continues, Follows
<1> HIDE DEF r
<1>4. ASSUME NEW i \in 1 .. Len(r)
      PROVE  Follows(r[i], IF i = 1 THEN q[1].generation ELSE r[i - 1].generation,
                           IF i = 1 THEN q[1].kind # "Disconnected"
                                    ELSE r[i - 1].kind # "Disconnected")
  <2>1. i + 1 \in 1 .. Len(q) /\ r[i] = q[i + 1] /\ i + 1 # 1 /\ (i + 1) - 1 = i
    BY <1>1
  <2>2. Follows(q[i + 1], q[i].generation, q[i].kind # "Disconnected")
    BY <2>1 DEF Continues, Follows
  <2>3. CASE i = 1
    BY <2>1, <2>2, <2>3
  <2>4. CASE i # 1
    <3>1. i - 1 \in 1 .. Len(r) /\ (i - 1) + 1 = i
      BY <1>1, <2>4
    <3>2. r[i - 1] = q[i]
      BY <1>1, <3>1
    <3> QED
      BY <2>1, <2>2, <2>4, <3>2
  <2> QED
    BY <2>3, <2>4
<1>5. Continues(r, q[1].generation, q[1].kind # "Disconnected")
  BY <1>4 DEF Continues, Follows
<1>6. CASE r = <<>>
  BY <1>1, <1>2, <1>3, <1>5, <1>6 DEF LastGeneration, LastOpen, r
<1>7. CASE r # <<>>
  <2>1. r[Len(r)] = q[Len(q)]
    BY <1>1, <1>7
  <2> QED
    BY <1>2, <1>3, <1>5, <1>7, <2>1 DEF LastGeneration, LastOpen, r
<1> QED
  BY <1>6, <1>7

-----------------------------------------------------------------------------
(* Every event the inbox hands over is one the state owner applies.        *)

LEMMA HandoffInitial == HandoffInit => HandoffInv
<1> SUFFICES ASSUME HandoffInit PROVE HandoffInv
  OBVIOUS
<1>1. SessionInv /\ FieldsAgree
  BY SessionStarts, FieldsInit DEF HandoffInit
<1>2. QueueLeadsOn
  BY DEF HandoffInit, InboxInit, ReducerInit, QueueLeadsOn, Continues,
         LastGeneration, LastOpen
<1>3. OwnerFollows
  BY DEF HandoffInit, InboxInit, ReducerInit, OwnerFollows, NoEvent
<1> QED
  BY <1>1, <1>2, <1>3 DEF HandoffInv

\* The head of the queue.
LEMMA HeadApplied ==
  ASSUME HandoffInv, pendingControls # <<>>
  PROVE  /\ NextEvent = Head(pendingControls)
         /\ NextEvent \in ControlEvents
         /\ Follows(NextEvent, rGeneration, rConnected)
         /\ EventOutcome(NextEvent) = "Applied"
<1> DEFINE e == NextEvent
<1>1. e = Head(pendingControls)
  BY DEF NextEvent
<1>2. e \in ControlEvents /\ Follows(e, rGeneration, rConnected)
  BY <1>1, ContinuesTail DEF HandoffInv, QueueLeadsOn, SessionInv, InboxTypeOK
<1>3. /\ e.generation \in Nat \ {0}
      /\ e.kind \in {"Connected", "Disconnected", "ClockInvalid"}
      /\ rGeneration \in Nat
  BY <1>2 DEF ControlEvents, HandoffInv, FieldsAgree, ReducerTypeOK
<1> HIDE DEF e
<1>4. EventOutcome(e) = "Applied"
  BY <1>2, <1>3
     DEF Follows, EventOutcome, ConnectedOutcome, DisconnectedOutcome, SessionOutcome
<1> QED
  BY <1>1, <1>2, <1>4 DEF e

\* The sample slot behind an empty queue.
LEMMA SlotApplied ==
  ASSUME HandoffInv, pendingControls = <<>>, NextEvent # NoEvent
  PROVE  /\ NextEvent = pendingSample
         /\ pendingSample \in SampleEvents \cup UnavailableEvents
         /\ rGeneration = generation /\ rConnected /\ connected
         /\ EventOutcome(NextEvent) = "Applied"
<1> USE DEF HandoffInv
<1>1. NextEvent = pendingSample
  BY DEF NextEvent
<1>2. pendingSample \in SampleEvents \cup UnavailableEvents
  BY <1>1 DEF SessionInv, InboxTypeOK
<1>3. connected /\ pendingSample.generation = generation
  BY <1>1 DEF SessionInv, SampleIsCurrent
<1>4. rGeneration = generation /\ rConnected
  BY <1>3 DEF QueueLeadsOn, LastGeneration, LastOpen
<1>5. pendingSample.generation \in Nat \ {0}
  BY <1>2 DEF SampleEvents, UnavailableEvents
<1>6. SessionOutcome(pendingSample.generation) = "Applied"
  BY <1>3, <1>4, <1>5 DEF SessionOutcome
<1>7. CASE pendingSample \in UnavailableEvents
  BY <1>1, <1>2, <1>3, <1>4, <1>6, <1>7 DEF EventOutcome, UnavailableEvents
<1>8. CASE pendingSample \in SampleEvents
  <2>1. pendingSample.kind = "Sample" /\ pendingSample.sequence \in Nat \ {0}
    BY <1>8 DEF SampleEvents
  <2>2. /\ rBoot # NoBoot => rBoot = pendingSample.boot
        /\ rSequence < pendingSample.sequence
    BY <1>3, <1>4, <2>1 DEF OwnerFollows
  <2>3. rSequence \in Nat
    BY DEF FieldsAgree, ReducerTypeOK
  <2>4. SampleOutcome(pendingSample) = "Applied"
    BY <1>6, <2>1, <2>2, <2>3 DEF SampleOutcome
  <2> QED
    BY <1>1, <1>2, <1>3, <1>4, <2>1, <2>4 DEF EventOutcome
<1> QED
  BY <1>2, <1>7, <1>8

LEMMA NextEventApplied ==
  ASSUME HandoffInv, NextEvent # NoEvent
  PROVE  EventOutcome(NextEvent) = "Applied" /\ NextEvent \in SourceEvents
<1>1. CASE pendingControls # <<>>
  BY <1>1, HeadApplied DEF ControlEvents, SourceEvents
<1>2. CASE pendingControls = <<>>
  BY <1>2, SlotApplied DEF SampleEvents, UnavailableEvents, SourceEvents
<1> QED
  BY <1>1, <1>2

-----------------------------------------------------------------------------
(* The steps of the producer.                                              *)

\* The state owner's half does not move.
LEMMA ProducerQueue ==
  ASSUME HandoffInv, UNCHANGED reducerVars, NEW e \in ControlEvents,
         pendingControls' = Append(pendingControls, e),
         Follows(e, generation, connected),
         generation' = e.generation, connected' <=> e.kind # "Disconnected"
  PROVE  QueueLeadsOn'
<1> USE DEF HandoffInv
<1>1. /\ pendingControls \in Seq(ControlEvents)
      /\ Continues(pendingControls, rGeneration, rConnected)
      /\ Follows(e, LastGeneration(pendingControls, rGeneration),
                    LastOpen(pendingControls, rConnected))
  BY DEF QueueLeadsOn, SessionInv, InboxTypeOK, Follows
<1>2. /\ Continues(pendingControls', rGeneration, rConnected)
      /\ LastGeneration(pendingControls', rGeneration) = e.generation
      /\ LastOpen(pendingControls', rConnected) <=> e.kind # "Disconnected"
  BY <1>1, ContinuesAppend
<1>3. rGeneration <= e.generation
  BY DEF QueueLeadsOn, Follows, SessionInv, InboxTypeOK, FieldsAgree,
         ReducerTypeOK, ControlEvents
<1> QED
  BY <1>2, <1>3 DEF QueueLeadsOn, reducerVars

LEMMA QueueStands ==
  ASSUME HandoffInv, UNCHANGED reducerVars,
         UNCHANGED <<pendingControls, generation, connected>>
  PROVE  QueueLeadsOn'
  BY DEF HandoffInv, QueueLeadsOn, reducerVars

\* queue_clock_invalid on an open session.
LEMMA ClockInvalidLeadsOn ==
  ASSUME HandoffInv, UNCHANGED reducerVars, connected, connected',
         generation \in Nat \ {0}, UNCHANGED generation,
         pendingControls' = WithClockInvalid(generation)
  PROVE  QueueLeadsOn' /\ HasClockInvalid(generation)'
<1>1. CASE HasClockInvalid(generation)
  <2>1. UNCHANGED pendingControls
    BY <1>1 DEF WithClockInvalid
  <2>2. HasClockInvalid(generation)'
    BY <1>1, <2>1 DEF HasClockInvalid
  <2>3. QueueLeadsOn'
    BY <2>1 DEF HandoffInv, QueueLeadsOn, reducerVars
  <2> QED
    BY <2>2, <2>3
<1>2. CASE ~HasClockInvalid(generation)
  <2> DEFINE e == Control("ClockInvalid", generation)
  <2>1. pendingControls' = Append(pendingControls, e)
    BY <1>2, Reserve DEF WithClockInvalid, Pushed, HandoffInv
  <2>2. e \in ControlEvents /\ e.generation = generation /\ e.kind = "ClockInvalid"
    BY ControlType DEF Control
  <2>3. QueueLeadsOn'
    BY <2>1, <2>2, ProducerQueue DEF Follows
  <2>4. HasClockInvalid(generation)'
    BY <2>1, <2>2, QueueGrows DEF HandoffInv, SessionInv, InboxTypeOK
  <2> QED
    BY <2>3, <2>4
<1> QED
  BY <1>1, <1>2

LEMMA InboxMoves == [HandoffNext]_handoffVars => [InboxNext]_inboxVars
  BY DEF HandoffNext, Deliver, InboxNext, handoffVars

LEMMA ProducerStep ==
  ASSUME HandoffInv, SessionInv', Send, UNCHANGED reducerVars
  PROVE  HandoffInv'
<1> USE DEF HandoffInv
<1>0. InboxTypeOK /\ FieldsAgree
  BY DEF SessionInv
<1>1. FieldsAgree'
  BY <1>0 DEF FieldsAgree, ReducerTypeOK, reducerVars
<1>2. /\ rGeneration \in Nat /\ generation \in Nat /\ rGeneration <= generation
      /\ lastSequence \in Nat /\ rSequence \in Nat
      /\ UNCHANGED <<rGeneration, rConnected, rBoot, rSequence, position, clockValid>>
  BY <1>0 DEF InboxTypeOK, FieldsAgree, ReducerTypeOK, QueueLeadsOn, reducerVars
<1>3. ASSUME NEW g \in Generations, Connect(g) PROVE HandoffInv'
  <2> DEFINE e == Control("Connected", g)
  <2>1. g \in Nat \ {0} /\ g > generation /\ Remaining >= 3
    BY <1>0, <1>3, AcceptedConnect DEF Connect
  <2>2. pendingControls' = Append(pendingControls, e)
    BY <1>0, <1>3, <2>1, InboxAssumption
       DEF Connect, Pushed, Remaining, InboxTypeOK, InboxAssumption
  <2>3. e \in ControlEvents /\ e.generation = g /\ e.kind = "Connected"
    BY <2>1, ControlType DEF Control
  <2>4. generation' = g /\ connected' /\ pendingSample' = NoEvent
    BY <1>3 DEF Connect
  <2>5. QueueLeadsOn'
    BY <2>1, <2>2, <2>3, <2>4, ProducerQueue DEF Follows
  <2>6. rGeneration' # generation'
    BY <1>2, <2>1, <2>4
  <2>7. OwnerFollows'
    BY <2>4, <2>6 DEF OwnerFollows, NoEvent
  <2> QED
    BY <1>1, <2>5, <2>7
<1>4. ASSUME NEW frame \in Frames, NEW now \in Times, AcceptFrame(frame, now)
      PROVE  HandoffInv'
  <2>1. /\ connected
        /\ frame.generation = generation
        /\ frame.sequence \in Nat \ {0}
        /\ frame.sequence > PreviousSequence(frame)
    BY <1>0, <1>4, AcceptedFrame DEF AcceptFrame
  <2>2. ~(ChangesBoot(frame) /\ generationHasSample)
    BY <1>4, Zenon DEF AcceptFrame, PublishOutcome
  <2>3. /\ generationHasSample'
        /\ activeBoot' = frame.boot
        /\ lastSequence' = frame.sequence
        /\ pendingSample'.kind = "Sample"
        /\ pendingSample'.boot = frame.boot
        /\ pendingSample'.sequence = frame.sequence
        /\ UNCHANGED <<generation, connected, pendingControls>>
    BY <1>4 DEF AcceptFrame, SampleOf
  <2>4. pendingSample' # NoEvent
    BY <2>3 DEF NoEvent
  <2>5. ASSUME rGeneration = generation, rBoot # NoBoot
        PROVE  rBoot = frame.boot /\ rSequence < frame.sequence
    <3>1. generationHasSample /\ rBoot = activeBoot /\ rSequence <= lastSequence
      BY <2>1, <2>5 DEF OwnerFollows
    <3>2. activeBoot = frame.boot /\ PreviousSequence(frame) = lastSequence
      BY <2>2, <2>5, <3>1 DEF ChangesBoot, PreviousSequence
    <3> QED
      BY <1>2, <2>1, <3>1, <3>2
  <2>6. ASSUME rGeneration = generation, rBoot = NoBoot
        PROVE  rSequence < frame.sequence
    BY <1>0, <2>1, <2>6 DEF FieldsAgree
  <2>7. OwnerFollows'
    BY <1>2, <2>1, <2>3, <2>4, <2>5, <2>6 DEF OwnerFollows
  <2>8. QueueLeadsOn'
    BY <2>3, QueueStands
  <2> QED
    BY <1>1, <2>7, <2>8
<1>5. ASSUME connected, connected', generation \in Nat \ {0}, pendingSample' = NoEvent,
             pendingControls' = WithClockInvalid(generation),
             UNCHANGED <<generation, generationHasSample, activeBoot, lastSequence>>
      PROVE  HandoffInv'
  <2>1. QueueLeadsOn' /\ HasClockInvalid(generation)'
    BY <1>5, ClockInvalidLeadsOn
  <2>2. OwnerFollows'
    BY <1>2, <1>5, <2>1 DEF OwnerFollows, NoEvent
  <2> QED
    BY <1>1, <2>1, <2>2
<1>6. ASSUME NEW frame \in Frames, NEW now \in Times, RegressedFrame(frame, now)
      PROVE  HandoffInv'
  <2>1. connected /\ frame.generation = generation /\ generation \in Nat \ {0}
    BY <1>0, <1>6, RegressedFrameFacts DEF RegressedFrame
  <2> QED
    BY <1>5, <1>6, <2>1 DEF RegressedFrame
<1>7. ASSUME NEW frame \in Frames, NEW now \in Times, RejectedFrame(frame, now)
      PROVE  HandoffInv'
  <2>1. ~generationHasSample
    BY <1>7, Zenon DEF RejectedFrame, PublishOutcome
  <2>2. /\ activeBoot' = NoBoot
        /\ UNCHANGED <<generation, connected, generationHasSample, pendingControls,
                       pendingSample>>
    BY <1>7 DEF RejectedFrame
  <2>3. pendingSample.kind # "Sample"
    BY <2>1 DEF OwnerFollows
  <2>4. rGeneration = generation /\ connected => rBoot = NoBoot /\ ~clockValid
    BY <1>0, <2>1 DEF OwnerFollows, FieldsAgree
  <2>5. OwnerFollows'
    BY <1>2, <2>2, <2>3, <2>4 DEF OwnerFollows
  <2>6. QueueLeadsOn'
    BY <2>2, QueueStands
  <2> QED
    BY <1>1, <2>5, <2>6
<1>8. ASSUME NEW g \in Generations, Unavailable(g) PROVE HandoffInv'
  <2>1. /\ pendingSample'.kind = "Unavailable"
        /\ UNCHANGED <<generation, connected, generationHasSample, activeBoot,
                       lastSequence, pendingControls>>
    BY <1>8 DEF Unavailable, Control
  <2>2. pendingSample' # NoEvent
    BY <2>1 DEF NoEvent
  <2>3. OwnerFollows'
    BY <1>2, <2>1, <2>2 DEF OwnerFollows
  <2>4. QueueLeadsOn'
    BY <2>1, QueueStands
  <2> QED
    BY <1>1, <2>3, <2>4
<1>9. ASSUME NEW g \in Generations, Disconnect(g) PROVE HandoffInv'
  <2> DEFINE e == Control("Disconnected", generation)
  <2>1. connected /\ g = generation /\ generation \in Nat \ {0}
    BY <1>0, <1>9, AcceptedControl DEF Disconnect
  <2>2. pendingControls' = Append(pendingControls, e)
    BY <1>9, <2>1, Reserve DEF Disconnect, Pushed
  <2>3. e \in ControlEvents /\ e.generation = generation /\ e.kind = "Disconnected"
    BY <2>1, ControlType DEF Control
  <2>4. ~connected' /\ pendingSample' = NoEvent /\ generation' = generation
    BY <1>9 DEF Disconnect
  <2>5. QueueLeadsOn'
    BY <2>1, <2>2, <2>3, <2>4, ProducerQueue DEF Follows
  <2>6. OwnerFollows'
    BY <2>4 DEF OwnerFollows, NoEvent
  <2> QED
    BY <1>1, <2>5, <2>6
<1>10. ASSUME NEW g \in Generations, ClockInvalid(g) PROVE HandoffInv'
  <2>1. connected /\ g = generation /\ generation \in Nat \ {0}
    BY <1>0, <1>10, AcceptedControl DEF ClockInvalid
  <2>2. connected'
    BY <1>10, <2>1, Reserve DEF ClockInvalid, ClockInvalidQueued
  <2> QED
    BY <1>5, <1>10, <2>1, <2>2 DEF ClockInvalid
<1> QED
  BY <1>3, <1>4, <1>6, <1>7, <1>8, <1>9, <1>10 DEF Send, PublishPosition

-----------------------------------------------------------------------------
(* A turn of the overlay's loop.                                           *)

\* The state owner applies the head of the queue.
LEMMA ControlDelivered ==
  ASSUME HandoffInv, Deliver, pendingControls # <<>>
  PROVE  QueueLeadsOn' /\ OwnerFollows'
<1> USE DEF HandoffInv
<1> DEFINE e == NextEvent
<1>1. /\ e = Head(pendingControls)
      /\ e \in ControlEvents
      /\ Follows(e, rGeneration, rConnected)
      /\ EventOutcome(e) = "Applied"
  BY HeadApplied
<1>2. /\ pendingControls' = Tail(pendingControls)
      /\ UNCHANGED <<generation, connected, generationHasSample, activeBoot,
                     lastSequence, pendingSample>>
  BY DEF Deliver, Poll
<1>3. /\ Continues(Tail(pendingControls), e.generation, e.kind # "Disconnected")
      /\ LastGeneration(Tail(pendingControls), e.generation) = generation
      /\ LastOpen(Tail(pendingControls), e.kind # "Disconnected") <=> connected
  BY <1>1, ContinuesTail DEF QueueLeadsOn, SessionInv, InboxTypeOK
<1>4. e.generation <= generation
  <2>1. 1 \in 1 .. Len(pendingControls) /\ Head(pendingControls) = pendingControls[1]
    BY TailFacts, HeadTailProperties DEF SessionInv, InboxTypeOK
  <2> QED
    BY <1>1, <2>1 DEF SessionInv, QueueFollowsGenerations
<1>5. /\ rGeneration' = e.generation
      /\ rConnected' = (e.kind # "Disconnected")
      /\ clockValid' = FALSE
      /\ e.kind = "Connected" => rBoot' = NoBoot /\ rSequence' = 0
      /\ e.kind # "Connected" =>
           UNCHANGED <<rGeneration, rBoot, rSequence, position>>
  <2>1. \/ ApplyConnected(e) \/ ApplyDisconnected(e) \/ ApplyClockInvalid(e)
        \/ ApplySample(e) \/ ApplyUnavailable(e)
    BY <1>1 DEF Deliver, ApplyPositionSource
  <2>2. e.kind \in {"Connected", "Disconnected", "ClockInvalid"}
    BY <1>1 DEF ControlEvents
  <2>3. CASE ApplyConnected(e)
    BY <2>3 DEF ApplyConnected
  <2>4. CASE ApplyDisconnected(e)
    BY <1>1, <2>4 DEF ApplyDisconnected, Follows
  <2>5. CASE ApplyClockInvalid(e)
    <3>1. rConnected = TRUE
      BY <1>1, <2>5 DEF ApplyClockInvalid, Follows, FieldsAgree, ReducerTypeOK
    <3> QED
      BY <1>1, <2>5, <3>1 DEF ApplyClockInvalid, Follows
  <2> QED
    BY <2>1, <2>2, <2>3, <2>4, <2>5 DEF ApplySample, ApplyUnavailable
<1> HIDE DEF e
<1>6. QueueLeadsOn'
  BY <1>2, <1>3, <1>4, <1>5 DEF QueueLeadsOn
<1>7. OwnerFollows'
  <2>1. pendingSample.kind = "Sample" => pendingSample.sequence > 0
    BY DEF SessionInv, InboxTypeOK, SampleEvents, UnavailableEvents, NoEvent
  <2>2. CASE e.kind = "Connected"
    BY <1>2, <1>5, <2>1, <2>2 DEF OwnerFollows
  <2>3. CASE e.kind # "Connected"
    BY <1>2, <1>5, <2>3 DEF OwnerFollows
  <2> QED
    BY <2>2, <2>3
<1> QED
  BY <1>6, <1>7

\* The state owner applies the sample slot.
LEMMA SlotDelivered ==
  ASSUME HandoffInv, Deliver, pendingControls = <<>>
  PROVE  QueueLeadsOn' /\ OwnerFollows'
<1> USE DEF HandoffInv
<1>1. /\ NextEvent = pendingSample
      /\ pendingSample \in SampleEvents \cup UnavailableEvents
      /\ rGeneration = generation /\ rConnected /\ connected
      /\ EventOutcome(pendingSample) = "Applied"
  BY SlotApplied DEF Deliver, Poll
<1>2. /\ pendingSample' = NoEvent
      /\ UNCHANGED <<generation, connected, generationHasSample, activeBoot,
                     lastSequence, pendingControls>>
  BY DEF Deliver, Poll
<1>3. ApplySample(pendingSample) \/ ApplyUnavailable(pendingSample)
  BY <1>1 DEF Deliver, ApplyPositionSource, ApplyConnected, ApplyDisconnected,
              ApplyClockInvalid, SampleEvents, UnavailableEvents
<1>4. UNCHANGED <<rGeneration, rConnected>>
  BY <1>3 DEF ApplySample, ApplyUnavailable
<1>5. QueueLeadsOn'
  BY <1>2, <1>4 DEF QueueLeadsOn
<1>6. CASE ApplySample(pendingSample)
  <2>1. /\ generationHasSample
        /\ pendingSample.boot = activeBoot
        /\ pendingSample.sequence = lastSequence
    BY <1>6 DEF ApplySample, OwnerFollows
  <2>2. lastSequence \in Nat
    BY DEF SessionInv, InboxTypeOK
  <2>3. OwnerFollows'
    BY <1>2, <1>6, <2>1, <2>2 DEF ApplySample, OwnerFollows, NoEvent
  <2> QED
    BY <1>5, <2>3
<1>7. CASE ApplyUnavailable(pendingSample)
  <2>1. OwnerFollows'
    BY <1>2, <1>7 DEF ApplyUnavailable, OwnerFollows, NoEvent
  <2> QED
    BY <1>5, <2>1
<1> QED
  BY <1>3, <1>6, <1>7

LEMMA HandoffStep == HandoffInv /\ [HandoffNext]_handoffVars => HandoffInv'
<1> SUFFICES ASSUME HandoffInv, [HandoffNext]_handoffVars PROVE HandoffInv'
  OBVIOUS
<1>1. SessionInv'
  BY SessionStep, InboxMoves DEF HandoffInv
<1>2. CASE Send /\ UNCHANGED reducerVars
  BY <1>1, <1>2, ProducerStep
<1>3. CASE Deliver
  <2>1. NextEvent # NoEvent /\ ApplyPositionSource(NextEvent)
    BY <1>3 DEF Deliver, Poll
  <2>2. FieldsAgree'
    BY <2>1, NextEventApplied, FieldsStep DEF HandoffInv
  <2>3. QueueLeadsOn' /\ OwnerFollows'
    BY <1>3, ControlDelivered, SlotDelivered
  <2> QED
    BY <1>1, <2>2, <2>3 DEF HandoffInv
<1>4. CASE UNCHANGED handoffVars
  <2>1. UNCHANGED inboxVars /\ UNCHANGED reducerVars
    BY <1>4 DEF handoffVars
  <2>2. FieldsAgree' /\ QueueLeadsOn'
    BY <2>1 DEF HandoffInv, FieldsAgree, ReducerTypeOK, QueueLeadsOn, inboxVars,
                reducerVars
  <2>3. OwnerFollows'
    BY <2>1 DEF HandoffInv, OwnerFollows, HasClockInvalid, inboxVars, reducerVars
  <2> QED
    BY <1>1, <2>2, <2>3 DEF HandoffInv
<1> QED
  BY <1>2, <1>3, <1>4 DEF HandoffNext

\* The queue always leads the state owner from the session it follows to the
\* producer's, and the state owner is never ahead of the sample that waits.
THEOREM HandoffInvariant == HandoffSpec => []HandoffInv
  BY HandoffInitial, HandoffStep, PTL DEF HandoffSpec

LEMMA DrainedAgrees == HandoffInv => DrainedMeansAgreed
<1> SUFFICES ASSUME HandoffInv, NextEvent = NoEvent
             PROVE  /\ rGeneration = generation
                    /\ rConnected = connected
                    /\ clockValid => /\ position.sequence = lastSequence
                                     /\ position.boot = activeBoot
  BY DEF DrainedMeansAgreed
<1> USE DEF HandoffInv
<1>1. pendingControls = <<>>
  <2>1. NoEvent \notin ControlEvents
    BY DEF NoEvent, ControlEvents
  <2> QED
    BY <2>1, HeadApplied
<1>2. pendingSample = NoEvent
  BY <1>1 DEF NextEvent
<1>3. rGeneration = generation /\ rConnected = connected
  BY <1>1 DEF QueueLeadsOn, LastGeneration, LastOpen, FieldsAgree, ReducerTypeOK,
              SessionInv, InboxTypeOK
<1>4. ~HasClockInvalid(generation)
  BY <1>1 DEF HasClockInvalid
<1>5. clockValid => connected
  BY <1>3 DEF FieldsAgree
<1> QED
  BY <1>2, <1>3, <1>4, <1>5 DEF OwnerFollows

\* Handoff and state owner agree, however far the overlay's loop lags behind
\* the producer: nothing handed over is dropped, a drained inbox means the
\* same session and the newest position, core_state never panics, and a
\* retired boot stays refused.
THEOREM HandoffAlwaysAgrees == HandoffSpec => []HandoffAgrees
<1>1. HandoffInit => HandoffInv /\ BootInv
  BY HandoffInitial, BootInit DEF HandoffInit
<1>2. HandoffInv /\ BootInv /\ [HandoffNext]_handoffVars => HandoffInv' /\ BootInv'
  BY HandoffStep, BootStep, InboxMoves
<1>3. HandoffInv /\ BootInv => HandoffAgrees
  <2> SUFFICES ASSUME HandoffInv, BootInv PROVE HandoffAgrees
    OBVIOUS
  <2>1. NothingDroppedDownstream
    BY NextEventApplied DEF NothingDroppedDownstream
  <2>2. DrainedMeansAgreed
    BY DrainedAgrees
  <2>3. CoreStateNeverPanics
    BY FieldsSuffice DEF HandoffInv
  <2>4. RetiredBootsRefused
    BY DEF BootInv
  <2> QED
    BY <2>1, <2>2, <2>3, <2>4 DEF HandoffAgrees
<1> QED
  BY <1>1, <1>2, <1>3, PTL DEF HandoffSpec

-----------------------------------------------------------------------------
(* Proofs about the publisher and its streams, LatestTelemetry, for every  *)
(* set of subscribers, boots, generations, sequence numbers and payloads.  *)

USE DEF Empty, Closed, NoCursor

\* The publisher starts with an empty channel, the streams with what their
\* clients remember of earlier agents.
LEMMA TelemetryStarts == TelemetryInit => StreamsFollowPublisher
<1> SUFFICES ASSUME TelemetryInit PROVE StreamsFollowPublisher
  OBVIOUS
<1> USE DEF TelemetryInit, LatestInit, StreamInit
<1>1. ForeignCursors \subseteq [boot : Boots, sequence : Nat \ {0}] \cup {NoCursor}
  BY EventsAssumption, ForeignAssumption DEF ForeignCursors, EventsAssumption, ForeignAssumption
<1>2. TelemetryTypeOK
  <2>1. cursor \in [Subscribers -> [boot : Boots, sequence : Nat \ {0}] \cup {NoCursor}]
    BY <1>1
  <2> QED
    BY <2>1 DEF TelemetryTypeOK
<1>3. \A s \in Subscribers :
        /\ cursor[s] # NoCursor => cursor[s].boot = lBoot \/ Gone(cursor[s].boot)
        /\ \A b \in left[s] : Gone(b)
  BY DEF ForeignCursors, Gone
<1>4. NoLostWakeup
  BY DEF NoLostWakeup
<1> QED
  BY <1>2, <1>3, <1>4 DEF StreamsFollowPublisher

\* connect and publish as connect replaces the channel's value and wakes all.
LEMMA ConnectKeeps ==
  ASSUME StreamsFollowPublisher, NEW g \in Generations, LatestConnect(g)
  PROVE  StreamsFollowPublisher'
<1> USE DEF StreamsFollowPublisher, LatestConnect, SendReplace
<1>1. TelemetryTypeOK'
  BY EventsAssumption DEF TelemetryTypeOK, EventsAssumption
<1>2. \A b : Gone(b) \/ (b = lBoot /\ b # NoBoot) => Gone(b)'
  BY DEF Gone, Retired
<1>3. \A s \in Subscribers :
        /\ cursor[s] # NoCursor => Gone(cursor[s].boot)'
        /\ \A b \in left[s] : Gone(b)'
  BY <1>2, EventsAssumption DEF TelemetryTypeOK, EventsAssumption
<1>4. NoLostWakeup'
  BY DEF NoLostWakeup
<1> QED
  BY <1>1, <1>3, <1>4

LEMMA PublishKeeps ==
  ASSUME StreamsFollowPublisher,
         NEW g, NEW b \in Boots \ ForeignBoots, NEW n \in Nat \ {0}, NEW p,
         LatestPublish(g, b, n, p)
  PROVE  StreamsFollowPublisher'
<1> USE DEF StreamsFollowPublisher, LatestPublish, SendReplace, Publishable, Value
<1>1. TelemetryTypeOK'
  BY EventsAssumption DEF TelemetryTypeOK, EventsAssumption
<1>2. \A c : Gone(c) <=> Gone(c)'
  BY DEF Gone, Retired
<1>3. ~Gone(b)
  BY DEF Gone
<1>4. \A s \in Subscribers :
        cursor[s] # NoCursor => cursor[s].boot = b \/ Gone(cursor[s].boot)
  BY EventsAssumption DEF TelemetryTypeOK, EventsAssumption
<1>5. NoLostWakeup'
  BY DEF NoLostWakeup
<1> QED
  BY <1>1, <1>2, <1>3, <1>4, <1>5

LEMMA CloseKeeps ==
  ASSUME StreamsFollowPublisher, LatestClose
  PROVE  StreamsFollowPublisher'
<1> USE DEF StreamsFollowPublisher, LatestClose, SendReplace
<1>1. TelemetryTypeOK'
  BY DEF TelemetryTypeOK
<1>2. \A b : Gone(b) <=> Gone(b)'
  BY DEF Gone, Retired
<1>3. NoLostWakeup'
  BY DEF NoLostWakeup
<1> QED
  BY <1>1, <1>2, <1>3

\* One read of the channel.
LEMMA NextAfterKeeps ==
  ASSUME StreamsFollowPublisher, NEW s \in Subscribers, NextAfter(s)
  PROVE  StreamsFollowPublisher'
<1> USE DEF StreamsFollowPublisher, NextAfter, latestVars
<1>1. \A b : Gone(b) <=> Gone(b)'
  BY DEF Gone, Retired
<1>2. \A r \in Subscribers \ {s} :
        /\ stream'[r] = stream[r] /\ changed'[r] = changed[r]
        /\ cursor'[r] = cursor[r] /\ left'[r] = left[r]
  BY DEF Yields, TelemetryTypeOK
<1>3. CASE Yields(s)
  <2>0. signal \in [kind : {"Value"}, boot : Boots, sequence : Nat \ {0}, payload : ValidPayloads]
    BY <1>3 DEF Yields, NeedsCurrent, TelemetryTypeOK
  <2>1. CursorOf(signal) \in [boot : Boots, sequence : Nat \ {0}]
    BY <2>0 DEF CursorOf
  <2>2. cursor[s].boot \in Boots \cup {NoBoot}
    BY DEF TelemetryTypeOK
  <2>3. TelemetryTypeOK'
    BY <1>3, <2>1, <2>2 DEF Yields, TelemetryTypeOK
  <2>4. cursor'[s] = CursorOf(signal) /\ stream'[s] = "ready"
    BY <1>3 DEF Yields, TelemetryTypeOK
  <2>5. left'[s] = left[s] \cup ({cursor[s].boot} \ {signal.boot, NoBoot})
    BY <1>3 DEF Yields, TelemetryTypeOK
  <2>6. cursor'[s].boot = lBoot
    BY <2>4, <2>0 DEF CursorOf
  <2>7. \A b \in left'[s] : Gone(b)
    BY <2>0, <2>5
  <2>8. NoLostWakeup'
    BY <1>2, <2>4 DEF NoLostWakeup, NeedsCurrent
  <2> QED
    BY <1>1, <1>2, <2>0, <2>3, <2>6, <2>7, <2>8
<1>4. CASE UNCHANGED <<cursor, left>>
           /\ stream' \in {[stream EXCEPT ![s] = "ended"], [stream EXCEPT ![s] = "waiting"]}
           /\ (stream'[s] = "waiting" => signal # Closed /\ ~NeedsCurrent(s))
  <2>1. TelemetryTypeOK'
    BY <1>4 DEF TelemetryTypeOK
  <2>2. NoLostWakeup'
    BY <1>2, <1>4 DEF NoLostWakeup, NeedsCurrent
  <2> QED
    BY <1>1, <1>4, <2>1, <2>2
<1> QED
  BY <1>3, <1>4 DEF TelemetryTypeOK

LEMMA ResubscribeKeeps ==
  ASSUME StreamsFollowPublisher, NEW s \in Subscribers, Resubscribe(s)
  PROVE  StreamsFollowPublisher'
<1> USE DEF StreamsFollowPublisher, Resubscribe, latestVars
<1>1. TelemetryTypeOK'
  BY DEF TelemetryTypeOK
<1>2. \A b : Gone(b) <=> Gone(b)'
  BY DEF Gone, Retired
<1>3. NoLostWakeup'
  BY DEF NoLostWakeup, NeedsCurrent, TelemetryTypeOK
<1> QED
  BY <1>1, <1>2, <1>3

\* A read of the channel moves its stream forward or leaves it where it is.
LEMMA ReadMovesForward ==
  ASSUME StreamsFollowPublisher, NEW s \in Subscribers, NextAfter(s)
  PROVE  MovesForward
<1>1. CASE UNCHANGED cursor
  BY <1>1 DEF MovesForward
<1>2. CASE Yields(s)
  <2>1. \A r \in Subscribers \ {s} : cursor'[r] = cursor[r]
    BY <1>2 DEF Yields, StreamsFollowPublisher, TelemetryTypeOK
  <2>2. signal \in [kind : {"Value"}, boot : Boots, sequence : Nat \ {0}, payload : ValidPayloads]
    BY <1>2 DEF Yields, NeedsCurrent, StreamsFollowPublisher, TelemetryTypeOK
  <2>3. /\ cursor'[s].boot = signal.boot
        /\ cursor'[s].sequence = signal.sequence
    BY <1>2, <2>2 DEF Yields, CursorOf, StreamsFollowPublisher, TelemetryTypeOK
  <2>4. signal.boot \notin left[s]
    BY <2>2 DEF StreamsFollowPublisher
  <2>5. cursor[s].boot = signal.boot => signal.sequence > cursor[s].sequence
    BY <1>2, <2>2, EventsAssumption DEF Yields, NeedsCurrent, EventsAssumption
  <2> QED
    BY <2>1, <2>3, <2>4, <2>5 DEF MovesForward
<1> QED
  BY <1>1, <1>2 DEF NextAfter

LEMMA TelemetryStep ==
  StreamsFollowPublisher /\ [TelemetryNext]_telemetryVars => StreamsFollowPublisher'
<1> SUFFICES ASSUME StreamsFollowPublisher, [TelemetryNext]_telemetryVars
             PROVE  StreamsFollowPublisher'
  OBVIOUS
<1>1. CASE TelemetryNext
  BY <1>1, ConnectKeeps, PublishKeeps, CloseKeeps, NextAfterKeeps, ResubscribeKeeps,
     EventsAssumption DEF TelemetryNext, EventsAssumption
<1>2. CASE UNCHANGED telemetryVars
  BY <1>2 DEF telemetryVars, latestVars, streamVars, StreamsFollowPublisher,
     TelemetryTypeOK, NoLostWakeup, NeedsCurrent, Gone, Retired
<1> QED
  BY <1>1, <1>2

\* StreamsFollowPublisher is an invariant of the publisher and its streams: the
\* visible value is of the active boot, which no stream has moved on from, a
\* stream stands at that boot or at one that is gone, and a closed publisher
\* shows its end.
THEOREM PublisherInvariant == TelemetrySpec => []StreamsFollowPublisher
<1> QED
  BY TelemetryStarts, TelemetryStep, PTL DEF TelemetrySpec

\* next_after loses no wakeup: a stream that sleeps on the watch channel has
\* nothing to yield and no end to report, for any number of streams.
THEOREM WakeupNeverLost == TelemetrySpec => []NoLostWakeup
<1>1. StreamsFollowPublisher => NoLostWakeup
  BY DEF StreamsFollowPublisher
<1> QED
  BY <1>1, PublisherInvariant, PTL

\* What a stream yields is ahead of what it yielded before, across
\* connections, boots and resubscriptions, and a close is never undone.
THEOREM StreamsAlwaysForward == TelemetrySpec => StreamNeverGoesBack
<1>1. ASSUME StreamsFollowPublisher, [TelemetryNext]_telemetryVars
      PROVE  [MovesForward /\ ClosedIsFinal]_telemetryVars
  <2>1. CASE TelemetryNext
    <3>1. ClosedIsFinal
      BY <1>1, <2>1 DEF TelemetryNext, ClosedIsFinal, StreamsFollowPublisher, LatestConnect,
         LatestPublish, Publishable, LatestClose, SendReplace, NextAfter, Resubscribe, latestVars
    <3>2. CASE UNCHANGED cursor
      BY <3>1, <3>2 DEF MovesForward
    <3>3. ASSUME NEW s \in Subscribers, NextAfter(s)
          PROVE  MovesForward
      BY <1>1, <3>3, ReadMovesForward
    <3> QED
      BY <2>1, <3>1, <3>2, <3>3 DEF TelemetryNext, LatestConnect, LatestPublish, LatestClose,
         Resubscribe
  <2> QED
    BY <1>1, <2>1
<1> QED
  BY <1>1, PublisherInvariant, PTL DEF TelemetrySpec, StreamNeverGoesBack

-----------------------------------------------------------------------------
(* Proofs about the agent's process, for every set of subscribers,         *)
(* payloads and boots clients may remember, and every last sequence number. *)

\* The process's boot identifier is fresh (main.rs draws it at random).
BootIsFresh == AgentBoot \in Boots \ ForeignBoots

LEMMA AgentStarts == AgentInit => AgentInv
<1> SUFFICES ASSUME AgentInit PROVE AgentInv
  OBVIOUS
<1> USE DEF AgentInit
<1>1. ForeignCursors \subseteq [boot : Boots, sequence : Nat \ {0}] \cup {NoCursor}
  BY EventsAssumption, ForeignAssumption DEF ForeignCursors, EventsAssumption, ForeignAssumption
<1>2. cursor \in [Subscribers -> [boot : Boots, sequence : Nat \ {0}] \cup {NoCursor}]
  BY <1>1
<1>3. TelemetryTypeOK
  BY <1>2 DEF TelemetryTypeOK
<1>4. \A s \in Subscribers :
        /\ cursor[s] # NoCursor => cursor[s].boot = lBoot \/ Gone(cursor[s].boot)
        /\ \A b \in left[s] : Gone(b)
  BY DEF ForeignCursors, Gone
<1>5. StreamsFollowPublisher
  BY <1>3, <1>4 DEF StreamsFollowPublisher, NoLostWakeup
<1> QED
  BY <1>5 DEF AgentInv, OneBoot, AnswerIsDated, NoAnswer, TrustLossCloses,
     OnlyGenuinePublished, GenuineIsPublished, PipelineInStep

\* What the publisher's invariant says of variables that did not change.
LEMMA StreamsStay ==
  ASSUME StreamsFollowPublisher, UNCHANGED telemetryVars
  PROVE  StreamsFollowPublisher'
  BY DEF telemetryVars, latestVars, streamVars, StreamsFollowPublisher,
     TelemetryTypeOK, NoLostWakeup, NeedsCurrent, Gone, Retired

\* emit publishes the sample under the next number, or leaves both counts.
LEMMA EmitKeeps ==
  ASSUME BootIsFresh, StreamsFollowPublisher, OneBoot, PipelineInStep,
         NEW payload, Emit(payload)
  PROVE  /\ StreamsFollowPublisher' /\ OneBoot' /\ PipelineInStep'
         /\ signal' = signal \/ signal'.payload = payload
         /\ lClosed' = lClosed
<1>1. CASE LatestPublish(1, AgentBoot, nextSequence, payload) /\ nextSequence' = nextSequence + 1
  <2>1. StreamsFollowPublisher'
    BY <1>1, PublishKeeps DEF BootIsFresh, OneBoot
  <2> QED
    BY <1>1, <2>1 DEF LatestPublish, SendReplace, Value, OneBoot, PipelineInStep
<1>2. CASE UNCHANGED <<telemetryVars, nextSequence>>
  BY <1>2, StreamsStay DEF telemetryVars, latestVars, OneBoot, PipelineInStep
<1> QED
  BY <1>1, <1>2 DEF Emit

\* The poll task.
LEMMA PollTaskKeeps ==
  ASSUME BootIsFresh, AgentInv, PollTask
  PROVE  AgentInv'
<1> USE DEF AgentInv
<1>1. CASE PollTick
  <2>1. StreamsFollowPublisher'
    BY <1>1, StreamsStay DEF PollTick
  <2> QED
    BY <1>1, <2>1 DEF PollTick, telemetryVars, latestVars, OneBoot, AnswerIsDated, NoAnswer,
       TrustLossCloses, OnlyGenuinePublished, GenuineIsPublished, PipelineInStep
<1>2. CASE GameData
  <2>1. StreamsFollowPublisher'
    BY <1>2, StreamsStay DEF GameData
  <2>2. AnswerIsDated'
    BY <1>2 DEF GameData, AnswerIsDated, Failed, IdentityRefused, ConnectionUntrusted, Sample
  <2> QED
    BY <1>2, <2>1, <2>2 DEF GameData, telemetryVars, latestVars, OneBoot, TrustLossCloses,
       OnlyGenuinePublished, GenuineIsPublished, PipelineInStep
<1>3. CASE Complete
  <2>1. AnswerIsDated'
    BY <1>3 DEF Complete, AnswerIsDated, NoAnswer
  <2>2. CASE UNCHANGED <<telemetryVars, nextSequence>>
    <3>1. StreamsFollowPublisher'
      BY <2>2, StreamsStay
    <3> QED
      BY <1>3, <2>1, <2>2, <3>1 DEF Complete, telemetryVars, latestVars, OneBoot,
         TrustLossCloses, OnlyGenuinePublished, GenuineIsPublished, PipelineInStep
  <2>3. CASE /\ RevalidateTrust /\ answer.kind = "Sample" /\ poller' = "waiting"
             /\ Emit(answer.payload)
    <3>1. /\ StreamsFollowPublisher' /\ OneBoot' /\ PipelineInStep'
          /\ signal' = signal \/ signal'.payload = answer.payload
          /\ lClosed' = lClosed
      BY <2>3, EmitKeeps DEF OnlyGenuinePublished
    <3>2. GenuineIsPublished'
      BY <1>3, <2>3, <3>1 DEF Complete, RevalidateTrust, AnswerIsDated, OnlyGenuinePublished,
         GenuineIsPublished
    <3>3. TrustLossCloses'
      BY <1>3, <2>3, <3>1 DEF Complete, TrustLossCloses, StreamsFollowPublisher
    <3> QED
      BY <2>1, <3>1, <3>2, <3>3 DEF OnlyGenuinePublished
  <2> QED
    BY <1>3, <2>2, <2>3 DEF Complete
<1>4. CASE PollShutdown
  <2>1. StreamsFollowPublisher'
    BY <1>4, StreamsStay DEF PollShutdown
  <2> QED
    BY <1>4, <2>1 DEF PollShutdown, telemetryVars, latestVars, OneBoot, AnswerIsDated, NoAnswer,
       TrustLossCloses, OnlyGenuinePublished, GenuineIsPublished, PipelineInStep
<1>5. CASE CloseOnTrustLoss
  <2>1. StreamsFollowPublisher'
    BY <1>5, CloseKeeps DEF CloseOnTrustLoss
  <2> QED
    BY <1>5, <2>1 DEF CloseOnTrustLoss, LatestClose, SendReplace, OneBoot, AnswerIsDated,
       TrustLossCloses, OnlyGenuinePublished, GenuineIsPublished, PipelineInStep
<1>6. CASE SendOnTrustLoss
  <2>1. StreamsFollowPublisher'
    BY <1>6, StreamsStay DEF SendOnTrustLoss
  <2> QED
    BY <1>6, <2>1 DEF SendOnTrustLoss, telemetryVars, latestVars, OneBoot, AnswerIsDated,
       TrustLossCloses, OnlyGenuinePublished, GenuineIsPublished, PipelineInStep
<1> QED
  BY <1>1, <1>2, <1>3, <1>4, <1>5, <1>6 DEF PollTask

\* The main task, ctrl-c, the game server and the clock.
LEMMA MainTaskKeeps ==
  ASSUME AgentInv, MainTask \/ CtrlC \/ LoseTrust \/ IdentityCheckDue
  PROVE  AgentInv'
<1>1. UNCHANGED <<telemetryVars, pollerVars, binding>>
  BY DEF MainTask, StartServing, ShutdownSeen, ShutdownSignal, Drained, Exit, CtrlC, LoseTrust,
     IdentityCheckDue
<1>2. StreamsFollowPublisher'
  BY <1>1, StreamsStay DEF AgentInv
<1>3. trusted' => trusted
  BY DEF MainTask, StartServing, ShutdownSeen, ShutdownSignal, Drained, Exit, CtrlC, LoseTrust,
     IdentityCheckDue
<1>4. server' = "GateRefused" => server = "GateRefused" \/ poller = "trustLost"
  BY DEF MainTask, StartServing, ShutdownSeen, ShutdownSignal, Drained, Exit, CtrlC, LoseTrust,
     IdentityCheckDue
<1>5. OneBoot' /\ OnlyGenuinePublished'
  BY <1>1 DEF AgentInv, telemetryVars, latestVars, pollerVars, OneBoot, OnlyGenuinePublished,
     GenuineIsPublished, PipelineInStep
<1>6. AnswerIsDated' /\ TrustLossCloses'
  BY <1>1, <1>3, <1>4 DEF AgentInv, telemetryVars, latestVars, pollerVars, AnswerIsDated,
     TrustLossCloses
<1> QED
  BY <1>2, <1>5, <1>6 DEF AgentInv

\* Clients come, read and go.
LEMMA ClientsKeep ==
  ASSUME AgentInv, NEW s \in Subscribers, Subscribe(s) \/ HangUp(s) \/ Stream(s)
  PROVE  AgentInv'
<1>1. StreamsFollowPublisher'
  <2>1. CASE Subscribe(s)
    BY <2>1, ResubscribeKeeps DEF Subscribe, AgentInv
  <2>2. CASE Stream(s)
    BY <2>2, NextAfterKeeps DEF Stream, AgentInv
  <2>3. CASE HangUp(s)
    <3>1. TelemetryTypeOK'
      BY <2>3 DEF HangUp, AgentInv, StreamsFollowPublisher, TelemetryTypeOK, latestVars
    <3>2. NoLostWakeup'
      BY <2>3 DEF HangUp, AgentInv, StreamsFollowPublisher, TelemetryTypeOK, latestVars,
         NoLostWakeup, NeedsCurrent
    <3> QED
      BY <2>3, <3>1, <3>2 DEF HangUp, AgentInv, StreamsFollowPublisher, latestVars, Gone, Retired
  <2> QED
    BY <2>1, <2>2, <2>3
<1>2. UNCHANGED <<latestVars, agentVars>>
  BY DEF Subscribe, Resubscribe, HangUp, Stream, NextAfter
<1> QED
  BY <1>1, <1>2 DEF AgentInv, latestVars, agentVars, pollerVars, OneBoot, AnswerIsDated,
     TrustLossCloses, OnlyGenuinePublished, GenuineIsPublished, PipelineInStep

LEMMA AgentStep ==
  ASSUME BootIsFresh, AgentInv, [AgentNext]_processVars
  PROVE  AgentInv'
<1>1. CASE UNCHANGED processVars
  <2>1. StreamsFollowPublisher'
    BY <1>1, StreamsStay DEF processVars, AgentInv
  <2> QED
    BY <1>1, <2>1 DEF processVars, telemetryVars, latestVars, agentVars, pollerVars, AgentInv,
       OneBoot, AnswerIsDated, TrustLossCloses, OnlyGenuinePublished, GenuineIsPublished,
       PipelineInStep
<1> QED
  BY <1>1, PollTaskKeeps, MainTaskKeeps, ClientsKeep DEF AgentNext

\* AgentInv is an invariant of the whole process: poll task, main task,
\* publisher and every open stream, whatever the game server does.
THEOREM AgentInvariant == ASSUME BootIsFresh PROVE AgentSpec => []AgentInv
<1>1. AgentInv /\ [AgentNext]_processVars => AgentInv'
  BY AgentStep
<1> QED
  BY <1>1, AgentStarts, PTL DEF AgentSpec

\* What a local agent publishes is what its approved server answered, numbered
\* without a gap, for any interleaving of trust loss, request and publication
\* (poller.rs checks trust before and after game_data()).
THEOREM AlwaysGenuine == ASSUME BootIsFresh PROVE AgentSpec => []OnlyGenuinePublished
<1>1. AgentInv => OnlyGenuinePublished
  BY DEF AgentInv
<1> QED
  BY <1>1, AgentInvariant, PTL

\* An agent that reports lost trust, and one that ended with GateRefused, has
\* closed its publisher: no late sample and no new subscription reopens it.
THEOREM TrustLossAlwaysCloses == ASSUME BootIsFresh PROVE AgentSpec => []TrustLossCloses
<1>1. AgentInv => TrustLossCloses
  BY DEF AgentInv
<1> QED
  BY <1>1, AgentInvariant, PTL

\* In the whole process as in the publisher alone, no stream goes back, and
\* what was closed stays closed: with polling, shutdown and clients that hang
\* up and come back around them.
THEOREM AgentStreamsForward == ASSUME BootIsFresh PROVE AgentSpec => StreamNeverGoesBack
<1>1. ASSUME AgentInv, [AgentNext]_processVars
      PROVE  [MovesForward /\ ClosedIsFinal]_telemetryVars
  <2>1. CASE UNCHANGED telemetryVars
    BY <2>1
  <2>2. CASE \E payload : LatestPublish(1, AgentBoot, nextSequence, payload)
    BY <1>1, <2>2 DEF LatestPublish, Publishable, SendReplace, MovesForward, ClosedIsFinal
  <2>3. CASE LatestClose
    BY <2>3 DEF LatestClose, SendReplace, MovesForward, ClosedIsFinal
  <2>4. ASSUME NEW s \in Subscribers, NextAfter(s)
        PROVE  MovesForward /\ ClosedIsFinal
    BY <1>1, <2>4, ReadMovesForward DEF AgentInv, StreamsFollowPublisher, NextAfter, latestVars,
       ClosedIsFinal
  <2>5. ASSUME UNCHANGED <<latestVars, cursor>>
        PROVE  MovesForward /\ ClosedIsFinal
    BY <1>1, <2>5 DEF AgentInv, StreamsFollowPublisher, latestVars, MovesForward, ClosedIsFinal
  <2>6. CASE PollTask
    BY <2>1, <2>2, <2>3, <2>6 DEF PollTask, PollTick, GameData, Complete, Emit, PollShutdown,
       CloseOnTrustLoss, SendOnTrustLoss
  <2>7. CASE MainTask \/ CtrlC \/ LoseTrust \/ IdentityCheckDue
    BY <2>1, <2>7 DEF MainTask, StartServing, ShutdownSeen, ShutdownSignal, Drained, Exit, CtrlC,
       LoseTrust, IdentityCheckDue
  <2>8. ASSUME NEW s \in Subscribers, Subscribe(s) \/ HangUp(s) \/ Stream(s)
        PROVE  MovesForward /\ ClosedIsFinal
    BY <2>4, <2>5, <2>8 DEF Subscribe, Resubscribe, HangUp, Stream
  <2> QED
    BY <1>1, <2>1, <2>6, <2>7, <2>8 DEF AgentNext, processVars
<1> QED
  BY <1>1, AgentInvariant, PTL DEF AgentSpec, StreamNeverGoesBack

-----------------------------------------------------------------------------
(* Proofs about the network path, TelemetrySession, for every number of    *)
(* attempts, length of the wire, set of boots, filter and queue length.    *)

\* The client under study is one of the publisher's subscribers.
ClientSubscribes == Client \in Subscribers

LEMMA LinkStarts == ASSUME ClientSubscribes, SessionInit PROVE LinkInv
<1> USE DEF SessionInit, TelemetryInit, LatestInit, StreamInit, InboxInit
<1>1. ForeignCursors \subseteq Cursors
  <2>1. [boot : ForeignBoots, sequence : SequenceNumbers \ {0}] \subseteq Cursors
    <3> SUFFICES ASSUME NEW c \in [boot : ForeignBoots, sequence : SequenceNumbers \ {0}]
                 PROVE  c \in Cursors
      OBVIOUS
    <3>1. c.boot \in Boots /\ c.sequence \in Nat
      BY EventsAssumption, ForeignAssumption DEF EventsAssumption, ForeignAssumption
    <3> QED
      BY <3>1 DEF Cursors
  <2> QED
    BY <2>1 DEF ForeignCursors, Cursors
<1>2. <<>> \in Seq(Values)
  OBVIOUS
<1>3. cursor \in [Subscribers -> Cursors]
  BY <1>1
<1>4. LinkTypeOK
  BY <1>2, <1>3 DEF LinkTypeOK, OutsideSession, InSession
<1> QED
  BY <1>4 DEF LinkInv, AgentIsLinked, GenerationIsOwn, OutsideSession, InSession, ResumeIsInbox,
     OneBootPerSession, SessionOverMeansClosed

\* A first message: what the inbox makes of it.
LEMMA HeadIsAccepted ==
  ASSUME LinkInv, phase = "streaming", wire # <<>>, NEW now \in Times, now >= lastReceived
  PROVE  PublishOutcome(FrameOf(Head(wire)), now) \in {"Accepted", "RetiredBootDropped"}
<1> DEFINE frame == FrameOf(Head(wire))
<1>1. wire \in Seq(Values) /\ 1 \in 1 .. Len(wire) /\ Head(wire) = wire[1] /\ wire[1] \in Values
  BY DEF LinkInv, LinkTypeOK
<1>2. PICK b \in Boots \cup {NoBoot} : WireIsFresh(b)
  BY DEF LinkInv, OneBootPerSession, InSession
<1>3. /\ wire[1].boot = b /\ b \in Boots
      /\ activeBoot = b => wire[1].sequence > lastSequence
      /\ generationHasSample => activeBoot = b
      /\ wire[1].sequence \in Nat \ {0} /\ wire[1].payload \in ValidPayloads
  BY <1>1, <1>2 DEF WireIsFresh, Values
<1>4. /\ frame.identityMatches = TRUE /\ frame.boot = b /\ frame.generation = generation
      /\ frame.sequence = wire[1].sequence /\ frame.payload = wire[1].payload
  BY <1>1, <1>3 DEF FrameOf, Generation, LinkInv, GenerationIsOwn, InSession
<1>5. generation \in Nat /\ generation # 0 /\ connected
  BY DEF LinkInv, GenerationIsOwn, InSession, LinkTypeOK
<1>6. ~(ChangesBoot(frame) /\ generationHasSample)
  BY <1>3, <1>4 DEF ChangesBoot
<1>7. frame.sequence > PreviousSequence(frame)
  <2>1. CASE ChangesBoot(frame)
    BY <1>3, <1>4, <2>1 DEF PreviousSequence
  <2>2. CASE ~ChangesBoot(frame)
    <3>1. PreviousSequence(frame) = lastSequence /\ activeBoot \in {NoBoot, b}
      BY <1>4, <2>2 DEF PreviousSequence, ChangesBoot
    <3> QED
      BY <1>3, <1>4, <3>1 DEF LinkInv, ResumeIsInbox
  <2> QED
    BY <2>1, <2>2
<1>8. ~(now < PreviousReceived(frame))
  BY EventsAssumption DEF PreviousReceived, NoTime, LinkInv, LinkTypeOK, EventsAssumption
<1>9. PreviousSequence(frame) \in Nat /\ frame.sequence \in Nat
  BY <1>3, <1>4 DEF PreviousSequence, LinkInv, LinkTypeOK
<1> HIDE DEF frame
<1>10. PublishOutcome(frame, now) \in {"Accepted", "RetiredBootDropped"}
  BY <1>3, <1>4, <1>5, <1>6, <1>7, <1>8, <1>9 DEF PublishOutcome
<1> QED
  BY <1>10 DEF frame

\* A session's wire as long as neither it nor a cursor moves.
LEMMA WireStays ==
  ASSUME NEW b, WireIsFresh(b),
         UNCHANGED <<wire, activeBoot, lastSequence, cursor, generationHasSample>>,
         linked' => linked /\ agentBoot' = agentBoot,
         phase' \in {"streaming", "reprobing"} => phase \in {"streaming", "reprobing"}
  PROVE  WireIsFresh(b)'
  BY DEF WireIsFresh

\* Steps of the client, of the network and of the user that only move its
\* phase, and the consumer's poll.
LEMMA MovesKeep ==
  ASSUME LinkInv,
         \/ Begin \/ Dial \/ DialFails \/ DialRefused \/ ProbeAccepted \/ ProbeDue
         \/ ClockExpires \/ LinkBreaks \/ SessionBreaks \/ CancelSession \/ BackoffElapses
         \/ CancelOutside \/ Cancel \/ Consume
  PROVE  LinkInv'
<1> USE DEF LinkInv
<1> DEFINE Move == \/ Begin \/ Dial \/ DialFails \/ DialRefused \/ ProbeAccepted \/ ProbeDue
                   \/ ClockExpires \/ LinkBreaks \/ SessionBreaks \/ CancelSession
                   \/ BackoffElapses \/ CancelOutside \/ Cancel \/ Consume
<1>1. /\ UNCHANGED <<telemetryVars, generation, connected, generationHasSample, activeBoot,
                     lastSequence, lastReceived, agentBoot, resume, wire>>
      /\ linked' \in {linked, FALSE} \/ (linked' = TRUE /\ agentBoot # NoBoot /\ phase' = "opening")
      /\ \/ phase' = phase /\ attempt' = attempt
         \/ /\ phase \in OutsideSession /\ phase' \in OutsideSession \cup {"stopped", "failed"}
            /\ attempt' \in {attempt, attempt + 1}
         \/ /\ phase \in InSession /\ phase' \in InSession \cup {"closing"} /\ attempt' = attempt
            /\ phase' \in {"streaming", "reprobing"} => phase \in {"streaming", "reprobing"}
            /\ phase' \in {"probing", "subscribing"} => phase \in {"probing", "subscribing"}
  <2> USE DEF InSession, OutsideSession
  <2>1. CASE Begin \/ Dial \/ DialFails \/ DialRefused \/ BackoffElapses \/ CancelOutside
    BY <2>1 DEF Begin, Dial, DialFails, DialRefused, BackoffElapses, CancelOutside, inboxVars,
       agentSide
  <2>2. CASE ProbeAccepted \/ ProbeDue \/ SessionBreaks \/ CancelSession
    BY <2>2 DEF ProbeAccepted, ProbeDue, SessionBreaks, CancelSession, EndWith, inboxVars,
       agentSide, ingestVars
  <2>3. CASE ClockExpires \/ LinkBreaks \/ Cancel
    BY <2>3 DEF ClockExpires, LinkBreaks, Cancel, inboxVars, agentSide
  <2>4. CASE Consume
    BY <2>4 DEF Consume, Poll, agentSide, clientVars
  <2> QED
    BY <2>1, <2>2, <2>3, <2>4
<1>2. LinkTypeOK' /\ AgentIsLinked'
  <2>1. UNCHANGED <<lSequence, signal, cursor>>
    BY <1>1 DEF telemetryVars, latestVars, streamVars
  <2>2. linked' \in BOOLEAN /\ (linked' => agentBoot # NoBoot)
    <3>1. CASE linked' = linked
      BY <1>1, <3>1 DEF LinkTypeOK, AgentIsLinked
    <3>2. CASE linked' = FALSE
      BY <3>2
    <3>3. CASE linked' = TRUE /\ agentBoot # NoBoot
      BY <3>3
    <3> QED
      BY <1>1, <3>1, <3>2, <3>3
  <2>3. attempt' \in Nat
    BY <1>1 DEF LinkTypeOK
  <2>4. phase' \in InSession \cup OutsideSession \cup {"closing", "stopped", "failed"}
    BY <1>1 DEF LinkTypeOK
  <2> QED
    BY <1>1, <2>1, <2>2, <2>3, <2>4 DEF LinkTypeOK, AgentIsLinked
<1>3. GenerationIsOwn' /\ ResumeIsInbox' /\ SessionOverMeansClosed'
  BY <1>1 DEF LinkTypeOK, GenerationIsOwn, ResumeIsInbox, SessionOverMeansClosed, OutsideSession,
     InSession
<1>4. OneBootPerSession'
  <2>1. phase' \notin {"streaming", "reprobing", "closing"} => wire' = <<>>
    BY <1>1 DEF OneBootPerSession, OutsideSession, InSession, LinkTypeOK
  <2>2. ASSUME phase' \in InSession
        PROVE  \E b \in Boots \cup {NoBoot} : WireIsFresh(b)'
    <3>1. phase \in InSession /\ linked' \in {linked, FALSE}
      BY <1>1, <2>2 DEF OutsideSession, InSession
    <3>2. PICK b \in Boots \cup {NoBoot} : WireIsFresh(b)
      BY <3>1 DEF OneBootPerSession
    <3>3. WireIsFresh(b)'
      <4>1. UNCHANGED <<wire, activeBoot, lastSequence, cursor, generationHasSample>>
        BY <1>1 DEF telemetryVars, streamVars
      <4>2. linked' => linked /\ agentBoot' = agentBoot
        BY <1>1, <3>1 DEF LinkTypeOK
      <4>3. phase' \in {"streaming", "reprobing"} => phase \in {"streaming", "reprobing"}
        BY <1>1, <3>1 DEF OutsideSession, InSession
      <4> QED
        BY <3>2, <4>1, <4>2, <4>3, WireStays
    <3> QED
      BY <3>3
  <2> QED
    BY <2>1, <2>2 DEF OneBootPerSession
<1> QED
  BY <1>2, <1>3, <1>4

\* The agent starts, publishes and crashes.
LEMMA AgentKeeps ==
  ASSUME LinkInv, AgentStart \/ AgentPublish \/ AgentCrash
  PROVE  LinkInv'
<1> USE DEF LinkInv
<1>1. UNCHANGED <<cursor, inboxVars, phase, attempt, resume, wire>>
  BY DEF AgentStart, AgentPublish, AgentCrash, LatestPublish, streamVars, clientVars
<1>2. UNCHANGED <<generation, connected, generationHasSample, activeBoot, lastSequence,
                  lastReceived>>
  BY <1>1 DEF inboxVars
<1>3. /\ linked' \in BOOLEAN /\ (linked' => linked /\ agentBoot' = agentBoot)
      /\ agentBoot' \in Boots \cup {NoBoot}
  <2>1. CASE AgentStart
    <3>1. linked' = linked /\ agentBoot = NoBoot /\ agentBoot' \in Boots
      BY <2>1 DEF AgentStart, clientVars
    <3> QED
      BY <3>1, Zenon DEF LinkTypeOK, AgentIsLinked
  <2>2. CASE AgentPublish
    BY <2>2 DEF AgentPublish, LinkTypeOK, agentSide, clientVars
  <2>3. CASE AgentCrash
    BY <2>3 DEF AgentCrash
  <2> QED
    BY <2>1, <2>2, <2>3
<1>4. lSequence' \in Nat /\ signal' \in {Empty, Closed} \cup Values
  <2>1. CASE AgentStart \/ AgentCrash
    BY <2>1 DEF AgentStart, AgentCrash, LinkTypeOK
  <2>2. CASE AgentPublish
    <3>1. PICK p \in ValidPayloads : LatestPublish(1, agentBoot, lSequence + 1, p)
      BY <2>2 DEF AgentPublish
    <3>2. lSequence + 1 \in Nat \ {0} /\ agentBoot \in Boots
      BY <2>2 DEF AgentPublish, LinkTypeOK
    <3> QED
      BY <3>1, <3>2 DEF LatestPublish, SendReplace, Value, Values
  <2> QED
    BY <2>1, <2>2
<1>5. signal'.kind = "Value" => signal'.boot = agentBoot'
  BY DEF AgentStart, AgentPublish, AgentCrash, LatestPublish, SendReplace, Value, AgentIsLinked,
     agentSide
<1>6. LinkTypeOK' /\ AgentIsLinked'
  BY <1>1, <1>2, <1>3, <1>4, <1>5 DEF LinkTypeOK, AgentIsLinked
<1>7. GenerationIsOwn' /\ ResumeIsInbox' /\ SessionOverMeansClosed'
  BY <1>1, <1>2 DEF GenerationIsOwn, ResumeIsInbox, SessionOverMeansClosed
<1>8. OneBootPerSession'
  <2>1. ASSUME NEW b, WireIsFresh(b) PROVE WireIsFresh(b)'
    BY <1>1, <1>2, <1>3, <2>1, WireStays
  <2> QED
    BY <1>1, <2>1 DEF OneBootPerSession
<1> QED
  BY <1>6, <1>7, <1>8

\* The stream yields: what it appends is past its cursor, which is past all
\* that is on the wire and in the inbox.
LEMMA StreamKeeps ==
  ASSUME ClientSubscribes, LinkInv, AgentStream
  PROVE  LinkInv'
<1> USE DEF LinkInv
<1>1. UNCHANGED <<lSequence, signal, generation, connected, generationHasSample, activeBoot,
                  lastSequence, lastReceived, agentBoot, phase, attempt, resume, linked>>
  BY DEF AgentStream, NextAfter, latestVars, inboxVars, agentSide
<1>2. PICK b \in Boots \cup {NoBoot} : WireIsFresh(b)
  BY DEF AgentStream, OneBootPerSession, InSession
<1>3. phase \in {"streaming", "reprobing"} /\ linked /\ agentBoot = b /\ b \in Boots
  BY <1>2 DEF AgentStream, WireIsFresh, AgentIsLinked
<1>4. CASE ~NeedsCurrent(Client)
  <2>1. UNCHANGED <<cursor, wire>>
    BY <1>4 DEF AgentStream, NextAfter, Yields
  <2>2. WireIsFresh(b)'
    BY <1>1, <1>2, <2>1, WireStays
  <2> QED
    BY <1>1, <2>1, <2>2 DEF LinkTypeOK, AgentIsLinked, GenerationIsOwn, ResumeIsInbox,
       SessionOverMeansClosed, OneBootPerSession
<1>5. CASE NeedsCurrent(Client)
  <2>1. signal \in Values /\ signal.boot = b
    BY <1>3, <1>5 DEF NeedsCurrent, LinkTypeOK, AgentIsLinked
  <2>2. cursor' = [cursor EXCEPT ![Client] = CursorOf(signal)] /\ wire' = Append(wire, signal)
    <3>1. ~(signal = Closed)
      BY <2>1 DEF Values
    <3> QED
      BY <1>5, <3>1 DEF AgentStream, NextAfter, Yields
  <2>3. cursor'[Client].boot = b /\ cursor'[Client].sequence = signal.sequence
    BY <2>1, <2>2 DEF CursorOf, LinkTypeOK, ClientSubscribes
  <2>4. CursorOf(signal) \in Cursors
    BY <2>1 DEF CursorOf, Values, Cursors
  <2>5. cursor' \in [Subscribers -> Cursors] /\ wire' \in Seq(Values)
    <3>1. cursor' \in [Subscribers -> Cursors]
      BY <2>2, <2>4 DEF LinkTypeOK
    <3>2. wire' \in Seq(Values)
      BY <2>1, <2>2 DEF LinkTypeOK
    <3> QED
      BY <3>1, <3>2
  <2>6. /\ Len(wire) \in Nat /\ Len(wire') = Len(wire) + 1 /\ wire'[Len(wire) + 1] = signal
        /\ \A i \in 1 .. Len(wire) : wire'[i] = wire[i] /\ wire[i] \in Values
    BY <2>1, <2>2 DEF LinkTypeOK
  <2>7. cursor[Client] \in Cursors /\ signal.sequence \in Nat \ {0}
    BY <2>1 DEF LinkTypeOK, ClientSubscribes, Values
  <2>8. cursor[Client].boot = b => signal.sequence > cursor[Client].sequence
    <3>1. cursor[Client].boot = b => cursor[Client] # NoCursor
      BY <1>3, EventsAssumption DEF EventsAssumption
    <3> QED
      BY <1>5, <2>1, <3>1 DEF NeedsCurrent
  <2>9. activeBoot = b => signal.sequence > lastSequence
    BY <1>2, <1>3, <2>7, <2>8, EventsAssumption DEF WireIsFresh, LinkTypeOK, Cursors, EventsAssumption
  <2>10. \A i \in 1 .. Len(wire) : wire[i].sequence < signal.sequence
    <3> SUFFICES ASSUME NEW i \in 1 .. Len(wire) PROVE wire[i].sequence < signal.sequence
      OBVIOUS
    <3>1. wire[i].sequence \in Nat
      BY <2>6 DEF Values
    <3>2. cursor[Client].boot = b /\ wire[i].sequence <= cursor[Client].sequence
      BY <1>2, <1>3 DEF WireIsFresh
    <3> QED
      BY <2>7, <2>8, <3>1, <3>2 DEF Cursors
  <2>11. WireIsFresh(b)'
    <3>1. \A i \in 1 .. Len(wire') :
            /\ wire'[i].boot = b /\ (activeBoot = b => wire'[i].sequence > lastSequence)
            /\ wire'[i].sequence <= signal.sequence
      <4> SUFFICES ASSUME NEW i \in 1 .. Len(wire')
                   PROVE  /\ wire'[i].boot = b /\ (activeBoot = b => wire'[i].sequence > lastSequence)
                          /\ wire'[i].sequence <= signal.sequence
        OBVIOUS
      <4>1. CASE i \in 1 .. Len(wire)
        <5>1. wire[i].sequence \in Nat
          BY <2>6, <4>1 DEF Values
        <5> QED
          BY <1>2, <2>6, <2>7, <2>10, <4>1, <5>1 DEF WireIsFresh
      <4>2. CASE i = Len(wire) + 1
        BY <2>1, <2>6, <2>7, <2>9, <4>2
      <4> QED
        BY <2>6, <4>1, <4>2
    <3>2. \A i, j \in 1 .. Len(wire') : i < j => wire'[i].sequence < wire'[j].sequence
      <4> SUFFICES ASSUME NEW i \in 1 .. Len(wire'), NEW j \in 1 .. Len(wire'), i < j
                   PROVE  wire'[i].sequence < wire'[j].sequence
        OBVIOUS
      <4>1. i \in 1 .. Len(wire)
        BY <2>6
      <4>2. CASE j \in 1 .. Len(wire)
        BY <1>2, <2>6, <4>1, <4>2 DEF WireIsFresh
      <4>3. CASE j = Len(wire) + 1
        BY <2>6, <2>10, <4>1, <4>3
      <4> QED
        BY <2>6, <4>2, <4>3
    <3>3. lastSequence \in Nat
      BY DEF LinkTypeOK
    <3>4. b # NoBoot /\ activeBoot = b => lastSequence <= signal.sequence
      BY <2>7, <2>9, <3>3
    <3> QED
      BY <1>1, <1>2, <1>3, <2>3, <3>1, <3>2, <3>4 DEF WireIsFresh
  <2> QED
    BY <1>1, <1>3, <2>5, <2>11 DEF LinkTypeOK, AgentIsLinked, GenerationIsOwn, ResumeIsInbox,
       SessionOverMeansClosed, OneBootPerSession
<1> QED
  BY <1>4, <1>5

\* A session opens on the generation nobody has used; the one process it can
\* be connected to is the one that runs now.
LEMMA OpenKeeps ==
  ASSUME LinkInv, Open
  PROVE  LinkInv'
<1> USE DEF LinkInv
<1>1. /\ UNCHANGED <<lSequence, signal, cursor, activeBoot, lastSequence, lastReceived, agentBoot,
                     attempt, resume, linked, wire>>
      /\ phase = "opening" /\ wire = <<>>
  BY DEF Open, Connect, telemetryVars, latestVars, streamVars, inboxVars, agentSide,
     OneBootPerSession
<1>2. CASE phase' = "probing" /\ Connect(Generation)
  <2>1. generation' = attempt + 1 /\ connected' = TRUE /\ generationHasSample' = FALSE
    BY <1>2 DEF Connect, Generation
  <2>2. LinkTypeOK' /\ AgentIsLinked'
    <3>1. generation' \in Nat /\ attempt' \in Nat /\ phase' \in InSession
      BY <1>1, <1>2, <2>1 DEF LinkTypeOK, InSession
    <3>2. linked' \in BOOLEAN /\ connected' \in BOOLEAN /\ generationHasSample' \in BOOLEAN
      BY <1>1, <2>1, Zenon DEF LinkTypeOK
    <3> QED
      BY <1>1, <3>1, <3>2 DEF LinkTypeOK, AgentIsLinked
  <2>3. GenerationIsOwn' /\ ResumeIsInbox' /\ SessionOverMeansClosed'
    BY <1>1, <1>2, <2>1 DEF GenerationIsOwn, ResumeIsInbox, SessionOverMeansClosed, InSession,
       OutsideSession
  <2>4. WireIsFresh(agentBoot)' /\ agentBoot' \in Boots \cup {NoBoot}
    BY <1>1, <1>2, <2>1 DEF WireIsFresh, LinkTypeOK
  <2> QED
    BY <1>1, <2>2, <2>3, <2>4 DEF OneBootPerSession
<1>3. CASE phase' = "failed" /\ UNCHANGED inboxVars
  BY <1>1, <1>3 DEF inboxVars, LinkTypeOK, AgentIsLinked, GenerationIsOwn, ResumeIsInbox,
     SessionOverMeansClosed, OneBootPerSession, InSession, OutsideSession
<1> QED
  BY <1>2, <1>3 DEF Open

\* A session that ends over its clock may find the inbox closed by the event
\* that says so; its generation stays the newest.
LEMMA EndsKeep ==
  ASSUME LinkInv, ProbeRejected \/ ReceiveUndated
  PROVE  LinkInv'
<1> USE DEF LinkInv
<1>1. /\ UNCHANGED <<lSequence, signal, cursor, generation, generationHasSample, activeBoot,
                     lastSequence, lastReceived, agentBoot, attempt, resume, linked>>
      /\ phase \in InSession /\ phase' = "closing" /\ (connected' = connected \/ connected' \in BOOLEAN)
  BY DEF ProbeRejected, ReceiveUndated, ClockInvalid, EndWith, telemetryVars, latestVars,
     streamVars, inboxVars, agentSide, InSession, ClockInvalidQueued, HasClockInvalid
<1>2. wire' \in Seq(Values)
  <2>1. wire' = wire \/ (wire # <<>> /\ wire' = Tail(wire))
    BY DEF ProbeRejected, ReceiveUndated
  <2> QED
    BY <2>1 DEF LinkTypeOK
<1>3. connected' \in BOOLEAN
  BY <1>1, Zenon DEF LinkTypeOK
<1>4. LinkTypeOK' /\ AgentIsLinked'
  BY <1>1, <1>2, <1>3 DEF LinkTypeOK, AgentIsLinked
<1> QED
  BY <1>1, <1>4 DEF GenerationIsOwn, ResumeIsInbox, SessionOverMeansClosed, OneBootPerSession,
     InSession, OutsideSession

\* The stream starts where the inbox is.
LEMMA OpenStreamKeeps ==
  ASSUME ClientSubscribes, LinkInv, OpenStream
  PROVE  LinkInv'
<1> USE DEF LinkInv
<1>1. /\ UNCHANGED <<lSequence, signal, generation, connected, generationHasSample, activeBoot,
                     lastSequence, lastReceived, agentBoot, attempt, resume, linked>>
      /\ phase = "subscribing" /\ phase' = "streaming" /\ linked /\ wire' = <<>>
      /\ cursor' = [cursor EXCEPT ![Client] = resume]
  BY DEF OpenStream, latestVars, inboxVars, agentSide
<1>2. resume \in Cursors
  BY DEF ResumeIsInbox, LinkTypeOK, Cursors
<1>3. cursor' \in [Subscribers -> Cursors] /\ cursor'[Client] = resume
  BY <1>1, <1>2 DEF LinkTypeOK, ClientSubscribes
<1>4. PICK b \in Boots \cup {NoBoot} : WireIsFresh(b)
  BY <1>1 DEF OneBootPerSession, InSession
<1>5. <<>> \in Seq(Values)
  OBVIOUS
<1>6. LinkTypeOK' /\ AgentIsLinked'
  BY <1>1, <1>3, <1>5 DEF LinkTypeOK, AgentIsLinked, InSession
<1>7. GenerationIsOwn' /\ ResumeIsInbox' /\ SessionOverMeansClosed'
  BY <1>1 DEF GenerationIsOwn, ResumeIsInbox, SessionOverMeansClosed, InSession, OutsideSession
<1>8. WireIsFresh(b)'
  <2>1. resume.boot = activeBoot /\ resume.sequence = lastSequence /\ lastSequence \in Nat
    BY DEF ResumeIsInbox, LinkTypeOK
  <2>2. cursor'[Client].boot = activeBoot' /\ lastSequence' <= cursor'[Client].sequence
    BY <1>1, <1>3, <2>1
  <2>3. (linked' => agentBoot' = b) /\ (generationHasSample' => activeBoot' = b)
    BY <1>1, <1>4 DEF WireIsFresh
  <2>4. 1 .. Len(wire') = {}
    BY <1>1
  <2> QED
    BY <2>2, <2>3, <2>4 DEF WireIsFresh
<1> QED
  BY <1>1, <1>6, <1>7, <1>8 DEF OneBootPerSession

\* An accepted message takes the inbox, and the client's cursor with it, to
\* the sequence it carries, behind the rest of the wire.
LEMMA ReceiveKeeps ==
  ASSUME ClientSubscribes, LinkInv, Receive
  PROVE  LinkInv'
<1> USE DEF LinkInv
<1> DEFINE frame == FrameOf(Head(wire))
<1>1. PICK now \in Times :
        /\ now >= lastReceived
        /\ resume' = ResumeAfter(Head(wire), PublishOutcome(frame, now))
        /\ \/ PublishPosition(frame, now)
           \/ PublishOutcome(frame, now) # "Accepted" /\ UNCHANGED inboxVars
  BY DEF Receive
<1>2. /\ UNCHANGED <<lSequence, signal, cursor, agentBoot, attempt, phase, linked>>
      /\ phase = "streaming" /\ wire # <<>> /\ wire' = Tail(wire)
  BY DEF Receive, telemetryVars, latestVars, streamVars, agentSide
<1>3. PublishOutcome(frame, now) \in {"Accepted", "RetiredBootDropped"}
  BY <1>1, <1>2, HeadIsAccepted
<1>4. /\ Len(wire) \in Nat /\ Len(wire') = Len(wire) - 1 /\ Head(wire) = wire[1] /\ 1 \in 1 .. Len(wire)
      /\ wire' \in Seq(Values) /\ wire[1] \in Values
      /\ \A i \in 1 .. Len(wire') : wire'[i] = wire[i + 1] /\ i + 1 \in 1 .. Len(wire) /\ 1 < i + 1
  BY <1>2 DEF LinkTypeOK
<1>5. PICK b \in Boots \cup {NoBoot} : WireIsFresh(b)
  BY <1>2 DEF OneBootPerSession, InSession
<1>6. \A i \in 1 .. Len(wire') :
        /\ wire'[i].boot = b /\ wire[1].sequence < wire'[i].sequence
        /\ activeBoot = b => wire'[i].sequence > lastSequence
        /\ cursor[Client].boot = b /\ wire'[i].sequence <= cursor[Client].sequence
  BY <1>2, <1>4, <1>5 DEF WireIsFresh
<1>7. \A i, j \in 1 .. Len(wire') : i < j => wire'[i].sequence < wire'[j].sequence
  BY SMTT(40), <1>4, <1>5 DEF WireIsFresh
<1>8. CASE PublishOutcome(frame, now) # "Accepted"
  <2>1. UNCHANGED <<generation, connected, generationHasSample, activeBoot, lastSequence,
                    lastReceived, resume>>
    BY <1>1, <1>3, <1>8 DEF PublishPosition, AcceptFrame, RegressedFrame, RejectedFrame, inboxVars,
       ResumeAfter
  <2>2. WireIsFresh(b)'
    BY <1>2, <1>5, <1>6, <1>7, <2>1 DEF WireIsFresh
  <2> QED
    BY <1>2, <1>4, <2>1, <2>2 DEF LinkTypeOK, AgentIsLinked, GenerationIsOwn, ResumeIsInbox,
       SessionOverMeansClosed, OneBootPerSession
<1>9. CASE PublishOutcome(frame, now) = "Accepted"
  <2>1. frame.boot = wire[1].boot /\ frame.sequence = wire[1].sequence
    BY <1>4 DEF FrameOf
  <2>2. /\ activeBoot' = wire[1].boot /\ lastSequence' = wire[1].sequence /\ lastReceived' = now
        /\ generationHasSample' = TRUE /\ UNCHANGED <<generation, connected>>
    <3> HIDE DEF frame
    <3> QED
      BY <1>1, <1>9, <2>1 DEF PublishPosition, AcceptFrame, RegressedFrame, RejectedFrame
  <2>3. resume' = [boot |-> wire[1].boot, sequence |-> wire[1].sequence]
    BY <1>1, <1>4, <1>9 DEF ResumeAfter, CursorOf
  <2>4. /\ wire[1].boot = b /\ b \in Boots /\ wire[1].sequence \in Nat
        /\ cursor[Client].boot = b /\ wire[1].sequence <= cursor[Client].sequence
    BY <1>2, <1>4, <1>5 DEF WireIsFresh, Values
  <2>5. WireIsFresh(b)'
    <3>1. \A i \in 1 .. Len(wire') : wire'[i].sequence > wire[1].sequence
      <4> SUFFICES ASSUME NEW i \in 1 .. Len(wire') PROVE wire'[i].sequence > wire[1].sequence
        OBVIOUS
      <4>1. wire'[i] \in Values
        BY <1>4
      <4>2. wire'[i].sequence \in Nat
        BY <4>1 DEF Values
      <4> QED
        BY <1>6, <2>4, <4>2
    <3>2. linked' => agentBoot' = b
      BY <1>2, <1>5 DEF WireIsFresh
    <3> QED
      BY <1>2, <1>6, <1>7, <2>2, <2>4, <3>1, <3>2 DEF WireIsFresh
  <2>6. b # NoBoot
    BY <2>4, EventsAssumption DEF EventsAssumption
  <2>7. LinkTypeOK' /\ AgentIsLinked'
    BY <1>2, <1>4, <2>2, <2>4 DEF LinkTypeOK, AgentIsLinked
  <2>8. GenerationIsOwn' /\ ResumeIsInbox' /\ SessionOverMeansClosed'
    BY <1>2, <2>2, <2>3, <2>4, <2>6 DEF GenerationIsOwn, ResumeIsInbox, SessionOverMeansClosed
  <2> QED
    BY <1>2, <2>5, <2>7, <2>8 DEF OneBootPerSession
<1> QED
  BY <1>8, <1>9

\* The dropped ingest closes the inbox, whose generation is still its own.
LEMMA DropKeeps ==
  ASSUME LinkInv, DropIngest
  PROVE  LinkInv'
<1> USE DEF LinkInv
<1>1. /\ UNCHANGED <<lSequence, signal, cursor, generation, activeBoot, lastSequence, lastReceived,
                     agentBoot, resume>>
      /\ phase = "closing" /\ linked' = FALSE /\ wire' = <<>>
      /\ phase' \in {"backoff", "failed", "stopped"}
      /\ phase' = "backoff" => attempt' = attempt + 1
      /\ attempt' \in {attempt, attempt + 1}
  BY DEF DropIngest, Disconnect, telemetryVars, latestVars, streamVars, inboxVars, agentSide
<1>2. generation = attempt + 1 /\ attempt \in Nat
  BY <1>1 DEF GenerationIsOwn, LinkTypeOK
<1>3. connected' = FALSE /\ generationHasSample' \in BOOLEAN
  <2>1. CASE connected
    <3>1. ControlOutcome(Generation) = "Accepted"
      BY <1>2, <2>1 DEF ControlOutcome, Generation
    <3> QED
      BY <3>1 DEF DropIngest, Disconnect
  <2>2. CASE ~connected
    <3>1. ControlOutcome(Generation) # "Accepted"
      BY <2>2 DEF ControlOutcome
    <3>2. UNCHANGED <<connected, generationHasSample>>
      BY <3>1 DEF DropIngest, inboxVars
    <3> QED
      BY <2>2, <3>2, Zenon DEF LinkTypeOK
  <2> QED
    BY <2>1, <2>2
<1>4. <<>> \in Seq(Values)
  OBVIOUS
<1>5. LinkTypeOK' /\ AgentIsLinked'
  BY <1>1, <1>2, <1>3, <1>4 DEF LinkTypeOK, AgentIsLinked, OutsideSession
<1>6. GenerationIsOwn' /\ SessionOverMeansClosed'
  <2>1. phase' \notin InSession \cup {"closing"}
    BY <1>1 DEF InSession
  <2>2. phase' \in OutsideSession => generation' <= attempt'
    <3>1. phase' \in OutsideSession => attempt' = attempt + 1
      BY <1>1 DEF OutsideSession
    <3> QED
      BY <1>1, <1>2, <3>1
  <2> QED
    BY <1>3, <2>1, <2>2, Zenon DEF GenerationIsOwn, SessionOverMeansClosed
<1>7. ResumeIsInbox'
  BY <1>1 DEF ResumeIsInbox
<1>8. OneBootPerSession'
  BY <1>1 DEF OneBootPerSession, InSession
<1> QED
  BY <1>5, <1>6, <1>7, <1>8

LEMMA LinkStutters ==
  ASSUME LinkInv, UNCHANGED sessionVars
  PROVE  LinkInv'
<1>1. UNCHANGED <<lSequence, signal, cursor, generation, connected, generationHasSample, activeBoot,
                  lastSequence, lastReceived, agentBoot, phase, attempt, resume, linked, wire>>
  BY DEF sessionVars, telemetryVars, latestVars, streamVars, inboxVars, agentSide, clientVars
<1>2. ASSUME NEW b, WireIsFresh(b) PROVE WireIsFresh(b)'
  BY <1>1, <1>2, WireStays
<1>3. LinkTypeOK' /\ AgentIsLinked'
  BY <1>1 DEF LinkInv, LinkTypeOK, AgentIsLinked
<1>4. GenerationIsOwn' /\ ResumeIsInbox' /\ SessionOverMeansClosed'
  BY <1>1 DEF LinkInv, GenerationIsOwn, ResumeIsInbox, SessionOverMeansClosed
<1>5. OneBootPerSession'
  BY <1>1, <1>2 DEF LinkInv, OneBootPerSession
<1> QED
  BY <1>3, <1>4, <1>5 DEF LinkInv

\* The inductive invariant of agent, stream, wire, client and inbox: the two
\* cursors and the wire between them are of the one boot the session is
\* connected to, and in order.
THEOREM LinkInvariant == ASSUME ClientSubscribes PROVE SessionSpec => []LinkInv
<1>1. SessionInit => LinkInv
  BY LinkStarts
<1>2. LinkInv /\ [SessionNext]_sessionVars => LinkInv'
  BY MovesKeep, AgentKeeps, StreamKeeps, OpenKeeps, EndsKeep, OpenStreamKeeps, ReceiveKeeps,
     DropKeeps, LinkStutters DEF SessionNext, ClientStep
<1> QED
  BY <1>1, <1>2, PTL DEF SessionSpec

\* A session that is over is closed in the inbox, a reconnect resumes exactly
\* where the inbox is, a position is turned down only by the filter of retired
\* boots, and a reconnect only for lack of room: client.rs and publisher.rs
\* deliver in order across crashes, reconnects and cancellation.
THEOREM SessionAlwaysInStep == ASSUME ClientSubscribes PROVE SessionSpec => []SessionInStep
<1>1. LinkInv => SessionInStep
  <2> SUFFICES ASSUME LinkInv PROVE SessionInStep
    OBVIOUS
  <2>1. OnlyTheFilterRefuses
    BY HeadIsAccepted DEF OnlyTheFilterRefuses
  <2>2. GenerationsNeverCollide
    BY DEF GenerationsNeverCollide, ConnectOutcome, Generation, LinkInv, LinkTypeOK,
       GenerationIsOwn, OutsideSession
  <2>3. ResumeFollowsInbox
    BY DEF ResumeFollowsInbox, LinkInv, ResumeIsInbox
  <2> QED
    BY <2>1, <2>2, <2>3 DEF SessionInStep, LinkInv
<1> QED
  BY <1>1, LinkInvariant, PTL

-----------------------------------------------------------------------------
(* The binding to the game's process: a handle pins its process, so the    *)
(* hash taken through one open of the image is of the image that is read.  *)

LEMMA BindingInitial == BindingInit => BindingInv
<1> SUFFICES ASSUME BindingInit PROVE BindingInv
  OBVIOUS
<1> USE BindingAssumption DEF BindingAssumption, BindingInit, Idle
<1>1. BindingTypeOK
  BY DEF BindingTypeOK
<1>2. Running = {} /\ Pinned = {}
  BY DEF Running, Pinned
<1>3. IdentifiersDiffer /\ GamesRunTheImage
  BY <1>2 DEF IdentifiersDiffer, GamesRunTheImage
<1>4. GuardPins /\ HashIsOfTheImage /\ WorkerFollowsTracked /\ ReaderPins
  BY DEF GuardPins, HashIsOfTheImage, WorkerFollowsTracked, ReaderPins
<1> QED
  BY <1>1, <1>3, <1>4 DEF BindingInv

\* A process that has an identifier at all, in terms of its record.
LEMMA ProcessFacts ==
  ASSUME BindingInv, NEW i \in Running \cup Pinned
  PROVE  i \in Instances /\ proc[i] \in Processes /\ proc[i] # None
<1> USE BindingAssumption DEF BindingAssumption, BindingInv
<1>1. i \in Instances /\ proc[i] # None
  BY DEF Running, Pinned, GuardPins, ReaderPins
<1> QED
  BY <1>1 DEF BindingTypeOK

\* Steps of tracker and worker leave the world alone; a handle they open is to
\* a process that ran or was pinned.
LEMMA WorldStands ==
  ASSUME BindingInv, UNCHANGED <<proc, image>>, Pinned' \subseteq Running \cup Pinned
  PROVE  IdentifiersDiffer' /\ GamesRunTheImage'
<1>1. Running' = Running
  BY DEF Running
<1>2. IdentifiersDiffer'
  BY <1>1 DEF BindingInv, IdentifiersDiffer
<1>3. GamesRunTheImage'
  BY <1>1 DEF BindingInv, GamesRunTheImage
<1> QED
  BY <1>2, <1>3

LEMMA PinsStand ==
  ASSUME UNCHANGED <<binder, reader>>
  PROVE  Pinned' = Pinned
  BY DEF Pinned

-----------------------------------------------------------------------------
(* The world's steps.                                                      *)

LEMMA StartKeeps ==
  ASSUME BindingInv, NEW i \in Instances, NEW pid \in Pids, NEW path \in Paths,
         Start(i, pid, path)
  PROVE  BindingInv'
<1> USE BindingAssumption DEF BindingAssumption, BindingInv
<1> DEFINE p == [pid |-> pid, path |-> path, build |-> image.build, alive |-> TRUE]
<1>1. /\ proc[i] = None /\ proc' = [proc EXCEPT ![i] = p]
      /\ pid \notin PidsInUse
      /\ path = "game" => ~image.writing
      /\ UNCHANGED <<image, manifest, tracked, verified, bindCancelled, binder, reader>>
  BY DEF Start
<1>2. p \in Processes
  BY DEF Processes, BindingTypeOK
<1>3. BindingTypeOK'
  BY <1>1, <1>2 DEF BindingTypeOK
<1>4. i \notin Running \cup Pinned
  BY <1>1, ProcessFacts
<1>5. /\ proc'[i] = p
      /\ \A j \in Instances : j # i => proc'[j] = proc[j]
  BY <1>1 DEF BindingTypeOK
<1>6. p # None /\ p.pid = pid /\ p.path = path /\ p.build = image.build /\ p.alive
  BY <1>2
<1> HIDE DEF p
<1>7. Running' \subseteq Running \cup {i} /\ Pinned' = Pinned
  <2>1. \A j \in Instances : j # i => (j \in Running' <=> j \in Running)
    BY <1>5 DEF Running
  <2> QED
    BY <1>1, <2>1, PinsStand DEF Running
<1>8. \A j \in Running \cup Pinned : j \in Instances /\ proc'[j] = proc[j] /\ proc'[j].pid # pid
  <2> TAKE j \in Running \cup Pinned
  <2>1. j \in Instances /\ j # i /\ proc'[j] = proc[j]
    BY <1>4, <1>5, ProcessFacts
  <2>2. proc[j].pid # pid
    BY <1>1 DEF PidsInUse
  <2> QED
    BY <2>1, <2>2
<1>9. IdentifiersDiffer'
  <2> SUFFICES ASSUME NEW j \in Running' \cup Pinned', NEW k \in Running' \cup Pinned',
                      proc'[j].pid = proc'[k].pid
               PROVE  j = k
    BY DEF IdentifiersDiffer
  <2>1. j \in Running \cup Pinned \cup {i} /\ k \in Running \cup Pinned \cup {i}
    BY <1>7
  <2>2. CASE j # i /\ k # i
    BY <1>8, <2>1, <2>2 DEF IdentifiersDiffer
  <2>3. CASE j = i \/ k = i
    BY <1>5, <1>6, <1>8, <2>1, <2>3
  <2> QED
    BY <2>2, <2>3
<1>10. GamesRunTheImage'
  BY <1>1, <1>5, <1>6, <1>7, <1>8 DEF GamesRunTheImage
<1>11. /\ binder.guard # None => proc'[binder.guard] = proc[binder.guard]
       /\ reader # None => proc'[reader.process] = proc[reader.process]
  <2>1. binder.guard # None => binder.guard \in Pinned
    BY DEF Pinned, BindingTypeOK
  <2>2. reader # None => reader.process \in Pinned
    BY DEF Pinned, BindingTypeOK, Readers
  <2> QED
    BY <1>8, <2>1, <2>2
<1>12. GuardPins' /\ ReaderPins'
  BY <1>1, <1>11 DEF GuardPins, ReaderPins
<1>13. HashIsOfTheImage' /\ WorkerFollowsTracked'
  BY <1>1 DEF HashIsOfTheImage, WorkerFollowsTracked
<1> QED
  BY <1>3, <1>9, <1>10, <1>12, <1>13

LEMMA ExitKeeps ==
  ASSUME BindingInv, NEW i \in Instances, ProcessExits(i)
  PROVE  BindingInv'
<1> USE BindingAssumption DEF BindingAssumption, BindingInv
<1> DEFINE p == [proc[i] EXCEPT !.alive = FALSE]
<1>1. /\ i \in Running /\ proc' = [proc EXCEPT ![i] = p]
      /\ UNCHANGED <<image, manifest, tracked, verified, bindCancelled, binder, reader>>
  BY DEF ProcessExits
<1>2. /\ p \in Processes
      /\ p # None
      /\ p.pid = proc[i].pid /\ p.path = proc[i].path /\ p.build = proc[i].build /\ ~p.alive
  BY <1>1, ProcessFacts DEF Processes
<1> HIDE DEF p
<1>3. BindingTypeOK'
  BY <1>1, <1>2 DEF BindingTypeOK
<1>4. /\ proc'[i] = p
      /\ \A j \in Instances : j # i => proc'[j] = proc[j]
  BY <1>1 DEF BindingTypeOK
<1>5. \A j \in Instances :
        /\ proc[j] # None => proc'[j] # None
        /\ proc'[j].pid = proc[j].pid /\ proc'[j].path = proc[j].path
        /\ proc'[j].build = proc[j].build
  BY <1>2, <1>4
<1>6. Running' \subseteq Running /\ Pinned' = Pinned
  <2>1. \A j \in Instances : j \in Running' => j \in Running
    BY <1>1, <1>4 DEF Running
  <2> QED
    BY <1>1, <2>1, PinsStand DEF Running
<1>7. IdentifiersDiffer'
  BY <1>5, <1>6, ProcessFacts DEF IdentifiersDiffer
<1>8. GamesRunTheImage'
  BY <1>1, <1>5, <1>6, ProcessFacts DEF GamesRunTheImage
<1>9. GuardPins' /\ ReaderPins'
  BY <1>1, <1>5 DEF GuardPins, ReaderPins, BindingTypeOK, Readers
<1>10. HashIsOfTheImage' /\ WorkerFollowsTracked'
  BY <1>1 DEF HashIsOfTheImage, WorkerFollowsTracked
<1> QED
  BY <1>3, <1>7, <1>8, <1>9, <1>10

LEMMA UpdateKeeps ==
  ASSUME BindingInv, UpdateBegins \/ UpdateEnds
  PROVE  BindingInv'
<1> USE DEF BindingInv
<1>1. UNCHANGED <<proc, image, tracked, verified, bindCancelled, binder, reader>>
  BY DEF UpdateBegins, UpdateEnds
<1>2. manifest' \in [build : Builds, installed : BOOLEAN]
  <2>1. /\ manifest \in [build : Builds, installed : BOOLEAN]
        /\ image.build \in Builds
    BY DEF BindingTypeOK
  <2>2. CASE UpdateBegins
    BY <2>1, <2>2 DEF UpdateBegins
  <2>3. CASE UpdateEnds
    BY <2>1, <2>3 DEF UpdateEnds
  <2> QED
    BY <2>2, <2>3
<1>3. BindingTypeOK'
  BY <1>1, <1>2 DEF BindingTypeOK
<1>4. IdentifiersDiffer' /\ GamesRunTheImage'
  BY <1>1, PinsStand, WorldStands
<1>5. GuardPins' /\ HashIsOfTheImage' /\ WorkerFollowsTracked' /\ ReaderPins'
  BY <1>1 DEF GuardPins, HashIsOfTheImage, WorkerFollowsTracked, ReaderPins
<1> QED
  BY <1>3, <1>4, <1>5

LEMMA ImageWrittenKeeps ==
  ASSUME BindingInv, NEW build \in Builds, ImageWritten(build)
  PROVE  BindingInv'
<1> USE DEF BindingInv
<1>1. UNCHANGED <<proc, manifest, tracked, verified, bindCancelled, binder, reader>>
  BY DEF ImageWritten
<1>2. image' \in [build : Builds, writing : BOOLEAN]
  <2>1. image \in [build : Builds, writing : BOOLEAN]
    BY DEF BindingTypeOK
  <2>2. CASE image' = [build |-> build, writing |-> TRUE]
    BY <2>2
  <2>3. CASE image' = [image EXCEPT !.writing = FALSE]
    BY <2>1, <2>3
  <2> QED
    BY <2>2, <2>3 DEF ImageWritten
<1>3. BindingTypeOK'
  BY <1>1, <1>2 DEF BindingTypeOK
<1>4. Running' = Running /\ Pinned' = Pinned
  BY <1>1, PinsStand DEF Running
<1>5. IdentifiersDiffer'
  BY <1>1, <1>4 DEF IdentifiersDiffer
\* A file that is written, or held open, is no running game's image.
<1>6. \A i \in Running : proc[i].path # "game"
  BY DEF ImageWritten, GamesRunTheImage
<1>7. reader = None /\ binder.step \notin {"hash", "open"}
  BY DEF ImageWritten, ImageHeld, HashIsOfTheImage, ReaderPins
<1>8. GamesRunTheImage' /\ HashIsOfTheImage' /\ ReaderPins'
  BY <1>1, <1>4, <1>6, <1>7 DEF GamesRunTheImage, HashIsOfTheImage, ReaderPins
<1>9. GuardPins' /\ WorkerFollowsTracked'
  BY <1>1 DEF GuardPins, WorkerFollowsTracked
<1> QED
  BY <1>3, <1>5, <1>8, <1>9

-----------------------------------------------------------------------------
(* The tracker's and the worker's steps.                                   *)

\* The worker gives up: its handles are closed.
LEMMA FailKeeps ==
  ASSUME BindingInv, Fail, binder.step # "idle",
         UNCHANGED <<proc, image, manifest, tracked, verified, bindCancelled, reader>>
  PROVE  BindingInv'
<1> USE DEF BindingInv
<1>1. binder' = [step |-> "failed", pid |-> None, guard |-> None, chunks |-> 0, seen |-> {}]
  BY DEF Fail, Idle
<1>2. reader = None
  BY DEF ReaderPins
<1>3. BindingTypeOK'
  BY <1>1 DEF BindingTypeOK
<1>4. Pinned' \subseteq Running \cup Pinned
  BY <1>1, <1>2, BindingAssumption DEF Pinned, BindingAssumption
<1>5. GuardPins' /\ HashIsOfTheImage' /\ WorkerFollowsTracked' /\ ReaderPins'
  BY <1>1, <1>2 DEF GuardPins, HashIsOfTheImage, WorkerFollowsTracked, ReaderPins
<1> QED
  BY <1>3, <1>4, <1>5, WorldStands

LEMMA TrackerKeeps ==
  ASSUME BindingInv, (\E i \in Instances : Track(i)) \/ VerifyClient \/ Untrack
  PROVE  BindingInv'
<1> USE DEF BindingInv
<1>1. UNCHANGED <<proc, image, manifest, binder>>
  BY DEF Track, VerifyClient, Untrack
<1>2. ASSUME NEW i \in Instances, Track(i) PROVE BindingInv'
  <2>1. tracked' = [pid |-> proc[i].pid, path |-> "game"] /\ proc[i] \in Processes
    BY <1>2, ProcessFacts DEF Track
  <2>2. tracked' \in Targets
    BY <2>1 DEF Targets, Processes
  <2>3. /\ binder.step = "idle" /\ reader = None
        /\ UNCHANGED <<verified, bindCancelled, reader>>
    BY <1>2 DEF Track, ReaderPins
  <2>4. BindingTypeOK'
    BY <1>1, <2>2, <2>3 DEF BindingTypeOK
  <2>5. IdentifiersDiffer' /\ GamesRunTheImage'
    BY <1>1, <2>3, PinsStand, WorldStands
  <2>6. GuardPins' /\ HashIsOfTheImage' /\ WorkerFollowsTracked' /\ ReaderPins'
    BY <1>1, <2>3 DEF GuardPins, HashIsOfTheImage, WorkerFollowsTracked, ReaderPins
  <2> QED
    BY <2>4, <2>5, <2>6
<1>3. CASE VerifyClient
  <2>1. verified' = tracked /\ UNCHANGED <<tracked, bindCancelled, reader>>
    BY <1>3 DEF VerifyClient
  <2>2. BindingTypeOK'
    BY <1>1, <2>1 DEF BindingTypeOK
  <2>3. IdentifiersDiffer' /\ GamesRunTheImage'
    BY <1>1, <2>1, PinsStand, WorldStands
  <2>4. GuardPins' /\ HashIsOfTheImage' /\ WorkerFollowsTracked' /\ ReaderPins'
    BY <1>1, <2>1 DEF GuardPins, HashIsOfTheImage, WorkerFollowsTracked, ReaderPins
  <2> QED
    BY <2>2, <2>3, <2>4
<1>4. CASE Untrack
  <2>1. /\ tracked' = None /\ verified' = None /\ reader' = None
        /\ bindCancelled' = (binder.step \notin {"idle", "failed"})
    BY <1>4 DEF Untrack
  <2>2. BindingTypeOK'
    BY <1>1, <2>1 DEF BindingTypeOK
  <2>3. Pinned' \subseteq Running \cup Pinned
    BY <1>1, <2>1 DEF Pinned
  <2>4. GuardPins' /\ HashIsOfTheImage' /\ WorkerFollowsTracked' /\ ReaderPins'
    BY <1>1, <2>1 DEF GuardPins, HashIsOfTheImage, WorkerFollowsTracked, ReaderPins
  <2> QED
    BY <1>1, <2>2, <2>3, <2>4, WorldStands
<1> QED
  BY <1>2, <1>3, <1>4

\* A worker's step that neither opens nor closes the guard's handle.
LEMMA WorkerKeeps ==
  ASSUME BindingInv, BeginBinding \/ OpenImage \/ HashChunk \/ CompareHash \/ Clear
  PROVE  BindingInv'
<1> USE DEF BindingInv
<1>1. UNCHANGED <<proc, image, manifest, tracked, verified, reader>>
  BY DEF BeginBinding, OpenImage, HashChunk, CompareHash, Clear
<1>2. ASSUME binder.step # "idle",
             binder' \in [step : {"image", "hash", "open"}, pid : {binder.pid},
                          guard : {binder.guard}, chunks : Nat, seen : SUBSET Builds],
             binder.guard # None, UNCHANGED bindCancelled, HashIsOfTheImage'
      PROVE  BindingInv'
  <2>1. /\ binder'.pid = binder.pid /\ binder'.guard = binder.guard
        /\ binder'.step \in {"image", "hash", "open"}
    BY <1>2
  <2>2. reader = None /\ binder.step \in {"image", "hash", "open"}
    BY <1>2 DEF ReaderPins, GuardPins
  <2>3. BindingTypeOK'
    BY <1>1, <1>2 DEF BindingTypeOK
  <2>4. Pinned' \subseteq Running \cup Pinned
    BY <1>1, <2>1 DEF Pinned
  <2>5. GuardPins' /\ WorkerFollowsTracked' /\ ReaderPins'
    BY <1>1, <1>2, <2>1, <2>2 DEF GuardPins, WorkerFollowsTracked, ReaderPins
  <2> QED
    BY <1>1, <1>2, <2>3, <2>4, <2>5, WorldStands
<1>3. CASE BeginBinding
  <2>1. /\ binder.step = "idle" /\ tracked # None /\ reader = None
        /\ binder' = [binder EXCEPT !.step = "guard", !.pid = tracked.pid]
        /\ UNCHANGED bindCancelled
    BY <1>3 DEF BeginBinding
  <2>2. tracked.pid \in Pids
    BY <2>1 DEF BindingTypeOK, Targets
  <2>3. /\ binder'.step = "guard" /\ binder'.pid = tracked.pid
        /\ binder'.guard = binder.guard /\ binder'.seen = binder.seen
    BY <2>1 DEF BindingTypeOK
  <2>4. BindingTypeOK'
    BY <1>1, <2>1, <2>2 DEF BindingTypeOK
  <2>5. Pinned' \subseteq Running \cup Pinned
    BY <1>1, <2>3 DEF Pinned
  <2>6. GuardPins' /\ HashIsOfTheImage' /\ WorkerFollowsTracked' /\ ReaderPins'
    BY <1>1, <2>1, <2>3 DEF GuardPins, HashIsOfTheImage, WorkerFollowsTracked, ReaderPins
  <2> QED
    BY <1>1, <2>4, <2>5, <2>6, WorldStands
<1>4. CASE OpenImage
  <2>1. CASE bindCancelled \/ image.writing
    BY <1>4, <2>1, FailKeeps DEF OpenImage
  <2>2. CASE ~bindCancelled /\ ~image.writing
    <3>1. /\ binder.step = "image" /\ binder' = [binder EXCEPT !.step = "hash"]
          /\ UNCHANGED bindCancelled
      BY <1>4, <2>2 DEF OpenImage
    <3>2. binder.guard # None
      BY <3>1 DEF GuardPins
    <3>3. HashIsOfTheImage'
      BY <1>1, <2>2, <3>1 DEF HashIsOfTheImage, BindingTypeOK
    <3> QED
      BY <1>2, <3>1, <3>2, <3>3 DEF BindingTypeOK
  <2> QED
    BY <2>1, <2>2
<1>5. CASE HashChunk
  <2>1. CASE bindCancelled
    BY <1>5, <2>1, FailKeeps DEF HashChunk
  <2>2. CASE ~bindCancelled
    <3>1. /\ binder.step = "hash"
          /\ binder' = [binder EXCEPT !.chunks = @ + 1, !.seen = @ \cup {image.build}]
          /\ UNCHANGED bindCancelled
      BY <1>5, <2>2 DEF HashChunk
    <3>2. binder.guard # None
      BY <3>1 DEF GuardPins
    <3>3. /\ image.build \in Builds
          /\ binder'.step = "hash" /\ binder'.seen = binder.seen \cup {image.build}
      BY <3>1 DEF BindingTypeOK
    <3>4. HashIsOfTheImage'
      BY <1>1, <3>1, <3>3 DEF HashIsOfTheImage
    <3>5. /\ binder.chunks + 1 \in Nat
          /\ binder.seen \cup {image.build} \in SUBSET Builds
      BY <3>3 DEF BindingTypeOK
    <3>6. binder' \in [step : {"image", "hash", "open"}, pid : {binder.pid},
                       guard : {binder.guard}, chunks : Nat, seen : SUBSET Builds]
      BY <3>1, <3>5 DEF BindingTypeOK
    <3> QED
      BY <1>2, <3>1, <3>2, <3>4, <3>6
  <2> QED
    BY <2>1, <2>2
<1>6. CASE CompareHash
  <2>1. CASE ~(HashMatches /\ ~bindCancelled)
    BY <1>6, <2>1, FailKeeps DEF CompareHash
  <2>2. CASE HashMatches /\ ~bindCancelled
    <3>1. /\ binder.step = "hash" /\ binder' = [binder EXCEPT !.step = "open"]
          /\ UNCHANGED bindCancelled
      BY <1>6, <2>2 DEF CompareHash
    <3>2. binder.guard # None
      BY <3>1 DEF GuardPins
    <3>3. binder'.step = "open" /\ binder'.seen = binder.seen
      BY <3>1 DEF BindingTypeOK
    <3>4. image.build = Profile
      BY <2>2, <3>1 DEF HashMatches, HashIsOfTheImage
    <3>5. HashIsOfTheImage'
      BY <1>1, <3>1, <3>3, <3>4 DEF HashIsOfTheImage
    <3> QED
      BY <1>2, <3>1, <3>2, <3>5 DEF BindingTypeOK
  <2> QED
    BY <2>1, <2>2
<1>7. CASE Clear
  <2>1. /\ binder.step \in {"failed", "idle"} /\ bindCancelled' = FALSE
        /\ binder' = [step |-> "idle", pid |-> None, guard |-> None, chunks |-> 0, seen |-> {}]
    BY <1>7 DEF Clear, Idle
  <2>2. BindingTypeOK'
    BY <1>1, <2>1 DEF BindingTypeOK
  <2>3. Pinned' \subseteq Running \cup Pinned
    BY <1>1, <2>1, BindingAssumption DEF Pinned, BindingAssumption
  <2>4. GuardPins' /\ HashIsOfTheImage' /\ WorkerFollowsTracked' /\ ReaderPins'
    BY <1>1, <2>1 DEF GuardPins, HashIsOfTheImage, WorkerFollowsTracked, ReaderPins
  <2> QED
    BY <1>1, <2>2, <2>3, <2>4, WorldStands
<1> QED
  BY <1>3, <1>4, <1>5, <1>6, <1>7

LEMMA OpenGuardKeeps ==
  ASSUME BindingInv, OpenGuard
  PROVE  BindingInv'
<1> USE DEF BindingInv
<1>1. /\ binder.step = "guard" /\ reader = None
      /\ UNCHANGED <<proc, image, manifest, tracked, verified, bindCancelled, reader>>
  BY DEF OpenGuard, ReaderPins
<1>2. CASE Fail
  BY <1>1, <1>2, FailKeeps
<1>3. ASSUME NEW i \in Opened(binder.pid), Revalidate(i),
             binder' = [binder EXCEPT !.step = "image", !.guard = i]
      PROVE  BindingInv'
  <2>1. i \in Running \cup Pinned /\ proc[i].pid = binder.pid /\ proc[i].path = "game"
    BY <1>3 DEF Opened, Revalidate
  <2>2. i \in Instances /\ i # None /\ proc[i] # None
    BY <2>1, ProcessFacts, BindingAssumption DEF BindingAssumption
  <2>3. /\ binder'.step = "image" /\ binder'.guard = i
        /\ binder'.pid = binder.pid /\ binder'.seen = binder.seen
    BY <1>3 DEF BindingTypeOK
  <2>4. BindingTypeOK'
    BY <1>1, <1>3, <2>2 DEF BindingTypeOK
  <2>5. Pinned' \subseteq Running \cup Pinned
    BY <1>1, <2>1, <2>3 DEF Pinned
  <2>6. GuardPins' /\ HashIsOfTheImage' /\ WorkerFollowsTracked' /\ ReaderPins'
    BY <1>1, <2>1, <2>2, <2>3
       DEF GuardPins, HashIsOfTheImage, WorkerFollowsTracked, ReaderPins
  <2> QED
    BY <1>1, <2>4, <2>5, <2>6, WorldStands
<1> QED
  BY <1>2, <1>3 DEF OpenGuard

\* Both handles are of the guarded process, which still runs: its executable
\* is the one that was hashed.
LEMMA OpenReaderKeeps ==
  ASSUME BindingInv, OpenReader
  PROVE  BindingInv'
<1> USE DEF BindingInv
<1>1. /\ binder.step = "open" /\ reader = None
      /\ UNCHANGED <<proc, image, manifest, tracked, verified, bindCancelled>>
  BY DEF OpenReader, ReaderPins
<1>2. CASE Fail /\ UNCHANGED reader
  BY <1>1, <1>2, FailKeeps
<1>3. ASSUME NEW i \in Opened(binder.pid), Revalidate(i), i = binder.guard,
             reader' = IF bindCancelled THEN None ELSE [process |-> i, session |-> "none"],
             binder' = Idle
      PROVE  BindingInv'
  <2>1. binder' = [step |-> "idle", pid |-> None, guard |-> None, chunks |-> 0, seen |-> {}]
    BY <1>3 DEF Idle
  <2>2. i \in Running \cup Pinned /\ proc[i].pid = binder.pid /\ proc[i].path = "game"
    BY <1>3 DEF Opened, Revalidate
  <2>3. i \in Instances /\ proc[i] # None /\ i \in Running
    BY <1>3, <2>2, ProcessFacts DEF Running, Revalidate
  <2>4. proc[i].build = Profile /\ image.build = Profile /\ ~image.writing
    BY <1>1, <2>2, <2>3 DEF GamesRunTheImage, HashIsOfTheImage
  <2>5. CASE bindCancelled
    <3>1. reader' = None
      BY <1>3, <2>5
    <3>2. BindingTypeOK'
      BY <1>1, <2>1, <3>1 DEF BindingTypeOK
    <3>3. Pinned' \subseteq Running \cup Pinned
      BY <2>1, <3>1, BindingAssumption DEF Pinned, BindingAssumption
    <3>4. GuardPins' /\ HashIsOfTheImage' /\ WorkerFollowsTracked' /\ ReaderPins'
      BY <2>1, <3>1 DEF GuardPins, HashIsOfTheImage, WorkerFollowsTracked, ReaderPins
    <3> QED
      BY <1>1, <3>2, <3>3, <3>4, WorldStands
  <2>6. CASE ~bindCancelled
    <3>1. reader' = [process |-> i, session |-> "none"] /\ reader' \in Readers
      BY <1>3, <2>3, <2>6 DEF Readers
    <3>2. tracked # None /\ tracked.pid = binder.pid
      BY <1>1, <2>6 DEF WorkerFollowsTracked
    <3>3. BindingTypeOK'
      BY <1>1, <2>1, <3>1 DEF BindingTypeOK
    <3>4. Pinned' \subseteq Running \cup Pinned
      BY <2>1, <2>2, <3>1, BindingAssumption DEF Pinned, BindingAssumption
    <3>5. GuardPins' /\ HashIsOfTheImage' /\ WorkerFollowsTracked'
      BY <2>1 DEF GuardPins, HashIsOfTheImage, WorkerFollowsTracked
    <3>6. ReaderPins'
      BY <1>1, <2>1, <2>2, <2>3, <2>4, <3>1, <3>2 DEF ReaderPins
    <3> QED
      BY <1>1, <3>3, <3>4, <3>5, <3>6, WorldStands
  <2> QED
    BY <2>5, <2>6
<1> QED
  BY <1>2, <1>3 DEF OpenReader

LEMMA SessionKeeps ==
  ASSUME BindingInv, BeginSession \/ EndSession
  PROVE  BindingInv'
<1> USE DEF BindingInv
<1>1. reader # None /\ reader \in Readers
      /\ UNCHANGED <<proc, image, manifest, tracked, verified, bindCancelled, binder>>
  BY DEF BeginSession, EndSession, BindingTypeOK
<1>2. reader' = None \/ (reader' \in Readers /\ reader'.process = reader.process)
  BY <1>1 DEF BeginSession, EndSession, Readers
<1>3. BindingTypeOK'
  BY <1>1, <1>2 DEF BindingTypeOK
<1>4. Pinned' \subseteq Running \cup Pinned
  BY <1>1, <1>2 DEF Pinned
<1>5. GuardPins' /\ HashIsOfTheImage' /\ WorkerFollowsTracked' /\ ReaderPins'
  BY <1>1, <1>2 DEF GuardPins, HashIsOfTheImage, WorkerFollowsTracked, ReaderPins
<1> QED
  BY <1>1, <1>3, <1>4, <1>5, WorldStands

LEMMA BindingStep == BindingInv /\ [BindingNext]_bindingVars => BindingInv'
<1> SUFFICES ASSUME BindingInv, [BindingNext]_bindingVars PROVE BindingInv'
  OBVIOUS
<1>1. CASE UNCHANGED bindingVars
  <2>1. UNCHANGED <<proc, image, manifest, tracked, verified, bindCancelled, binder, reader>>
    BY <1>1 DEF bindingVars
  <2>2. IdentifiersDiffer' /\ GamesRunTheImage'
    BY <2>1, PinsStand, WorldStands
  <2> QED
    BY <2>1, <2>2 DEF BindingInv, BindingTypeOK, GuardPins, HashIsOfTheImage,
                      WorkerFollowsTracked, ReaderPins
<1>2. CASE BindingNext
  BY <1>2, StartKeeps, ExitKeeps, UpdateKeeps, ImageWrittenKeeps, TrackerKeeps,
     WorkerKeeps, OpenGuardKeeps, OpenReaderKeeps, SessionKeeps
     DEF BindingNext
<1> QED
  BY <1>1, <1>2

\* A handle pins its process and its identifier, a held image is not written:
\* what the worker found out stays true step by step until it opens the reader,
\* and as long as that is open.
THEOREM BindingInvariant == BindingSpec => []BindingInv
  BY BindingInitial, BindingStep, PTL DEF BindingSpec

\* A reader is bound to the tracked game, to the hashed executable and to the
\* build whose memory layout is known, for any number of processes,
\* identifiers and builds and whenever Steam, the game and the user act.
THEOREM ReaderAlwaysBound == BindingSpec => []ReaderIsBound
<1>1. ASSUME BindingInv PROVE ReaderIsBound
  <2> USE <1>1 DEF BindingInv
  <2>1. BoundRunsTheProfile
    BY DEF BoundRunsTheProfile, ReaderPins
  <2>2. ImageStaysHashed
    <3>1. image \in [build : Builds, writing : BOOLEAN]
      BY DEF BindingTypeOK
    <3> QED
      BY <3>1 DEF ImageStaysHashed, ReaderPins
  <2>3. ReadsTheTracked
    <3> SUFFICES ASSUME reader # None, tracked # None, NEW i \in Running,
                        proc[i].pid = tracked.pid
                 PROVE  proc[reader.process].alive /\ proc[reader.process].pid = tracked.pid
      BY DEF ReadsTheTracked
    <3>1. proc[reader.process].pid = tracked.pid
      BY DEF ReaderPins
    <3>2. reader.process \in Pinned
      BY DEF Pinned, BindingTypeOK, Readers
    <3>3. i = reader.process
      BY <3>1, <3>2 DEF IdentifiersDiffer
    <3> QED
      BY <3>1, <3>3 DEF Running
  <2> QED
    BY <2>1, <2>2, <2>3 DEF ReaderIsBound
<1> QED
  BY <1>1, BindingInvariant, PTL

-----------------------------------------------------------------------------
(* The start of the agent: how it comes to trust the game server.  The       *)
(* argument: a handle keeps the identifier of its process from being used    *)
(* again, so that every later check by identifier is about that process.     *)

\* The system process has identifier 0; no other has.
PidsAreNotZero == 0 \notin ServerPids

Started == 1 .. Len(inst)

\* Where run() holds a handle, knows its identity, has bound the profile to it,
\* and talks over a connection it has verified.
HandleOpen == {"image", "active", "owner2", "bind", "guard", "process", "process2", "listener",
           "listener2", "connect", "verify", "verified", "send", "answer", "finalize", "serving"}
Identified == HandleOpen \ {"image"}
Bound == Identified \ {"active", "owner2", "bind"}
Verified == {"verified", "send", "answer"}

StartupTypeOK ==
  /\ inst \in Seq([pid : ServerPids, image : Images])
  /\ alive \subseteq Started
  /\ listener \in alive \cup {0} /\ handle \in Started \cup {0} /\ conn \in Started \cup {0}
  /\ sent \subseteq Started
  /\ approved \in BOOLEAN
  /\ pc \in HandleOpen \cup Ended \cup {"preverify", "owner1", "open"}

\* While a process runs, no other that runs or is held open has its identifier.
PidsDiffer ==
  \A i \in alive, j \in alive \cup ({handle} \ {0}) : inst[i].pid = inst[j].pid => i = j

\* What run() has established is about the process behind its handle.
HandleIsAttested ==
  /\ pc \in HandleOpen => handle # 0 /\ inst[handle].pid = profile.pid /\ profile.signed
  /\ pc \in {"owner1", "open"} => profile.signed
  /\ pc \in Identified =>
       identity = [pid |-> inst[handle].pid, created |-> handle, image |-> inst[handle].image]
  /\ pc \in Bound => Attested(handle)
  /\ pc \in Verified => conn = handle
  /\ ~approved /\ pc \in {"process2", "listener2", "finalize"} => info.from = handle

\* What the run has sent, and to whom.
SentIsSafe == SignedBeforeSent /\ CredentialsReachAttested

StartupInv == StartupTypeOK /\ PidsDiffer /\ HandleIsAttested /\ SentIsSafe

LEMMA StartupStarts == ASSUME StartupInit PROVE StartupInv
<1>1. StartupTypeOK
  <2>1. inst \in Seq([pid : ServerPids, image : Images])
    BY EmptySeq DEF StartupInit
  <2> QED
    BY <2>1 DEF StartupInit, StartupTypeOK
<1>2. PidsDiffer /\ SentIsSafe
  BY DEF StartupInit, PidsDiffer, SentIsSafe, SignedBeforeSent,
     CredentialsReachAttested
<1>3. HandleIsAttested
  BY DEF StartupInit, HandleIsAttested, HandleOpen, Identified, Bound, Verified
<1> QED
  BY <1>1, <1>2, <1>3 DEF StartupInv

\* A process that is there keeps its identifier and its image.
LEMMA MachineKeeps == ASSUME PidsAreNotZero, StartupInv, Machine PROVE StartupInv'
<1> USE DEF StartupInv
<1>1. UNCHANGED <<profile, pc, handle, identity, conn, info, approved, sent>>
  BY DEF Machine, ProcessStarts, ServerExits, Listens, Unlistens, TimePasses, runVars
<1>2. ASSUME inst' = inst, alive' \subseteq alive, listener' \in alive' \cup {0}
      PROVE  StartupInv'
  <2>1. StartupTypeOK'
    BY <1>1, <1>2 DEF StartupTypeOK, Started
  <2>2. PidsDiffer'
    BY <1>1, <1>2 DEF PidsDiffer
  <2>3. HandleIsAttested' /\ SentIsSafe'
    BY <1>1, <1>2 DEF HandleIsAttested, SentIsSafe, SignedBeforeSent,
     CredentialsReachAttested, Attested
  <2> QED
    BY <2>1, <2>2, <2>3
<1>3. ASSUME NEW pid \in ServerPids, NEW exe \in Images, ProcessStarts(pid, exe)
      PROVE  StartupInv'
  <2> DEFINE n == Len(inst) + 1
  <2>1. /\ pid \notin PinnedPids /\ alive' = alive \cup {n} /\ listener' = listener
        /\ inst' = Append(inst, [pid |-> pid, image |-> exe])
    BY <1>3 DEF ProcessStarts
  <2>2. inst \in Seq([pid : ServerPids, image : Images]) /\ [pid |-> pid, image |-> exe] \in [pid : ServerPids, image : Images]
    BY DEF StartupTypeOK
  <2>3. /\ inst' \in Seq([pid : ServerPids, image : Images]) /\ Len(inst') = n
        /\ inst'[n] = [pid |-> pid, image |-> exe]
        /\ \A i \in Started : inst'[i] = inst[i]
        /\ Len(inst) \in Nat
    BY <2>1, <2>2, AppendProperties, LenProperties DEF Started
  <2>4. Started' = Started \cup {n} /\ n \notin Started /\ n # 0 /\ 0 \notin Started
    BY <2>3 DEF Started
  <2> HIDE DEF n
  <2>5. StartupTypeOK'
    BY <1>1, <2>1, <2>3, <2>4 DEF StartupTypeOK
  <2>6. PidsDiffer'
    <3>1. \A j \in alive \cup ({handle} \ {0}) : j \in Started /\ inst'[j] = inst[j] /\ inst[j].pid # pid
      BY <2>1, <2>3 DEF PinnedPids, StartupTypeOK
    <3>2. inst'[n].pid = pid
      BY <2>3
    <3> SUFFICES ASSUME NEW i \in alive', NEW j \in alive' \cup ({handle'} \ {0}),
                        inst'[i].pid = inst'[j].pid
                 PROVE  i = j
      BY DEF PidsDiffer
    <3>3. i \in alive \cup {n} /\ j \in alive \cup ({handle} \ {0}) \cup {n}
      BY <1>1, <2>1
    <3>4. i = n => j = n
      BY <3>1, <3>2, <3>3
    <3>5. j = n => i = n
      BY <3>1, <3>2, <3>3
    <3>6. i # n /\ j # n => inst[i].pid = inst[j].pid
      BY <3>1, <3>3
    <3> QED
      BY <3>3, <3>4, <3>5, <3>6 DEF PidsDiffer
  <2>7. handle # 0 => handle \in Started /\ inst'[handle] = inst[handle]
    BY <2>3 DEF StartupTypeOK
  <2>8. HandleIsAttested'
    <3>1. pc \in Bound => pc \in HandleOpen
      BY DEF Bound, Identified
    <3>2. pc \in Identified => pc \in HandleOpen
      BY DEF Identified
    <3> QED
      BY <1>1, <2>7, <3>1, <3>2 DEF HandleIsAttested, Attested
  <2>9. SentIsSafe'
    BY <1>1, <2>3 DEF SentIsSafe, SignedBeforeSent,
     CredentialsReachAttested, Attested, StartupTypeOK
  <2> QED
    BY <2>5, <2>6, <2>8, <2>9
<1>4. ASSUME NEW i \in alive, ServerExits(i) \/ Listens(i)
      PROVE  inst' = inst /\ alive' \subseteq alive /\ listener' \in alive' \cup {0}
  BY <1>4 DEF ServerExits, Listens, StartupTypeOK
<1>5. ASSUME Unlistens \/ TimePasses
      PROVE  inst' = inst /\ alive' \subseteq alive /\ listener' \in alive' \cup {0}
  BY <1>5 DEF Unlistens, TimePasses, StartupTypeOK
<1> QED
  BY <1>2, <1>3, <1>4, <1>5 DEF Machine

\* A check that only lets run() go on, or ends it.
LEMMA ChecksKeep ==
  ASSUME StartupInv,
         UNCHANGED <<osVars, profile, handle, identity, conn, info, approved, sent>>,
         pc' \in HandleOpen \cup Ended \cup {"preverify", "owner1", "open"},
         pc' \in HandleOpen => pc \in HandleOpen,
         pc' \in {"owner1", "open"} => profile.signed,
         pc' \in Identified => pc \in Identified,
         pc' \in Bound => pc \in Bound \/ Attested(handle),
         pc' \in Verified => conn = handle,
         ~approved /\ pc' \in {"process2", "listener2", "finalize"} => info.from = handle
  PROVE  StartupInv'
<1> USE DEF StartupInv
<1>1. UNCHANGED <<inst, alive, listener>>
  BY DEF osVars
<1>2. StartupTypeOK' /\ PidsDiffer'
  BY <1>1 DEF StartupTypeOK, PidsDiffer, Started
<1>3. HandleIsAttested' /\ SentIsSafe'
  BY <1>1 DEF HandleIsAttested, SentIsSafe, SignedBeforeSent,
     CredentialsReachAttested, Attested
<1> QED
  BY <1>2, <1>3

\* The process that runs under the handle's identifier is the handle's.
LEMMA OwnerIsHandle ==
  ASSUME PidsAreNotZero, StartupInv, handle # 0,
         NEW i, OwnerOf(i) = inst[handle].pid
  PROVE  i = handle
<1>1. inst[handle].pid \in ServerPids
  <2>1. inst \in Seq([pid : ServerPids, image : Images]) /\ handle \in 1 .. Len(inst)
    BY DEF StartupInv, StartupTypeOK, Started
  <2>2. inst[handle] \in [pid : ServerPids, image : Images]
    BY <2>1, ElementOfSeq
  <2> QED
    BY <2>2
<1>2. i \in alive /\ inst[i].pid = inst[handle].pid
  BY <1>1 DEF OwnerOf, PidsAreNotZero
<1> QED
  BY <1>2 DEF StartupInv, PidsDiffer

LEMMA GateKeeps ==
  ASSUME PidsAreNotZero, StartupInv,
         \/ PreverifyStartupGate \/ InspectListener \/ StillActive \/ InspectListenerAgain
         \/ BindPreverifiedGate \/ AcquireInstance \/ ServingTick
  PROVE  StartupInv'
<1> USE DEF StartupInv, Require, Refuse, Goto, Ended, HandleOpen, Identified, Bound, Verified
<1>1. UNCHANGED <<osVars, profile, handle, identity, conn, info, approved, sent>>
  BY DEF PreverifyStartupGate, InspectListener, StillActive, InspectListenerAgain,
     BindPreverifiedGate, AcquireInstance, ServingTick
<1>2. CASE PreverifyStartupGate
  BY <1>1, <1>2, ChecksKeep DEF PreverifyStartupGate
<1>3. CASE InspectListener
  BY <1>1, <1>3, ChecksKeep DEF InspectListener, HandleIsAttested
<1>4. CASE StillActive \/ InspectListenerAgain \/ AcquireInstance \/ ServingTick
  BY <1>1, <1>4, ChecksKeep DEF StillActive, InspectListenerAgain, AcquireInstance, ServingTick
<1>5. CASE BindPreverifiedGate
  <2>1. CASE Binds
    <3>1. identity = [pid |-> inst[handle].pid, created |-> handle, image |-> inst[handle].image]
      BY <1>5 DEF BindPreverifiedGate, HandleIsAttested
    <3>2. Attested(handle)
      BY <2>1, <3>1 DEF Binds, Attested
    <3> QED
      BY <1>1, <1>5, <3>2, ChecksKeep DEF BindPreverifiedGate
  <2>2. CASE ~Binds
    BY <1>1, <1>5, <2>2, ChecksKeep DEF BindPreverifiedGate
  <2> QED
    BY <2>1, <2>2
<1> QED
  BY <1>2, <1>3, <1>4, <1>5

LEMMA OpenProcessKeeps == ASSUME StartupInv, OpenProcess PROVE StartupInv'
<1> USE DEF StartupInv
<1>1. /\ UNCHANGED <<inst, alive, listener, profile, identity, conn, info, approved, sent>>
      /\ pc = "open" /\ profile.signed
  BY DEF OpenProcess, osVars, HandleIsAttested
<1>2. CASE {i \in alive : inst[i].pid = profile.pid} = {}
  <2>1. handle' = handle /\ pc' \in Ended
    BY <1>2 DEF OpenProcess, Refuse, Ended
  <2> QED
    BY <1>1, <2>1, ChecksKeep DEF Ended, HandleOpen, Identified, Bound, Verified, OpenProcess
<1>3. CASE {i \in alive : inst[i].pid = profile.pid} # {}
  <2>1. handle' \in alive /\ inst[handle'].pid = profile.pid /\ pc' = "image"
    BY <1>3 DEF OpenProcess, Goto
  <2>2. handle' # 0 /\ handle' \in Started
    BY <2>1 DEF StartupTypeOK, Started
  <2>3. StartupTypeOK'
    BY <1>1, <2>1, <2>2 DEF StartupTypeOK, Started, HandleOpen
  <2>4. PidsDiffer'
    BY <1>1, <2>1 DEF PidsDiffer
  <2>5. HandleIsAttested' /\ SentIsSafe'
    BY <1>1, <2>1, <2>2 DEF HandleIsAttested, SentIsSafe, SignedBeforeSent,
     CredentialsReachAttested, Attested, HandleOpen,
       Identified, Bound, Verified
  <2> QED
    BY <2>3, <2>4, <2>5
<1> QED
  BY <1>2, <1>3

LEMMA HashKeeps == ASSUME StartupInv, HashImage PROVE StartupInv'
<1> USE DEF StartupInv
<1>1. /\ UNCHANGED <<inst, alive, listener, profile, handle, conn, info, approved, sent>>
      /\ pc = "image" /\ pc' = "active"
      /\ identity' = [pid |-> inst[handle].pid, created |-> handle, image |-> inst[handle].image]
  BY DEF HashImage, Goto, osVars
<1>2. StartupTypeOK' /\ PidsDiffer'
  BY <1>1 DEF StartupTypeOK, Started, HandleOpen, PidsDiffer
<1>3. HandleIsAttested' /\ SentIsSafe'
  BY <1>1 DEF HandleIsAttested, SentIsSafe, SignedBeforeSent,
     CredentialsReachAttested, Attested, HandleOpen, Identified, Bound,
     Verified
<1> QED
  BY <1>2, <1>3

LEMMA TrustKeeps ==
  ASSUME PidsAreNotZero, StartupInv,
         RevalidateProcess \/ RevalidateListener \/ VerifyConnectedStream \/ VerifyAgain
  PROVE  StartupInv'
<1> USE DEF StartupInv, Require, Refuse, Goto, Ended, HandleOpen, Identified, Bound, Verified
<1>1. UNCHANGED <<osVars, profile, handle, identity, conn, info, approved, sent>>
  BY DEF RevalidateProcess, RevalidateListener, VerifyConnectedStream, VerifyAgain
<1>2. CASE RevalidateProcess
  BY <1>1, <1>2, ChecksKeep DEF RevalidateProcess, HandleIsAttested
<1>3. CASE RevalidateListener
  BY <1>1, <1>3, ChecksKeep DEF RevalidateListener, HandleIsAttested
<1>4. CASE VerifyConnectedStream
  <2>1. pc = "verify" /\ identity.pid = inst[handle].pid /\ handle # 0
    BY <1>4 DEF VerifyConnectedStream, HandleIsAttested
  <2>2. EstablishedOwner = identity.pid => conn = handle
    BY <2>1, OwnerIsHandle DEF EstablishedOwner
  <2> QED
    BY <1>1, <1>4, <2>2, ChecksKeep DEF VerifyConnectedStream
<1>5. CASE VerifyAgain
  BY <1>1, <1>5, ChecksKeep DEF VerifyAgain, HandleIsAttested
<1> QED
  BY <1>2, <1>3, <1>4, <1>5

LEMMA RequestKeeps ==
  ASSUME StartupInv, OpenConnection \/ SendRequest \/ Answer \/ FinalizeStartupGate
  PROVE  StartupInv'
<1> USE DEF StartupInv
<1>1. UNCHANGED <<inst, alive, listener, profile, handle, identity>>
  BY DEF OpenConnection, SendRequest, Answer, FinalizeStartupGate, osVars
<1>2. pc \in Bound /\ pc \in Identified /\ pc \in HandleOpen
  BY DEF OpenConnection, SendRequest, Answer, FinalizeStartupGate, Bound, Identified, HandleOpen
<1>3. /\ handle # 0 /\ handle \in Started /\ inst[handle].pid = profile.pid /\ profile.signed
      /\ identity = [pid |-> inst[handle].pid, created |-> handle, image |-> inst[handle].image]
      /\ Attested(handle)
  BY <1>2 DEF HandleIsAttested, StartupTypeOK
<1>4. PidsDiffer'
  BY <1>1 DEF PidsDiffer
<1>5. SUFFICES /\ conn' \in Started \cup {0} /\ approved' \in BOOLEAN
               /\ pc' \in HandleOpen \cup Ended
               /\ sent' \subseteq sent \cup {handle}
               /\ pc' \in Verified => conn' = handle
               /\ ~approved' /\ pc' \in {"process2", "listener2", "finalize"}
                    => info'.from = handle
  <2>1. StartupTypeOK'
    BY <1>1, <1>3, <1>5 DEF StartupTypeOK, Started
  <2>2. SentIsSafe'
    BY <1>1, <1>3, <1>5 DEF SentIsSafe, SignedBeforeSent,
     CredentialsReachAttested, Attested
  <2>3. HandleIsAttested'
    BY <1>1, <1>3, <1>5 DEF HandleIsAttested, Attested, HandleOpen, Ended
  <2> QED
    BY <1>4, <2>1, <2>2, <2>3
<1> USE DEF Refuse, Goto, Require, RequestFails, Ended, HandleOpen, Verified
<1>6. CASE OpenConnection
  BY <1>6 DEF OpenConnection, StartupTypeOK
<1>7. CASE SendRequest
  BY <1>7 DEF SendRequest, StartupTypeOK, HandleIsAttested
<1>8. CASE Answer
  BY <1>8 DEF Answer, StartupTypeOK, HandleIsAttested
<1>9. CASE FinalizeStartupGate
  BY <1>9 DEF FinalizeStartupGate, StartupTypeOK, HandleIsAttested
<1> QED
  BY <1>6, <1>7, <1>8, <1>9

\* The inductive invariant: what run() has established is about the process
\* behind its handle, whose identifier no other process can get.
THEOREM StartupInvariant == ASSUME PidsAreNotZero PROVE StartupSpec => []StartupInv
<1>1. StartupInit => StartupInv
  BY StartupStarts
<1>2. StartupInv /\ [StartupNext]_startupVars => StartupInv'
  <2> SUFFICES ASSUME StartupInv, [StartupNext]_startupVars PROVE StartupInv'
    OBVIOUS
  <2>1. CASE UNCHANGED startupVars
    <3>1. UNCHANGED <<osVars, profile, handle, identity, conn, info, approved, sent, pc>>
      BY <2>1 DEF startupVars, runVars
    <3> QED
      BY <3>1, ChecksKeep DEF StartupInv, StartupTypeOK, HandleIsAttested
  <2>2. CASE Machine
    BY <2>2, MachineKeeps
  <2>3. CASE RunStep
    BY <2>3, GateKeeps, OpenProcessKeeps, HashKeeps, TrustKeeps, RequestKeeps DEF RunStep
  <2> QED
    BY <2>1, <2>2, <2>3 DEF StartupNext
<1> QED
  BY <1>1, <1>2, PTL DEF StartupSpec

\* The credentials reach only the process the signed profile names, the
\* identity is that of the process that has the port, and an approval is given
\* inside the signed window for what that process answered: for every set of
\* identifiers and executables and however processes, port and clock change
\* between two checks.
THEOREM StartupAlwaysAttested == ASSUME PidsAreNotZero PROVE StartupSpec => StartupIsAttested
<1>1. StartupInv => SignedBeforeSent /\ CredentialsReachAttested
  BY DEF StartupInv, SentIsSafe
<1>2. StartupInv /\ [StartupNext]_startupVars => [IdentityIsListener /\ ApprovalIsCurrent]_startupVars
  <2> SUFFICES ASSUME StartupInv, StartupNext
               PROVE  IdentityIsListener /\ ApprovalIsCurrent
    OBVIOUS
  <2> USE DEF StartupInv
  <2>1. IdentityIsListener
    <3> SUFFICES ASSUME pc = "owner2", pc' = "bind"
                 PROVE  listener = handle
      BY DEF IdentityIsListener
    <3>1. InspectListenerAgain
      BY DEF StartupNext, Machine, ProcessStarts, ServerExits, Listens, Unlistens, TimePasses,
         runVars, RunStep, PreverifyStartupGate, InspectListener, OpenProcess, HashImage,
         StillActive, BindPreverifiedGate, AcquireInstance, RevalidateProcess,
         RevalidateListener, OpenConnection, VerifyConnectedStream, VerifyAgain, SendRequest, Answer,
         FinalizeStartupGate, ServingTick
    <3>2. ListenerOwner = profile.pid
      BY <3>1 DEF InspectListenerAgain, Require, Refuse, Goto
    <3>3. handle # 0 /\ inst[handle].pid = profile.pid
      BY DEF HandleIsAttested, HandleOpen
    <3> QED
      BY <3>2, <3>3, OwnerIsHandle DEF ListenerOwner
  <2>2. ApprovalIsCurrent
    <3> SUFFICES ASSUME ~approved, approved'
                 PROVE  /\ profile.issued <= systemTime /\ systemTime < profile.expires
                        /\ Attested(info.from) /\ info.version = profile.version
      BY DEF ApprovalIsCurrent
    <3>1. FinalizeStartupGate
      BY DEF StartupNext, Machine, ProcessStarts, ServerExits, Listens, Unlistens, TimePasses,
         runVars, RunStep, PreverifyStartupGate, InspectListener, OpenProcess, HashImage,
         StillActive, InspectListenerAgain, BindPreverifiedGate, AcquireInstance,
         RevalidateProcess, RevalidateListener, OpenConnection, VerifyConnectedStream, VerifyAgain,
         SendRequest, Answer, ServingTick
    <3>2. PayloadIsValid /\ InfoIsBound /\ pc = "finalize"
      BY <3>1 DEF FinalizeStartupGate, Require, Refuse, Goto
    <3>3. info.from = handle /\ Attested(handle)
      BY <3>2 DEF HandleIsAttested, Bound, Identified, HandleOpen
    <3> QED
      BY <3>2, <3>3 DEF PayloadIsValid, InfoIsBound
  <2> QED
    BY <2>1, <2>2
<1> QED
  BY <1>1, <1>2, StartupInvariant, PTL DEF StartupSpec, StartupIsAttested

=============================================================================
