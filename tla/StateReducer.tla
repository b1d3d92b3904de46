---------------------------- MODULE StateReducer ----------------------------
(***************************************************************************)
(* The position half of the overlay's single state owner:                  *)
(* crates/pal-state/src/reducer.rs.  The settings half shares no field     *)
(* with it; the part the overlay uses, apply_settings, is in MapPreview.   *)
(*                                                                         *)
(* apply() is one action per event.  An event that the code drops or       *)
(* ignores changes nothing but a diagnostics counter; EventOutcome names   *)
(* the branch taken.                                                       *)
(***************************************************************************)
EXTENDS PositionEvents

VARIABLES
  rGeneration,      \* generation of the session the reducer follows
  rConnected,
  rBoot,            \* active_boot_id
  rSequence,        \* last_sequence, 0 for None
  position,         \* last_position, NoEvent for None
  clockValid,
  headingAvailable

reducerVars == <<rGeneration, rConnected, rBoot, rSequence, position,
                 clockValid, headingAvailable>>

-----------------------------------------------------------------------------
ReducerInit ==
  /\ rGeneration = 0
  /\ rConnected = FALSE
  /\ rBoot = NoBoot
  /\ rSequence = 0
  /\ position = NoEvent
  /\ clockValid = FALSE
  /\ headingAvailable = FALSE

-----------------------------------------------------------------------------
\* What apply_position_source does with an event, in the order of its tests.
ConnectedOutcome(g) ==
  IF g = 0 THEN "InvalidTransition"
  ELSE IF g < rGeneration THEN "OldGeneration"
  ELSE IF g = rGeneration THEN "Ignored"
  ELSE "Applied"

SessionOutcome(g) ==
  IF g = 0 THEN "InvalidTransition"
  ELSE IF g < rGeneration THEN "OldGeneration"
  ELSE IF g > rGeneration \/ ~rConnected THEN "InvalidTransition"
  ELSE "Applied"

DisconnectedOutcome(g) ==
  IF g = 0 THEN "InvalidTransition"
  ELSE IF g < rGeneration THEN "OldGeneration"
  ELSE IF g > rGeneration THEN "InvalidTransition"
  ELSE IF ~rConnected THEN "Ignored"
  ELSE "Applied"

SampleOutcome(sample) ==
  IF sample.sequence = 0 THEN "InvalidTransition"
  ELSE IF SessionOutcome(sample.generation) # "Applied"
    THEN SessionOutcome(sample.generation)
  ELSE IF rBoot # NoBoot /\ rBoot # sample.boot THEN "BootMismatch"
  ELSE IF rSequence # 0 /\ sample.sequence = rSequence THEN "Duplicate"
  ELSE IF rSequence # 0 /\ sample.sequence < rSequence THEN "OutOfOrder"
  ELSE "Applied"

EventOutcome(event) ==
  CASE event.kind = "Connected" -> ConnectedOutcome(event.generation)
    [] event.kind = "Disconnected" -> DisconnectedOutcome(event.generation)
    [] event.kind = "Sample" -> SampleOutcome(event)
    [] OTHER -> SessionOutcome(event.generation)

-----------------------------------------------------------------------------
ApplyConnected(event) ==
  /\ event.kind = "Connected"
  /\ rGeneration' = event.generation
  /\ rConnected' = TRUE
  /\ rBoot' = NoBoot
  /\ rSequence' = 0
  /\ position' = NoEvent
  /\ clockValid' = FALSE
  /\ headingAvailable' = FALSE

ApplySample(event) ==
  /\ event.kind = "Sample"
  /\ rBoot' = event.boot
  /\ rSequence' = event.sequence
  /\ position' = event
  /\ clockValid' = TRUE
  /\ headingAvailable' = (event.payload \in HeadingPayloads)
  /\ UNCHANGED <<rGeneration, rConnected>>

\* Mutant: the session forgets which sequence it had reached.
ApplyUnavailableForgets(event) ==
  /\ event.kind = "Unavailable"
  /\ position' = NoEvent
  /\ clockValid' = FALSE
  /\ headingAvailable' = FALSE
  /\ rSequence' = 0
  /\ UNCHANGED <<rGeneration, rConnected, rBoot>>

ApplyUnavailable(event) ==
  /\ event.kind = "Unavailable"
  /\ position' = NoEvent
  /\ clockValid' = FALSE
  /\ headingAvailable' = FALSE
  /\ UNCHANGED <<rGeneration, rConnected, rBoot, rSequence>>

\* The last position is kept, for the map to stay where it was.
ApplyDisconnected(event) ==
  /\ event.kind = "Disconnected"
  /\ rConnected' = FALSE
  /\ clockValid' = FALSE
  /\ headingAvailable' = FALSE
  /\ UNCHANGED <<rGeneration, rBoot, rSequence, position>>

ApplyClockInvalid(event) ==
  /\ event.kind = "ClockInvalid"
  /\ clockValid' = FALSE
  /\ headingAvailable' = FALSE
  /\ UNCHANGED <<rGeneration, rConnected, rBoot, rSequence, position>>

ApplyPositionSource(event) ==
  \/ /\ EventOutcome(event) = "Applied"
     /\ \/ ApplyConnected(event)
        \/ ApplySample(event)
        \/ ApplyUnavailable(event)
        \/ ApplyDisconnected(event)
        \/ ApplyClockInvalid(event)
  \/ /\ EventOutcome(event) # "Applied"
     /\ UNCHANGED reducerVars

\* Every event a position source may hand over, malformed ones included.
ReducerInputs ==
  [kind : {"Connected", "Disconnected", "ClockInvalid", "Unavailable"},
   generation : Generations]
  \cup [kind : {"Sample"}, generation : Generations, boot : Boots,
        sequence : SequenceNumbers, received : Times,
        payload : ValidPayloads]

ReducerNext == \E event \in ReducerInputs : ApplyPositionSource(event)

ReducerSpec == ReducerInit /\ [][ReducerNext]_reducerVars

-----------------------------------------------------------------------------
(* Queries                                                                 *)

Freshness(now) ==
  IF ~rConnected THEN "Offline"
  ELSE IF ~clockValid \/ position = NoEvent THEN "Stale"
  ELSE ClassifyFreshness(AgeUpperBound(position, now))

HasTrustedPosition == rConnected /\ clockValid /\ position # NoEvent

\* interpolate_position of core_state
InterpolatePosition(now) ==
  HasTrustedPosition /\ Freshness(now) \in {"Live", "Delayed"}

\* CoreState::from_parts accepts what core_state(now) gathers.
CoreStateAccepted(now) ==
  LET fresh == Freshness(now) \in {"Live", "Delayed"}
  IN  /\ rConnected # (Freshness(now) = "Offline")
      /\ fresh => position # NoEvent
      /\ InterpolatePosition(now) = (rConnected /\ position # NoEvent /\ fresh)
      /\ headingAvailable => /\ position # NoEvent
                             /\ position.payload \in HeadingPayloads

-----------------------------------------------------------------------------
\* The fields keep the types their Rust declarations give them.
ReducerTypeOK ==
  /\ rGeneration \in Nat
  /\ rConnected \in BOOLEAN
  /\ rBoot \in Boots \cup {NoBoot}
  /\ rSequence \in Nat
  /\ position \in SampleEvents \cup {NoEvent}
  /\ clockValid \in BOOLEAN
  /\ headingAvailable \in BOOLEAN

\* core_state's "reducer state always satisfies domain rules": whenever it
\* is asked, the expect on CoreState::from_parts cannot panic.
CoreStateNeverPanics == \A now \in Times : CoreStateAccepted(now)

\* The generation and the sequence that the owner has reached never go back,
\* through lost positions, disconnects and rejected events, and a position it
\* takes over is of the open session and beyond everything the session had.
ReducerAdvances ==
  /\ \/ rGeneration' > rGeneration
     \/ rGeneration' = rGeneration /\ rSequence' >= rSequence
  /\ position' # position /\ position' # NoEvent =>
       /\ rConnected /\ rGeneration' = rGeneration
       /\ position'.generation = rGeneration
       /\ position'.sequence > rSequence /\ position'.sequence = rSequence'

-----------------------------------------------------------------------------
\* What the fields say together: a valid clock belongs to a position of an
\* open session, a heading to a position that has one, and a session without
\* a boot has reached no sequence.
FieldsAgree ==
  /\ ReducerTypeOK
  /\ clockValid => rConnected /\ rBoot # NoBoot /\ position # NoEvent
  /\ headingAvailable => position # NoEvent /\ position.payload \in HeadingPayloads
  /\ rBoot = NoBoot => rSequence = 0

=============================================================================
