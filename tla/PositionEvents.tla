--------------------------- MODULE PositionEvents ---------------------------
(***************************************************************************)
(* The vocabulary producers, handoff and state owner share: the events of  *)
(* crates/pal-state/src/position_source.rs and the samples, sample clock   *)
(* and freshness classes of crates/pal-domain/src/position.rs.             *)
(*                                                                         *)
(* What a sample says about the player (coordinates, heading) is an opaque *)
(* payload; the model knows whether PositionSample::new accepts it, whether *)
(* it has a heading, and the age bound it arrived with.                    *)
(***************************************************************************)
EXTENDS Integers, Sequences

CONSTANTS
  Boots,            \* agent boot identifiers
  NoBoot,           \* active_boot_id = None
  BootBits,         \* BootBits[b]: the filter bits boot_filter_bits(b) sets
  Generations,      \* connection generations a caller may pass, 0 included
  SequenceNumbers,  \* sequence numbers a frame may carry, 0 included
  Times,            \* instants of the client's monotonic clock (ms)
  Payloads,         \* what a frame says about the player
  ValidPayloads,    \* the payloads PositionSample::new accepts
  HeadingPayloads,  \* the payloads with heading_degrees = Some
  PayloadAge,       \* age_at_receive_upper_bound_ms of a payload
  LiveLimit,        \* 1500: the oldest age classified Live
  DelayedLimit      \* 5000: the oldest age classified Delayed

ASSUME EventsAssumption ==
  /\ NoBoot \notin Boots
  /\ Generations \subseteq Nat
  /\ SequenceNumbers \subseteq Nat
  /\ Times \subseteq Nat
  /\ ValidPayloads \subseteq Payloads
  /\ HeadingPayloads \subseteq Payloads
  /\ PayloadAge \in [Payloads -> Nat]
  /\ LiveLimit \in Nat
  /\ DelayedLimit \in Nat
  /\ LiveLimit < DelayedLimit

-----------------------------------------------------------------------------
NoTime == -1
NoEvent == [kind |-> "None"]
Control(kind, g) == [kind |-> kind, generation |-> g]

ControlEvents == [kind : {"Connected", "Disconnected", "ClockInvalid"},
                  generation : Nat \ {0}]
SampleEvents == [kind : {"Sample"}, generation : Nat \ {0}, boot : Boots,
                 sequence : Nat \ {0}, received : Times,
                 payload : ValidPayloads]
UnavailableEvents == [kind : {"Unavailable"}, generation : Nat \ {0}]

-----------------------------------------------------------------------------
\* SampleClock::age_upper_bound_ms: the age at receipt plus the time since,
\* which saturates at 0 when the sample was received after `now` was read.
AgeUpperBound(sample, now) ==
  PayloadAge[sample.payload]
    + IF now > sample.received THEN now - sample.received ELSE 0

\* classify_freshness of a connected source.
ClassifyFreshness(age) ==
  IF age <= LiveLimit THEN "Live"
  ELSE IF age <= DelayedLimit THEN "Delayed"
  ELSE "Stale"

=============================================================================
