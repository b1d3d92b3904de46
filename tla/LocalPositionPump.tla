------------------------- MODULE LocalPositionPump -------------------------
(***************************************************************************)
(* The local position worker and its pump:                                 *)
(* crates/pal-overlay-win/src/local_position_source.rs and the sampling    *)
(* loop of local_position_runtime.rs.                                      *)
(*                                                                         *)
(* The worker wakes at deadlines, the pump decides whether a sample is     *)
(* due, and a sample is a walk along a chain of pointers in the memory of  *)
(* the running game: the chain is resolved, the camera block is read, the  *)
(* chain is read again and compared.  The game changes its memory between  *)
(* any two reads; the camera block is not read atomically, so that its two *)
(* halves (position, yaw) are two reads here.                              *)
(*                                                                         *)
(* The profile's seven pointers are two, of which the first leads to a     *)
(* world and the second to a camera.  Time is counted in ticks.            *)
(***************************************************************************)
EXTENDS Naturals, Sequences, TLAPS

CONSTANTS
  Objects,     \* addresses objects of the game may have
  Null,        \* the null pointer
  Halves,      \* values of one half of the camera block
  Zero,        \* 0.0, what both halves are at the title screen
  Invalid,     \* not finite, or out of the plausible range
  Interval,    \* WORKER_SAMPLE_INTERVAL and SAMPLE_INTERVAL_MS
  Lateness,    \* how long after its deadline the worker may wake
  MaxTime, MaxChanges, MaxSamples

VARIABLES
  process,  \* the game: its memory, with root slot, first link and camera of every object
  pump,     \* PalworldWindowsLivePositionPump
  read,     \* the sample being read
  worker,   \* the worker thread: where it is, its deadline, the stop flag
  feed,     \* the ServerAgentInbox as the pump drives it
  now,
  witness   \* history: what changed during the walk, what was read was true

localVars == <<process, pump, read, worker, feed, now, witness>>

Pointers == Objects \cup {Null}
NoRead == [pc |-> "none", chain |-> <<>>, pos |-> Zero, yaw |-> Zero, again |-> 0]
Depth == 2

\* The pointer in slot i of a walk that has followed chain so far.
SlotValue(chain, i) == IF i = 1 THEN process.root ELSE process.link[chain[1]]
\* The object whose slot i is read; a freed one cannot be.
SlotReadable(chain, i) == IF i = 1 THEN TRUE ELSE chain[1] \in process.live

\* What the chain leads to now: the true camera, if the player is in a world.
InWorld ==
  /\ process.running /\ process.root \in process.live
  /\ process.link[process.root] \in process.live
TrueCamera == process.cam[process.link[process.root]]

LocalInit ==
  /\ process = [running |-> TRUE, root |-> Null, live |-> Objects,
                link |-> [o \in Objects |-> Null],
                cam |-> [o \in Objects |-> <<Zero, Zero>>]]
  /\ pump = [phase |-> "Active", sequence |-> 0, due |-> 0, reason |-> "none",
             world |-> FALSE]
  /\ read = NoRead
  /\ worker = [pc |-> "loop", deadline |-> 0, stop |-> FALSE, stepped |-> 0]
  /\ feed = [connected |-> TRUE, pending |-> "none", pos |-> Zero, yaw |-> Zero]
  /\ now = 0
  /\ witness = [changes |-> 0, samples |-> 0, aba |-> FALSE, changed |-> {},
             posTrue |-> TRUE, yawTrue |-> TRUE, last |-> 0, wrong |-> FALSE]

-----------------------------------------------------------------------------
(* The game (external): it moves the player, loads and unloads worlds,     *)
(* frees memory and ends.                                                  *)

\* A slot that has changed during the sample and changes again may hide it.
Noted(slot) ==
  [witness EXCEPT !.changes = @ + 1,
               !.aba = @ \/ (read.pc # "none" /\ slot \in witness.changed),
               !.changed = IF read.pc = "none" THEN {} ELSE @ \cup {slot}]

GameMoves ==
  /\ witness.changes < MaxChanges /\ InWorld
  /\ \E half \in 1..2, v \in Halves :
       /\ TrueCamera[half] # v
       /\ process' = [process EXCEPT !.cam[process.link[process.root]][half] = v]
  /\ witness' = [witness EXCEPT !.changes = @ + 1]
  /\ UNCHANGED <<pump, read, worker, feed, now>>

GameRelinks ==
  /\ witness.changes < MaxChanges /\ process.running
  /\ \/ \E p \in Pointers \ {process.root} :
          /\ process' = [process EXCEPT !.root = p]
          /\ witness' = Noted(Null)
     \/ \E o \in Objects : \E p \in Pointers \ {process.link[o]} :
          /\ process' = [process EXCEPT !.link[o] = p]
          /\ witness' = Noted(o)
  /\ UNCHANGED <<pump, read, worker, feed, now>>

GameFrees ==
  /\ witness.changes < MaxChanges /\ process.running
  /\ \E o \in process.live :
       process' = [process EXCEPT !.live = @ \ {o}, !.cam[o] = <<Invalid, Invalid>>]
  /\ witness' = [witness EXCEPT !.changes = @ + 1]
  /\ UNCHANGED <<pump, read, worker, feed, now>>

GameEnds ==
  /\ witness.changes < MaxChanges /\ process.running
  /\ process' = [process EXCEPT !.running = FALSE]
  /\ witness' = [witness EXCEPT !.changes = @ + 1]
  /\ UNCHANGED <<pump, read, worker, feed, now>>

GameSteps == GameMoves \/ GameRelinks \/ GameFrees \/ GameEnds

-----------------------------------------------------------------------------
(* The worker and the pump.                                                *)

\* next_worker_sample_deadline, from the time after the step.
NextDeadline(previous) ==
  IF previous + Interval > now THEN previous + Interval ELSE now + Interval

DueAfter(t) == t + Interval

\* PalworldWindowsLivePositionPump::disconnect; the worker's loop then ends.
Ended(reason) ==
  /\ pump' = [pump EXCEPT !.phase = "Disconnected", !.reason = reason]
  /\ feed' = [feed EXCEPT !.connected = FALSE, !.pending = "none"]
  /\ worker' = [worker EXCEPT !.pc = "ended"]
  /\ read' = NoRead

\* A failed read is answered at the end of the walk, after the identity of
\* the process has been looked at again: its answer wins.
Failed(reason) == Ended(IF process.running THEN reason ELSE "ReadFailed")

LoopAgain == worker' = [worker EXCEPT !.pc = "loop", !.deadline = NextDeadline(worker.deadline)]

\* Ok(None): no active world.  The reader stays, and the next sample is due.
NoWorld ==
  IF process.running
       THEN /\ pump' = [pump EXCEPT !.due = DueAfter(worker.stepped), !.world = FALSE]
            /\ feed' = IF pump.world THEN [feed EXCEPT !.pending = "unavailable"] ELSE feed
            /\ LoopAgain
            /\ read' = NoRead
       ELSE Ended("ReadFailed")

\* The loop's head: the stop flag, the deadline, and the pump's own due time.
WorkerStops ==
  /\ worker.pc = "loop" /\ worker.stop
  /\ worker' = [worker EXCEPT !.pc = "ended"]
  /\ pump' = [pump EXCEPT !.phase = "Disconnected"]
  /\ feed' = [feed EXCEPT !.connected = FALSE, !.pending = "none"]
  /\ UNCHANGED <<process, read, now, witness>>

WorkerSkips ==
  /\ worker.pc = "loop" /\ ~worker.stop /\ now >= worker.deadline
  /\ now < pump.due
  /\ LoopAgain
  /\ UNCHANGED <<process, pump, read, feed, now, witness>>

WorkerSamples ==
  /\ worker.pc = "loop" /\ ~worker.stop /\ now >= worker.deadline
  /\ now >= pump.due
  /\ witness.samples < MaxSamples
  /\ IF process.running
       THEN /\ worker' = [worker EXCEPT !.pc = "sample", !.stepped = now]
            /\ read' = [NoRead EXCEPT !.pc = "resolve"]
            /\ UNCHANGED <<pump, feed>>
       ELSE Ended("ReadFailed")
  /\ witness' = [witness EXCEPT !.samples = @ + 1, !.aba = FALSE, !.changed = {},
                          !.posTrue = FALSE, !.yawTrue = FALSE]
  /\ UNCHANGED <<process, now>>

\* resolve_pointer_chain, one pointer a step.
Resolve ==
  /\ read.pc = "resolve"
  /\ LET i == Len(read.chain) + 1
         p == SlotValue(read.chain, i)
     IN \/ /\ ~SlotReadable(read.chain, i) /\ Failed("ReadFailed")
        \/ /\ SlotReadable(read.chain, i) /\ p = Null /\ NoWorld
        \/ /\ SlotReadable(read.chain, i) /\ p # Null
           /\ read' = [read EXCEPT !.chain = Append(@, p),
                                   !.pc = IF i = Depth THEN "pos" ELSE "resolve"]
           /\ UNCHANGED <<pump, feed, worker>>
  /\ UNCHANGED <<process, now, witness>>

\* The camera block, in two halves.
ReadCamera ==
  /\ read.pc \in {"pos", "yaw"}
  /\ LET o == read.chain[Depth]
         half == IF read.pc = "pos" THEN 1 ELSE 2
         true == InWorld /\ TrueCamera[half] = process.cam[o][half]
     IN \/ /\ o \notin process.live /\ Failed("ReadFailed")
           /\ UNCHANGED witness
        \/ /\ o \in process.live
           /\ read' = IF half = 1
                        THEN [read EXCEPT !.pos = process.cam[o][1], !.pc = "yaw"]
                        ELSE [read EXCEPT !.yaw = process.cam[o][2], !.pc = "verify"]
           /\ witness' = IF half = 1 THEN [witness EXCEPT !.posTrue = true]
                                  ELSE [witness EXCEPT !.yawTrue = true]
           /\ UNCHANGED <<pump, feed, worker>>
  /\ UNCHANGED <<process, now>>

\* Mutant: only the last pointer is compared.
VerifyLastOnly ==
  /\ read.pc = "verify"
  /\ read' = [read EXCEPT !.again = Depth, !.pc = "decode"]
  /\ UNCHANGED <<process, pump, worker, feed, now, witness>>

\* verify_pointer_chain, one pointer a step, along the expected chain.
Verify ==
  /\ read.pc = "verify"
  /\ LET i == read.again + 1
         p == SlotValue(read.chain, i)
     IN \/ /\ ~SlotReadable(read.chain, i) /\ Failed("ReadFailed")
        \/ /\ SlotReadable(read.chain, i) /\ p = Null /\ NoWorld
        \/ /\ SlotReadable(read.chain, i) /\ p # Null /\ p # read.chain[i]
           /\ Failed("UnstablePointerChain")
        \/ /\ SlotReadable(read.chain, i) /\ p # Null /\ p = read.chain[i]
           /\ read' = [read EXCEPT !.again = i,
                                   !.pc = IF i = Depth THEN "decode" ELSE "verify"]
           /\ UNCHANGED <<pump, feed, worker>>
  /\ UNCHANGED <<process, now, witness>>

\* decode_camera_block: the all-zero block of the title screen.
AtTitle(pos, yaw) == pos = Zero /\ yaw = Zero

\* The identity after the walk, decode_camera_block and publish_position.
Decode ==
  /\ read.pc = "decode"
  /\ \/ /\ Invalid \in {read.pos, read.yaw} /\ Failed("InvalidPosition") /\ UNCHANGED witness
     \/ /\ AtTitle(read.pos, read.yaw) /\ NoWorld /\ UNCHANGED witness
     \/ /\ Invalid \notin {read.pos, read.yaw} /\ ~AtTitle(read.pos, read.yaw)
        /\ IF process.running
             THEN /\ pump' = [pump EXCEPT !.sequence = @ + 1, !.world = TRUE,
                                          !.due = DueAfter(worker.stepped)]
                  /\ feed' = [feed EXCEPT !.pending = "sample", !.pos = read.pos,
                                          !.yaw = read.yaw]
                  /\ LoopAgain
                  /\ read' = NoRead
                  /\ witness' = [witness EXCEPT
                       !.last = worker.stepped,
                       !.wrong = @ \/ (~witness.aba /\ ~(witness.posTrue /\ witness.yawTrue))]
             ELSE Ended("ReadFailed") /\ UNCHANGED witness
  /\ UNCHANGED <<process, now>>

\* DevelopmentLocalPositionWorker::stop_worker: the flag, and an unpark.
Stop ==
  /\ ~worker.stop
  /\ worker' = [worker EXCEPT !.stop = TRUE]
  /\ UNCHANGED <<process, pump, read, feed, now, witness>>

\* Time passes while the worker sleeps or reads; it never sleeps on for more
\* than Lateness after its deadline.
TimePasses ==
  /\ now < MaxTime
  /\ now < worker.deadline + Lateness \/ worker.pc = "ended"
  /\ now' = now + 1
  /\ UNCHANGED <<process, pump, read, worker, feed, witness>>

WorkerSteps == WorkerStops \/ WorkerSkips \/ WorkerSamples \/ Resolve \/ ReadCamera
               \/ Verify \/ Decode

LocalNext == GameSteps \/ WorkerSteps \/ Stop \/ TimePasses

LocalSpec == LocalInit /\ [][LocalNext]_localVars /\ WF_localVars(WorkerSteps)

-----------------------------------------------------------------------------
(* Properties *)

\* Unless a pointer changed and changed back during the walk, each half of a
\* published pose was the player's at the instant it was read: the comparison
\* of the two walks (verify_pointer_chain) is enough, although the memory is
\* not a snapshot.
EachHalfWasTrue == ~witness.wrong

\* A world that is not there yet, or is left through a null link or the title
\* screen, never ends the source: it ends for one of the reasons that are
\* not "no active world" or because the worker was stopped
\* (read_stable_position).
TitleScreenRetries ==
  (pump.phase = "Disconnected" /\ ~worker.stop)
    => pump.reason \in {"ReadFailed", "UnstablePointerChain", "InvalidPosition"}

\* The title screen is never shown as a player at the origin of the map: a
\* pending sample is never the all-zero block, and the sample of a left world
\* is replaced (step, Ok(None)).
NeverTheOrigin ==
  /\ feed.pending = "sample" => ~(feed.pos = Zero /\ feed.yaw = Zero)
  /\ feed.pending = "sample" => pump.world

\* With a world there and an undisturbed worker, two published positions are
\* never further apart than two intervals and one late wake-up, whatever the
\* phases of the worker's deadlines and the pump's due times: the worker's
\* wake-up may come just before the sample is due and be skipped, but not
\* twice (next_worker_sample_deadline, step).
SamplesAreRegular ==
  (pump.world /\ worker.pc = "loop") => now - witness.last <= 2 * Interval + Lateness

\* What the pump publishes was the player's pose, and comes in time.
PublishedWasTrue == EachHalfWasTrue /\ TitleScreenRetries /\ NeverTheOrigin /\ SamplesAreRegular

-----------------------------------------------------------------------------
(* The inductive invariant *)

CameraValues == Halves \cup {Zero, Invalid}

LocalTypeOK ==
  /\ process \in [running : BOOLEAN, root : Pointers, live : SUBSET Objects,
               link : [Objects -> Pointers], cam : [Objects -> [1..2 -> CameraValues]]]
  /\ pump \in [phase : {"Active", "Disconnected"}, sequence : Nat, due : Nat,
               reason : {"none", "ReadFailed", "UnstablePointerChain", "InvalidPosition"},
               world : BOOLEAN]
  /\ read \in [pc : {"none", "resolve", "pos", "yaw", "verify", "decode"}, chain : Seq(Objects),
               pos : CameraValues, yaw : CameraValues, again : 0..Depth]
  /\ worker \in [pc : {"loop", "sample", "ended"}, deadline : Nat, stop : BOOLEAN, stepped : Nat]
  /\ feed \in [connected : BOOLEAN, pending : {"none", "sample", "unavailable"},
               pos : CameraValues, yaw : CameraValues]
  /\ now \in Nat
  /\ witness \in [changes : Nat, samples : Nat, aba : BOOLEAN, changed : SUBSET Pointers,
               posTrue : BOOLEAN, yawTrue : BOOLEAN, last : Nat, wrong : BOOLEAN]

\* How far the walk is.
WalkShape ==
  /\ worker.pc = "sample" <=> read.pc # "none"
  /\ read.pc = "resolve" => Len(read.chain) < Depth
  /\ read.pc \in {"pos", "yaw", "verify", "decode"} => Len(read.chain) = Depth
  /\ read.pc \in {"resolve", "pos", "yaw"} => read.again = 0
  /\ read.pc = "verify" => read.again < Depth
  /\ read.pc = "decode" => read.again = Depth

\* The slot that led to the chain's pointer i, by the object that holds it.
SlotOf(chain, i) == IF i = 1 THEN Null ELSE chain[1]

\* A slot that is not what the walk found has changed during the walk.
ChangesAreNoted ==
  read.pc # "none" =>
    \A i \in 1..Len(read.chain) :
      SlotValue(read.chain, i) # read.chain[i] => SlotOf(read.chain, i) \in witness.changed

\* The second walk, or the look at the process after it, will not pass.
Exposed ==
  \/ ~process.running
  \/ read.again < Depth /\ read.chain[1] \notin process.live
  \/ \E i \in 1..Depth : i > read.again /\ SlotValue(read.chain, i) # read.chain[i]

\* A half that was not the player's, read while no slot changed twice, does
\* not get past the second walk.
WrongIsExposed ==
  /\ ~witness.aba /\ read.pc \in {"yaw", "verify", "decode"} /\ ~witness.posTrue => Exposed
  /\ ~witness.aba /\ read.pc \in {"verify", "decode"} /\ ~witness.yawTrue => Exposed

\* The worker's deadlines and the pump's due times.
WakesInTime ==
  /\ worker.pc \in {"loop", "sample"} => now <= worker.deadline + Lateness
  /\ worker.pc = "sample" => worker.deadline <= worker.stepped /\ worker.stepped <= now
  /\ worker.pc = "loop" /\ pump.world =>
       pump.due = witness.last + Interval /\ worker.deadline <= witness.last + 2 * Interval

LocalInv ==
  /\ LocalTypeOK
  /\ WalkShape
  /\ ChangesAreNoted
  /\ WrongIsExposed
  /\ WakesInTime
  /\ EachHalfWasTrue
  /\ TitleScreenRetries
  /\ NeverTheOrigin

\* No object is at address zero, and a worker wakes within an interval.
PumpAssumption ==
  /\ Null \notin Objects
  /\ Interval \in Nat /\ Lateness \in Nat /\ Lateness <= Interval

-----------------------------------------------------------------------------
(* Proofs, for every set of objects and camera values, every interval and  *)
(* every lateness up to it.                                                *)

LEMMA LocalStarts == ASSUME PumpAssumption, LocalInit PROVE LocalInv
<1> USE DEF LocalInit, NoRead, Depth
<1>1. <<>> \in Seq(Objects) /\ Len(<<>>) = 0
  OBVIOUS
<1>2. <<Zero, Zero>> \in [1..2 -> CameraValues]
  BY DEF CameraValues
<1>3. [o \in Objects |-> <<Zero, Zero>>] \in [Objects -> [1..2 -> CameraValues]]
  BY <1>2
<1>4. LocalTypeOK
  <2>1. process \in [running : BOOLEAN, root : Pointers, live : SUBSET Objects,
                  link : [Objects -> Pointers], cam : [Objects -> [1..2 -> CameraValues]]]
    BY <1>3 DEF Pointers
  <2>2. read \in [pc : {"none", "resolve", "pos", "yaw", "verify", "decode"}, chain : Seq(Objects),
                  pos : CameraValues, yaw : CameraValues, again : 0..Depth]
    BY <1>1 DEF CameraValues
  <2>3. feed \in [connected : BOOLEAN, pending : {"none", "sample", "unavailable"},
                  pos : CameraValues, yaw : CameraValues]
    BY DEF CameraValues
  <2>4. witness \in [changes : Nat, samples : Nat, aba : BOOLEAN, changed : SUBSET Pointers,
                  posTrue : BOOLEAN, yawTrue : BOOLEAN, last : Nat, wrong : BOOLEAN]
    OBVIOUS
  <2>5. /\ worker \in [pc : {"loop", "sample", "ended"}, deadline : Nat, stop : BOOLEAN,
                       stepped : Nat]
        /\ pump \in [phase : {"Active", "Disconnected"}, sequence : Nat, due : Nat,
                     reason : {"none", "ReadFailed", "UnstablePointerChain", "InvalidPosition"},
                     world : BOOLEAN]
    OBVIOUS
  <2> QED
    BY <2>1, <2>2, <2>3, <2>4, <2>5 DEF LocalTypeOK
<1>5. WalkShape /\ ChangesAreNoted /\ WrongIsExposed
  BY DEF WalkShape, ChangesAreNoted, WrongIsExposed
<1>6. WakesInTime
  BY DEF WakesInTime, PumpAssumption
<1>7. EachHalfWasTrue /\ TitleScreenRetries /\ NeverTheOrigin
  BY DEF EachHalfWasTrue, TitleScreenRetries, NeverTheOrigin
<1> QED
  BY <1>4, <1>5, <1>6, <1>7 DEF LocalInv

\* Between samples nothing is said of the walk.
LEMMA NoWalk ==
  ASSUME read'.pc = "none", worker'.pc # "sample"
  PROVE  WalkShape' /\ ChangesAreNoted' /\ WrongIsExposed'
  BY DEF WalkShape, ChangesAreNoted, WrongIsExposed

\* The source ends: Ended with a reason that is one.
LEMMA EndedKeeps ==
  ASSUME LocalInv, NEW reason \in {"ReadFailed", "UnstablePointerChain", "InvalidPosition"},
         Ended(reason), UNCHANGED <<process, now>>,
         witness' \in [changes : Nat, samples : Nat, aba : BOOLEAN, changed : SUBSET Pointers,
                    posTrue : BOOLEAN, yawTrue : BOOLEAN, last : Nat, wrong : BOOLEAN],
         witness'.wrong = witness.wrong
  PROVE  LocalInv'
<1> USE DEF LocalInv
<1>1. /\ pump' \in [phase : {"Active", "Disconnected"}, sequence : Nat, due : Nat,
                    reason : {"none", "ReadFailed", "UnstablePointerChain", "InvalidPosition"},
                    world : BOOLEAN]
      /\ pump'.reason = reason
  BY DEF Ended, LocalTypeOK
<1>2. /\ feed' \in [connected : BOOLEAN, pending : {"none", "sample", "unavailable"},
                    pos : CameraValues, yaw : CameraValues]
      /\ feed'.pending = "none"
  BY DEF Ended, LocalTypeOK
<1>3. /\ worker' \in [pc : {"loop", "sample", "ended"}, deadline : Nat, stop : BOOLEAN,
                      stepped : Nat]
      /\ worker'.pc = "ended"
  BY DEF Ended, LocalTypeOK
<1>4. /\ read' \in [pc : {"none", "resolve", "pos", "yaw", "verify", "decode"}, chain : Seq(Objects),
                    pos : CameraValues, yaw : CameraValues, again : 0..Depth]
      /\ read'.pc = "none"
  <2>1. <<>> \in Seq(Objects)
    OBVIOUS
  <2> QED
    BY <2>1 DEF Ended, NoRead, Depth, CameraValues
<1>5. LocalTypeOK'
  BY <1>1, <1>2, <1>3, <1>4 DEF LocalTypeOK
<1>6. WalkShape' /\ ChangesAreNoted' /\ WrongIsExposed'
  BY <1>3, <1>4, NoWalk
<1>7. WakesInTime' /\ EachHalfWasTrue' /\ TitleScreenRetries' /\ NeverTheOrigin'
  BY <1>1, <1>2, <1>3 DEF WakesInTime, EachHalfWasTrue, TitleScreenRetries, NeverTheOrigin
<1> QED
  BY <1>5, <1>6, <1>7

\* The next deadline is in the future, and at most an interval away from the
\* later of the last one and now.
LEMMA NextDeadlineFacts ==
  ASSUME PumpAssumption, now \in Nat, NEW d \in Nat
  PROVE  /\ NextDeadline(d) \in Nat /\ now <= NextDeadline(d)
         /\ NextDeadline(d) = d + Interval
            \/ (NextDeadline(d) = now + Interval /\ d + Interval <= now)
  BY DEF NextDeadline, PumpAssumption

\* A walk that ends with the worker back in its loop.
LEMMA BackInLoop ==
  ASSUME PumpAssumption, LocalInv, worker.pc = "sample", LoopAgain, read' = NoRead, now' = now
  PROVE  /\ worker' \in [pc : {"loop", "sample", "ended"}, deadline : Nat, stop : BOOLEAN,
                         stepped : Nat]
         /\ worker'.pc = "loop" /\ worker'.stop = worker.stop
         /\ now <= worker'.deadline + Lateness
         /\ worker'.deadline <= worker.stepped + 2 * Interval
         /\ read' \in [pc : {"none", "resolve", "pos", "yaw", "verify", "decode"},
                       chain : Seq(Objects), pos : CameraValues, yaw : CameraValues,
                       again : 0..Depth]
         /\ read'.pc = "none"
<1> USE DEF LocalInv
<1> DEFINE d == NextDeadline(worker.deadline)
<1>1. worker.deadline \in Nat /\ worker.stepped \in Nat /\ now \in Nat
  BY DEF LocalTypeOK
<1>2. /\ d \in Nat /\ now <= d
      /\ d = worker.deadline + Interval \/ (d = now + Interval /\ worker.deadline + Interval <= now)
  BY <1>1, NextDeadlineFacts
<1>3. worker' = [worker EXCEPT !.pc = "loop", !.deadline = d]
  BY DEF LoopAgain
<1> HIDE DEF d
<1>4. /\ worker' \in [pc : {"loop", "sample", "ended"}, deadline : Nat, stop : BOOLEAN,
                      stepped : Nat]
      /\ worker'.pc = "loop" /\ worker'.stop = worker.stop /\ worker'.deadline = d
  BY <1>2, <1>3 DEF LocalTypeOK
<1>5. now <= worker.deadline + Lateness /\ worker.deadline <= worker.stepped
  BY DEF WakesInTime
<1>6. d <= worker.stepped + 2 * Interval
  BY <1>1, <1>2, <1>5 DEF PumpAssumption
<1>7. now <= d + Lateness
  BY <1>1, <1>2 DEF PumpAssumption
<1>8. <<>> \in Seq(Objects)
  OBVIOUS
<1> QED
  BY <1>4, <1>6, <1>7, <1>8 DEF NoRead, Depth, CameraValues

\* No active world: the sample that waits is replaced.
LEMMA NoWorldKeeps ==
  ASSUME PumpAssumption, LocalInv, worker.pc = "sample", NoWorld, UNCHANGED <<process, now, witness>>
  PROVE  LocalInv'
<1> USE DEF LocalInv
<1>1. CASE ~process.running
  BY <1>1, EndedKeeps DEF NoWorld, LocalTypeOK
<1>2. CASE process.running
  <2>1. /\ pump' = [pump EXCEPT !.due = DueAfter(worker.stepped), !.world = FALSE]
        /\ feed' = IF pump.world THEN [feed EXCEPT !.pending = "unavailable"] ELSE feed
        /\ LoopAgain /\ read' = NoRead
    BY <1>2 DEF NoWorld
  <2>2. /\ worker' \in [pc : {"loop", "sample", "ended"}, deadline : Nat, stop : BOOLEAN,
                        stepped : Nat]
        /\ worker'.pc = "loop" /\ worker'.stop = worker.stop
        /\ now <= worker'.deadline + Lateness
        /\ read' \in [pc : {"none", "resolve", "pos", "yaw", "verify", "decode"},
                      chain : Seq(Objects), pos : CameraValues, yaw : CameraValues,
                      again : 0..Depth]
        /\ read'.pc = "none"
    BY <2>1, BackInLoop
  <2>3. DueAfter(worker.stepped) \in Nat
    BY DEF DueAfter, LocalTypeOK, PumpAssumption
  <2>4. /\ pump' \in [phase : {"Active", "Disconnected"}, sequence : Nat, due : Nat,
                      reason : {"none", "ReadFailed", "UnstablePointerChain", "InvalidPosition"},
                      world : BOOLEAN]
        /\ pump'.world = FALSE /\ pump'.phase = pump.phase /\ pump'.reason = pump.reason
    BY <2>1, <2>3 DEF LocalTypeOK
  <2>5. /\ feed' \in [connected : BOOLEAN, pending : {"none", "sample", "unavailable"},
                      pos : CameraValues, yaw : CameraValues]
        /\ feed'.pending # "sample"
    BY <2>1 DEF LocalTypeOK, NeverTheOrigin
  <2>6. LocalTypeOK'
    BY <2>2, <2>4, <2>5 DEF LocalTypeOK
  <2>7. WalkShape' /\ ChangesAreNoted' /\ WrongIsExposed'
    BY <2>2, NoWalk
  <2>8. WakesInTime'
    BY <2>2, <2>4 DEF WakesInTime
  <2> QED
    BY <2>2, <2>4, <2>5, <2>6, <2>7, <2>8 DEF EachHalfWasTrue, TitleScreenRetries, NeverTheOrigin
<1> QED
  BY <1>1, <1>2

\* A step of the game leaves the worker and the pump alone: what is left to
\* show is what it does to the walk.
LEMMA GameKeeps ==
  ASSUME LocalInv, UNCHANGED <<pump, read, worker, feed, now>>,
         process' \in [running : BOOLEAN, root : Pointers, live : SUBSET Objects,
                    link : [Objects -> Pointers], cam : [Objects -> [1..2 -> CameraValues]]],
         witness' \in [changes : Nat, samples : Nat, aba : BOOLEAN, changed : SUBSET Pointers,
                    posTrue : BOOLEAN, yawTrue : BOOLEAN, last : Nat, wrong : BOOLEAN],
         witness'.wrong = witness.wrong, witness'.last = witness.last,
         ChangesAreNoted', WrongIsExposed'
  PROVE  LocalInv'
<1> USE DEF LocalInv
<1>1. LocalTypeOK'
  BY DEF LocalTypeOK
<1>2. WalkShape' /\ WakesInTime'
  BY DEF WalkShape, WakesInTime
<1>3. EachHalfWasTrue' /\ TitleScreenRetries' /\ NeverTheOrigin'
  BY DEF EachHalfWasTrue, TitleScreenRetries, NeverTheOrigin
<1> QED
  BY <1>1, <1>2, <1>3

\* Objects that are freed and a game that ends only expose the walk more.
LEMMA SlotsStay ==
  ASSUME LocalInv, read' = read, process'.root = process.root, process'.link = process.link,
         process'.live \subseteq process.live, process'.running => process.running,
         witness'.aba = witness.aba, witness'.changed = witness.changed,
         witness'.posTrue = witness.posTrue, witness'.yawTrue = witness.yawTrue
  PROVE  ChangesAreNoted' /\ WrongIsExposed'
<1> USE DEF LocalInv
<1>1. ChangesAreNoted'
  BY DEF ChangesAreNoted, SlotValue, SlotOf
<1>2. Exposed => Exposed'
  BY DEF Exposed, SlotValue
<1> QED
  BY <1>1, <1>2 DEF WrongIsExposed

\* The game's steps that change no slot only count in the history.
LEMMA OnlyCounted ==
  ASSUME LocalInv, witness' = [witness EXCEPT !.changes = @ + 1]
  PROVE  /\ witness' \in [changes : Nat, samples : Nat, aba : BOOLEAN, changed : SUBSET Pointers,
                       posTrue : BOOLEAN, yawTrue : BOOLEAN, last : Nat, wrong : BOOLEAN]
         /\ witness'.wrong = witness.wrong /\ witness'.last = witness.last /\ witness'.aba = witness.aba
         /\ witness'.changed = witness.changed /\ witness'.posTrue = witness.posTrue
         /\ witness'.yawTrue = witness.yawTrue
<1>1. witness \in [changes : Nat, samples : Nat, aba : BOOLEAN, changed : SUBSET Pointers,
                posTrue : BOOLEAN, yawTrue : BOOLEAN, last : Nat, wrong : BOOLEAN]
  BY DEF LocalInv, LocalTypeOK
<1>2. witness' \in [changes : Nat, samples : Nat, aba : BOOLEAN, changed : SUBSET Pointers,
                 posTrue : BOOLEAN, yawTrue : BOOLEAN, last : Nat, wrong : BOOLEAN]
  BY <1>1
<1>3. /\ witness'.wrong = witness.wrong /\ witness'.last = witness.last /\ witness'.aba = witness.aba
      /\ witness'.changed = witness.changed /\ witness'.posTrue = witness.posTrue
      /\ witness'.yawTrue = witness.yawTrue
  BY <1>1, Zenon
<1> QED
  BY <1>2, <1>3

LEMMA GameMovesKeeps == ASSUME LocalInv, GameMoves PROVE LocalInv'
<1> USE DEF LocalInv
<1>1. PICK half \in 1..2, v \in Halves :
        process' = [process EXCEPT !.cam[process.link[process.root]][half] = v]
  BY DEF GameMoves
<1>2. process.link[process.root] \in Objects
  BY DEF GameMoves, InWorld, LocalTypeOK
<1> DEFINE c == process.link[process.root]
           block == [process.cam[c] EXCEPT ![half] = v]
<1>3. block \in [1..2 -> CameraValues]
  BY <1>2 DEF LocalTypeOK, CameraValues
<1>4. process' = [process EXCEPT !.cam = [@ EXCEPT ![c] = block]]
  BY <1>1 DEF LocalTypeOK
<1> HIDE DEF c, block
<1>5. [process.cam EXCEPT ![c] = block] \in [Objects -> [1..2 -> CameraValues]]
  BY <1>3 DEF LocalTypeOK
<1>6. /\ process' \in [running : BOOLEAN, root : Pointers, live : SUBSET Objects,
                    link : [Objects -> Pointers], cam : [Objects -> [1..2 -> CameraValues]]]
      /\ process'.root = process.root /\ process'.link = process.link /\ process'.live = process.live
      /\ process'.running = process.running
  BY <1>4, <1>5 DEF LocalTypeOK
<1>7. witness' = [witness EXCEPT !.changes = @ + 1] /\ UNCHANGED <<pump, read, worker, feed, now>>
  BY DEF GameMoves
<1>8. /\ witness' \in [changes : Nat, samples : Nat, aba : BOOLEAN, changed : SUBSET Pointers,
                    posTrue : BOOLEAN, yawTrue : BOOLEAN, last : Nat, wrong : BOOLEAN]
      /\ witness'.wrong = witness.wrong /\ witness'.last = witness.last /\ witness'.aba = witness.aba
      /\ witness'.changed = witness.changed /\ witness'.posTrue = witness.posTrue
      /\ witness'.yawTrue = witness.yawTrue
  BY <1>7, OnlyCounted
<1>9. ChangesAreNoted' /\ WrongIsExposed'
  BY <1>6, <1>7, <1>8, SlotsStay
<1> QED
  BY <1>6, <1>7, <1>8, <1>9, GameKeeps

LEMMA GameFreesKeeps == ASSUME LocalInv, GameFrees PROVE LocalInv'
<1> USE DEF LocalInv
<1>1. PICK o \in process.live :
        process' = [process EXCEPT !.live = @ \ {o}, !.cam[o] = <<Invalid, Invalid>>]
  BY DEF GameFrees
<1>2. <<Invalid, Invalid>> \in [1..2 -> CameraValues]
  BY DEF CameraValues
<1>3. [process.cam EXCEPT ![o] = <<Invalid, Invalid>>] \in [Objects -> [1..2 -> CameraValues]]
  BY <1>2 DEF LocalTypeOK
<1>4. /\ process' \in [running : BOOLEAN, root : Pointers, live : SUBSET Objects,
                    link : [Objects -> Pointers], cam : [Objects -> [1..2 -> CameraValues]]]
      /\ process'.root = process.root /\ process'.link = process.link /\ process'.live \subseteq process.live
      /\ process'.running = process.running
  BY <1>1, <1>3 DEF LocalTypeOK
<1>5. witness' = [witness EXCEPT !.changes = @ + 1] /\ UNCHANGED <<pump, read, worker, feed, now>>
  BY DEF GameFrees
<1>6. /\ witness' \in [changes : Nat, samples : Nat, aba : BOOLEAN, changed : SUBSET Pointers,
                    posTrue : BOOLEAN, yawTrue : BOOLEAN, last : Nat, wrong : BOOLEAN]
      /\ witness'.wrong = witness.wrong /\ witness'.last = witness.last /\ witness'.aba = witness.aba
      /\ witness'.changed = witness.changed /\ witness'.posTrue = witness.posTrue
      /\ witness'.yawTrue = witness.yawTrue
  BY <1>5, OnlyCounted
<1>7. ChangesAreNoted' /\ WrongIsExposed'
  BY <1>4, <1>5, <1>6, SlotsStay
<1> QED
  BY <1>4, <1>5, <1>6, <1>7, GameKeeps

LEMMA GameEndsKeeps == ASSUME LocalInv, GameEnds PROVE LocalInv'
<1> USE DEF LocalInv
<1>1. /\ process' \in [running : BOOLEAN, root : Pointers, live : SUBSET Objects,
                    link : [Objects -> Pointers], cam : [Objects -> [1..2 -> CameraValues]]]
      /\ process'.root = process.root /\ process'.link = process.link /\ process'.live = process.live
      /\ process'.running = FALSE
  BY DEF GameEnds, LocalTypeOK
<1>2. witness' = [witness EXCEPT !.changes = @ + 1] /\ UNCHANGED <<pump, read, worker, feed, now>>
  BY DEF GameEnds
<1>3. /\ witness' \in [changes : Nat, samples : Nat, aba : BOOLEAN, changed : SUBSET Pointers,
                    posTrue : BOOLEAN, yawTrue : BOOLEAN, last : Nat, wrong : BOOLEAN]
      /\ witness'.wrong = witness.wrong /\ witness'.last = witness.last /\ witness'.aba = witness.aba
      /\ witness'.changed = witness.changed /\ witness'.posTrue = witness.posTrue
      /\ witness'.yawTrue = witness.yawTrue
  BY <1>2, OnlyCounted
<1>4. ChangesAreNoted' /\ WrongIsExposed'
  BY <1>1, <1>2, <1>3, SlotsStay
<1> QED
  BY <1>1, <1>2, <1>3, <1>4, GameKeeps

\* What Noted does to the history of the walk.
LEMMA NotedFacts ==
  ASSUME LocalInv, NEW slot \in Pointers, witness' = Noted(slot), read' = read
  PROVE  /\ witness' \in [changes : Nat, samples : Nat, aba : BOOLEAN, changed : SUBSET Pointers,
                       posTrue : BOOLEAN, yawTrue : BOOLEAN, last : Nat, wrong : BOOLEAN]
         /\ witness'.wrong = witness.wrong /\ witness'.last = witness.last
         /\ witness'.posTrue = witness.posTrue /\ witness'.yawTrue = witness.yawTrue
         /\ read.pc # "none" => /\ witness'.changed = witness.changed \cup {slot}
                                /\ ~witness'.aba => ~witness.aba /\ slot \notin witness.changed
<1>1. witness \in [changes : Nat, samples : Nat, aba : BOOLEAN, changed : SUBSET Pointers,
                posTrue : BOOLEAN, yawTrue : BOOLEAN, last : Nat, wrong : BOOLEAN]
  BY DEF LocalInv, LocalTypeOK
<1> DEFINE twice == witness.aba \/ (read.pc # "none" /\ slot \in witness.changed)
           slots == IF read.pc = "none" THEN {} ELSE witness.changed \cup {slot}
           count == witness.changes + 1
<1>2. slots \in SUBSET Pointers /\ count \in Nat
  BY <1>1
<1>3. twice \in BOOLEAN
  BY Zenon
<1>4. witness' = [witness EXCEPT !.changes = count, !.aba = twice, !.changed = slots]
  BY DEF Noted
<1>5. /\ read.pc # "none" => slots = witness.changed \cup {slot}
      /\ read.pc # "none" /\ ~twice => ~witness.aba /\ slot \notin witness.changed
  OBVIOUS
<1> HIDE DEF twice, slots, count
<1>6. witness' \in [changes : Nat, samples : Nat, aba : BOOLEAN, changed : SUBSET Pointers,
                 posTrue : BOOLEAN, yawTrue : BOOLEAN, last : Nat, wrong : BOOLEAN]
  BY <1>1, <1>2, <1>3, <1>4, Zenon
<1>7. /\ witness'.wrong = witness.wrong /\ witness'.last = witness.last
      /\ witness'.posTrue = witness.posTrue /\ witness'.yawTrue = witness.yawTrue
      /\ witness'.changed = slots /\ witness'.aba = twice
  BY <1>1, <1>4, Zenon
<1> QED
  BY <1>5, <1>6, <1>7

\* A slot that changes is noted, and a slot that exposes the walk goes on
\* doing so unless it has changed twice.
LEMMA SlotChanges ==
  ASSUME PumpAssumption, LocalInv, NEW slot \in Pointers, witness' = Noted(slot), read' = read,
         process'.live = process.live, process'.running = process.running,
         \A i \in 1..Len(read.chain) :
            SlotOf(read.chain, i) # slot => SlotValue(read.chain, i)' = SlotValue(read.chain, i)
  PROVE  ChangesAreNoted' /\ WrongIsExposed'
<1> USE DEF LocalInv
<1>1. /\ witness'.posTrue = witness.posTrue /\ witness'.yawTrue = witness.yawTrue
      /\ read.pc # "none" => /\ witness'.changed = witness.changed \cup {slot}
                             /\ ~witness'.aba => ~witness.aba /\ slot \notin witness.changed
  BY NotedFacts
<1>2. ChangesAreNoted'
  <2> SUFFICES ASSUME read.pc # "none", NEW i \in 1..Len(read.chain),
                      SlotValue(read.chain, i)' # read.chain[i]
               PROVE  SlotOf(read.chain, i) \in witness'.changed
    BY DEF ChangesAreNoted, SlotOf, SlotValue
  <2>1. CASE SlotOf(read.chain, i) = slot
    BY <1>1, <2>1
  <2>2. CASE SlotOf(read.chain, i) # slot
    <3>1. SlotValue(read.chain, i) # read.chain[i]
      BY <2>2 DEF SlotOf, SlotValue
    <3> QED
      BY <1>1, <3>1 DEF ChangesAreNoted
  <2> QED
    BY <2>1, <2>2
<1>3. ASSUME read.pc \in {"yaw", "verify", "decode"}, ~witness'.aba, Exposed
      PROVE  Exposed'
  <2>1. Len(read.chain) = Depth /\ read.pc # "none"
    BY <1>3 DEF WalkShape
  <2>2. slot \notin witness.changed
    BY <1>1, <1>3
  <2>3. CASE ~process.running \/ (read.again < Depth /\ read.chain[1] \notin process.live)
    BY <2>3 DEF Exposed
  <2>4. CASE \E i \in 1..Depth : i > read.again /\ SlotValue(read.chain, i) # read.chain[i]
    <3>1. PICK i \in 1..Depth : i > read.again /\ SlotValue(read.chain, i) # read.chain[i]
      BY <2>4
    <3>2. SlotOf(read.chain, i) \in witness.changed
      BY <2>1, <3>1 DEF ChangesAreNoted
    <3>3. SlotValue(read.chain, i)' = SlotValue(read.chain, i)
      BY <2>1, <2>2, <3>2
    <3>4. SlotValue(read.chain, i)' # read.chain[i]
      BY <3>1, <3>3
    <3> QED
      BY <3>1, <3>4 DEF Exposed
  <2> QED
    BY <1>3, <2>3, <2>4 DEF Exposed
<1>4. WrongIsExposed'
  BY <1>1, <1>3 DEF WrongIsExposed
<1> QED
  BY <1>2, <1>4

LEMMA GameRelinksKeeps == ASSUME PumpAssumption, LocalInv, GameRelinks PROVE LocalInv'
<1> USE DEF LocalInv
<1>0. UNCHANGED <<pump, read, worker, feed, now>> /\ read.chain \in Seq(Objects)
  BY DEF GameRelinks, LocalTypeOK
<1>1. ASSUME NEW p \in Pointers, process' = [process EXCEPT !.root = p], witness' = Noted(Null)
      PROVE  LocalInv'
  <2>1. /\ process' \in [running : BOOLEAN, root : Pointers, live : SUBSET Objects,
                      link : [Objects -> Pointers], cam : [Objects -> [1..2 -> CameraValues]]]
        /\ process'.live = process.live /\ process'.running = process.running /\ process'.link = process.link
    BY <1>1 DEF LocalTypeOK
  <2>2. Null \in Pointers
    BY DEF Pointers
  <2>3. \A i \in 1..Len(read.chain) : SlotOf(read.chain, i) # Null =>
          SlotValue(read.chain, i)' = SlotValue(read.chain, i)
    BY <1>0, <2>1 DEF SlotOf, SlotValue
  <2> QED
    BY <1>0, <1>1, <2>1, <2>2, <2>3, NotedFacts, SlotChanges, GameKeeps
<1>2. ASSUME NEW o \in Objects, NEW p \in Pointers, process' = [process EXCEPT !.link[o] = p],
             witness' = Noted(o)
      PROVE  LocalInv'
  <2>1. [process.link EXCEPT ![o] = p] \in [Objects -> Pointers]
    BY DEF LocalTypeOK
  <2>2. /\ process' \in [running : BOOLEAN, root : Pointers, live : SUBSET Objects,
                      link : [Objects -> Pointers], cam : [Objects -> [1..2 -> CameraValues]]]
        /\ process'.live = process.live /\ process'.running = process.running /\ process'.root = process.root
        /\ process'.link = [process.link EXCEPT ![o] = p]
    BY <1>2, <2>1 DEF LocalTypeOK
  <2>3. o \in Pointers
    BY DEF Pointers
  <2>4. \A i \in 1..Len(read.chain) : SlotOf(read.chain, i) # o =>
          SlotValue(read.chain, i)' = SlotValue(read.chain, i)
    BY <1>0, <2>2 DEF SlotOf, SlotValue, LocalTypeOK
  <2> QED
    BY <1>0, <1>2, <2>2, <2>3, <2>4, NotedFacts, SlotChanges, GameKeeps
<1> QED
  BY <1>1, <1>2 DEF GameRelinks

\* The stop flag ends the source without a reason, which is allowed.
LEMMA WorkerStopsKeeps == ASSUME LocalInv, WorkerStops PROVE LocalInv'
<1> USE DEF LocalInv
<1>1. /\ worker' \in [pc : {"loop", "sample", "ended"}, deadline : Nat, stop : BOOLEAN,
                      stepped : Nat]
      /\ worker'.pc = "ended" /\ worker'.stop
  BY DEF WorkerStops, LocalTypeOK
<1>2. pump' \in [phase : {"Active", "Disconnected"}, sequence : Nat, due : Nat,
                 reason : {"none", "ReadFailed", "UnstablePointerChain", "InvalidPosition"},
                 world : BOOLEAN]
  BY DEF WorkerStops, LocalTypeOK
<1>3. /\ feed' \in [connected : BOOLEAN, pending : {"none", "sample", "unavailable"},
                    pos : CameraValues, yaw : CameraValues]
      /\ feed'.pending = "none"
  BY DEF WorkerStops, LocalTypeOK
<1>4. UNCHANGED <<process, read, now, witness>> /\ read.pc = "none"
  BY DEF WorkerStops, WalkShape
<1>5. LocalTypeOK'
  BY <1>1, <1>2, <1>3, <1>4 DEF LocalTypeOK
<1>6. WalkShape' /\ ChangesAreNoted' /\ WrongIsExposed'
  BY <1>1, <1>4, NoWalk
<1> QED
  BY <1>1, <1>3, <1>4, <1>5, <1>6
     DEF WakesInTime, EachHalfWasTrue, TitleScreenRetries, NeverTheOrigin

\* A wake-up before the sample is due: the next one is not another interval
\* late.
LEMMA WorkerSkipsKeeps == ASSUME PumpAssumption, LocalInv, WorkerSkips PROVE LocalInv'
<1> USE DEF LocalInv
<1> DEFINE d == NextDeadline(worker.deadline)
<1>1. worker.deadline \in Nat /\ now \in Nat /\ witness.last \in Nat /\ pump.due \in Nat
  BY DEF LocalTypeOK
<1>2. /\ d \in Nat /\ now <= d
      /\ d = worker.deadline + Interval \/ (d = now + Interval /\ worker.deadline + Interval <= now)
  BY <1>1, NextDeadlineFacts
<1>3. worker' = [worker EXCEPT !.pc = "loop", !.deadline = d]
  BY DEF WorkerSkips, LoopAgain
<1> HIDE DEF d
<1>4. /\ worker' \in [pc : {"loop", "sample", "ended"}, deadline : Nat, stop : BOOLEAN,
                      stepped : Nat]
      /\ worker'.pc = "loop" /\ worker'.stop = worker.stop /\ worker'.deadline = d
  BY <1>2, <1>3 DEF LocalTypeOK
<1>5. UNCHANGED <<process, pump, read, feed, now, witness>> /\ read.pc = "none"
  BY DEF WorkerSkips, WalkShape
<1>6. LocalTypeOK'
  BY <1>4, <1>5 DEF LocalTypeOK
<1>7. WalkShape' /\ ChangesAreNoted' /\ WrongIsExposed'
  BY <1>4, <1>5, NoWalk
<1>8. pump.world => pump.due = witness.last + Interval /\ d <= witness.last + 2 * Interval
  <2>1. now >= worker.deadline /\ now < pump.due /\ worker.pc = "loop"
    BY DEF WorkerSkips
  <2>2. pump.world => pump.due = witness.last + Interval
    BY <2>1 DEF WakesInTime
  <2> QED
    BY <1>1, <1>2, <2>1, <2>2 DEF PumpAssumption
<1>9. WakesInTime'
  BY <1>1, <1>2, <1>4, <1>5, <1>8 DEF WakesInTime, PumpAssumption
<1> QED
  BY <1>4, <1>5, <1>6, <1>7, <1>9 DEF EachHalfWasTrue, TitleScreenRetries, NeverTheOrigin

\* A sample begins with an empty chain and a fresh history of the walk.
LEMMA WorkerSamplesKeeps == ASSUME PumpAssumption, LocalInv, WorkerSamples PROVE LocalInv'
<1> USE DEF LocalInv
<1>1. UNCHANGED <<process, now>>
  BY DEF WorkerSamples
<1>2. witness \in [changes : Nat, samples : Nat, aba : BOOLEAN, changed : SUBSET Pointers,
                posTrue : BOOLEAN, yawTrue : BOOLEAN, last : Nat, wrong : BOOLEAN]
  BY DEF LocalTypeOK
<1> DEFINE count == witness.samples + 1
<1>3. count \in Nat
  BY <1>2
<1>4. witness' = [witness EXCEPT !.samples = count, !.aba = FALSE, !.changed = {},
                           !.posTrue = FALSE, !.yawTrue = FALSE]
  BY DEF WorkerSamples
<1> HIDE DEF count
<1>5. witness' \in [changes : Nat, samples : Nat, aba : BOOLEAN, changed : SUBSET Pointers,
                 posTrue : BOOLEAN, yawTrue : BOOLEAN, last : Nat, wrong : BOOLEAN]
  BY <1>2, <1>3, <1>4
<1>6. witness'.wrong = witness.wrong
  BY <1>2, <1>4, Zenon
<1>7. CASE ~process.running
  BY <1>1, <1>5, <1>6, <1>7, EndedKeeps DEF WorkerSamples
<1>8. CASE process.running
  <2>1. /\ worker' = [worker EXCEPT !.pc = "sample", !.stepped = now]
        /\ read' = [NoRead EXCEPT !.pc = "resolve"] /\ UNCHANGED <<pump, feed>>
    BY <1>8 DEF WorkerSamples
  <2>2. /\ worker' \in [pc : {"loop", "sample", "ended"}, deadline : Nat, stop : BOOLEAN,
                        stepped : Nat]
        /\ worker'.pc = "sample" /\ worker'.stop = worker.stop
        /\ worker'.deadline = worker.deadline /\ worker'.stepped = now
    BY <2>1 DEF LocalTypeOK
  <2>3. /\ read' \in [pc : {"none", "resolve", "pos", "yaw", "verify", "decode"},
                      chain : Seq(Objects), pos : CameraValues, yaw : CameraValues,
                      again : 0..Depth]
        /\ read'.pc = "resolve" /\ Len(read'.chain) = 0 /\ read'.again = 0
    <3>1. <<>> \in Seq(Objects) /\ Len(<<>>) = 0
      OBVIOUS
    <3>2. read' = [pc |-> "resolve", chain |-> <<>>, pos |-> Zero, yaw |-> Zero, again |-> 0]
      BY <2>1 DEF NoRead
    <3>3. Zero \in CameraValues /\ 0 \in 0..Depth
      BY DEF CameraValues, Depth
    <3> QED
      BY <3>1, <3>2, <3>3
  <2>4. LocalTypeOK'
    BY <1>1, <1>5, <2>1, <2>2, <2>3 DEF LocalTypeOK
  <2>5. WalkShape' /\ WrongIsExposed'
    BY <2>2, <2>3 DEF WalkShape, WrongIsExposed, Depth
  <2>6. ChangesAreNoted'
    BY <2>3 DEF ChangesAreNoted
  <2>7. WakesInTime'
    <3>1. worker.pc = "loop" /\ now >= worker.deadline /\ now \in Nat /\ worker.deadline \in Nat
      BY DEF WorkerSamples, LocalTypeOK
    <3> QED
      BY <1>1, <2>2, <3>1 DEF WakesInTime
  <2> QED
    BY <1>6, <2>1, <2>2, <2>4, <2>5, <2>6, <2>7
       DEF EachHalfWasTrue, TitleScreenRetries, NeverTheOrigin
<1> QED
  BY <1>7, <1>8

\* A step of the walk that only changes the walk.
LEMMA WalkKeeps ==
  ASSUME LocalInv, UNCHANGED <<process, pump, worker, feed, now>>,
         read' \in [pc : {"none", "resolve", "pos", "yaw", "verify", "decode"},
                    chain : Seq(Objects), pos : CameraValues, yaw : CameraValues,
                    again : 0..Depth],
         witness' \in [changes : Nat, samples : Nat, aba : BOOLEAN, changed : SUBSET Pointers,
                    posTrue : BOOLEAN, yawTrue : BOOLEAN, last : Nat, wrong : BOOLEAN],
         witness'.wrong = witness.wrong, witness'.last = witness.last,
         WalkShape', ChangesAreNoted', WrongIsExposed'
  PROVE  LocalInv'
<1> USE DEF LocalInv
<1>1. LocalTypeOK'
  BY DEF LocalTypeOK
<1> QED
  BY <1>1 DEF WakesInTime, EachHalfWasTrue, TitleScreenRetries, NeverTheOrigin

\* A failed read ends the source for a reason.
LEMMA FailedKeeps ==
  ASSUME LocalInv, NEW reason \in {"ReadFailed", "UnstablePointerChain", "InvalidPosition"},
         Failed(reason), UNCHANGED <<process, now, witness>>
  PROVE  LocalInv'
<1>1. witness' \in [changes : Nat, samples : Nat, aba : BOOLEAN, changed : SUBSET Pointers,
                 posTrue : BOOLEAN, yawTrue : BOOLEAN, last : Nat, wrong : BOOLEAN]
  BY DEF LocalInv, LocalTypeOK
<1> DEFINE answer == IF process.running THEN reason ELSE "ReadFailed"
<1>2. answer \in {"ReadFailed", "UnstablePointerChain", "InvalidPosition"} /\ Ended(answer)
  BY DEF Failed
<1> HIDE DEF answer
<1> QED
  BY <1>1, <1>2, EndedKeeps

\* A pointer that has just been read is what its slot holds.
LEMMA ResolveKeeps == ASSUME PumpAssumption, LocalInv, Resolve PROVE LocalInv'
<1> USE DEF LocalInv
<1>1. /\ UNCHANGED <<process, now, witness>> /\ read.pc = "resolve" /\ worker.pc = "sample"
      /\ read.again = 0
  BY DEF Resolve, WalkShape
<1>2. /\ read \in [pc : {"none", "resolve", "pos", "yaw", "verify", "decode"},
                   chain : Seq(Objects), pos : CameraValues, yaw : CameraValues,
                   again : 0..Depth]
      /\ Len(read.chain) = 0 \/ (Len(read.chain) = 1 /\ read.chain[1] \in Objects)
  <2>1. read \in [pc : {"none", "resolve", "pos", "yaw", "verify", "decode"},
                  chain : Seq(Objects), pos : CameraValues, yaw : CameraValues,
                  again : 0..Depth]
    BY DEF LocalTypeOK
  <2>2. Len(read.chain) < 2
    BY <1>1 DEF WalkShape, Depth
  <2>3. read.chain \in Seq(Objects)
    BY <2>1
  <2>4. Len(read.chain) \in Nat /\ \A j \in 1..Len(read.chain) : read.chain[j] \in Objects
    BY <2>3
  <2>5. Len(read.chain) = 0 \/ Len(read.chain) = 1
    <3> DEFINE n == Len(read.chain)
    <3>1. n \in Nat /\ n < 2
      BY <2>2, <2>4
    <3> HIDE DEF n
    <3>2. n = 0 \/ n = 1
      BY <3>1
    <3> QED
      BY <3>2 DEF n
  <2>6. Len(read.chain) = 1 => read.chain[1] \in Objects
    BY <2>4
  <2> QED
    BY <2>1, <2>5, <2>6, Zenon
<1> DEFINE i == Len(read.chain) + 1
           p == SlotValue(read.chain, i)
<1>3. i = 1 \/ (i = 2 /\ Len(read.chain) = 1 /\ read.chain[1] \in Objects)
  <2>1. CASE Len(read.chain) = 0
    BY <2>1
  <2>2. CASE Len(read.chain) = 1 /\ read.chain[1] \in Objects
    BY <2>2
  <2> QED
    BY <1>2, <2>1, <2>2
<1>4. CASE ~SlotReadable(read.chain, i) /\ Failed("ReadFailed")
  BY <1>1, <1>4, FailedKeeps
<1>5. CASE NoWorld
  BY <1>1, <1>5, NoWorldKeeps
<1>6. CASE /\ p # Null /\ UNCHANGED <<pump, feed, worker>>
           /\ read' = [read EXCEPT !.chain = Append(@, p),
                                   !.pc = IF i = Depth THEN "pos" ELSE "resolve"]
  <2>1. p \in Objects
    <3> HIDE DEF i
    <3> QED
      BY <1>6, <1>3 DEF SlotValue, LocalTypeOK, Pointers
  <2> DEFINE longer == Append(read.chain, p)
  <2>2. /\ longer \in Seq(Objects) /\ Len(longer) = i /\ longer[i] = p
        /\ \A j \in 1..Len(read.chain) : longer[j] = read.chain[j]
    BY <1>2, <2>1
  <2>3. /\ read'.chain = longer /\ read'.again = 0
        /\ read'.pc = IF i = Depth THEN "pos" ELSE "resolve"
    BY <1>1, <1>2, <1>6
  <2>4. read' \in [pc : {"none", "resolve", "pos", "yaw", "verify", "decode"},
                   chain : Seq(Objects), pos : CameraValues, yaw : CameraValues,
                   again : 0..Depth]
    <3> DEFINE pc == IF i = Depth THEN "pos" ELSE "resolve"
    <3>1. read' = [read EXCEPT !.chain = longer, !.pc = pc]
      BY <1>6
    <3>2. pc \in {"none", "resolve", "pos", "yaw", "verify", "decode"}
      OBVIOUS
    <3> HIDE DEF pc, longer
    <3> QED
      BY <1>2, <2>2, <3>1, <3>2
  <2>5. SlotValue(longer, i) = p
    <3>1. i = 1 \/ (i = 2 /\ longer[1] = read.chain[1])
      BY <1>3, <2>2
    <3> HIDE DEF longer
    <3> QED
      BY <3>1 DEF SlotValue
  <2>6. \A j \in 1..Len(read.chain) : SlotValue(longer, j) = SlotValue(read.chain, j)
    BY <1>2, <2>2 DEF SlotValue
  <2>7. \A j \in 1..Len(read.chain) : SlotOf(longer, j) = SlotOf(read.chain, j)
    BY <1>2, <2>2 DEF SlotOf
  <2> HIDE DEF longer
  <2>8. ChangesAreNoted'
    <3> SUFFICES ASSUME NEW j \in 1..i, SlotValue(longer, j) # longer[j]
                 PROVE  SlotOf(longer, j) \in witness.changed
      BY <1>1, <2>2, <2>3 DEF ChangesAreNoted, SlotValue, SlotOf
    <3>1. j \in 1..Len(read.chain)
      BY <1>2, <2>2, <2>5
    <3> QED
      BY <1>1, <2>2, <2>6, <2>7, <3>1 DEF ChangesAreNoted
  <2>9. WalkShape' /\ WrongIsExposed'
    BY <1>1, <1>2, <1>6, <2>2, <2>3 DEF WalkShape, WrongIsExposed, Depth
  <2> QED
    BY <1>1, <1>6, <2>4, <2>8, <2>9, WalkKeeps DEF LocalTypeOK
<1> QED
  BY <1>4, <1>5, <1>6 DEF Resolve

\* A walk that nothing exposes has found the player's camera.
LEMMA UnexposedIsTrue ==
  ASSUME LocalInv, read.again = 0, ~Exposed
  PROVE  /\ process.running /\ process.root = read.chain[1] /\ read.chain[1] \in process.live
         /\ process.link[process.root] = read.chain[2]
<1>1. /\ process.running /\ read.chain[1] \in process.live
      /\ \A i \in 1..2 : SlotValue(read.chain, i) = read.chain[i]
  BY DEF Exposed, Depth
<1>2. SlotValue(read.chain, 1) = read.chain[1] /\ SlotValue(read.chain, 2) = read.chain[2]
  BY <1>1
<1> QED
  BY <1>1, <1>2 DEF SlotValue

\* A half that is not the player's is read along a chain that the second walk
\* will find changed.
LEMMA ReadCameraKeeps == ASSUME LocalInv, ReadCamera PROVE LocalInv'
<1> USE DEF LocalInv
<1> DEFINE o == read.chain[Depth]
           half == IF read.pc = "pos" THEN 1 ELSE 2
           true == InWorld /\ TrueCamera[half] = process.cam[o][half]
<1>1. UNCHANGED <<process, now>> /\ read.pc \in {"pos", "yaw"} /\ read.again = 0
  BY DEF ReadCamera, WalkShape
<1>2. CASE Failed("ReadFailed") /\ UNCHANGED witness
  BY <1>1, <1>2, FailedKeeps
<1>3. CASE /\ o \in process.live /\ UNCHANGED <<pump, feed, worker>>
           /\ read' = IF half = 1
                        THEN [read EXCEPT !.pos = process.cam[o][1], !.pc = "yaw"]
                        ELSE [read EXCEPT !.yaw = process.cam[o][2], !.pc = "verify"]
           /\ witness' = IF half = 1 THEN [witness EXCEPT !.posTrue = true]
                                  ELSE [witness EXCEPT !.yawTrue = true]
  <2>1. read \in [pc : {"none", "resolve", "pos", "yaw", "verify", "decode"},
                  chain : Seq(Objects), pos : CameraValues, yaw : CameraValues,
                  again : 0..Depth]
    BY DEF LocalTypeOK
  <2>2. witness \in [changes : Nat, samples : Nat, aba : BOOLEAN, changed : SUBSET Pointers,
                  posTrue : BOOLEAN, yawTrue : BOOLEAN, last : Nat, wrong : BOOLEAN]
    BY DEF LocalTypeOK
  <2>3. process.cam[o][1] \in CameraValues /\ process.cam[o][2] \in CameraValues
    BY <1>3 DEF LocalTypeOK
  <2>4. true \in BOOLEAN
    BY Zenon
  <2>5. ~true => Exposed
    <3> SUFFICES ASSUME ~Exposed PROVE true
      BY Zenon
    <3>1. /\ process.running /\ process.root = read.chain[1] /\ read.chain[1] \in process.live
          /\ process.link[process.root] = read.chain[2]
      BY <1>1, UnexposedIsTrue
    <3>2. o = read.chain[2]
      BY DEF Depth
    <3> HIDE DEF o, half
    <3> QED
      BY <1>3, <3>1, <3>2 DEF InWorld, TrueCamera
  <2> HIDE DEF o, true
  <2>6. CASE read.pc = "pos"
    <3>1. /\ read' = [read EXCEPT !.pos = process.cam[o][1], !.pc = "yaw"]
          /\ witness' = [witness EXCEPT !.posTrue = true]
      BY <1>3, <2>6
    <3>2. read' \in [pc : {"none", "resolve", "pos", "yaw", "verify", "decode"},
                     chain : Seq(Objects), pos : CameraValues, yaw : CameraValues,
                     again : 0..Depth]
      BY <2>1, <2>3, <3>1
    <3>3. read'.pc = "yaw" /\ read'.chain = read.chain /\ read'.again = read.again
      BY <2>1, <3>1
    <3>4. witness' \in [changes : Nat, samples : Nat, aba : BOOLEAN, changed : SUBSET Pointers,
                     posTrue : BOOLEAN, yawTrue : BOOLEAN, last : Nat, wrong : BOOLEAN]
      BY <2>2, <2>4, <3>1, Zenon
    <3>5. /\ witness'.wrong = witness.wrong /\ witness'.last = witness.last /\ witness'.changed = witness.changed
          /\ witness'.aba = witness.aba /\ witness'.posTrue = true
      BY <2>2, <3>1, Zenon
    <3>6. WalkShape'
      BY <1>1, <1>3, <2>6, <3>3 DEF WalkShape
    <3>7. ChangesAreNoted'
      BY <1>1, <3>3, <3>5 DEF ChangesAreNoted, SlotValue, SlotOf
    <3>8. Exposed => Exposed'
      BY <1>1, <3>3 DEF Exposed, SlotValue
    <3>9. WrongIsExposed'
      BY <2>5, <3>3, <3>5, <3>8 DEF WrongIsExposed
    <3> QED
      BY <1>1, <1>3, <3>2, <3>4, <3>5, <3>6, <3>7, <3>9, WalkKeeps
  <2>7. CASE read.pc = "yaw"
    <3>1. /\ read' = [read EXCEPT !.yaw = process.cam[o][2], !.pc = "verify"]
          /\ witness' = [witness EXCEPT !.yawTrue = true]
      <4>1. half # 1
        BY <2>7
      <4> HIDE DEF half
      <4> QED
        BY <1>3, <4>1
    <3>2. read' \in [pc : {"none", "resolve", "pos", "yaw", "verify", "decode"},
                     chain : Seq(Objects), pos : CameraValues, yaw : CameraValues,
                     again : 0..Depth]
      BY <2>1, <2>3, <3>1
    <3>3. read'.pc = "verify" /\ read'.chain = read.chain /\ read'.again = read.again
      BY <2>1, <3>1
    <3>4. witness' \in [changes : Nat, samples : Nat, aba : BOOLEAN, changed : SUBSET Pointers,
                     posTrue : BOOLEAN, yawTrue : BOOLEAN, last : Nat, wrong : BOOLEAN]
      BY <2>2, <2>4, <3>1, Zenon
    <3>5. /\ witness'.wrong = witness.wrong /\ witness'.last = witness.last /\ witness'.changed = witness.changed
          /\ witness'.aba = witness.aba /\ witness'.posTrue = witness.posTrue /\ witness'.yawTrue = true
      BY <2>2, <3>1, Zenon
    <3>6. WalkShape'
      BY <1>1, <1>3, <2>7, <3>3 DEF WalkShape, Depth
    <3>7. ChangesAreNoted'
      BY <1>1, <3>3, <3>5 DEF ChangesAreNoted, SlotValue, SlotOf
    <3>8. Exposed => Exposed'
      BY <1>1, <3>3 DEF Exposed, SlotValue
    <3>9. WrongIsExposed'
      BY <2>5, <2>7, <3>3, <3>5, <3>8 DEF WrongIsExposed
    <3> QED
      BY <1>1, <1>3, <3>2, <3>4, <3>5, <3>6, <3>7, <3>9, WalkKeeps
  <2> QED
    BY <1>1, <2>6, <2>7
<1> QED
  BY <1>2, <1>3 DEF ReadCamera

\* A pointer that the second walk finds in place is not what exposes the walk:
\* what exposes it is still ahead.
LEMMA VerifyKeeps == ASSUME PumpAssumption, LocalInv, Verify PROVE LocalInv'
<1> USE DEF LocalInv
<1>1. /\ UNCHANGED <<process, now, witness>> /\ read.pc = "verify" /\ worker.pc = "sample"
      /\ Len(read.chain) = Depth
  BY DEF Verify, WalkShape
<1>2. read \in [pc : {"none", "resolve", "pos", "yaw", "verify", "decode"},
                chain : Seq(Objects), pos : CameraValues, yaw : CameraValues,
                again : 0..Depth]
  BY DEF LocalTypeOK
<1> DEFINE i == read.again + 1
           p == SlotValue(read.chain, i)
<1>3. i \in 1..2 /\ read.again = i - 1
  BY <1>1, <1>2 DEF WalkShape, Depth
<1>4. CASE Failed("ReadFailed") \/ Failed("UnstablePointerChain")
  BY <1>1, <1>4, FailedKeeps
<1>5. CASE NoWorld
  BY <1>1, <1>5, NoWorldKeeps
<1>6. CASE /\ SlotReadable(read.chain, i) /\ p = read.chain[i]
           /\ read' = [read EXCEPT !.again = i,
                                   !.pc = IF i = Depth THEN "decode" ELSE "verify"]
           /\ UNCHANGED <<pump, feed, worker>>
  <2> DEFINE pc == IF i = Depth THEN "decode" ELSE "verify"
  <2>1. read' = [read EXCEPT !.again = i, !.pc = pc]
    BY <1>6
  <2>2. pc \in {"none", "resolve", "pos", "yaw", "verify", "decode"} /\ i \in 0..Depth
    BY <1>3 DEF Depth
  <2>3. pc = IF i = Depth THEN "decode" ELSE "verify"
    OBVIOUS
  <2>4. SlotValue(read.chain, i) = read.chain[i] /\ (i = 2 => read.chain[1] \in process.live)
    BY <1>6 DEF SlotReadable
  <2> HIDE DEF i, pc, p
  <2>5. read' \in [pc : {"none", "resolve", "pos", "yaw", "verify", "decode"},
                   chain : Seq(Objects), pos : CameraValues, yaw : CameraValues,
                   again : 0..Depth]
    BY <1>2, <2>1, <2>2
  <2>6. read'.pc = pc /\ read'.chain = read.chain /\ read'.again = i
    BY <1>2, <2>1
  <2>7. WalkShape'
    BY <1>1, <1>3, <1>6, <2>3, <2>6 DEF WalkShape, Depth
  <2>8. ChangesAreNoted'
    BY <1>1, <2>3, <2>6 DEF ChangesAreNoted, SlotValue, SlotOf
  <2>9. ASSUME Exposed PROVE Exposed'
    <3>1. CASE ~process.running
      BY <1>1, <3>1 DEF Exposed
    <3>2. CASE read.chain[1] \notin process.live
      <4>1. i = 1
        BY <1>3, <2>4, <3>2
      <4> QED
        BY <1>1, <2>6, <3>2, <4>1 DEF Exposed, Depth
    <3>3. CASE \E j \in 1..Depth : j > read.again /\ SlotValue(read.chain, j) # read.chain[j]
      <4>1. PICK j \in 1..Depth : j > read.again /\ SlotValue(read.chain, j) # read.chain[j]
        BY <3>3
      <4>2. j > i
        BY <1>3, <2>4, <4>1 DEF Depth
      <4>3. \E k \in 1..Depth : k > read'.again /\ SlotValue(read.chain, k)' # read'.chain[k]
        BY <1>1, <2>6, <4>1, <4>2 DEF SlotValue
      <4> QED
        BY <4>3 DEF Exposed
    <3> QED
      BY <2>9, <3>1, <3>2, <3>3 DEF Exposed
  <2>10. WrongIsExposed'
    BY <1>1, <2>6, <2>9 DEF WrongIsExposed
  <2> QED
    BY <1>1, <1>6, <2>5, <2>7, <2>8, <2>10, WalkKeeps DEF LocalTypeOK
<1> QED
  BY <1>4, <1>5, <1>6 DEF Verify

\* The second walk is over: only a game that has ended can still expose the
\* walk, and a game that runs is seen to.
LEMMA DecodeKeeps == ASSUME PumpAssumption, LocalInv, Decode PROVE LocalInv'
<1> USE DEF LocalInv
<1>1. UNCHANGED <<process, now>> /\ read.pc = "decode" /\ worker.pc = "sample" /\ read.again = 2
  BY DEF Decode, WalkShape, Depth
<1>2. witness \in [changes : Nat, samples : Nat, aba : BOOLEAN, changed : SUBSET Pointers,
                posTrue : BOOLEAN, yawTrue : BOOLEAN, last : Nat, wrong : BOOLEAN]
  BY DEF LocalTypeOK
<1>3. CASE Failed("InvalidPosition") /\ UNCHANGED witness
  BY <1>1, <1>3, FailedKeeps
<1>4. CASE NoWorld /\ UNCHANGED witness
  BY <1>1, <1>4, NoWorldKeeps
<1>5. CASE ~process.running /\ Ended("ReadFailed") /\ UNCHANGED witness
  BY <1>1, <1>2, <1>5, EndedKeeps
<1>6. CASE /\ process.running /\ ~AtTitle(read.pos, read.yaw)
           /\ pump' = [pump EXCEPT !.sequence = @ + 1, !.world = TRUE,
                                   !.due = DueAfter(worker.stepped)]
           /\ feed' = [feed EXCEPT !.pending = "sample", !.pos = read.pos, !.yaw = read.yaw]
           /\ LoopAgain /\ read' = NoRead
           /\ witness' = [witness EXCEPT
                !.last = worker.stepped,
                !.wrong = @ \/ (~witness.aba /\ ~(witness.posTrue /\ witness.yawTrue))]
  <2>1. ~Exposed
    BY <1>1, <1>6 DEF Exposed, Depth
  <2>2. witness.aba \/ (witness.posTrue /\ witness.yawTrue)
    BY <1>1, <2>1 DEF WrongIsExposed
  <2> DEFINE wrong == witness.wrong \/ (~witness.aba /\ ~(witness.posTrue /\ witness.yawTrue))
  <2>3. wrong \in BOOLEAN /\ ~wrong
    BY <2>2 DEF EachHalfWasTrue
  <2>4. witness' = [witness EXCEPT !.last = worker.stepped, !.wrong = wrong]
    BY <1>6
  <2> HIDE DEF wrong
  <2>5. worker.stepped \in Nat /\ now \in Nat
    BY DEF LocalTypeOK
  <2>6. witness' \in [changes : Nat, samples : Nat, aba : BOOLEAN, changed : SUBSET Pointers,
                   posTrue : BOOLEAN, yawTrue : BOOLEAN, last : Nat, wrong : BOOLEAN]
    BY <1>2, <2>3, <2>4, <2>5, Zenon
  <2>7. witness'.wrong = wrong /\ witness'.last = worker.stepped
    BY <1>2, <2>4, Zenon
  <2>8. /\ worker' \in [pc : {"loop", "sample", "ended"}, deadline : Nat, stop : BOOLEAN,
                        stepped : Nat]
        /\ worker'.pc = "loop" /\ worker'.stop = worker.stop
        /\ now <= worker'.deadline + Lateness
        /\ worker'.deadline <= worker.stepped + 2 * Interval
        /\ read' \in [pc : {"none", "resolve", "pos", "yaw", "verify", "decode"},
                      chain : Seq(Objects), pos : CameraValues, yaw : CameraValues,
                      again : 0..Depth]
        /\ read'.pc = "none"
    BY <1>1, <1>6, BackInLoop
  <2>9. DueAfter(worker.stepped) \in Nat /\ DueAfter(worker.stepped) = worker.stepped + Interval
    BY <2>5 DEF DueAfter, PumpAssumption
  <2>10. /\ pump' \in [phase : {"Active", "Disconnected"}, sequence : Nat, due : Nat,
                       reason : {"none", "ReadFailed", "UnstablePointerChain", "InvalidPosition"},
                       world : BOOLEAN]
         /\ pump'.world /\ pump'.phase = pump.phase /\ pump'.reason = pump.reason
         /\ pump'.due = worker.stepped + Interval
    <3> DEFINE count == pump.sequence + 1
               due == DueAfter(worker.stepped)
    <3>1. pump \in [phase : {"Active", "Disconnected"}, sequence : Nat, due : Nat,
                    reason : {"none", "ReadFailed", "UnstablePointerChain", "InvalidPosition"},
                    world : BOOLEAN]
      BY DEF LocalTypeOK
    <3>2. count \in Nat
      BY <3>1
    <3>3. pump' = [pump EXCEPT !.sequence = count, !.world = TRUE, !.due = due]
      BY <1>6
    <3>4. due \in Nat /\ due = worker.stepped + Interval
      BY <2>9
    <3> HIDE DEF count, due
    <3>5. pump' \in [phase : {"Active", "Disconnected"}, sequence : Nat, due : Nat,
                     reason : {"none", "ReadFailed", "UnstablePointerChain", "InvalidPosition"},
                     world : BOOLEAN]
      BY <3>1, <3>2, <3>3, <3>4
    <3>6. pump'.world /\ pump'.phase = pump.phase /\ pump'.reason = pump.reason /\ pump'.due = due
      BY <3>1, <3>3
    <3> QED
      BY <3>4, <3>5, <3>6
  <2>11. /\ feed' \in [connected : BOOLEAN, pending : {"none", "sample", "unavailable"},
                       pos : CameraValues, yaw : CameraValues]
         /\ feed'.pos = read.pos /\ feed'.yaw = read.yaw
    BY <1>6 DEF LocalTypeOK
  <2>12. LocalTypeOK'
    BY <1>1, <2>6, <2>8, <2>10, <2>11 DEF LocalTypeOK
  <2>13. WalkShape' /\ ChangesAreNoted' /\ WrongIsExposed'
    BY <2>8, NoWalk
  <2>14. WakesInTime'
    BY <1>1, <2>7, <2>8, <2>10 DEF WakesInTime
  <2>15. EachHalfWasTrue' /\ TitleScreenRetries' /\ NeverTheOrigin'
    BY <1>6, <2>3, <2>7, <2>8, <2>10, <2>11
       DEF EachHalfWasTrue, TitleScreenRetries, NeverTheOrigin, AtTitle
  <2> QED
    BY <2>12, <2>13, <2>14, <2>15
<1> QED
  BY <1>3, <1>4, <1>5, <1>6 DEF Decode

LEMMA StopKeeps == ASSUME LocalInv, Stop PROVE LocalInv'
<1> USE DEF LocalInv
<1>1. /\ worker' \in [pc : {"loop", "sample", "ended"}, deadline : Nat, stop : BOOLEAN,
                      stepped : Nat]
      /\ worker'.stop /\ worker'.pc = worker.pc /\ worker'.deadline = worker.deadline
      /\ worker'.stepped = worker.stepped
  BY DEF Stop, LocalTypeOK
<1>2. UNCHANGED <<process, pump, read, feed, now, witness>>
  BY DEF Stop
<1>3. LocalTypeOK'
  BY <1>1, <1>2 DEF LocalTypeOK
<1>4. WalkShape' /\ WakesInTime'
  BY <1>1, <1>2 DEF WalkShape, WakesInTime
<1>5. ChangesAreNoted' /\ WrongIsExposed'
  BY <1>2 DEF ChangesAreNoted, WrongIsExposed, Exposed, SlotValue, SlotOf
<1> QED
  BY <1>1, <1>2, <1>3, <1>4, <1>5 DEF EachHalfWasTrue, TitleScreenRetries, NeverTheOrigin

LEMMA TickKeeps == ASSUME PumpAssumption, LocalInv, TimePasses PROVE LocalInv'
<1> USE DEF LocalInv
<1>1. UNCHANGED <<process, pump, read, worker, feed, witness>> /\ now' = now + 1 /\ now \in Nat
  BY DEF TimePasses, LocalTypeOK
<1>2. LocalTypeOK'
  BY <1>1 DEF LocalTypeOK
<1>3. WalkShape'
  BY <1>1 DEF WalkShape
<1>4. WakesInTime'
  <2>1. now < worker.deadline + Lateness \/ worker.pc = "ended"
    BY DEF TimePasses
  <2>2. worker.deadline \in Nat /\ worker.stepped \in Nat
    BY DEF LocalTypeOK
  <2> QED
    BY <1>1, <2>1, <2>2 DEF WakesInTime, PumpAssumption
<1>5. ChangesAreNoted' /\ WrongIsExposed'
  BY <1>1 DEF ChangesAreNoted, WrongIsExposed, Exposed, SlotValue, SlotOf
<1> QED
  BY <1>1, <1>2, <1>3, <1>4, <1>5 DEF EachHalfWasTrue, TitleScreenRetries, NeverTheOrigin

LEMMA LocalStep == ASSUME PumpAssumption, LocalInv, [LocalNext]_localVars PROVE LocalInv'
<1>1. CASE UNCHANGED localVars
  BY SMTT(40), <1>1 DEF LocalInv, localVars, LocalTypeOK, WalkShape, ChangesAreNoted, WrongIsExposed, Exposed,
              SlotValue, SlotOf, WakesInTime, EachHalfWasTrue, TitleScreenRetries, NeverTheOrigin
<1>2. CASE GameSteps
  BY <1>2, GameMovesKeeps, GameRelinksKeeps, GameFreesKeeps, GameEndsKeeps DEF GameSteps
<1>3. CASE WorkerSteps
  BY <1>3, WorkerStopsKeeps, WorkerSkipsKeeps, WorkerSamplesKeeps, ResolveKeeps,
     ReadCameraKeeps, VerifyKeeps, DecodeKeeps DEF WorkerSteps
<1> QED
  BY <1>1, <1>2, <1>3, StopKeeps, TickKeeps DEF LocalNext

\* The inductive invariant of the local position source: whatever the game
\* does to its memory between two reads, a half that is not the player's is
\* exposed to the second walk (read_stable_position, verify_pointer_chain).
THEOREM LocalInvariant == ASSUME PumpAssumption PROVE LocalSpec => []LocalInv
<1>1. LocalInit => LocalInv
  BY LocalStarts
<1>2. LocalInv /\ [LocalNext]_localVars => LocalInv'
  BY LocalStep
<1> QED
  BY <1>1, <1>2, PTL DEF LocalSpec

\* What is published was the player's pose half by half, the title screen
\* neither ends the source nor shows a player at the origin, and two positions
\* are never further apart than two intervals and a late wake-up.
THEOREM PublishedAlwaysTrue == ASSUME PumpAssumption PROVE LocalSpec => []PublishedWasTrue
<1>1. LocalInv => PublishedWasTrue
  <2> SUFFICES ASSUME LocalInv PROVE SamplesAreRegular
    BY DEF LocalInv, PublishedWasTrue
  <2>1. now \in Nat /\ worker.deadline \in Nat /\ witness.last \in Nat
    BY DEF LocalInv, LocalTypeOK
  <2>2. pump.world /\ worker.pc = "loop" =>
          now <= worker.deadline + Lateness /\ worker.deadline <= witness.last + 2 * Interval
    BY DEF LocalInv, WakesInTime
  <2> QED
    BY <2>1, <2>2 DEF SamplesAreRegular, PumpAssumption
<1> QED
  BY <1>1, LocalInvariant, PTL

=============================================================================
