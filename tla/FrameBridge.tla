---------------------------- MODULE FrameBridge ----------------------------
(***************************************************************************)
(* The fullscreen frame bridge: pal-overlay (the writer) hands rasterised   *)
(* map frames to the renderer inside the game process (the reader) through  *)
(* one shared mapping that outlives the writer.  A frame is published under *)
(* a sequence lock: an odd sequence means that a write is going on, and a   *)
(* reader keeps its copy only when it saw the same even sequence before and *)
(* after.  Two heartbeats in the mapping say whether the other side lives.  *)
(*                                                                         *)
(* The accesses to the mapping are interleaved one group of stores at a     *)
(* time, in program order (the build's target, x86-64, keeps the order of   *)
(* stores and of loads).  The pixels are two halves, so that a torn copy is *)
(* a state of the model; a frame's number stands for its pixels and its     *)
(* metadata.  The clock is abstracted to "the heartbeat is older than its   *)
(* limit".                                                                  *)
(***************************************************************************)
EXTENDS Integers

CONSTANTS
    MaxFrames,          \* bound: frames published in a behaviour
    MaxVisibility,      \* bound: changes of visibility in a behaviour
    MaxStarts,          \* bound: starts of the writer process
    MaxUploadFailures,  \* bound: textures the graphics API refuses
    KilledAnywhere,     \* the writer may be killed in the middle of a write
    ReaderMayStop       \* the game may close or crash

ASSUME FrameAssumption ==
    /\ MaxFrames \in Nat /\ MaxVisibility \in Nat /\ MaxStarts \in Nat
    /\ MaxUploadFailures \in Nat
    /\ KilledAnywhere \in BOOLEAN /\ ReaderMayStop \in BOOLEAN

VARIABLES
    mem,        \* the mapping's header and payload
    writer,     \* the writer process
    reader,     \* the bridge thread of the injected renderer
    loop,       \* what the bridge thread and the render thread share, and the render thread
    suppressed, \* the overlay's own window is hidden in favour of the renderer
    published,  \* history: every frame a sequence number ever stood for
    used        \* what the bounds count

frameVars == <<mem, writer, reader, loop, suppressed, published, used>>

NoFrame == [seq |-> 0, head |-> 0, vis |-> FALSE, lo |-> 0, hi |-> 0]

Even(n) == n % 2 = 0
\* (n + 1) & !1 for the odd number a write began with
NextEven(n) == IF Even(n + 1) THEN n + 1 ELSE n
\* fetch_add(1) | 1
OddOf(n) == IF Even(n) THEN n + 1 ELSE n

FrameInit ==
    /\ mem = [seq |-> 0, head |-> 0, vis |-> FALSE, lo |-> 0, hi |-> 0,
              heart |-> "zero", lease |-> "zero", ready |-> FALSE]
    /\ writer = [pc |-> "down", odd |-> 0, head |-> 0, vis |-> FALSE, gen |-> 0]
    /\ reader = [pc |-> "closed", before |-> 0, copy |-> NoFrame, last |-> 0]
    /\ loop = [alive |-> FALSE, pending |-> NoFrame, shown |-> NoFrame]
    /\ suppressed = FALSE
    /\ published = {}
    /\ used = [frames |-> 0, visibility |-> 0, uploads |-> 0]

----------------------------------------------------------------------------
(* The writer *)

\* FrameWriter::create_or_open and the first store of initialize_header: the
\* mapping of an earlier writer is used again as it was left.
Start ==
    /\ writer.pc = "down" /\ writer.gen < MaxStarts
    /\ mem' = [mem EXCEPT !.seq = @ + 1, !.ready = TRUE]
    /\ writer' = [writer EXCEPT !.pc = "initGeometry", !.gen = @ + 1]
    /\ UNCHANGED <<reader, loop, suppressed, published, used>>

InitGeometry ==
    /\ writer.pc = "initGeometry"
    /\ mem' = [mem EXCEPT !.head = 0]
    /\ writer' = [writer EXCEPT !.pc = "initLease"]
    /\ UNCHANGED <<reader, loop, suppressed, published, used>>

InitLease ==
    /\ writer.pc = "initLease"
    /\ mem' = [mem EXCEPT !.vis = FALSE, !.heart = "zero", !.lease = "zero"]
    /\ writer' = [writer EXCEPT !.pc = "initEnd"]
    /\ UNCHANGED <<reader, loop, suppressed, published, used>>

InitEnd ==
    /\ writer.pc = "initEnd"
    /\ mem' = [mem EXCEPT !.seq = NextEven(@)]
    /\ writer' = [writer EXCEPT !.pc = "idle"]
    /\ UNCHANGED <<reader, loop, suppressed, published, used>>

\* publish_rgb_u32_with_controls.  A frame whose dimensions are zero, over the
\* budget or do not match its pixels is refused before the first store.
PublishBegin ==
    /\ writer.pc = "idle" /\ used.frames < MaxFrames
    /\ \E v \in BOOLEAN:
         writer' = [writer EXCEPT !.pc = "pubHead", !.odd = OddOf(mem.seq),
                                  !.head = used.frames + 1, !.vis = v]
    /\ mem' = [mem EXCEPT !.seq = @ + 1]
    /\ used' = [used EXCEPT !.frames = @ + 1]
    /\ UNCHANGED <<reader, loop, suppressed, published>>

PublishHead ==
    /\ writer.pc = "pubHead"
    /\ mem' = [mem EXCEPT !.head = writer.head, !.vis = writer.vis, !.heart = "fresh"]
    /\ writer' = [writer EXCEPT !.pc = "pubLo"]
    /\ UNCHANGED <<reader, loop, suppressed, published, used>>

PublishPixels ==
    /\ \/ /\ writer.pc = "pubLo"
          /\ mem' = [mem EXCEPT !.lo = writer.head]
          /\ writer' = [writer EXCEPT !.pc = "pubHi"]
       \/ /\ writer.pc = "pubHi"
          /\ mem' = [mem EXCEPT !.hi = writer.head]
          /\ writer' = [writer EXCEPT !.pc = "end"]
    /\ UNCHANGED <<reader, loop, suppressed, published, used>>

\* set_logical_visible: only the heartbeat when nothing changes, otherwise a
\* publication of its own that leaves the pixels alone.
SetVisible ==
    /\ writer.pc = "idle"
    /\ \/ /\ mem.heart # "fresh"
          /\ mem' = [mem EXCEPT !.heart = "fresh"]
          /\ UNCHANGED <<writer, used>>
       \/ /\ used.visibility < MaxVisibility
          /\ mem' = [mem EXCEPT !.seq = @ + 1]
          /\ writer' = [writer EXCEPT !.pc = "visStore", !.odd = OddOf(mem.seq),
                                      !.head = mem.head, !.vis = ~mem.vis]
          /\ used' = [used EXCEPT !.visibility = @ + 1]
    /\ UNCHANGED <<reader, loop, suppressed, published>>

VisibleStore ==
    /\ writer.pc = "visStore"
    /\ mem' = [mem EXCEPT !.vis = writer.vis, !.heart = "fresh"]
    /\ writer' = [writer EXCEPT !.pc = "end"]
    /\ UNCHANGED <<reader, loop, suppressed, published, used>>

\* The release store that ends a publication of either kind.
PublishEnd ==
    /\ writer.pc = "end"
    /\ mem' = [mem EXCEPT !.seq = NextEven(writer.odd)]
    /\ writer' = [writer EXCEPT !.pc = "idle"]
    /\ published' = published \cup
         {[seq |-> NextEven(writer.odd), head |-> writer.head, vis |-> writer.vis]}
    /\ UNCHANGED <<reader, loop, suppressed, used>>

\* The overlay process ends: by itself between two operations, or killed by
\* the supervisor that owns it wherever it is.
WriterEnds ==
    /\ writer.pc # "down"
    /\ writer.pc = "idle" \/ KilledAnywhere
    /\ writer' = [writer EXCEPT !.pc = "down"]
    /\ suppressed' = FALSE
    /\ UNCHANGED <<mem, reader, loop, published, used>>

\* sync_fullscreen_consumer, once per turn of the overlay's loop.
SyncConsumer ==
    /\ writer.pc = "idle"
    /\ suppressed' = (mem.lease = "fresh")
    /\ UNCHANGED <<mem, writer, reader, loop, published, used>>

----------------------------------------------------------------------------
(* The clock: a heartbeat nobody renews grows older than its limit. *)

HeartAges ==
    /\ mem.heart = "fresh"
    /\ mem' = [mem EXCEPT !.heart = "stale"]
    /\ UNCHANGED <<writer, reader, loop, suppressed, published, used>>

LeaseAges ==
    /\ mem.lease = "fresh"
    /\ mem' = [mem EXCEPT !.lease = "stale"]
    /\ UNCHANGED <<writer, reader, loop, suppressed, published, used>>

----------------------------------------------------------------------------
(* The bridge thread of the renderer: bridge_reader_loop *)

OpenReader ==
    /\ reader.pc = "closed" /\ mem.ready
    /\ reader' = [reader EXCEPT !.pc = "poll"]
    /\ UNCHANGED <<mem, writer, loop, suppressed, published, used>>

\* writer_is_alive, and what the loop does either way.
Poll ==
    /\ reader.pc = "poll"
    /\ IF mem.heart = "fresh"
         THEN /\ loop' = [loop EXCEPT !.alive = TRUE]
              /\ reader' = [reader EXCEPT !.pc = "load"]
              /\ UNCHANGED mem
         ELSE /\ loop' = [loop EXCEPT !.alive = FALSE, !.pending = NoFrame]
              /\ reader' = [reader EXCEPT !.last = 0]
              /\ mem' = [mem EXCEPT !.lease = "zero"]
    /\ UNCHANGED <<writer, suppressed, published, used>>

\* read_latest, first load of the sequence
LoadSequence ==
    /\ reader.pc = "load"
    /\ IF mem.seq = 0 \/ ~Even(mem.seq) \/ mem.seq = reader.last
         THEN reader' = [reader EXCEPT !.pc = "mark"]
         ELSE reader' = [reader EXCEPT !.pc = "head", !.before = mem.seq, !.copy = NoFrame]
    /\ UNCHANGED <<mem, writer, loop, suppressed, published, used>>

\* The metadata; a frame without pixels is no frame.
ReadHead ==
    /\ reader.pc = "head"
    /\ reader' = IF mem.head = 0
                   THEN [reader EXCEPT !.pc = "mark"]
                   ELSE [reader EXCEPT !.pc = "lo",
                          !.copy = [reader.copy EXCEPT !.head = mem.head, !.vis = mem.vis]]
    /\ UNCHANGED <<mem, writer, loop, suppressed, published, used>>

CopyPixels ==
    /\ \/ /\ reader.pc = "lo"
          /\ reader' = [reader EXCEPT !.pc = "hi", !.copy = [reader.copy EXCEPT !.lo = mem.lo]]
       \/ /\ reader.pc = "hi"
          /\ reader' = [reader EXCEPT !.pc = "after", !.copy = [reader.copy EXCEPT !.hi = mem.hi]]
    /\ UNCHANGED <<mem, writer, loop, suppressed, published, used>>

\* Mutant: the copy is kept without the second load of the sequence.
AcceptUnchecked ==
    /\ reader.pc = "after"
    /\ loop' = [loop EXCEPT !.pending = [reader.copy EXCEPT !.seq = reader.before]]
    /\ reader' = [reader EXCEPT !.pc = "mark", !.last = reader.before]
    /\ UNCHANGED <<mem, writer, suppressed, published, used>>

\* The second load decides.
Accept ==
    /\ reader.pc = "after"
    /\ IF mem.seq = reader.before
         THEN /\ loop' = [loop EXCEPT !.pending = [reader.copy EXCEPT !.seq = mem.seq]]
              /\ reader' = [reader EXCEPT !.pc = "mark", !.last = mem.seq]
         ELSE /\ reader' = [reader EXCEPT !.pc = "mark"]
              /\ UNCHANGED loop
    /\ UNCHANGED <<mem, writer, suppressed, published, used>>

\* mark_consumer_alive, once some frame has been read
MarkAlive ==
    /\ reader.pc = "mark"
    /\ reader' = [reader EXCEPT !.pc = "poll"]
    /\ mem' = IF reader.last # 0 THEN [mem EXCEPT !.lease = "fresh"] ELSE mem
    /\ UNCHANGED <<writer, loop, suppressed, published, used>>

\* The render loop is dropped (the thread leaves its loop and gives the lease
\* back), or the game process is gone at once.
ReaderEnds ==
    /\ ReaderMayStop /\ reader.pc # "gone"
    /\ \/ reader.pc = "poll" /\ mem' = [mem EXCEPT !.lease = "zero"]
       \/ UNCHANGED mem
    /\ reader' = [reader EXCEPT !.pc = "gone"]
    /\ loop' = [alive |-> FALSE, pending |-> NoFrame, shown |-> NoFrame]
    /\ UNCHANGED <<writer, suppressed, published, used>>

----------------------------------------------------------------------------
(* The render thread: before_render *)

\* Mutant: the presented frame survives a dead writer.
BeforeRenderKeeps ==
    /\ reader.pc # "gone"
    /\ loop.alive
    /\ loop.pending # NoFrame
    /\ loop' = [loop EXCEPT !.shown = loop.pending, !.pending = NoFrame]
    /\ UNCHANGED <<mem, writer, reader, suppressed, published, used>>

\* A frame whose texture cannot be made is taken from the mailbox and lost.
BeforeRender ==
    /\ reader.pc # "gone"
    /\ \/ /\ ~loop.alive
          /\ loop' = [loop EXCEPT !.shown = NoFrame]
          /\ UNCHANGED used
       \/ /\ loop.alive /\ loop.pending # NoFrame
          /\ loop' = [loop EXCEPT !.shown = loop.pending, !.pending = NoFrame]
          /\ UNCHANGED used
       \/ /\ loop.alive /\ loop.pending # NoFrame
          /\ used.uploads < MaxUploadFailures
          /\ loop' = [loop EXCEPT !.pending = NoFrame]
          /\ used' = [used EXCEPT !.uploads = @ + 1]
    /\ UNCHANGED <<mem, writer, reader, suppressed, published>>

----------------------------------------------------------------------------
WriterStep ==
    \/ InitGeometry \/ InitLease \/ InitEnd
    \/ PublishHead \/ PublishPixels \/ VisibleStore \/ PublishEnd

ReaderStep ==
    \/ OpenReader \/ Poll \/ LoadSequence \/ ReadHead \/ CopyPixels \/ Accept \/ MarkAlive

FrameNext ==
    \/ Start \/ PublishBegin \/ SetVisible \/ WriterStep \/ WriterEnds \/ SyncConsumer
    \/ HeartAges \/ LeaseAges
    \/ ReaderStep \/ ReaderEnds \/ BeforeRender

\* Threads that are runnable run, time passes for heartbeats nobody renews.
FrameFairness ==
    /\ WF_frameVars(WriterStep) /\ WF_frameVars(SyncConsumer)
    /\ WF_frameVars(ReaderStep) /\ WF_frameVars(BeforeRender)
    /\ WF_frameVars(HeartAges /\ writer.pc = "down")
    /\ WF_frameVars(LeaseAges /\ reader.pc = "gone")

FrameSpec == FrameInit /\ [][FrameNext]_frameVars /\ FrameFairness

----------------------------------------------------------------------------
(* Properties *)

Whole(f) ==
    /\ f.lo = f.head /\ f.hi = f.head
    /\ \E p \in published: p.seq = f.seq /\ p.head = f.head /\ p.vis = f.vis

\* A frame the renderer holds or shows is one that was published: its pixels,
\* its metadata and its visibility belong together and to the sequence number
\* it was read under.  "the seqlock keeps readers from accepting a partially
\* converted frame" (lib.rs:439).
WholeFrame ==
    \A f \in {loop.pending, loop.shown} \ {NoFrame}: Whole(f)

\* The renderer never goes back: a frame that replaces another was published
\* later, also across a restart of the writer, which reuses the mapping.
NewestWins ==
  (loop.shown # NoFrame /\ loop'.shown # NoFrame)
    => loop'.shown.seq >= loop.shown.seq

Settled ==
    /\ writer.pc = "idle" /\ mem.heart = "fresh" /\ reader.pc # "gone"

=============================================================================
