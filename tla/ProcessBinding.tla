---------------------------- MODULE ProcessBinding ----------------------------
(***************************************************************************)
(* How the overlay binds itself to the one game process it may read: the   *)
(* Steam manifest names the build (client_build_binding.rs), a query-only  *)
(* handle pins the process, the image file is opened against writers and   *)
(* hashed, and only then a reading handle is opened                        *)
(* (local_position_win32.rs, process_memory.rs).  Meanwhile the game exits *)
(* and starts again, process identifiers are used again, and Steam updates *)
(* the installation.                                                       *)
(*                                                                         *)
(* The operating system, as the code relies on it: a process identifier is *)
(* not used again while a handle to the process is open; a file that is    *)
(* the image of a running process, or is open without write sharing, is    *)
(* not opened for writing; a file open for writing is not opened without   *)
(* write sharing.                                                          *)
(***************************************************************************)
EXTENDS Naturals, FiniteSets

CONSTANTS Instances,    \* processes that may come to exist
          Pids, Builds, Profile,
          Chunks,       \* reads of the image while it is hashed
          None

Paths == {"game", "other"}
Processes == [pid : Pids, path : Paths, build : Builds, alive : BOOLEAN]
Targets == [pid : Pids, path : {"game"}]
Readers == [process : Instances, session : {"none", "open", "delivered"}]

ASSUME BindingAssumption ==
  /\ Profile \in Builds
  /\ Chunks \in Nat
  /\ None \notin Instances \cup Processes \cup Targets \cup Readers

VARIABLES proc,         \* [instance -> None, or its pid, path, image's build, life]
          image,        \* the executable: its build, and whether Steam writes it
          manifest,     \* the Steam manifest: its build, and whether it is fully installed
          tracked,      \* the tracked window's process: pid and path
          verified,     \* verify_tracked_steam_client's answer, or None
          bindCancelled,
          binder,       \* open_windows_live_position_reader: step, pid, guard, hash so far
          reader        \* the reader: its process and session, or None

bindingVars == <<proc, image, manifest, tracked, verified, bindCancelled, binder, reader>>

Idle == [step |-> "idle", pid |-> None, guard |-> None, chunks |-> 0, seen |-> {}]

BindingInit ==
  /\ proc = [i \in Instances |-> None]
  /\ image \in [build : Builds, writing : {FALSE}]
  /\ manifest = [build |-> image.build, installed |-> TRUE]
  /\ tracked = None /\ verified = None /\ bindCancelled = FALSE
  /\ binder = Idle /\ reader = None

-----------------------------------------------------------------------------
\* The world.

Running == {i \in Instances : proc[i] # None /\ proc[i].alive}

\* Processes an open handle keeps from being forgotten.
Pinned == {i \in Instances : i = binder.guard \/ (reader # None /\ i = reader.process)}

PidsInUse == {proc[i].pid : i \in Running \cup Pinned}

\* open_and_hash_exact_image opens the image sharing it with readers only.
ImageHeld == binder.step \in {"hash", "open"} \/ reader # None

Start(i, pid, path) ==
  /\ proc[i] = None /\ pid \notin PidsInUse
  /\ path = "game" => ~image.writing
  /\ proc' = [proc EXCEPT ![i] = [pid |-> pid, path |-> path, build |-> image.build, alive |-> TRUE]]
  /\ UNCHANGED <<image, manifest, tracked, verified, bindCancelled, binder, reader>>

ProcessExits(i) ==
  /\ i \in Running
  /\ proc' = [proc EXCEPT ![i].alive = FALSE]
  /\ UNCHANGED <<image, manifest, tracked, verified, bindCancelled, binder, reader>>

\* Steam: the manifest leaves the installed state, the image is written, the
\* manifest names the new build.
UpdateBegins ==
  /\ manifest.installed /\ manifest' = [manifest EXCEPT !.installed = FALSE]
  /\ UNCHANGED <<proc, image, tracked, verified, bindCancelled, binder, reader>>
ImageWritten(build) ==
  /\ ~manifest.installed
  /\ \/ /\ ~image.writing /\ ~ImageHeld /\ \A i \in Running : proc[i].path # "game"
        /\ image' = [build |-> build, writing |-> TRUE]
     \/ image.writing /\ image' = [image EXCEPT !.writing = FALSE]
  /\ UNCHANGED <<proc, manifest, tracked, verified, bindCancelled, binder, reader>>
UpdateEnds ==
  /\ ~manifest.installed /\ ~image.writing
  /\ manifest' = [build |-> image.build, installed |-> TRUE]
  /\ UNCHANGED <<proc, image, tracked, verified, bindCancelled, binder, reader>>

-----------------------------------------------------------------------------
\* The loop: it tracks a window, verifies the manifest and starts the worker.

\* The tracker accepts only windows of the game's image.
Track(i) ==
  /\ i \in Running /\ proc[i].path = "game"
  /\ tracked = None /\ binder.step = "idle"
  /\ tracked' = [pid |-> proc[i].pid, path |-> "game"]
  /\ UNCHANGED <<proc, image, manifest, verified, bindCancelled, binder, reader>>

\* parse_app_manifest and RequiredFields: a manifest in another state, or of
\* another build, is refused.
ManifestAccepted == manifest.installed /\ manifest.build = Profile

VerifyClient ==
  /\ tracked # None /\ verified = None /\ ManifestAccepted
  /\ verified' = tracked
  /\ UNCHANGED <<proc, image, manifest, tracked, bindCancelled, binder, reader>>

\* The window is lost: the worker is cancelled, its reader dropped.
Untrack ==
  /\ tracked # None
  /\ tracked' = None /\ verified' = None /\ reader' = None
  /\ bindCancelled' = (binder.step \notin {"idle", "failed"})
  /\ UNCHANGED <<proc, image, manifest, binder>>

-----------------------------------------------------------------------------
\* The worker: one step per system call, each may find the world changed.

\* What revalidate finds behind a handle: the process lives, and its path is
\* the expected one.
Revalidate(i) == proc[i].alive /\ proc[i].path = "game"

\* OpenProcess: the process that has the identifier now.
Opened(pid) == {i \in Running \cup Pinned : proc[i].pid = pid}

Fail == binder' = [Idle EXCEPT !.step = "failed"]

BeginBinding ==
  /\ binder.step = "idle" /\ tracked # None /\ verified = tracked /\ reader = None
  /\ binder' = [binder EXCEPT !.step = "guard", !.pid = tracked.pid]
  /\ UNCHANGED <<proc, image, manifest, tracked, verified, bindCancelled, reader>>

OpenGuard ==
  /\ binder.step = "guard"
  /\ \/ /\ ~bindCancelled
        /\ \E i \in Opened(binder.pid) :
             Revalidate(i) /\ binder' = [binder EXCEPT !.step = "image", !.guard = i]
     \/ (bindCancelled \/ \A i \in Opened(binder.pid) : ~Revalidate(i)) /\ Fail
  /\ UNCHANGED <<proc, image, manifest, tracked, verified, bindCancelled, reader>>

OpenImage ==
  /\ binder.step = "image"
  /\ IF bindCancelled \/ image.writing THEN Fail
     ELSE binder' = [binder EXCEPT !.step = "hash"]
  /\ UNCHANGED <<proc, image, manifest, tracked, verified, bindCancelled, reader>>

\* stream_exact_image_reader_sha256: each chunk is read from the file as it is.
HashChunk ==
  /\ binder.step = "hash" /\ binder.chunks < Chunks
  /\ IF bindCancelled THEN Fail
     ELSE binder' = [binder EXCEPT !.chunks = @ + 1, !.seen = @ \cup {image.build}]
  /\ UNCHANGED <<proc, image, manifest, tracked, verified, bindCancelled, reader>>

\* require_exact_sha256.
\* Mutant: the manifest's build is taken for the image's.
HashMatchesAlways == TRUE
HashMatches == binder.seen = {Profile}

CompareHash ==
  /\ binder.step = "hash" /\ binder.chunks = Chunks
  /\ IF HashMatches /\ ~bindCancelled THEN binder' = [binder EXCEPT !.step = "open"] ELSE Fail
  /\ UNCHANGED <<proc, image, manifest, tracked, verified, bindCancelled, reader>>

\* open_read_only_identity: both handles are revalidated, and are of one
\* process (their creation times are equal).
OpenReader ==
  /\ binder.step = "open"
  /\ \/ \E i \in Opened(binder.pid) :
          /\ Revalidate(binder.guard) /\ Revalidate(i) /\ i = binder.guard
          /\ reader' = IF bindCancelled THEN None ELSE [process |-> i, session |-> "none"]
          /\ binder' = Idle
     \/ ~Revalidate(binder.guard) /\ Fail /\ UNCHANGED reader
  /\ UNCHANGED <<proc, image, manifest, tracked, verified, bindCancelled>>

\* The worker ended; the loop may start another one.
Clear ==
  /\ binder.step = "failed" \/ (bindCancelled /\ binder.step = "idle")
  /\ binder' = Idle /\ bindCancelled' = FALSE
  /\ UNCHANGED <<proc, image, manifest, tracked, verified, reader>>

\* with_read_session: revalidated before and after the reads.
BeginSession ==
  /\ reader # None /\ reader.session \in {"none", "delivered"}
  /\ reader' = IF Revalidate(reader.process) THEN [reader EXCEPT !.session = "open"] ELSE None
  /\ UNCHANGED <<proc, image, manifest, tracked, verified, bindCancelled, binder>>
EndSession ==
  /\ reader # None /\ reader.session = "open"
  /\ reader' = IF Revalidate(reader.process) THEN [reader EXCEPT !.session = "delivered"] ELSE None
  /\ UNCHANGED <<proc, image, manifest, tracked, verified, bindCancelled, binder>>

BindingNext ==
  \/ \E i \in Instances, pid \in Pids, path \in Paths : Start(i, pid, path)
  \/ \E i \in Instances : ProcessExits(i) \/ Track(i)
  \/ UpdateBegins \/ UpdateEnds
  \/ \E build \in Builds : ImageWritten(build)
  \/ VerifyClient \/ Untrack
  \/ BeginBinding \/ OpenGuard \/ OpenImage \/ HashChunk \/ CompareHash \/ OpenReader \/ Clear
  \/ BeginSession \/ EndSession

BindingSpec == BindingInit /\ [][BindingNext]_bindingVars

-----------------------------------------------------------------------------
\* The process a reader is bound to runs the build whose memory layout is
\* known, whatever Steam did since the manifest was read
\* (open_windows_live_position_reader).
BoundRunsTheProfile ==
  reader # None => proc[reader.process].build = Profile /\ proc[reader.process].path = "game"

\* As long as a reader is open the executable on disk is the one that was
\* hashed (open_and_hash_exact_image, identity).
ImageStaysHashed == reader # None => image = [build |-> Profile, writing |-> FALSE]

\* The reader's process is the one in whose window the overlay is, unless
\* that one has exited: a new process under the same identifier is never read
\* (QueryOnlyProcessGuard, open_read_only_tracked).
ReadsTheTracked ==
  reader # None /\ tracked # None /\ (\E i \in Running : proc[i].pid = tracked.pid) =>
    proc[reader.process].alive /\ proc[reader.process].pid = tracked.pid

\* A reader is open only on the tracked process, which runs the build whose
\* memory layout is known, from an executable that is still the one hashed,
\* whatever is updated, exits or reuses its identifier in between
\* (open_windows_live_position_reader).
ReaderIsBound == BoundRunsTheProfile /\ ImageStaysHashed /\ ReadsTheTracked

-----------------------------------------------------------------------------
(* Why a reader is bound.                                                  *)

BindingTypeOK ==
  /\ proc \in [Instances -> Processes \cup {None}]
  /\ image \in [build : Builds, writing : BOOLEAN]
  /\ manifest \in [build : Builds, installed : BOOLEAN]
  /\ tracked \in Targets \cup {None}
  /\ verified \in Targets \cup {None}
  /\ bindCancelled \in BOOLEAN
  /\ binder \in [step : {"idle", "guard", "image", "hash", "open", "failed"},
                 pid : Pids \cup {None}, guard : Instances \cup {None},
                 chunks : Nat, seen : SUBSET Builds]
  /\ reader \in Readers \cup {None}

\* No two processes that run or are pinned by a handle share an identifier.
IdentifiersDiffer ==
  \A i, j \in Running \cup Pinned : proc[i].pid = proc[j].pid => i = j

\* A running game runs the executable on disk, which nobody writes.
GamesRunTheImage ==
  \A i \in Running : proc[i].path = "game" => proc[i].build = image.build /\ ~image.writing

\* The query-only handle pins a process of the tracked path and identifier.
GuardPins ==
  /\ binder.guard # None <=> binder.step \in {"image", "hash", "open"}
  /\ binder.guard # None =>
       /\ proc[binder.guard] # None
       /\ proc[binder.guard].path = "game"
       /\ proc[binder.guard].pid = binder.pid

\* From the first chunk on the image is the one that is hashed.
HashIsOfTheImage ==
  /\ binder.step \notin {"hash", "open"} => binder.seen = {}
  /\ binder.step \in {"hash", "open"} =>
       ~image.writing /\ binder.seen \subseteq {image.build}
  /\ binder.step = "open" => image.build = Profile

\* A worker that is not cancelled works on the tracked window's process.
WorkerFollowsTracked ==
  binder.step \in {"guard", "image", "hash", "open"} /\ ~bindCancelled =>
    tracked # None /\ tracked.pid = binder.pid

ReaderPins ==
  reader # None =>
    /\ binder.step = "idle"
    /\ proc[reader.process] # None
    /\ proc[reader.process].path = "game" /\ proc[reader.process].build = Profile
    /\ image.build = Profile /\ ~image.writing
    /\ tracked # None /\ proc[reader.process].pid = tracked.pid

\* The inductive invariant of worker, handles and world.
BindingInv ==
  /\ BindingTypeOK
  /\ IdentifiersDiffer
  /\ GamesRunTheImage
  /\ GuardPins
  /\ HashIsOfTheImage
  /\ WorkerFollowsTracked
  /\ ReaderPins

=============================================================================
