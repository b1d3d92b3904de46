---------------------------- MODULE SettingsFile ----------------------------
(***************************************************************************)
(* The overlay control file and its four users: the core process, which    *)
(* reads it once at its start and whose persistence thread writes the      *)
(* settings store back (pal-core-win/src/settings_persistence.rs), the     *)
(* desktop application, which updates it against an expected version       *)
(* (palbeacon-desktop), and the overlay, which watches it                  *)
(* (pal-overlay-win/src/local_overlay_control.rs).  The file format is     *)
(* pal-overlay-control.                                                    *)
(*                                                                         *)
(* A reader sees a whole document, because a write is a rename of a        *)
(* finished file; read, compare and write are steps of their own, because  *)
(* nothing but the desktop's own process-local lock holds them together.   *)
(***************************************************************************)
EXTENDS Integers, Sequences

CONSTANTS
    Looks,          \* values of the settings that only users change
    EarlyClients,   \* whether a client may reach the core before persistence runs
    MaxChanges,     \* bound: changes of the store
    MaxUpdates,     \* bound: updates of the desktop application
    MaxFailures,    \* bound: failed reads and writes
    MaxStarts       \* bound: starts of the core and of the overlay

VARIABLES
    file,       \* the document on disk; stamp is its (length, modified) signature
    coreState,  \* the core process: phase, store version and settings, sessions
    saver,      \* the persistence thread
    desktop,    \* the desktop application and the document its form shows
    watcher,    \* the overlay's watcher thread and its channel
    shown,      \* stamp of the document the overlay last took
    inFile,     \* history: store version whose settings the file got from this core
    count       \* changes, updates, failures and starts so far

fileVars == <<file, coreState, saver, desktop, watcher, shown, inFile, count>>

Settings == [mode : {"Locked", "PinnedInteractive", "LayoutEdit"}, look : Looks,
             hidden : BOOLEAN]
DefaultSettings == [mode |-> "Locked", look |-> CHOOSE l \in Looks : TRUE, hidden |-> FALSE]

NoDoc == [version |-> 0, s |-> DefaultSettings, stamp |-> 0]

\* ControlSettings::from_domain keeps only the pinned mode apart from Locked.
FromDomain(s) == [s EXCEPT !.mode = IF @ = "PinnedInteractive" THEN @ ELSE "Locked"]

\* ControlSettings::to_domain drops the hidden layers an old file may name.
ToDomain(s) == [s EXCEPT !.hidden = FALSE]

\* OverlayControlDocument::next and write_control: a new document, a new signature.
Written(s, base) == [version |-> base + 1, s |-> s, stamp |-> file.stamp + 1]

\* read_or_create_control: creates a missing file, migrates hidden layers.
ReadOrCreate ==
    IF file.version = 0 THEN Written(DefaultSettings, 0)
    ELSE LET clean == FromDomain(ToDomain(file.s))
         IN  IF clean = file.s THEN file ELSE Written(clean, file.version)

Down == [phase |-> "down", version |-> 0, s |-> DefaultSettings, sessions |-> FALSE]
NoSaver == [pc |-> "none", stop |-> FALSE, persisted |-> 0, version |-> 0,
            s |-> DefaultSettings, base |-> 0]
NoWatcher == [pc |-> "none", signature |-> 0, seen |-> FALSE, doc |-> 0, queue |-> <<>>]

FileInit ==
    /\ file \in {NoDoc} \cup
                {[version |-> 1, s |-> [DefaultSettings EXCEPT !.hidden = h], stamp |-> 1] :
                    h \in BOOLEAN}
    /\ coreState = Down
    /\ saver = NoSaver
    /\ desktop = [pc |-> "closed", form |-> NoDoc, base |-> 0]
    /\ watcher = NoWatcher
    /\ shown = 0
    /\ inFile = 0
    /\ count = [changes |-> 0, updates |-> 0, failures |-> 0, starts |-> 0]

Bump(f) == count' = [count EXCEPT ![f] = @ + 1]

-----------------------------------------------------------------------------
(* The core process. *)

\* The settings are read and the pipe opens; then the persistence thread starts
\* and takes the version the store has by now for the one in the file.
CoreStarts ==
    /\ coreState.phase = "down" /\ count.starts < MaxStarts
    /\ file' = ReadOrCreate
    /\ coreState' = [phase |-> "starting", version |-> 1, s |-> ToDomain(file'.s), sessions |-> FALSE]
    /\ inFile' = 1
    /\ Bump("starts")
    /\ UNCHANGED <<saver, desktop, watcher, shown>>

PersistenceStarts ==
    /\ coreState.phase = "starting"
    /\ coreState' = [coreState EXCEPT !.phase = "up"]
    /\ saver' = [NoSaver EXCEPT !.pc = "sleep", !.persisted = coreState.version]
    /\ UNCHANGED <<file, desktop, watcher, shown, inFile, count>>

\* A client changes the store through its session (SettingsStore has the details).
StoreChanges(s) ==
    /\ coreState.phase = "up" \/ (coreState.phase = "starting" /\ EarlyClients)
    /\ count.changes < MaxChanges
    /\ s # coreState.s
    /\ coreState' = [coreState EXCEPT !.s = s, !.version = @ + 1, !.sessions = TRUE]
    /\ Bump("changes")
    /\ UNCHANGED <<file, saver, desktop, watcher, shown, inFile>>

\* The last session ends and forces the lock.
SessionEnds ==
    /\ coreState.phase # "down" /\ coreState.sessions
    /\ coreState' = [coreState EXCEPT !.sessions = FALSE,
                                 !.s.mode = "Locked",
                                 !.version = IF coreState.s.mode = "Locked" THEN @ ELSE @ + 1]
    /\ UNCHANGED <<file, saver, desktop, watcher, shown, inFile, count>>

\* Run returns: its locals are dropped in reverse order, so the persistence
\* thread is stopped and joined before the pipe ends its sessions.
CoreShutdownRequested ==
    /\ coreState.phase = "up"
    /\ coreState' = [coreState EXCEPT !.phase = "dropping"]
    /\ saver' = [saver EXCEPT !.stop = TRUE]
    /\ UNCHANGED <<file, desktop, watcher, shown, inFile, count>>

CoreExits ==
    /\ coreState.phase = "dropping" /\ saver.pc = "done" /\ ~coreState.sessions
    /\ coreState' = [coreState EXCEPT !.phase = "down"]
    /\ saver' = NoSaver
    /\ UNCHANGED <<file, desktop, watcher, shown, inFile, count>>

-----------------------------------------------------------------------------
(* The persistence thread. *)

\* After the sleep: an unchanged version is skipped, otherwise the file is read.
SaverWakes ==
    /\ saver.pc = "sleep"
    /\ IF coreState.version = saver.persisted
       THEN /\ saver' = [saver EXCEPT !.pc = IF saver.stop THEN "done" ELSE "sleep"]
            /\ UNCHANGED file
       ELSE /\ file' = ReadOrCreate
            /\ saver' = [saver EXCEPT !.pc = "write", !.version = coreState.version, !.s = coreState.s,
                                      !.base = file'.version]
    /\ UNCHANGED <<coreState, desktop, watcher, shown, inFile, count>>

\* A failed read or write is retried in the next pass, if there is one.
SaverFails ==
    /\ saver.pc = "write" /\ count.failures < MaxFailures
    /\ saver' = [saver EXCEPT !.pc = IF saver.stop THEN "done" ELSE "sleep"]
    /\ Bump("failures")
    /\ UNCHANGED <<file, coreState, desktop, watcher, shown, inFile>>

\* Mutant: the version compared in the next pass is read again after the write.
SaverWritesLate ==
    /\ saver.pc = "write"
    /\ file' = Written(FromDomain(saver.s), saver.base)
    /\ inFile' = saver.version
    /\ saver' = [saver EXCEPT !.pc = IF saver.stop THEN "done" ELSE "sleep",
                              !.persisted = coreState.version]
    /\ UNCHANGED <<coreState, desktop, watcher, shown, count>>

SaverWrites ==
    /\ saver.pc = "write"
    /\ file' = Written(FromDomain(saver.s), saver.base)
    /\ inFile' = saver.version
    /\ saver' = [saver EXCEPT !.pc = IF saver.stop THEN "done" ELSE "sleep",
                              !.persisted = saver.version]
    /\ UNCHANGED <<coreState, desktop, watcher, shown, count>>

-----------------------------------------------------------------------------
(* The desktop application. *)

\* overlay_control: the form shows the document.
DesktopOpens ==
    /\ desktop.pc = "closed"
    /\ file' = ReadOrCreate
    /\ desktop' = [desktop EXCEPT !.pc = "form", !.form = file']
    /\ UNCHANGED <<coreState, saver, watcher, shown, inFile, count>>

\* update_overlay_control: the file is read and its version compared; a conflict
\* makes the form reload.
DesktopCompares ==
    /\ desktop.pc = "form" /\ count.updates < MaxUpdates
    /\ file' = ReadOrCreate
    /\ desktop' = IF file'.version = desktop.form.version
                  THEN [desktop EXCEPT !.pc = "write", !.base = file'.version]
                  ELSE [desktop EXCEPT !.pc = "closed"]
    /\ Bump("updates")
    /\ UNCHANGED <<coreState, saver, watcher, shown, inFile>>

DesktopWrites(look) ==
    /\ desktop.pc = "write"
    /\ file' = Written([desktop.form.s EXCEPT !.look = look], desktop.base)
    /\ desktop' = [desktop EXCEPT !.pc = "form", !.form = file']
    /\ UNCHANGED <<coreState, saver, watcher, shown, inFile, count>>

-----------------------------------------------------------------------------
(* The overlay and its watcher thread. *)

\* LocalOverlayControlWatcher::start: the initial document, then the thread.
OverlayBegins ==
    /\ watcher.pc = "none" /\ count.starts < MaxStarts
    /\ file' = ReadOrCreate
    /\ shown' = file'.stamp
    /\ watcher' = [NoWatcher EXCEPT !.pc = "start"]
    /\ Bump("starts")
    /\ UNCHANGED <<coreState, saver, desktop, inFile>>

FirstSignature ==
    /\ watcher.pc = "start"
    /\ watcher' = [watcher EXCEPT !.pc = "watch", !.signature = file.stamp]
    /\ UNCHANGED <<file, coreState, saver, desktop, shown, inFile, count>>

\* A changed signature is remembered before the document is read.
SignatureChanged ==
    /\ watcher.pc = "watch" /\ file.stamp # watcher.signature
    /\ watcher' = [watcher EXCEPT !.pc = "read", !.signature = file.stamp]
    /\ UNCHANGED <<file, coreState, saver, desktop, shown, inFile, count>>

WatcherReads ==
    /\ watcher.pc = "read"
    /\ watcher' = [watcher EXCEPT !.pc = "send", !.doc = file.stamp]
    /\ UNCHANGED <<file, coreState, saver, desktop, shown, inFile, count>>

WatcherSends ==
    /\ watcher.pc = "send"
    /\ watcher' = [watcher EXCEPT !.pc = "watch", !.seen = TRUE, !.queue = Append(@, watcher.doc)]
    /\ UNCHANGED <<file, coreState, saver, desktop, shown, inFile, count>>

\* A document that cannot be read is ignored; the previous one stays active.
WatcherReadFails ==
    /\ watcher.pc = "read" /\ count.failures < MaxFailures
    /\ watcher' = [watcher EXCEPT !.pc = "watch", !.seen = FALSE]
    /\ Bump("failures")
    /\ UNCHANGED <<file, coreState, saver, desktop, shown, inFile>>

\* take_latest: the channel is drained and its last document applied.
OverlayTakes ==
    /\ watcher.queue # <<>>
    /\ shown' = watcher.queue[Len(watcher.queue)]
    /\ watcher' = [watcher EXCEPT !.queue = <<>>]
    /\ UNCHANGED <<file, coreState, saver, desktop, inFile, count>>

-----------------------------------------------------------------------------
Saver == SaverWakes \/ SaverFails \/ SaverWrites
Watcher == FirstSignature \/ SignatureChanged \/ WatcherReads \/ WatcherSends
           \/ WatcherReadFails

FileNext ==
    \/ CoreStarts \/ PersistenceStarts \/ SessionEnds \/ CoreShutdownRequested \/ CoreExits
    \/ \E s \in {t \in Settings : ~t.hidden} : StoreChanges(s)
    \/ Saver
    \/ DesktopOpens \/ DesktopCompares
    \/ \E look \in Looks : DesktopWrites(look)
    \/ OverlayBegins \/ Watcher \/ OverlayTakes

\* Both threads poll for as long as their process runs.
FileSpec ==
    FileInit /\ [][FileNext]_fileVars /\ WF_fileVars(Saver) /\ WF_fileVars(Watcher) /\ WF_fileVars(OverlayTakes)

-----------------------------------------------------------------------------
(* Properties. *)

\* What the persistence thread takes for persisted is what it wrote, so that no
\* failed write and no change made during a write is skipped (persist_changes).
PersistedMeansWritten == coreState.phase = "up" => saver.persisted = inFile

\* The newest document the overlay has or is about to take.
Latest == IF watcher.queue = <<>> THEN shown ELSE watcher.queue[Len(watcher.queue)]

\* Once the watcher has reported a document, a signature it takes for known is
\* that of the newest document the overlay has or is about to take: a write
\* between signature and read is noticed.
KnownIsShown ==
    watcher.pc = "watch" /\ watcher.seen /\ watcher.signature = file.stamp =>
        file.stamp = Latest

\* What was changed reaches the file, what is in the file reaches the overlay.
FileIsFollowed == PersistedMeansWritten /\ KnownIsShown

\* An update of the desktop application replaces the document its version was
\* compared with (ensure_overlay_control_version).
UpdateReplacesCompared ==
  [][desktop.pc = "write" /\ desktop'.pc = "form" => file.version = desktop.base]_fileVars

-----------------------------------------------------------------------------
\* The fields keep the types their Rust declarations give them.
Documents == [version : Nat, s : Settings, stamp : Nat]

FileTypeOK ==
    /\ file \in Documents
    /\ coreState \in [phase : {"down", "starting", "up", "dropping"}, version : Nat, s : Settings,
                 sessions : BOOLEAN]
    /\ saver \in [pc : {"none", "sleep", "write", "done"}, stop : BOOLEAN, persisted : Nat,
                  version : Nat, s : Settings, base : Nat]
    /\ desktop \in [pc : {"closed", "form", "write"}, form : Documents, base : Nat]
    /\ watcher \in [pc : {"none", "start", "watch", "read", "send"}, signature : Nat,
                    seen : BOOLEAN, doc : Nat, queue : Seq(Nat)]
    /\ shown \in Nat

\* The persistence thread lives as long as its core serves, and no client has
\* reached a core that is still starting.
SaverIsOfCore ==
    /\ coreState.phase \in {"down", "starting"} => saver.pc = "none"
    /\ coreState.phase = "starting" => coreState.version = 1 /\ ~coreState.sessions /\ inFile = 1
    /\ coreState.phase \in {"up", "dropping"} => saver.persisted = inFile

\* Signature, document and channel are in the order of the writes: what the
\* watcher read is not older than the signature it remembered before.
WatcherIsOrdered ==
    /\ watcher.signature <= file.stamp
    /\ Latest <= file.stamp
    /\ watcher.pc \in {"none", "start"} => ~watcher.seen
    /\ watcher.pc = "send" => watcher.signature <= watcher.doc /\ watcher.doc <= file.stamp
    /\ watcher.pc = "watch" /\ watcher.seen => watcher.signature <= Latest

FileInv == FileTypeOK /\ SaverIsOfCore /\ WatcherIsOrdered

=============================================================================
