----------------------------- MODULE SaveImport -----------------------------
(***************************************************************************)
(* Finding the world in a selected folder: probe_save_source of            *)
(* crates/pal-save-ingest/src/lib.rs, a bounded breadth-first walk that    *)
(* stops at a directory with a Level.sav and passes links by.              *)
(***************************************************************************)
EXTENDS Integers, Sequences, FiniteSets, TLC

CONSTANTS
  Root, Dirs,      \* directories, as numbers in path order
  Trees,           \* parent functions on Dirs \ {Root}
  PlayerFiles,     \* numbers of player files a world may have
  MaxDepth,        \* MAX_DISCOVERY_DEPTH
  MaxScanned,      \* MAX_SCANNED_DIRECTORIES
  MaxPlayers       \* MAX_PLAYER_FILES

VARIABLES
  parent,      \* the tree below the selected folder
  level,       \* directories with a Level.sav
  link,        \* directories that are links
  players,     \* player files in a world's Players
  queue,       \* directories to visit, each <<directory, depth>>
  scanned, candidates, warnings,
  result       \* "walking", an error, or a SaveProbeStatus

discoveryVars == <<parent, level, link, players, queue, scanned, candidates, warnings, result>>

Sorting == INSTANCE SequencesExt
Children(d) == {x \in Dirs \ {Root} : parent[x] = d}
InOrder(S) == Sorting!SetToSortSeq(S, <)

DiscoveryInit ==
  /\ parent \in Trees /\ level \in SUBSET Dirs /\ link \in SUBSET (Dirs \ {Root})
  /\ players \in PlayerFiles
  /\ queue = <<<<Root, 0>>>> /\ scanned = 0 /\ candidates = {} /\ warnings = {}
  /\ result = "walking"

\* The directories below one that are visited later, in path order.
Enqueued(d, depth) ==
  IF d \in level \/ depth >= MaxDepth THEN <<>>
  ELSE LET real == InOrder(Children(d) \ link) IN [i \in DOMAIN real |-> <<real[i], depth + 1>>]

\* scanned_directories is counted before it is compared.
OverLimit == scanned + 1 > MaxScanned

\* inspect_world_directory refuses a world with too many player files.
TooManyPlayers(d) == d \in level /\ players > MaxPlayers

Fail(e) == result' = e /\ UNCHANGED <<queue, scanned, candidates, warnings>>

\* One turn of the loop.
Visit ==
  /\ result = "walking" /\ queue # <<>>
  /\ LET d == Head(queue)[1]
         depth == Head(queue)[2]
     IN IF OverLimit THEN Fail("discovery_limit")
        ELSE IF TooManyPlayers(d) THEN Fail("too_many_players")
        ELSE /\ scanned' = scanned + 1
             /\ candidates' = IF d \in level THEN candidates \cup {d} ELSE candidates
             /\ queue' = Tail(queue) \o Enqueued(d, depth)
             /\ warnings' = IF d \in level \/ depth >= MaxDepth THEN warnings
                            ELSE warnings \cup (Children(d) \cap link)
             /\ UNCHANGED result
  /\ UNCHANGED <<parent, level, link, players>>

\* SaveProbeStatus
Conclude ==
  /\ result = "walking" /\ queue = <<>>
  /\ result' = CASE candidates = {} -> "no_save_world"
                 [] Cardinality(candidates) > 1 -> "multiple_save_worlds"
                 [] OTHER -> IF players > 0 THEN "ready" ELSE "ready_without_players"
  /\ UNCHANGED <<parent, level, link, players, queue, scanned, candidates, warnings>>

DiscoveryNext == Visit \/ Conclude

DiscoverySpec == DiscoveryInit /\ [][DiscoveryNext]_discoveryVars

-----------------------------------------------------------------------------
(* Properties *)

\* The path from the selected folder to a directory, without the folder.
PathTo[d \in Dirs] == IF d = Root THEN {} ELSE {d} \cup PathTo[parent[d]]
Above(d) == IF d = Root THEN {} ELSE {Root} \cup (PathTo[d] \ {d})
Reachable(d) == PathTo[d] \cap link = {} /\ Cardinality(PathTo[d]) <= MaxDepth
Outermost == {d \in level : Reachable(d) /\ Above(d) \cap level = {}}

\* A walk that ends finds exactly the outermost worlds that no link leads to:
\* a backup kept inside a world is no second world, and only one world in the
\* whole folder can be staged (can_stage).
FindsOutermostWorlds ==
  result \in {"no_save_world", "multiple_save_worlds", "ready", "ready_without_players"} =>
    /\ candidates = Outermost
    /\ result \in {"ready", "ready_without_players"} <=> Cardinality(Outermost) = 1

\* The walk gives up only on a folder with more directories to look at than the
\* limit: never because a link leads back or a world has many folders inside.
LimitIsHonest ==
  result = "discovery_limit" =>
    Cardinality({d \in Dirs : Reachable(d) /\ Above(d) \cap level = {}}) > MaxScanned

-----------------------------------------------------------------------------
(***************************************************************************)
(* Reading the Pals out of a protected copy: inspect_staged_save of the    *)
(* desktop (apps/palbeacon-desktop/src-tauri/src/lib.rs) runs the parser   *)
(* (experimental/pal-save-parser-worker/src/main.rs) in a process of its   *)
(* own, drains its output through bounded readers and ends it after two    *)
(* minutes.  Output is counted in units; the two streams are one, because  *)
(* both are read the same way.                                             *)
(***************************************************************************)

CONSTANTS
  Callers,     \* threads of the desktop that inspect
  Copies,      \* import id -> the Pals of the save: records [inst, owner]
  Owners,      \* selected players; NoOwner: none is selected
  NoOwner,
  Outputs,     \* sizes of the parser's output
  Limit,       \* units a reader accepts
  Pipe,        \* units a pipe holds
  Timeout,     \* units of time
  MaxPals,     \* MAX_OUTPUT_PALS
  MaxAsks, MaxWaitFaults, MaxDamage   \* bounds

VARIABLES
  pc, req,     \* caller -> where it is, and what it asked for
  lock,        \* SAVE_PARSER_LOCK: its holder, or {}
  child,       \* caller -> its parser process
  got,         \* caller -> units its reader has taken
  elapsed,     \* caller -> time since its parser was started
  answer,      \* caller -> the answer of its last request
  damaged,     \* copies whose files are not what was staged
  asks, faults

inspectionVars == <<pc, req, lock, child, got, elapsed, answer, damaged, asks, faults>>

NoChild == [state |-> "none", size |-> 0, left |-> 0, pipe |-> 0, pals |-> {}]
Alive(c) == child[c].state \in {"working", "writing"}
Error == [is |-> "error", pals |-> {}, units |-> 0, size |-> 0, import |-> 0]
NoAnswer == [is |-> "none", pals |-> {}, units |-> 0, size |-> 0, import |-> 0]

-----------------------------------------------------------------------------
(* The parser: parse_staged_save *)

PalsOf(pals, owner) == {p \in pals : owner # NoOwner /\ p.owner = owner}

\* The copy is verified again, and a world with too many Pals is refused.
Parse(c, size) ==
  /\ child[c].state = "working"
  /\ child' = [child EXCEPT ![c] =
       IF req[c].import \in damaged \/ Cardinality(Copies[req[c].import]) > MaxPals
       THEN [NoChild EXCEPT !.state = "failed"]
       ELSE [@ EXCEPT !.state = "writing", !.size = size, !.left = size,
                      !.pals = PalsOf(Copies[req[c].import], req[c].owner)]]
  /\ UNCHANGED <<pc, req, lock, got, elapsed, answer, damaged, asks, faults>>

\* A write waits for room and fails when nobody reads any more.
Write(c) ==
  /\ child[c].state = "writing" /\ child[c].left > 0
  /\ \/ /\ got[c] > Limit
        /\ child' = [child EXCEPT ![c].state = "failed"]
     \/ /\ got[c] <= Limit /\ child[c].pipe < Pipe
        /\ child' = [child EXCEPT ![c].left = @ - 1, ![c].pipe = @ + 1]
  /\ UNCHANGED <<pc, req, lock, got, elapsed, answer, damaged, asks, faults>>

Exit(c) ==
  /\ child[c].state = "writing" /\ child[c].left = 0
  /\ child' = [child EXCEPT ![c].state = "exited"]
  /\ UNCHANGED <<pc, req, lock, got, elapsed, answer, damaged, asks, faults>>

-----------------------------------------------------------------------------
(* The desktop: inspect_staged_save *)

Ask(c, r) ==
  /\ pc[c] \in {"idle", "done"} /\ asks < MaxAsks /\ asks' = asks + 1
  /\ child[c] = NoChild
  /\ pc' = [pc EXCEPT ![c] = "asked"] /\ req' = [req EXCEPT ![c] = r]
  /\ answer' = [answer EXCEPT ![c] = NoAnswer]
  /\ UNCHANGED <<lock, child, got, elapsed, damaged, faults>>

Lock(c) ==
  /\ pc[c] = "asked" /\ lock = {}
  /\ lock' = {c} /\ pc' = [pc EXCEPT ![c] = "locked"]
  /\ UNCHANGED <<req, child, got, elapsed, answer, damaged, asks, faults>>

\* The guard is dropped with the result.
Return(c, a) ==
  /\ answer' = [answer EXCEPT ![c] = a]
  /\ pc' = [pc EXCEPT ![c] = "done"] /\ lock' = {}

\* verify_staged_save, then the process and its readers.
Spawn(c) ==
  /\ pc[c] = "locked"
  /\ IF req[c].import \in damaged
     THEN Return(c, Error) /\ UNCHANGED <<child, got, elapsed>>
     ELSE /\ pc' = [pc EXCEPT ![c] = "running"]
          /\ child' = [child EXCEPT ![c] = [NoChild EXCEPT !.state = "working"]]
          /\ got' = [got EXCEPT ![c] = 0] /\ elapsed' = [elapsed EXCEPT ![c] = 0]
          /\ UNCHANGED <<lock, answer>>
  /\ UNCHANGED <<req, damaged, asks, faults>>

\* read_bounded: one unit more than the limit ends the reader with an error.
Read(c) ==
  /\ child[c].pipe > 0 /\ got[c] <= Limit
  /\ child' = [child EXCEPT ![c].pipe = @ - 1] /\ got' = [got EXCEPT ![c] = @ + 1]
  /\ UNCHANGED <<pc, req, lock, elapsed, answer, damaged, asks, faults>>

Tick(c) ==
  /\ pc[c] = "running" /\ elapsed[c] < Timeout
  /\ elapsed' = [elapsed EXCEPT ![c] = @ + 1]
  /\ UNCHANGED <<pc, req, lock, child, got, answer, damaged, asks, faults>>

\* One turn of the waiting loop.
Poll(c) ==
  /\ pc[c] = "running"
  /\ \/ /\ child[c].state \in {"exited", "failed"}
        /\ pc' = [pc EXCEPT ![c] = "joining"]
        /\ UNCHANGED <<lock, child, answer>>
     \/ /\ Alive(c) /\ elapsed[c] = Timeout
        /\ child' = [child EXCEPT ![c] = NoChild]
        /\ Return(c, Error)
  /\ UNCHANGED <<req, got, elapsed, damaged, asks, faults>>

\* try_wait fails: the call returns and leaves the process to itself.
WaitFails(c) ==
  /\ pc[c] = "running" /\ faults < MaxWaitFaults /\ faults' = faults + 1
  /\ Return(c, Error)
  /\ UNCHANGED <<req, child, got, elapsed, damaged, asks>>

Parsed(c) == [is |-> "pals", pals |-> child[c].pals, units |-> got[c], size |-> child[c].size,
              import |-> req[c].import]

\* The readers have ended; only a whole output of a successful process counts.
Join(c) ==
  /\ pc[c] = "joining" /\ (child[c].pipe = 0 \/ got[c] > Limit)
  /\ Return(c, IF got[c] > Limit \/ child[c].state = "failed" \/ got[c] = 0 THEN Error
               ELSE Parsed(c))
  /\ child' = [child EXCEPT ![c] = NoChild]
  /\ UNCHANGED <<req, got, elapsed, damaged, asks, faults>>

\* A file of a copy changes on disk.
Damage(i) ==
  /\ i \notin damaged /\ Cardinality(damaged) < MaxDamage
  /\ damaged' = damaged \cup {i}
  /\ UNCHANGED <<pc, req, lock, child, got, elapsed, answer, asks, faults>>

-----------------------------------------------------------------------------
InspectionInit ==
  /\ pc = [c \in Callers |-> "idle"] /\ req = [c \in Callers |-> [import |-> 0, owner |-> NoOwner]]
  /\ lock = {} /\ child = [c \in Callers |-> NoChild] /\ got = [c \in Callers |-> 0]
  /\ elapsed = [c \in Callers |-> 0] /\ answer = [c \in Callers |-> NoAnswer]
  /\ damaged = {} /\ asks = 0 /\ faults = 0

DesktopStep(c) == Lock(c) \/ Spawn(c) \/ Poll(c) \/ Join(c)

InspectionNext ==
  \/ \E c \in Callers : \/ DesktopStep(c) \/ Read(c) \/ Tick(c) \/ WaitFails(c) \/ Write(c) \/ Exit(c)
                        \/ \E n \in Outputs : Parse(c, n)
                        \/ \E i \in DOMAIN Copies, o \in Owners \cup {NoOwner} : Ask(c, [import |-> i, owner |-> o])
  \/ \E i \in DOMAIN Copies : Damage(i)

InspectionSpec == InspectionInit /\ [][InspectionNext]_inspectionVars

\* The desktop's threads run and time passes; the parser may hang.
FairInspectionSpec ==
  InspectionSpec /\ \A c \in Callers : WF_inspectionVars(DesktopStep(c)) /\ WF_inspectionVars(Read(c)) /\ WF_inspectionVars(Tick(c))

-----------------------------------------------------------------------------
(* Properties *)

\* An answer shows only Pals of the selected player and of the copy asked for,
\* and none at all when no player is selected ("No owned Pal details are
\* returned until an explicit local player UID is selected").
AnswerIsOwners ==
  \A c \in Callers :
    answer[c].is = "pals" =>
      answer[c].pals = {p \in Copies[answer[c].import] : p.owner = req[c].owner /\ p.owner # NoOwner}

\* An answer was parsed from the whole output of the process, never from what
\* fitted the bounded reader (read_bounded).
AnswerIsWhole ==
  \A c \in Callers : answer[c].is = "pals" => answer[c].units = answer[c].size

\* At most one parser runs at a time, and none is left behind by a request that
\* has returned: a parser may hold gigabytes (SAVE_PARSER_LOCK).
OneParser ==
  /\ Cardinality({c \in Callers : Alive(c)}) <= 1
  /\ \A c \in Callers : Alive(c) => pc[c] = "running"

-----------------------------------------------------------------------------
(***************************************************************************)
(* Protected copies of a server's save: crates/pal-sftp-sync/src/lib.rs    *)
(* downloads it, crates/pal-save-ingest/src/lib.rs stages what was         *)
(* downloaded (or a local folder) under an id computed from the contents.  *)
(*                                                                         *)
(* The server writes its files one by one while they are listed and read.  *)
(* A file's content is the save it belongs to; its size and its time, in   *)
(* seconds, are all that a listing shows.  A staged directory is its id,   *)
(* the files it holds and when it was staged.                              *)
(***************************************************************************)

CONSTANTS
  Worlds,       \* directories with a Level.sav under the save root
  Files,        \* 1 is Level.sav, the others may be missing
  Sizes,
  LocalCopies,  \* contents the user stages from a folder
  MaxClock, MaxSaves, MaxRestores, MaxFaults, MaxCrashes, MaxRot   \* bounds

Level == 1
None == <<>>            \* no revision, no import
Rotten == 0             \* a file whose content is not what was staged
NoStatus == [state |-> "none", revision |-> None, import |-> None]

VARIABLES
  remote,     \* world -> the files there, each [v, size, mtime]
  saving,     \* the files of the running save still to write: [world, left]
  clock, saves, restores,
  status,     \* status-v1.json of the profile
  dirs,       \* the staging root: [id, files, at]
  stagings,   \* copies staged so far
  job,        \* a run of sync_profile_once
  syncFaults, crashes, rot,
  moments,    \* contents a world has had at some time
  fetched     \* <<revision, import>> of completed downloads

serverVars == <<remote, saving, saves, restores, moments>>
diskVars == <<status, dirs, stagings>>
countVars == <<clock, syncFaults, crashes, rot, fetched>>
syncVars == <<serverVars, job, diskVars, countVars>>

Current(r) == [f \in DOMAIN r |-> r[f].v]

-----------------------------------------------------------------------------
(* The game server: external. *)

SyncTick == clock < MaxClock /\ clock' = clock + 1
        /\ UNCHANGED <<serverVars, job, diskVars, syncFaults, crashes, rot, fetched>>

\* A save rewrites the files of a world, Level.sav first.
BeginSave(w) ==
  /\ saving.left = {} /\ saves < MaxSaves
  /\ saves' = saves + 1 /\ saving' = [world |-> w, left |-> Files]
  /\ UNCHANGED <<remote, restores, moments, job, diskVars, countVars>>

\* Bound: a file is written at most once a second.
WriteFile(size) ==
  LET w == saving.world
      f == CHOOSE x \in saving.left : \A y \in saving.left : x <= y
  IN /\ saving.left # {}
     /\ f \in DOMAIN remote[w] => remote[w][f].mtime < clock
     /\ remote' = [remote EXCEPT ![w] = (f :> [v |-> saves, size |-> size, mtime |-> clock]) @@ @]
     /\ moments' = moments \cup {Current(remote'[w])}
     /\ saving' = [saving EXCEPT !.left = @ \ {f}]
     /\ UNCHANGED <<saves, restores, job, diskVars, countVars>>

\* The operator puts an earlier save back.
RestoreBackup(w, back) ==
  /\ saving.left = {} /\ restores < MaxRestores
  /\ back \in moments /\ DOMAIN back = DOMAIN remote[w] /\ back # Current(remote[w])
  /\ \A f \in DOMAIN remote[w] : remote[w][f].mtime < clock
  /\ remote' = [remote EXCEPT ![w] = [f \in DOMAIN back |-> [v |-> back[f], size |-> 1, mtime |-> clock]]]
  /\ restores' = restores + 1
  /\ UNCHANGED <<saving, saves, moments, job, diskVars, countVars>>

-----------------------------------------------------------------------------
(* sync_profile_once *)

Idle == [pc |-> "idle", prev |-> NoStatus, world |-> 0, listing |-> None, todo |-> {},
         incoming |-> None, next |-> NoStatus]

Finish(s) == job' = [Idle EXCEPT !.pc = "remove", !.next = s]

\* An error keeps what the last success recorded.
SyncFail(state) == Finish([job.prev EXCEPT !.state = state])

Fault == syncFaults < MaxFaults /\ syncFaults' = syncFaults + 1
MayFail(fails) == IF fails THEN Fault ELSE UNCHANGED syncFaults
First(S) == CHOOSE x \in S : \A y \in S : x <= y

Start ==
  /\ job.pc = "idle"
  /\ job' = [Idle EXCEPT !.pc = "connect", !.prev = status, !.todo = Files]
  /\ UNCHANGED <<serverVars, diskVars, countVars>>

\* The profile is incomplete, the password is missing, or the server refuses.
Refused(state) ==
  /\ job.pc = "connect" /\ Fault
  /\ SyncFail(state)
  /\ UNCHANGED <<serverVars, diskVars, clock, crashes, rot, fetched>>

\* discover_world_root: a Level.sav whose stat fails does not count.
Discover(unseen) ==
  /\ job.pc = "connect" /\ MayFail(unseen # {})
  /\ LET found == {w \in Worlds \ unseen : Level \in DOMAIN remote[w]}
     IN IF Cardinality(found) = 1
        THEN job' = [job EXCEPT !.pc = "list", !.world = CHOOSE w \in found : TRUE]
        ELSE SyncFail("error")
  /\ UNCHANGED <<serverVars, diskVars, clock, crashes, rot, fetched>>

\* list_save_files, one file: only Level.sav must be there.
List(fails) ==
  LET f == First(job.todo)
      here == remote[job.world]
      seen == f \in DOMAIN here /\ ~fails
  IN /\ job.pc = "list" /\ job.todo # {} /\ MayFail(fails)
     /\ IF ~seen /\ f = Level THEN SyncFail("error")
        ELSE job' = [job EXCEPT !.todo = @ \ {f},
                                !.listing = IF seen THEN (f :> <<here[f].size, here[f].mtime>>) @@ @ ELSE @]
     /\ UNCHANGED <<serverVars, diskVars, clock, crashes, rot, fetched>>

\* remote_revision: names, sizes and times.
SameRevision(a, b) == a = b

\* Nothing new since the last success, or everything is downloaded.
Compare ==
  /\ job.pc = "list" /\ job.todo = {}
  /\ IF SameRevision(job.prev.revision, job.listing) /\ job.prev.import # None
     THEN Finish([state |-> "up_to_date", revision |-> job.listing, import |-> job.prev.import])
     ELSE job' = [job EXCEPT !.pc = "download", !.todo = DOMAIN job.listing]
  /\ UNCHANGED <<serverVars, diskVars, countVars>>

\* download_and_stage, one file: a size other than the listed one is a change.
Download(fails) ==
  LET f == First(job.todo)
      here == remote[job.world]
  IN /\ job.pc = "download" /\ job.todo # {} /\ MayFail(fails)
     /\ IF fails \/ f \notin DOMAIN here \/ here[f].size # job.listing[f][1] THEN SyncFail("error")
        ELSE job' = [job EXCEPT !.todo = @ \ {f}, !.incoming = (f :> here[f].v) @@ @]
     /\ UNCHANGED <<serverVars, diskVars, clock, crashes, rot, fetched>>

-----------------------------------------------------------------------------
(* stage_save_source *)

\* verify_staged_save: the files are those the id was computed from.
Verified(d) == d.files = d.id

Success(id) ==
  /\ Finish([state |-> "synced", revision |-> job.listing, import |-> id])
  /\ fetched' = fetched \cup {<<job.listing, id>>}

\* Mutant: an existing directory is removed to make room for the new one.
StageReplacing ==
  /\ job.pc = "download" /\ job.todo = {}
  /\ dirs' = {d \in dirs : d.id # job.incoming}
  /\ job' = [job EXCEPT !.pc = "rename"]
  /\ UNCHANGED <<serverVars, status, stagings, clock, syncFaults, crashes, rot, fetched>>

\* The copy is hashed in a temporary directory; an existing one is verified.
Stage ==
  /\ job.pc = "download" /\ job.todo = {}
  /\ IF \E d \in dirs : d.id = job.incoming
     THEN LET d == CHOOSE x \in dirs : x.id = job.incoming
          IN IF Verified(d) THEN Success(d.id) ELSE SyncFail("error") /\ UNCHANGED fetched
     ELSE job' = [job EXCEPT !.pc = "rename"] /\ UNCHANGED fetched
  /\ UNCHANGED <<serverVars, diskVars, clock, syncFaults, crashes, rot>>

\* The rename fails when another staging has made the same directory.
Rename ==
  /\ job.pc = "rename"
  /\ IF \E d \in dirs : d.id = job.incoming
     THEN SyncFail("error") /\ UNCHANGED <<dirs, stagings, fetched>>
     ELSE /\ dirs' = dirs \cup {[id |-> job.incoming, files |-> job.incoming, at |-> stagings + 1]}
          /\ stagings' = stagings + 1
          /\ Success(job.incoming)
  /\ UNCHANGED <<serverVars, status, clock, syncFaults, crashes, rot>>

\* native_stage_save_source, under a lock of its own.
StageLocal(copy) ==
  /\ ~\E d \in dirs : d.id = copy
  /\ dirs' = dirs \cup {[id |-> copy, files |-> copy, at |-> stagings + 1]}
  /\ stagings' = stagings + 1
  /\ UNCHANGED <<serverVars, job, status, countVars>>

-----------------------------------------------------------------------------
(* write_status_atomic removes the old file before it renames the new one. *)

RemoveStatus ==
  /\ job.pc = "remove" /\ job' = [job EXCEPT !.pc = "write"]
  /\ status' = NoStatus
  /\ UNCHANGED <<serverVars, dirs, stagings, countVars>>

WriteStatus ==
  /\ job.pc = "write" /\ job' = Idle
  /\ status' = job.next
  /\ UNCHANGED <<serverVars, dirs, stagings, countVars>>

\* The process ends at any step; its temporary directories stay behind.
Crash ==
  /\ job.pc # "idle" /\ crashes < MaxCrashes
  /\ crashes' = crashes + 1 /\ job' = Idle
  /\ UNCHANGED <<serverVars, diskVars, clock, syncFaults, rot, fetched>>

\* A staged file is damaged on disk.
DamageStaged(d) ==
  /\ rot < MaxRot /\ rot' = rot + 1
  /\ dirs' = (dirs \ {d}) \cup {[d EXCEPT !.files = [f \in DOMAIN d.files |-> Rotten]]}
  /\ UNCHANGED <<serverVars, job, status, stagings, clock, syncFaults, crashes, fetched>>

-----------------------------------------------------------------------------
SyncInit ==
  /\ remote = [w \in Worlds |-> [f \in Files |-> [v |-> w, size |-> 1, mtime |-> 0]]]
  /\ moments = {Current(remote[w]) : w \in Worlds}
  /\ saving = [world |-> 0, left |-> {}] /\ clock = 1 /\ saves = Cardinality(Worlds) /\ restores = 0
  /\ status = NoStatus /\ dirs = {} /\ stagings = 0
  /\ job = Idle /\ syncFaults = 0 /\ crashes = 0 /\ rot = 0 /\ fetched = {}

SyncStep ==
  Start \/ Discover({}) \/ List(FALSE) \/ Compare \/ Download(FALSE) \/ Stage \/ Rename
  \/ RemoveStatus \/ WriteStatus

SyncNext ==
  \/ SyncStep
  \/ \E s \in {"awaiting_configuration", "awaiting_password", "error"} : Refused(s)
  \/ \E w \in Worlds : Discover({w})
  \/ List(TRUE) \/ Download(TRUE) \/ Crash
  \/ SyncTick
  \/ \E w \in Worlds : BeginSave(w)
  \/ \E s \in Sizes : WriteFile(s)
  \/ \E w \in Worlds, b \in moments : RestoreBackup(w, b)
  \/ \E c \in LocalCopies : StageLocal(c)
  \/ \E d \in dirs : DamageStaged(d)

SyncSpec == SyncInit /\ [][SyncNext]_syncVars
FairSyncSpec == SyncSpec /\ WF_syncVars(SyncStep)

-----------------------------------------------------------------------------
(* What the desktop offers: latest_staged_save. *)

Latest ==
  LET good == {d \in dirs : Verified(d)}
  IN IF good = {} THEN [id |-> None, files |-> None, at |-> 0]
     ELSE CHOOSE d \in good : \A e \in good : e.at <= d.at

-----------------------------------------------------------------------------
(* Properties *)

\* The recorded revision is that of the recorded import: a failed run, a crash
\* or a half written status never pairs an old copy with a newer revision,
\* which would be taken for up to date for ever (sync_profile_once).
RevisionWasDownloaded ==
  status.import # None => <<status.revision, status.import>> \in fetched

\* The copy on offer holds exactly what was staged, however the process ended
\* and whatever happened to the files since (verify_staged_save).
OfferedIsIntact == Latest.files = Latest.id

\* The copy on offer is never replaced by one staged earlier, unless its own
\* files were damaged (latest_staged_save).
OfferNeverGoesBack ==
  rot' = rot => Latest'.at >= Latest.at

=============================================================================
