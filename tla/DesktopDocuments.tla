-------------------------- MODULE DesktopDocuments --------------------------
(***************************************************************************)
(* The documents the desktop application keeps (pal-app-settings) and the  *)
(* commands that change them (palbeacon-desktop): the server profiles with *)
(* their passwords in the credential store of Windows, changed under a     *)
(* lock, and the application settings, changed without one.  Commands run  *)
(* on a thread pool, so two of them may be under way at once.              *)
(*                                                                         *)
(* A write creates a temporary file, removes the document and renames the  *)
(* file: three steps, between which a reader finds no document and takes   *)
(* the default one, and at which a command may fail or the process end.    *)
(***************************************************************************)
EXTENDS Integers, Sequences, FiniteSets

CONSTANTS
    Tasks,          \* threads that run profile commands
    AppTasks,       \* threads that update the application settings
    Ids,            \* profile ids
    Endpoints,      \* literal REST endpoints (address and port)
    Passwords,      \* passwords a form may carry
    Failures,       \* the operations that may fail
    MaxProfiles,    \* MAX_SERVER_PROFILES
    MaxVersion,     \* bound of the version of the profile document
    MaxAppVersion,  \* bound of the version of the application settings
    MaxCrashes      \* bound: ends of the process

VARIABLES
    disk,       \* the profile document, NoDoc while there is none
    creds,      \* password of each profile and kind
    lock,       \* holder of SERVER_PROFILE_MUTATION_LOCK
    tasks,      \* the profile command each thread runs
    app,        \* version of the application settings file, 0 while there is none
    appTemp,    \* version in its temporary file (one path per process), 0 for none
    appTasks,   \* the update each thread runs
    crashes,    \* number of ends of the process
    confirmed   \* history: endpoint the user last confirmed for a saved profile

vars == <<disk, creds, lock, tasks, app, appTemp, appTasks, crashes, confirmed>>
appVars == <<app, appTemp, appTasks>>

None == "none"
Kinds == {"sftp", "rest"}
KindOrder == <<"sftp", "rest">>
Free == "free"

\* A profile: its REST scheme, its endpoint (None for a host name) and the
\* endpoint plain HTTP was confirmed for.
Profiles == [scheme : {"http", "https"}, endpoint : Endpoints \cup {None},
             consent : Endpoints \cup {None}]

DefaultDoc == [version |-> 1, selected |-> None, profiles |-> <<>>]
NoDoc == [version |-> 0, selected |-> None, profiles |-> <<>>]

\* has_current_insecure_rest_http_consent, and validate of a profile.
ConsentCurrent(p) == p.consent # None /\ p.scheme = "http" /\ p.consent = p.endpoint
ProfileValid(p) == p.consent = None \/ ConsentCurrent(p)

\* validate of the document (the number of profiles, the selection).
DocumentValid(d) ==
    /\ Cardinality(DOMAIN d.profiles) <= MaxProfiles
    /\ \A i \in DOMAIN d.profiles : ProfileValid(d.profiles[i])
    /\ d.selected \in DOMAIN d.profiles \cup {None}

Stored(d) == [d EXCEPT !.version = @ + 1]
WithProfile(d, i, p) ==
    Stored([d EXCEPT !.profiles = [j \in DOMAIN @ \cup {i} |-> IF j = i THEN p ELSE @[j]]])

\* into_profile: a form never carries a consent; that of the existing profile
\* stays as long as scheme and endpoint do.
IntoProfile(form, existing) ==
    [scheme |-> form.scheme, endpoint |-> form.endpoint,
     consent |-> IF \E e \in existing : /\ e.scheme = form.scheme
                                        /\ e.endpoint = form.endpoint
                                        /\ ConsentCurrent(e)
                 THEN (CHOOSE e \in existing : TRUE).consent ELSE None]

\* The document after request r, or the unchanged one when r is refused (or has
\* nothing to do).
NextDoc(d, r) ==
    LET existing == IF r.id \in DOMAIN d.profiles THEN {d.profiles[r.id]} ELSE {}
        others == [j \in DOMAIN d.profiles \ {r.id} |-> d.profiles[j]]
        candidate ==
            CASE r.kind = "upsert" ->
                    LET next == WithProfile(d, r.id, IntoProfile(r, existing))
                    IN  IF DOMAIN d.profiles = {} THEN Stored([next EXCEPT !.selected = r.id])
                                                  ELSE next
              [] r.kind = "select" -> Stored([d EXCEPT !.selected = r.id])
              [] r.kind = "delete" ->
                    Stored([d EXCEPT !.profiles = others,
                                     !.selected = IF @ = r.id THEN None ELSE @])
              [] r.kind = "confirm" ->
                    WithProfile(d, r.id, [d.profiles[r.id] EXCEPT !.consent = r.endpoint])
              [] r.kind = "revoke" ->
                    WithProfile(d, r.id, [d.profiles[r.id] EXCEPT !.consent = None])
        permitted ==
            CASE r.kind = "upsert" -> TRUE
              [] r.kind = "select" -> r.id = None \/ existing # {}
              [] r.kind = "delete" -> existing # {}
              [] r.kind = "confirm" -> \E e \in existing : /\ e.scheme = "http"
                                                           /\ e.endpoint = r.endpoint
              [] r.kind = "revoke" -> \E e \in existing : e.consent # None
    IN  IF permitted /\ DocumentValid(candidate) THEN candidate ELSE d

Requests ==
    [kind : {"upsert"}, id : Ids, scheme : {"http", "https"}, endpoint : Endpoints \cup {None},
     sftp : Passwords \cup {None}, rest : Passwords \cup {None}]
    \cup [kind : {"select"}, id : Ids \cup {None}]
    \cup [kind : {"delete", "revoke"}, id : Ids]
    \cup [kind : {"confirm"}, id : Ids, endpoint : Endpoints]

Idle == [pc |-> "idle"]
NoCreds == [i \in Ids |-> [k \in Kinds |-> None]]

DesktopInit ==
    /\ disk = NoDoc
    /\ creds = NoCreds
    /\ lock = Free
    /\ tasks = [t \in Tasks |-> Idle]
    /\ app = 0
    /\ appTemp = 0
    /\ appTasks = [t \in AppTasks |-> Idle]
    /\ crashes = 0
    /\ confirmed = [i \in Ids |-> None]

-----------------------------------------------------------------------------
(* Profile commands. *)

\* A missing document reads as the default one.
ReadProfiles == IF disk = NoDoc THEN DefaultDoc ELSE disk

Acquired(t) == lock = Free

\* The lock is taken, the document read and its version compared; a request that
\* is refused leaves everything as it is.
Begin(t, r, expected) ==
    /\ tasks[t].pc = "idle" /\ Acquired(t)
    /\ expected = ReadProfiles.version
    /\ ReadProfiles.version + 2 <= MaxVersion
    /\ NextDoc(ReadProfiles, r) # ReadProfiles
    /\ tasks' = [tasks EXCEPT ![t] =
          [pc |-> IF r.kind = "upsert" THEN "secrets" ELSE "temp",
           r |-> r, next |-> NextDoc(ReadProfiles, r), kind |-> 1, undo |-> <<>>,
           was |-> disk, had |-> creds]]
    /\ lock' = t
    /\ UNCHANGED <<disk, creds, crashes, confirmed, appVars>>

\* restore_secret for everything applied so far, newest first.
Restored(task) ==
    [creds EXCEPT ![task.r.id] =
        [k \in Kinds |-> IF \E i \in DOMAIN task.undo : task.undo[i][1] = k
                         THEN (CHOOSE u \in {task.undo[i] : i \in DOMAIN task.undo} : u[1] = k)[2]
                         ELSE @[k]]]

\* One password of the form: an empty one is skipped.
SetSecret(t) ==
    /\ tasks[t].pc = "secrets" /\ tasks[t].kind <= Len(KindOrder)
    /\ LET task == tasks[t]
           k == KindOrder[task.kind]
       IN  IF task.r[k] = None
           THEN /\ tasks' = [tasks EXCEPT ![t].kind = @ + 1]
                /\ UNCHANGED creds
           ELSE /\ creds' = [creds EXCEPT ![task.r.id][k] = task.r[k]]
                /\ tasks' = [tasks EXCEPT ![t] =
                      [@ EXCEPT !.kind = @ + 1,
                                !.undo = Append(@, <<k, creds[task.r.id][k]>>)]]
    /\ UNCHANGED <<disk, lock, crashes, confirmed, appVars>>

\* Mutant: the passwords set before the one that failed stay.
SetSecretFailsKeeping(t) ==
    /\ tasks[t].pc = "secrets" /\ tasks[t].kind <= Len(KindOrder)
    /\ tasks[t].r[KindOrder[tasks[t].kind]] # None
    /\ "set" \in Failures
    /\ UNCHANGED creds
    /\ tasks' = [tasks EXCEPT ![t].pc = "failed"]
    /\ UNCHANGED <<disk, lock, crashes, confirmed, appVars>>

\* A password that cannot be set undoes those before it; one whose previous
\* value cannot be read does not.
SetSecretFails(t) ==
    /\ tasks[t].pc = "secrets" /\ tasks[t].kind <= Len(KindOrder)
    /\ tasks[t].r[KindOrder[tasks[t].kind]] # None
    /\ \/ "set" \in Failures /\ creds' = Restored(tasks[t])
       \/ "read" \in Failures /\ UNCHANGED creds
    /\ tasks' = [tasks EXCEPT ![t].pc = "failed"]
    /\ UNCHANGED <<disk, lock, crashes, confirmed, appVars>>

SecretsDone(t) ==
    /\ tasks[t].pc = "secrets" /\ tasks[t].kind > Len(KindOrder)
    /\ tasks' = [tasks EXCEPT ![t].pc = "temp"]
    /\ UNCHANGED <<disk, creds, lock, crashes, confirmed, appVars>>

\* write_server_profiles: temporary file, removal, rename.
WriteTemp(t) ==
    /\ tasks[t].pc = "temp"
    /\ tasks' = [tasks EXCEPT ![t].pc = "remove"]
    /\ UNCHANGED <<disk, creds, lock, crashes, confirmed, appVars>>

RemoveOld(t) ==
    /\ tasks[t].pc = "remove"
    /\ disk' = NoDoc
    /\ tasks' = [tasks EXCEPT ![t].pc = "rename"]
    /\ UNCHANGED <<creds, lock, crashes, confirmed, appVars>>

RenameNew(t) ==
    /\ tasks[t].pc = "rename"
    /\ disk' = tasks[t].next
    /\ tasks' = [tasks EXCEPT ![t].pc = IF tasks[t].r.kind = "delete" THEN "clear" ELSE "done"]
    /\ LET r == tasks[t].r
       IN  confirmed' = [i \in Ids |->
              CASE r.kind = "confirm" /\ r.id = i -> r.endpoint
                [] r.kind \in {"revoke", "delete"} /\ r.id = i -> None
                [] r.kind = "upsert" /\ r.id = i /\ confirmed[i] # None ->
                      IF r.scheme = "http" /\ r.endpoint = confirmed[i] THEN confirmed[i] ELSE None
                [] OTHER -> confirmed[i]]
    /\ UNCHANGED <<creds, lock, crashes, appVars>>

\* A step of the write fails: the passwords of the form are restored, unless the
\* restoration fails too, which nobody notices.
WriteFails(t) ==
    /\ tasks[t].pc \in Failures
    /\ \/ creds' = Restored(tasks[t])
       \/ "restore" \in Failures /\ UNCHANGED creds
    /\ tasks' = [tasks EXCEPT ![t].pc = "failed"]
    /\ UNCHANGED <<disk, lock, crashes, confirmed, appVars>>

\* The passwords of a deleted profile go after its document.
ClearSecrets(t) ==
    /\ tasks[t].pc = "clear"
    /\ creds' = [creds EXCEPT ![tasks[t].r.id] = [k \in Kinds |-> None]]
    /\ tasks' = [tasks EXCEPT ![t].pc = "done"]
    /\ UNCHANGED <<disk, lock, crashes, confirmed, appVars>>

Return(t) ==
    /\ tasks[t].pc \in {"done", "failed"}
    /\ tasks' = [tasks EXCEPT ![t] = Idle]
    /\ lock' = Free
    /\ UNCHANGED <<disk, creds, crashes, confirmed, appVars>>

-----------------------------------------------------------------------------
(* The application settings. *)

\* The file is read and its version compared.
AppCompare(t) ==
    /\ appTasks[t].pc = "idle"
    /\ LET version == IF app = 0 THEN 1 ELSE app
       IN  /\ version < MaxAppVersion
           /\ appTasks' = [appTasks EXCEPT ![t] = [pc |-> "temp", base |-> version]]
    /\ UNCHANGED <<app, appTemp, disk, creds, lock, tasks, crashes, confirmed>>

AppWriteTemp(t) ==
    /\ appTasks[t].pc = "temp"
    /\ appTemp' = appTasks[t].base + 1
    /\ appTasks' = [appTasks EXCEPT ![t].pc = "remove"]
    /\ UNCHANGED <<app, disk, creds, lock, tasks, crashes, confirmed>>

AppRemove(t) ==
    /\ appTasks[t].pc = "remove"
    /\ app' = 0
    /\ appTasks' = [appTasks EXCEPT ![t].pc = "rename"]
    /\ UNCHANGED <<appTemp, disk, creds, lock, tasks, crashes, confirmed>>

\* The rename fails when another update has taken the temporary file away.
AppRename(t) ==
    /\ appTasks[t].pc = "rename"
    /\ app' = IF appTemp = 0 THEN app ELSE appTemp
    /\ appTemp' = 0
    /\ appTasks' = [appTasks EXCEPT ![t] = Idle]
    /\ UNCHANGED <<disk, creds, lock, tasks, crashes, confirmed>>

\* The process ends; files and credentials stay as they are.
Crash ==
    /\ crashes < MaxCrashes
    /\ crashes' = crashes + 1
    /\ tasks' = [t \in Tasks |-> Idle]
    /\ appTasks' = [t \in AppTasks |-> Idle]
    /\ lock' = Free
    /\ UNCHANGED <<disk, creds, app, appTemp, confirmed>>

-----------------------------------------------------------------------------
Command(t) ==
    \/ SetSecret(t) \/ SetSecretFails(t) \/ SecretsDone(t)
    \/ WriteTemp(t) \/ RemoveOld(t) \/ RenameNew(t) \/ WriteFails(t)
    \/ ClearSecrets(t) \/ Return(t)

DesktopNext ==
    \/ \E t \in Tasks, r \in Requests, v \in 1..MaxVersion : Begin(t, r, v)
    \/ \E t \in Tasks : Command(t)
    \/ \E t \in AppTasks : AppCompare(t) \/ AppWriteTemp(t) \/ AppRemove(t) \/ AppRename(t)
    \/ Crash

DesktopSpec == DesktopInit /\ [][DesktopNext]_vars

-----------------------------------------------------------------------------
(* Properties. *)

\* A command that fails leaves the document and the passwords as it found them,
\* whichever password or file operation failed and however many came before it
\* (apply_secret_updates, mutate_server_profiles).
FailureRestores ==
    \A t \in Tasks : tasks[t].pc = "failed" => disk = tasks[t].was /\ creds = tasks[t].had

\* A consent in the document is the one the user gave for exactly this endpoint
\* and has not lost since by moving the profile away and back (into_profile,
\* ConfirmInsecureRestHttp).
ConsentWasGiven ==
    \A i \in DOMAIN disk.profiles :
        disk.profiles[i].consent # None => disk.profiles[i].consent = confirmed[i]

\* Saving a form is refused for its version or for the number of profiles, never
\* for a consent the form cannot change.
FormIsNeverRefused ==
    \A r \in {q \in Requests : q.kind = "upsert"} :
        r.id \in DOMAIN ReadProfiles.profiles =>
            NextDoc(ReadProfiles, r).version = ReadProfiles.version + 1

\* Between commands passwords belong to profiles: a command that ends leaves none
\* behind for a profile that is not in the document.
SecretsHaveProfiles ==
    lock = Free /\ crashes = 0 =>
        \A i \in Ids \ DOMAIN disk.profiles : creds[i] = [k \in Kinds |-> None]

\* A profile command replaces the document it compared its version with
\* (ensure_server_profile_version under the lock).
CommandReplacesCompared ==
  \A t \in Tasks : tasks[t].pc = "remove" /\ tasks'[t].pc = "rename" =>
     disk = tasks[t].was

=============================================================================
