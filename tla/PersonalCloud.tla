--------------------------- MODULE PersonalCloud ---------------------------
(***************************************************************************)
(* The personal side of the cloud service: operators bind a game-side      *)
(* owner to a signed-in member, decide which game builds are compatible    *)
(* with which dataset, and import an owner's projection (profile, Pals and *)
(* inventory); members read the active projection of the owner bound to    *)
(* them and ask the assistant about it.  Every request is a sequence of D1 *)
(* statements with other requests in between, and may stop at any of them; *)
(* a statement with its triggers, or a D1 batch, is one step.              *)
(*                                                                         *)
(* Sources: pal-cloud-worker/src/runtime.rs and build_policy.rs,           *)
(* pal-companion-service/src/access.rs, cloudflare/migrations (0001, 0006) *)
(* and cloudflare/schema/post_migration_triggers.sql.                      *)
(*                                                                         *)
(* One world; an import is the body of the request, its projection and     *)
(* sync identifiers included, so sending it again is sending the same      *)
(* identifiers again.  Timestamps are the order of activations.            *)
(***************************************************************************)
EXTENDS Integers, FiniteSets

CONSTANTS
    Members,        \* signed-in principals
    Owners,         \* game-side owner subjects
    Builds,         \* game build ids, normalised
    Datasets,       \* full_catalog datasets
    BuildOf,        \* the build a dataset was extracted from
    Imports,        \* import bodies
    ImportOf,       \* their fields: owner, build and dataset
    Importers,      \* import requests in flight
    Reviewers,      \* operators reviewing builds
    Asking,         \* members' requests in flight
    Parts,          \* statements that insert rows: profile, Pals, inventory
    None

VARIABLES
    binding,    \* owner_bindings
    policy,     \* game_build_policies
    catalog,    \* data_versions: "unverified", "verified" or "active"
    run,        \* sync_runs by sync id
    commit,     \* projection_commits: none, inactive or active, and when
    rows,       \* number of row statements of a projection that are in
    importer,   \* each import request
    reviewer,   \* each game-build review
    asking,     \* each member's request
    answered    \* assistant_runs: the row of each request in flight

pcVars == <<binding, policy, catalog, run, commit, rows, importer, reviewer,
            asking, answered>>

Unbound == [who |-> None, active |-> FALSE, named |-> FALSE]
NoPolicy == [state |-> "none", dataset |-> None]
IdleImport == [at |-> "idle", import |-> None]
IdleReview == [at |-> "idle", build |-> None, dataset |-> None]
IdleAsk == [at |-> "idle", who |-> None, import |-> None, rows |-> 0]

Owner(i) == ImportOf[i].owner

ActiveOf(o) == {i \in Imports : Owner(i) = o /\ commit[i].state = "active"}
Order == {commit[i].since : i \in Imports}

Init ==
    /\ binding = [o \in Owners |-> Unbound]
    /\ policy = [b \in Builds |-> NoPolicy]
    /\ catalog = [d \in Datasets |-> "unverified"]
    /\ run = [i \in Imports |-> "none"]
    /\ commit = [i \in Imports |-> [state |-> "none", since |-> 0]]
    /\ rows = [i \in Imports |-> 0]
    /\ importer = [r \in Importers |-> IdleImport]
    /\ reviewer = [r \in Reviewers |-> IdleReview]
    /\ asking = [q \in Asking |-> IdleAsk]
    /\ answered = [q \in Asking |-> "none"]

----------------------------------------------------------------------------
(* Bindings                                                                *)

\* ops_upsert_binding.  The member has signed in, so principals has the row.
\* UNIQUE (principal_id, world_id) counts revoked rows too: a member whose
\* row of another owner is still there cannot be bound again.
BindOwner(o, m, named) ==
    /\ \A p \in Owners \ {o} : binding[p].who # m
    /\ binding' = [binding EXCEPT
                      ![o] = [who |-> m, active |-> TRUE, named |-> named]]
    /\ UNCHANGED <<policy, catalog, run, commit, rows, importer, reviewer,
                   asking, answered>>

\* ops_revoke_binding: the row stays, inactive.
RevokeBinding(o) ==
    /\ binding[o].active
    /\ binding' = [binding EXCEPT ![o].active = FALSE]
    /\ UNCHANGED <<policy, catalog, run, commit, rows, importer, reviewer,
                   asking, answered>>

----------------------------------------------------------------------------
(* Builds and datasets                                                     *)

\* The operator verifies a dataset that pal-cloud-seed loaded.
VerifyDataset(d) ==
    /\ catalog[d] = "unverified"
    /\ catalog' = [catalog EXCEPT ![d] = "verified"]
    /\ UNCHANGED <<binding, policy, run, commit, rows, importer, reviewer,
                   asking, answered>>

\* Activation of a verified full catalogue (reject_unverified_dataset_
\* activation_update refuses any other) and what the trigger
\* game_build_policy_after_dataset_activation writes, a block included.
ActivateDataset(d) ==
    /\ catalog[d] = "verified"
    /\ catalog' = [catalog EXCEPT ![d] = "active"]
    /\ policy' = [policy EXCEPT
                     ![BuildOf[d]] = [state |-> "compatible", dataset |-> d]]
    /\ UNCHANGED <<binding, run, commit, rows, importer, reviewer, asking,
                   answered>>

\* ops_upsert_game_build, the validation of the body: "compatible" names a
\* dataset that is read next, "blocked" names none.
BeginReview(r, b, d) ==
    /\ reviewer[r].at = "idle"
    /\ reviewer' = [reviewer EXCEPT
           ![r] = [at |-> IF d = None THEN "write" ELSE "read",
                   build |-> b, dataset |-> d]]
    /\ UNCHANGED <<binding, policy, catalog, run, commit, rows, importer,
                   asking, answered>>

\* Its read: only a verified full catalogue can be mapped to a build.
ReadMappedDataset(r) ==
    /\ reviewer[r].at = "read"
    /\ reviewer' = [reviewer EXCEPT
           ![r] = IF catalog[@.dataset] = "unverified" THEN IdleReview
                  ELSE [@ EXCEPT !.at = "write"]]
    /\ UNCHANGED <<binding, policy, catalog, run, commit, rows, importer,
                   asking, answered>>

\* Its write, and the audit event.
WritePolicy(r) ==
    /\ reviewer[r].at = "write"
    /\ policy' = [policy EXCEPT ![reviewer[r].build] =
           [state |-> IF reviewer[r].dataset = None THEN "blocked"
                      ELSE "compatible",
            dataset |-> reviewer[r].dataset]]
    /\ reviewer' = [reviewer EXCEPT ![r] = IdleReview]
    /\ UNCHANGED <<binding, catalog, run, commit, rows, importer, asking,
                   answered>>

\* evaluate_build_policy.
Compatible(i) ==
    policy[ImportOf[i].build] =
        [state |-> "compatible", dataset |-> ImportOf[i].dataset]

----------------------------------------------------------------------------
(* Importing a projection                                                  *)

Goto(r, at) == importer' = [importer EXCEPT ![r].at = at]
EndImport(r) == importer' = [importer EXCEPT ![r] = IdleImport]
NotStored == UNCHANGED <<binding, policy, catalog, run, commit, rows,
                         reviewer, asking, answered>>

\* Mutant: the projection is activated before its rows are in.
ActivatedEarly(i) == TRUE

\* validate_projection_import; an idle request takes any body, one that was
\* sent before included.
BeginImport(r, i) ==
    /\ importer[r].at = "idle"
    /\ importer' = [importer EXCEPT ![r] = [at |-> "bound", import |-> i]]
    /\ NotStored

\* The active binding of the owner, with a character name.
CheckBinding(r) ==
    /\ importer[r].at = "bound"
    /\ LET b == binding[Owner(importer[r].import)]
       IN IF b.active /\ b.named THEN Goto(r, "observe") ELSE EndImport(r)
    /\ NotStored

\* observe_projection_build: an unknown build is recorded as observed.
ObserveBuild(r) ==
    /\ importer[r].at = "observe"
    /\ LET b == ImportOf[importer[r].import].build
       IN policy' = [policy EXCEPT ![b] =
              IF @.state = "none" THEN [@ EXCEPT !.state = "observed"] ELSE @]
    /\ Goto(r, "policy")
    /\ UNCHANGED <<binding, catalog, run, commit, rows, reviewer, asking,
                   answered>>

\* Whether the import may go on under the policy that is read.
PolicyAdmits(i) == Compatible(i)

\* require_projection_build_compatibility.
CheckPolicy(r) ==
    /\ importer[r].at = "policy"
    /\ IF PolicyAdmits(importer[r].import) THEN Goto(r, "dataset")
       ELSE EndImport(r)
    /\ NotStored

\* The mapped dataset must be a verified full catalogue.
CheckDataset(r) ==
    /\ importer[r].at = "dataset"
    /\ IF catalog[ImportOf[importer[r].import].dataset] # "unverified"
       THEN Goto(r, "sync") ELSE EndImport(r)
    /\ NotStored

\* The service agent row (not read by any modelled request) and the sync run;
\* its primary key refuses a sync id that is already there.
InsertRun(r) ==
    /\ importer[r].at = "sync"
    /\ LET i == importer[r].import
       IN IF run[i] = "none"
          THEN run' = [run EXCEPT ![i] = "received"] /\ Goto(r, "commit")
          ELSE EndImport(r) /\ UNCHANGED run
    /\ UNCHANGED <<binding, policy, catalog, commit, rows, reviewer, asking,
                   answered>>

\* The projection, inactive.
InsertCommit(r) ==
    /\ importer[r].at = "commit"
    /\ commit' = [commit EXCEPT ![importer[r].import].state = "inactive"]
    /\ Goto(r, "rows")
    /\ UNCHANGED <<binding, policy, catalog, run, rows, reviewer, asking,
                   answered>>

RowsAreIn(i) == rows[i] = Parts

\* insert_import_profile, then every chunk of insert_import_pals and of
\* insert_import_inventory, each a batch of its own.
InsertRows(r) ==
    /\ importer[r].at = "rows"
    /\ ~RowsAreIn(importer[r].import)
    /\ rows' = [rows EXCEPT ![importer[r].import] = @ + 1]
    /\ UNCHANGED <<binding, policy, catalog, run, commit, importer, reviewer,
                   asking, answered>>

\* What the final batch writes.
Activated(i) ==
    /\ commit' = [j \in Imports |->
           IF j = i THEN [state |-> "active", since |-> Cardinality(Order)]
           ELSE IF Owner(j) = Owner(i) /\ commit[j].state = "active"
           THEN [commit[j] EXCEPT !.state = "inactive"]
           ELSE commit[j]]
    /\ run' = [run EXCEPT ![i] = "activated"]

\* The final batch, and the audit event after it.
ActivateProjection(r) ==
    /\ importer[r].at = "rows"
    /\ RowsAreIn(importer[r].import)
    /\ Activated(importer[r].import)
    /\ EndImport(r)
    /\ UNCHANGED <<binding, policy, catalog, rows, reviewer, asking, answered>>

\* A statement fails or the request is cut off: what it stored stays.
ImportStops(r) ==
    /\ importer[r].at # "idle"
    /\ EndImport(r)
    /\ NotStored

----------------------------------------------------------------------------
(* Members                                                                 *)

\* active_projection: the latest activated among the active projections of
\* the owners bound to the member.
Visible(m) == {i \in Imports : /\ commit[i].state = "active"
                               /\ binding[Owner(i)].who = m
                               /\ binding[Owner(i)].active}
Latest(S) == CHOOSE i \in S : \A j \in S : commit[j].since =< commit[i].since

SelectFrom(m) == Visible(m)

\* me, pals, inventory, catalogue search, breeding and the assistant begin
\* with the same query; without a projection the read routes answer empty and
\* the others refuse.
SelectProjection(q, m) ==
    /\ asking[q].at = "idle"
    /\ SelectFrom(m) # {}
    /\ asking' = [asking EXCEPT
           ![q] = [at |-> "selected", who |-> m,
                   import |-> Latest(SelectFrom(m)), rows |-> 0]]
    /\ UNCHANGED <<binding, policy, catalog, run, commit, rows, importer,
                   reviewer, answered>>

\* The rows of the selected projection, by its id.
ReadOwned(q, at) ==
    /\ asking[q].at = "selected"
    /\ asking' = [asking EXCEPT ![q].at = at,
                                ![q].rows = rows[asking[q].import]]
    /\ UNCHANGED <<binding, policy, catalog, run, commit, rows, importer,
                   reviewer, answered>>

\* me_response: the profile of the projection.
ReadProfile(q) == ReadOwned(q, "read")

\* pals_response and load_owned_pals.
ReadPals(q) == ReadOwned(q, "read")

\* inventory_response and load_inventory.
ReadInventory(q) == ReadOwned(q, "read")

\* breeding_response: names are resolved in the projection's dataset, then its
\* Pals and the dataset's rules go to the solver.
PlanBreeding(q) == ReadOwned(q, "read")

\* assistant_response, up to the model: profile, inventory and Pals by
\* projection id, knowledge of its dataset.
GatherOwned(q) == ReadOwned(q, "gathered")

\* catalog_search_response counts the member's own Pals; without a projection
\* it searches the active catalogue.
SearchCatalog(q, m) ==
    \/ ReadOwned(q, "read")
    \/ /\ asking[q].at = "idle"
       /\ SelectFrom(m) = {}
       /\ \E d \in Datasets : catalog[d] = "active"
       /\ asking' = [asking EXCEPT ![q] = [IdleAsk EXCEPT !.at = "read",
                                                          !.who = m]]
       /\ UNCHANGED <<binding, policy, catalog, run, commit, rows, importer,
                      reviewer, answered>>

\* The read routes answer.
AnswerRows(q) ==
    /\ asking[q].at = "read"
    /\ asking' = [asking EXCEPT ![q] = IdleAsk]
    /\ UNCHANGED <<binding, policy, catalog, run, commit, rows, importer,
                   reviewer, answered>>

\* grounded_assistant_response: the evidence comes with the request, of a
\* build that is known and compatible (require_known_compatible_build).
AskGrounded(q, m, b) ==
    /\ asking[q].at = "idle"
    /\ policy[b].state = "compatible"
    /\ asking' = [asking EXCEPT ![q] = [IdleAsk EXCEPT !.at = "gathered",
                                                       !.who = m]]
    /\ UNCHANGED <<binding, policy, catalog, run, commit, rows, importer,
                   reviewer, answered>>

\* execute_grounded_assistant and record_assistant_run: an empty or failed
\* model answer falls back to the evidence; either way the run is stored
\* before the answer leaves.
AskModel(q, usedModel) ==
    /\ asking[q].at = "gathered"
    /\ asking' = [asking EXCEPT ![q].at = "recorded"]
    /\ answered' = [answered EXCEPT
           ![q] = IF usedModel THEN "answered" ELSE "fallback"]
    /\ UNCHANGED <<binding, policy, catalog, run, commit, rows, importer,
                   reviewer>>

\* The assistant answers; the next request has a run id of its own.
AnswerAssistant(q) ==
    /\ asking[q].at = "recorded"
    /\ asking' = [asking EXCEPT ![q] = IdleAsk]
    /\ answered' = [answered EXCEPT ![q] = "none"]
    /\ UNCHANGED <<binding, policy, catalog, run, commit, rows, importer,
                   reviewer>>

----------------------------------------------------------------------------
Next ==
    \/ \E o \in Owners, m \in Members, named \in BOOLEAN : BindOwner(o, m, named)
    \/ \E o \in Owners : RevokeBinding(o)
    \/ \E d \in Datasets : VerifyDataset(d) \/ ActivateDataset(d)
    \/ \E r \in Reviewers : \/ \E b \in Builds, d \in Datasets \cup {None} :
                                   BeginReview(r, b, d)
                            \/ ReadMappedDataset(r)
                            \/ WritePolicy(r)
    \/ \E r \in Importers :
          \/ \E i \in Imports : BeginImport(r, i)
          \/ CheckBinding(r) \/ ObserveBuild(r) \/ CheckPolicy(r)
          \/ CheckDataset(r) \/ InsertRun(r) \/ InsertCommit(r)
          \/ InsertRows(r) \/ ActivateProjection(r) \/ ImportStops(r)
    \/ \E q \in Asking :
          \/ \E m \in Members : SelectProjection(q, m)
          \/ ReadProfile(q) \/ ReadPals(q) \/ ReadInventory(q)
          \/ PlanBreeding(q) \/ GatherOwned(q)
          \/ \E m \in Members : SearchCatalog(q, m)
          \/ \E m \in Members, b \in Builds : AskGrounded(q, m, b)
          \/ AnswerRows(q)
          \/ \E usedModel \in BOOLEAN : AskModel(q, usedModel)
          \/ AnswerAssistant(q)

Spec == Init /\ [][Next]_pcVars

----------------------------------------------------------------------------
(* Properties                                                              *)

\* Type invariant of the personal cloud's tables and requests.
PersonalTypeOK ==
    /\ binding \in [Owners -> [who : Members \cup {None}, active : BOOLEAN,
                               named : BOOLEAN]]
    /\ policy \in [Builds -> [state : {"none", "observed", "compatible",
                                       "blocked"},
                              dataset : Datasets \cup {None}]]
    /\ catalog \in [Datasets -> {"unverified", "verified", "active"}]
    /\ run \in [Imports -> {"none", "received", "activated"}]
    /\ commit \in [Imports -> [state : {"none", "inactive", "active"},
                               since : Nat]]
    /\ rows \in [Imports -> 0..Parts]

\* ops_import_projection: whatever imports run at once, stop half-way or are
\* sent again, an owner has at most one active projection, all of its rows
\* are in, and the sync run says so.
ActiveIsComplete ==
    \A o \in Owners :
        /\ Cardinality(ActiveOf(o)) =< 1
        /\ \A i \in ActiveOf(o) : rows[i] = Parts /\ run[i] = "activated"

\* A member's request selects the projection in one statement and reads its
\* rows in later ones; however often the owner's projection is replaced in
\* between, what it read is one whole projection.
ReadsAreWhole ==
    \A q \in Asking :
        asking[q].import # None /\ asking[q].at # "selected" =>
            asking[q].rows = Parts

\* Two requests with the same body never both write: each row of a projection
\* is inserted by one request, so a repeated or concurrent import cannot fill
\* or activate a projection another one is still filling.
OneWriterPerProjection ==
    \A r, s \in Importers :
        (/\ importer[r].at \in {"commit", "rows"}
         /\ importer[s].at \in {"commit", "rows"}
         /\ importer[r].import = importer[s].import)
        => r = s

\* A build is never compatible with a dataset nobody verified, whether the
\* operator mapped it (a read, then a write) or the activation trigger did,
\* and a build that imports have only observed stays without one.
PolicyNamesVerified ==
    \A b \in Builds :
        /\ policy[b].state = "compatible" =>
               /\ policy[b].dataset # None
               /\ catalog[policy[b].dataset] # "unverified"
        /\ policy[b].state = "observed" => policy[b].dataset = None

\* An import is stored only for a build that an operator or an activation has
\* decided on: one that imports have merely observed waits for review,
\* whatever datasets are verified meanwhile.
UnknownBuildWaits ==
    \A i \in Imports :
        run[i] # "none" =>
            policy[ImportOf[i].build].state \in {"compatible", "blocked"}

\* A projection that was filled is the only one ever offered: once an owner
\* has an active projection, an import that fails leaves it active.
FailedImportKeepsOld ==
  \A o \in Owners :
     ActiveOf(o) # {} => ActiveOf(o)' # {}

\* assistant_response: an answer, model or fallback, leaves only after its run
\* was stored.
AnswersAreRecorded ==
    \A q \in Asking :
        asking[q].at = "recorded" =>
            answered[q] \in {"answered", "fallback"}
=============================================================================
