------------------------ MODULE KnowledgePublication ------------------------
(***************************************************************************)
(* The knowledge side of the cloud database: how a dataset with its graph, *)
(* wiki pages and Error Book is seeded file by file, promoted, published,  *)
(* demoted and re-published by the database's triggers, and reviewed by    *)
(* several operators at once, while anonymous readers search and read it   *)
(* through the edge cache.  A D1 statement (with the triggers it fires) or *)
(* a D1 batch is one step; a request of several statements is several.     *)
(*                                                                         *)
(* Sources: pal-cloud-worker/src/runtime/ops_knowledge.rs and              *)
(* knowledge.rs, runtime.rs (the cache around them), pal-cloud-seed,       *)
(* cloudflare/schema/post_migration_triggers.sql and the two seed scripts. *)
(*                                                                         *)
(* A page is the number of the revision it shows.  A revision's claims are *)
(* "valid" or not; every row of a seed has one evidence quality.           *)
(***************************************************************************)
EXTENDS Integers, FiniteSets

CONSTANTS
    Public,         \* datasets of scope public_metadata
    Full,           \* datasets of scope full_catalog
    Errors,         \* entry ids of the Error Book
    Drafts,         \* revision numbers drafted on top of the compiled one
    Operators,      \* operators with a review page open
    Publishers,     \* people running the publish script
    Readers,        \* anonymous requests in flight
    MaxReview       \* bound on review_version

VARIABLES
    data,       \* data_versions: what is there and which is active
    manifest,   \* knowledge_dataset_manifests
    book,       \* knowledge_error_book
    revision,   \* knowledge_wiki_revisions of the one page of a dataset
    page,       \* knowledge_wiki_pages: the revision it shows
    seed,       \* checkpoints of the public seed files, a set of file numbers
    publisher,  \* the publish script's plan and progress
    review,     \* each operator's request
    reader,     \* each public request
    cache       \* the edge cache entry of the page's document

kpVars == <<data, manifest, book, revision, page, seed, publisher, review,
            reader, cache>>

Datasets == Public \cup Full
SeedFiles == 1..4           \* dataset row, content rows, manifest, validation
Unresolved == {"open", "accepted"}
BookStatus == Unresolved \cup {"rejected", "resolved"}
NoRow == "none"

----------------------------------------------------------------------------
(* The database's triggers                                                 *)

OpenErrors(b, d) == {e \in Errors : b[d][e].status \in Unresolved}

\* knowledge_manifest_publish_after_validation, ..._after_manifest_write and
\* ..._after_dataset_update: a validated manifest of an active verified
\* dataset without unresolved errors becomes published in the same statement.
Publish(m, v, b, d) ==
    IF /\ m[d].status = "validated"
       /\ v[d].verified /\ v[d].active
       /\ OpenErrors(b, d) = {}
    THEN [m EXCEPT ![d].status = "published"]
    ELSE m

\* knowledge_manifest_demote_on_error and ..._demote_on_error_update.
Demote(m, d) ==
    IF m[d].status = NoRow THEN m ELSE [m EXCEPT ![d].status = "candidate"]

\* Mutant: only the insertion of an error demotes, not its reopening.
InsertOnlyDemotes(m, v, b, d, from, to) ==
    IF from \in Unresolved /\ to \notin Unresolved /\ OpenErrors(b, d) = {}
       /\ m[d].status # NoRow
    THEN Publish([m EXCEPT ![d].status = "validated"], v, b, d)
    ELSE m

\* What an update of an error's status from "from" to "to" does to the
\* manifest: demote_on_error_update and revalidate_after_error_review.
AfterErrorUpdate(m, v, b, d, from, to) ==
    IF to \in Unresolved THEN Demote(m, d)
    ELSE IF from \in Unresolved /\ OpenErrors(b, d) = {} /\ m[d].status # NoRow
    THEN Publish([m EXCEPT ![d].status = "validated"], v, b, d)
    ELSE m

----------------------------------------------------------------------------
(* Seeding                                                                 *)

\* catalog_evidence_quality: what is not exact or measured is unknown.
Qualities == {"exact", "unknown"}

\* graph_gap_statements: relations whose endpoint is missing become errors.
GapSets == SUBSET Errors

\* wiki_statements: every page starts reviewed, showing the compiled
\* revision.
Compiled(claims) ==
    [r \in {1} \cup Drafts |->
        IF r = 1 THEN [status |-> "reviewed", version |-> 0, claims |-> claims]
        ELSE [status |-> NoRow, version |-> 0, claims |-> "valid"]]

\* verify_generated_sql: the seed is refused unless the manifest is validated
\* exactly when the compiled Error Book is empty.
SeedVerified(m, b, d) ==
    m[d].status = IF OpenErrors(b, d) = {} THEN "validated" ELSE "candidate"

\* pal-cloud-seed: the files of a full catalogue loaded into the database.
\* The compiler finds the missing relation endpoints E, marks every row with
\* the quality of its source and validates the manifest when E is empty; the
\* dataset stays unverified and inactive.
SeedFull(d, quality, E) ==
    /\ data[d].quality = NoRow
    /\ data' = [data EXCEPT ![d].quality = quality]
    /\ book' = [book EXCEPT ![d] = [e \in Errors |->
            IF e \in E THEN [status |-> "open", version |-> 0]
            ELSE book[d][e]]]
    /\ manifest' = [manifest EXCEPT ![d] =
            [status |-> IF E = {} THEN "validated" ELSE "candidate",
             version |-> 0]]
    /\ revision' = [revision EXCEPT ![d] =
            Compiled(IF quality = "exact" THEN "valid" ELSE "invalid")]
    /\ page' = [page EXCEPT ![d] = 1]
    /\ SeedVerified(manifest', book', d)
    /\ UNCHANGED <<seed, publisher, review, reader, cache>>

\* The operator marks a full catalogue verified and makes it the active one
\* of its scope (the unique index admits one) in one transaction.
ActivateFull(d) ==
    /\ data[d].quality # NoRow /\ ~data[d].active
    /\ data' = [x \in Datasets |->
            IF x = d THEN [data[x] EXCEPT !.verified = TRUE, !.active = TRUE]
            ELSE IF x \in Full THEN [data[x] EXCEPT !.active = FALSE]
            ELSE data[x]]
    /\ manifest' = Publish(manifest, data', book, d)
    /\ UNCHANGED <<book, revision, page, seed, publisher, review, reader,
                   cache>>

IdlePublisher == [step |-> "idle"]

\* publish-public-knowledge-seed.ps1: read the remote state and the
\* checkpoints, accept only a contiguous prefix, and schedule the files that
\* fit today's write budget (a nondeterministic cut), or the promotion once
\* every file is checkpointed and the manifest is validated.
PlanSeed(p, d, upTo) ==
    /\ publisher[p].step = "idle"
    /\ ~data[d].active
    /\ seed[d] = 1..Cardinality(seed[d])
    /\ \/ /\ upTo \in SeedFiles \ seed[d]
          /\ publisher' = [publisher EXCEPT ![p] =
                [step |-> "apply", d |-> d, next |-> Cardinality(seed[d]) + 1,
                 last |-> upTo]]
       \/ /\ upTo = 0 /\ seed[d] = SeedFiles
          /\ manifest[d].status = "validated"
          /\ publisher' = [publisher EXCEPT ![p] = [step |-> "promote", d |-> d]]
    /\ UNCHANGED <<data, manifest, book, revision, page, seed, review, reader,
                   cache>>

\* What one seed file writes besides its checkpoint.
FileEffect(d, k) ==
    /\ data' = IF k = 1 THEN [data EXCEPT ![d].quality = "exact"] ELSE data
    /\ IF k = 2
       THEN /\ revision' = [revision EXCEPT ![d] = Compiled("valid")]
            /\ page' = [page EXCEPT ![d] = 1]
       ELSE UNCHANGED <<revision, page>>
    /\ manifest' =
         CASE k = 3 -> [manifest EXCEPT ![d] =
                            [status |-> "candidate", version |-> 0]]
           [] k = 4 /\ manifest[d].status = "candidate"
                    /\ OpenErrors(book, d) = {} ->
                    [manifest EXCEPT ![d].status = "validated"]
           [] OTHER -> manifest

\* One file, its rows and its checkpoint in one transaction.  A file another
\* publisher has applied meanwhile violates a primary key: the transaction
\* rolls back and the script throws.
ApplyFile(p) ==
    LET b == publisher[p]
        done == b.next = b.last
    IN
    /\ b.step = "apply"
    /\ IF b.next \in seed[b.d]
       THEN /\ publisher' = [publisher EXCEPT ![p] = IdlePublisher]
            /\ UNCHANGED <<data, manifest, revision, page, seed>>
       ELSE /\ FileEffect(b.d, b.next)
            /\ seed' = [seed EXCEPT ![b.d] = @ \cup {b.next}]
            /\ publisher' = [publisher EXCEPT ![p] =
                    IF done THEN IdlePublisher ELSE [b EXCEPT !.next = @ + 1]]
    /\ UNCHANGED <<book, review, reader, cache>>

\* OPERATOR_PROMOTE_AFTER_REVIEW.sql: the first statement deactivates every
\* other public dataset; the second activates this one only while its
\* manifest is validated and no error is unresolved.
OthersOff(d) ==
    [x \in Datasets |->
        IF x \in Public \ {d} THEN [data[x] EXCEPT !.active = FALSE]
        ELSE data[x]]
Promotable(d) ==
    /\ ~data[d].verified /\ ~data[d].active
    /\ manifest[d].status = "validated"
    /\ OpenErrors(book, d) = {}
Promoted(d) == [OthersOff(d) EXCEPT ![d].verified = TRUE, ![d].active = TRUE]

Promote(p) ==
    LET d == publisher[p].d IN
    /\ publisher[p].step = "promote"
    /\ data' = IF Promotable(d) THEN Promoted(d) ELSE OthersOff(d)
    /\ manifest' = IF Promotable(d) THEN Publish(manifest, Promoted(d), book, d)
                   ELSE manifest
    /\ publisher' = [publisher EXCEPT ![p] = IdlePublisher]
    /\ UNCHANGED <<book, revision, page, seed, review, reader, cache>>

\* The script is stopped, or the remote call fails before the transaction.
PublisherFails(p) ==
    /\ publisher[p].step # "idle"
    /\ publisher' = [publisher EXCEPT ![p] = IdlePublisher]
    /\ UNCHANGED <<data, manifest, book, revision, page, seed, review, reader,
                   cache>>

----------------------------------------------------------------------------
(* The Error Book and the drafts are also written by validators and people *)

\* An entry is added to the Error Book.
ReportError(d, e) ==
    /\ data[d].quality # NoRow
    /\ book[d][e].status = NoRow
    /\ book' = [book EXCEPT ![d][e] = [status |-> "open", version |-> 0]]
    /\ manifest' = Demote(manifest, d)
    /\ UNCHANGED <<data, revision, page, seed, publisher, review, reader,
                   cache>>

\* A revision is drafted, with claims that do or do not pass the gate.
DraftRevision(d, r, claims) ==
    /\ page[d] # 0
    /\ revision[d][r].status = NoRow
    /\ revision' = [revision EXCEPT ![d][r] =
            [status |-> "draft", version |-> 0, claims |-> claims]]
    /\ UNCHANGED <<data, manifest, book, page, seed, publisher, review,
                   reader, cache>>

----------------------------------------------------------------------------
(* Operator review                                                         *)

IdleReview == [step |-> "idle", outcome |-> "none"]
Ended(outcome) == [step |-> "idle", outcome |-> outcome]

\* validate_error_review: the transitions an operator may ask for.
Transitions ==
    {<<"open", to>> : to \in {"accepted", "rejected", "resolved"}}
    \cup {<<"accepted", to>> : to \in {"rejected", "resolved"}}
    \cup {<<from, "open">> : from \in {"rejected", "resolved"}}

\* errors_response: the operator loads a page of the queue and sees a row.
BrowseErrors(o, d, e) ==
    /\ review[o].step = "idle"
    /\ book[d][e].status # NoRow
    /\ review' = [review EXCEPT ![o] =
            [step |-> "error", d |-> d, e |-> e, seen |-> book[d][e]]]
    /\ UNCHANGED <<data, manifest, book, revision, page, seed, publisher,
                   reader, cache>>

\* Mutant: the row's version is not part of the UPDATE's condition.
StatusOnly(row, seen) == row.status = seen.status

\* The WHERE of the Error Book UPDATE: status=?5 AND review_version=?6.
StillSeen(row, seen) == row = seen

\* review_error_response: one conditional UPDATE, then the audit event.
ReviewError(o, to) ==
    LET q == review[o]
        row == book[q.d][q.e]
        b2 == [book EXCEPT ![q.d][q.e] =
                    [status |-> to, version |-> row.version + 1]]
    IN
    /\ q.step = "error"
    /\ <<q.seen.status, to>> \in Transitions
    /\ row.version < MaxReview
    /\ IF StillSeen(row, q.seen)
       THEN /\ book' = b2
            /\ manifest' = AfterErrorUpdate(manifest, data, b2, q.d,
                                            row.status, to)
            /\ review' = [review EXCEPT ![o] = Ended("audited")]
       ELSE /\ review' = [review EXCEPT ![o] = Ended("audited_conflict")]
            /\ UNCHANGED <<book, manifest>>
    /\ UNCHANGED <<data, revision, page, seed, publisher, reader, cache>>

\* manifests_response.
BrowseManifests(o, d) ==
    /\ review[o].step = "idle"
    /\ manifest[d].status \in {"candidate", "validated"}
    /\ review' = [review EXCEPT ![o] =
            [step |-> "manifest", d |-> d, seen |-> manifest[d].version]]
    /\ UNCHANGED <<data, manifest, book, revision, page, seed, publisher,
                   reader, cache>>

\* manifest_review_select: every row the manifest counts is there, reviewed
\* and of exact or measured quality, and no error is unresolved.
ReadyForValidation(d) ==
    /\ manifest[d].status = "candidate"
    /\ data[d].verified
    /\ page[d] # 0
    /\ OpenErrors(book, d) = {}
    /\ data[d].quality = "exact"
    /\ revision[d][page[d]].claims = "valid"

\* validate_manifest_response, first the load with its early answers, then
\* the conditional UPDATE, which repeats every condition and whose triggers
\* may publish in the same statement.
ValidateManifest(o) ==
    LET q == review[o]
        current == manifest[q.d].version = q.seen
        ok == q.step = "validate" /\ current /\ ReadyForValidation(q.d)
        m2 == [manifest EXCEPT ![q.d] =
                    [status |-> "validated", version |-> q.seen + 1]]
    IN
    /\ q.step \in {"manifest", "validate"}
    /\ manifest' = IF ok THEN Publish(m2, data, book, q.d) ELSE manifest
    /\ review' = [review EXCEPT ![o] =
            IF ok THEN Ended("audited")
            ELSE IF q.step = "validate" THEN Ended("audited_conflict")
            ELSE IF ~current \/ manifest[q.d].status # "candidate"
            THEN Ended("conflict")
            ELSE IF ~ReadyForValidation(q.d) THEN Ended("audited_blocked")
            ELSE [q EXCEPT !.step = "validate"]]
    /\ UNCHANGED <<data, book, revision, page, seed, publisher, reader, cache>>

\* wiki_revisions_response: the default queue holds the drafts.
BrowseRevisions(o, d, r) ==
    /\ review[o].step = "idle"
    /\ revision[d][r].status = "draft"
    /\ review' = [review EXCEPT ![o] =
            [step |-> "revision", d |-> d, r |-> r,
             seen |-> revision[d][r].version]]
    /\ UNCHANGED <<data, manifest, book, revision, page, seed, publisher,
                   reader, cache>>

\* load_wiki_revision_gate and the early answers of the review.
GateRevision(o, decision) ==
    LET q == review[o]
        row == revision[q.d][q.r]
    IN
    /\ q.step = "revision"
    /\ decision \in {"approve", "reject"}
    /\ review' = [review EXCEPT ![o] =
            IF row.status # "draft" \/ row.version # q.seen
            THEN Ended("conflict")
            ELSE IF decision = "approve" /\ row.claims # "valid"
            THEN Ended("audited_blocked")
            ELSE [q EXCEPT !.step = decision]]
    /\ UNCHANGED <<data, manifest, book, revision, page, seed, publisher,
                   reader, cache>>

\* The first two statements of the approval batch.
Approved(d, r, version) ==
    [x \in DOMAIN revision[d] |->
        IF x = r THEN [revision[d][x] EXCEPT !.status = "reviewed",
                                             !.version = version]
        ELSE IF revision[d][x].status = "reviewed"
        THEN [revision[d][x] EXCEPT !.status = "superseded", !.version = @ + 1]
        ELSE revision[d][x]]

\* The WHERE of the revision UPDATE.
StillDraft(row, seen) == row.status = "draft" /\ row.version = seen

\* review_wiki_revision_response: the batch of an approval (revision,
\* superseded ones, claims, page) or the one UPDATE of a rejection.
DecideRevision(o) ==
    LET q == review[o]
        row == revision[q.d][q.r]
        current == StillDraft(row, q.seen)
    IN
    /\ q.step \in {"approve", "reject"}
    /\ \/ /\ ~current
          /\ review' = [review EXCEPT ![o] = Ended("audited_conflict")]
          /\ UNCHANGED <<revision, page>>
       \/ /\ current /\ q.step = "reject"
          /\ revision' = [revision EXCEPT ![q.d][q.r].status = "rejected",
                                          ![q.d][q.r].version = @ + 1]
          /\ review' = [review EXCEPT ![o] = Ended("audited")]
          /\ UNCHANGED page
       \/ /\ current /\ q.step = "approve"
          /\ revision' = [revision EXCEPT ![q.d] =
                              Approved(q.d, q.r, q.seen + 1)]
          /\ page' = [page EXCEPT ![q.d] = q.r]
          /\ review' = [review EXCEPT ![o] = Ended("audited")]
    /\ UNCHANGED <<data, manifest, book, seed, publisher, reader, cache>>

----------------------------------------------------------------------------
(* Anonymous readers                                                       *)

Retrievable(d) ==
    data[d].verified /\ data[d].active /\ manifest[d].status = "published"

\* active_dataset_version: a public projection is preferred.
Preferred(d) ==
    /\ Retrievable(d)
    /\ d \in Full => \A x \in Public : ~Retrievable(x)

IdleReader == [step |-> "idle"]

\* wiki_search_response and related_response: the first statement picks the
\* dataset ...
PickDataset(n, d) ==
    /\ reader[n].step = "idle"
    /\ Preferred(d)
    /\ reader' = [reader EXCEPT ![n] = [step |-> "picked", d |-> d]]
    /\ UNCHANGED <<data, manifest, book, revision, page, seed, publisher,
                   review, cache>>

\* ... and the next ones read the dataset's rows.
SearchPages(n) ==
    /\ reader[n].step = "picked"
    /\ reader' = [reader EXCEPT ![n] =
            [step |-> "served", d |-> reader[n].d, page |-> page[reader[n].d]]]
    /\ UNCHANGED <<data, manifest, book, revision, page, seed, publisher,
                   review, cache>>

\* retrieve_for_assistant: the projection names the dataset, active or not,
\* and dataset_is_published decides whether it is searched at all.
AskAssistant(n, d) ==
    /\ reader[n].step = "idle"
    /\ reader' = [reader EXCEPT ![n] =
            IF manifest[d].status = "published" THEN [step |-> "asked", d |-> d]
            ELSE IdleReader]
    /\ UNCHANGED <<data, manifest, book, revision, page, seed, publisher,
                   review, cache>>

\* The wiki, graph and document queries that follow, and the evidence they
\* add up to.
GatherEvidence(n) ==
    /\ reader[n].step = "asked"
    /\ reader' = [reader EXCEPT ![n] =
            [step |-> "served", d |-> reader[n].d, page |-> page[reader[n].d]]]
    /\ UNCHANGED <<data, manifest, book, revision, page, seed, publisher,
                   review, cache>>

\* wiki_read_response on a cache miss: the page of the preferred dataset ...
ReadPage(n, d) ==
    /\ reader[n].step = "idle" /\ cache = <<>>
    /\ Preferred(d)
    /\ reader' = [reader EXCEPT ![n] =
            [step |-> "linking", d |-> d, page |-> page[d]]]
    /\ UNCHANGED <<data, manifest, book, revision, page, seed, publisher,
                   review, cache>>

\* ... then load_wiki_links from the dataset that is preferred by then, or
\* 503 when none is; main puts the answer in the edge cache.
LoadLinks(n) ==
    LET q == reader[n] IN
    /\ q.step = "linking"
    /\ IF \E d \in Datasets : Preferred(d)
       THEN /\ reader' = [reader EXCEPT ![n].step = "served"]
            /\ cache' = <<[d |-> q.d, page |-> q.page]>>
       ELSE /\ reader' = [reader EXCEPT ![n] = IdleReader]
            /\ UNCHANGED cache
    /\ UNCHANGED <<data, manifest, book, revision, page, seed, publisher,
                   review>>

\* main on a cache hit.
ReadCached(n) ==
    /\ reader[n].step = "idle" /\ cache # <<>>
    /\ reader' = [reader EXCEPT ![n] =
            [step |-> "served", d |-> cache[1].d, page |-> cache[1].page]]
    /\ UNCHANGED <<data, manifest, book, revision, page, seed, publisher,
                   review, cache>>

\* The answer is delivered.
EndRead(n) ==
    /\ reader[n].step = "served"
    /\ reader' = [reader EXCEPT ![n] = IdleReader]
    /\ UNCHANGED <<data, manifest, book, revision, page, seed, publisher,
                   review, cache>>

\* s-maxage passes.
ExpireCache ==
    /\ cache # <<>>
    /\ cache' = <<>>
    /\ UNCHANGED <<data, manifest, book, revision, page, seed, publisher,
                   review, reader>>

----------------------------------------------------------------------------
KPInit ==
    /\ data = [d \in Datasets |->
            [quality |-> NoRow, verified |-> FALSE, active |-> FALSE]]
    /\ manifest = [d \in Datasets |-> [status |-> NoRow, version |-> 0]]
    /\ book = [d \in Datasets |->
            [e \in Errors |-> [status |-> NoRow, version |-> 0]]]
    /\ revision = [d \in Datasets |-> [r \in {1} \cup Drafts |->
            [status |-> NoRow, version |-> 0, claims |-> "valid"]]]
    /\ page = [d \in Datasets |-> 0]
    /\ seed = [d \in Public |-> {}]
    /\ publisher = [p \in Publishers |-> IdlePublisher]
    /\ review = [o \in Operators |-> IdleReview]
    /\ reader = [n \in Readers |-> IdleReader]
    /\ cache = <<>>

KPNext ==
    \/ \E d \in Full, q \in Qualities, E \in GapSets :
            SeedFull(d, q, E)
    \/ \E d \in Full : ActivateFull(d)
    \/ \E p \in Publishers, d \in Public, k \in SeedFiles \cup {0} :
            PlanSeed(p, d, k)
    \/ \E p \in Publishers : ApplyFile(p) \/ Promote(p) \/ PublisherFails(p)
    \/ \E d \in Datasets, e \in Errors : ReportError(d, e)
    \/ \E d \in Datasets, r \in Drafts, c \in {"valid", "invalid"} :
            DraftRevision(d, r, c)
    \/ \E o \in Operators :
            \/ \E d \in Datasets, e \in Errors : BrowseErrors(o, d, e)
            \/ \E to \in BookStatus : ReviewError(o, to)
            \/ \E d \in Datasets : BrowseManifests(o, d)
            \/ ValidateManifest(o)
            \/ \E d \in Datasets, r \in Drafts : BrowseRevisions(o, d, r)
            \/ \E c \in {"approve", "reject"} : GateRevision(o, c)
            \/ DecideRevision(o)
    \/ \E n \in Readers :
            \/ \E d \in Datasets :
                    PickDataset(n, d) \/ ReadPage(n, d) \/ AskAssistant(n, d)
            \/ SearchPages(n) \/ GatherEvidence(n) \/ LoadLinks(n) \/ ReadCached(n) \/ EndRead(n)
    \/ ExpireCache

KPSpec == KPInit /\ [][KPNext]_kpVars

----------------------------------------------------------------------------
(* Properties                                                              *)

\* The publication gate: a published manifest belongs to a verified dataset
\* whose content rows are all there and whose Error Book has no open or
\* accepted entry, whichever of the triggers moved it there and however
\* reviews, seeds and promotions interleave.
PublishedIsClean ==
    \A d \in Datasets : manifest[d].status = "published" =>
        /\ data[d].verified
        /\ OpenErrors(book, d) = {}
        /\ page[d] # 0

\* A demoted manifest always has an unresolved error to blame: resolving the
\* last one re-validates it in the same statement, so a verified dataset is
\* never left unpublished with nothing for the operator to resolve.
CandidateHasError ==
    \A d \in Datasets :
        manifest[d].status = "candidate" /\ data[d].verified =>
            OpenErrors(book, d) # {}

\* However many publishers run the script, the checkpoints of a dataset are
\* a prefix of its files, and it is active only when every file is in.
SeedIsPrefix ==
    \A d \in Public :
        /\ seed[d] = 1..Cardinality(seed[d])
        /\ data[d].active => seed[d] = SeedFiles

\* An active public dataset has had its manifest validated: promotion never
\* activates one that an error has demoted between the plan and the SQL.
\* (Once active, an error may demote the manifest again.)
ActivatedWasValidated ==
  \A d \in Public :
   ~data[d].active /\ data'[d].active =>
       manifest'[d].status = "published"

\* Concurrent approvals leave exactly one reviewed revision of a page, and
\* the public page shows that revision.
PageShowsReviewed ==
    \A d \in Datasets : page[d] # 0 =>
        {r \in DOMAIN revision[d] : revision[d][r].status = "reviewed"}
            = {page[d]}

\* A review changes an Error Book entry only from the very row the operator
\* saw: no decision of another operator in between is overwritten.
ReviewsAreCurrent ==
  \A d \in Datasets, e \in Errors :
   book'[d][e].version > book[d][e].version =>
       \E o \in Operators :
           /\ review[o].step = "error"
           /\ review[o].d = d /\ review[o].e = e
           /\ review[o].seen = book[d][e]

\* Whatever an anonymous reader or the assistant is given, over any number of
\* statements during which the page is revised and the manifest demoted, and
\* through the cache, is a revision that an operator or the compiler reviewed: never a draft
\* and never a rejected one.
ServedWasReviewed ==
    \A n \in Readers : reader[n].step = "served" =>
        /\ data[reader[n].d].verified
        /\ reader[n].page # 0
        /\ revision[reader[n].d][reader[n].page].status
                \in {"reviewed", "superseded"}

\* What is published is clean, a page shows its reviewed revision, and what is
\* served was reviewed; seeds are applied in order.
KnowledgeIsReviewed ==
    PublishedIsClean /\ CandidateHasError /\ SeedIsPrefix /\ PageShowsReviewed /\ ServedWasReviewed

----------------------------------------------------------------------------
(* The inductive invariant of KnowledgeIsReviewed                          *)

Revisions == {1} \cup Drafts
Versioned(S) == [status : S, version : Nat]

DatabaseTypeOK ==
    /\ data \in [Datasets -> [quality : Qualities \cup {NoRow}, verified : BOOLEAN,
                              active : BOOLEAN]]
    /\ manifest \in [Datasets -> Versioned({NoRow, "candidate", "validated", "published"})]
    /\ book \in [Datasets -> [Errors -> Versioned(BookStatus \cup {NoRow})]]
    /\ revision \in [Datasets -> [Revisions ->
            [status : {NoRow, "draft", "reviewed", "superseded", "rejected"},
             version : Nat, claims : {"valid", "invalid"}]]]
    /\ page \in [Datasets -> {0} \cup Revisions]
    /\ seed \in [Public -> SUBSET SeedFiles]

RequestsTypeOK ==
    /\ publisher \in [Publishers ->
            [step : {"idle"}]
            \cup [step : {"apply"}, d : Public, next : SeedFiles, last : SeedFiles]
            \cup [step : {"promote"}, d : Public]]
    /\ review \in [Operators ->
            [step : {"idle"}, outcome : {"none", "audited", "audited_conflict",
                                        "audited_blocked", "conflict"}]
            \cup [step : {"error"}, d : Datasets, e : Errors, seen : Versioned(BookStatus)]
            \cup [step : {"manifest", "validate"}, d : Datasets, seen : Nat]
            \cup [step : {"revision", "approve", "reject"}, d : Datasets, r : Drafts,
                  seen : Nat]]
    /\ reader \in [Readers ->
            [step : {"idle"}]
            \cup [step : {"picked", "asked"}, d : Datasets]
            \cup [step : {"linking", "served"}, d : Datasets, page : {0} \cup Revisions]]
    /\ cache = <<>> \/ \E c \in [d : Datasets, page : {0} \cup Revisions] : cache = <<c>>

\* The files of a seed are applied one after the other, and a publisher applies
\* none whose predecessor is missing.
FilesInOrder ==
    /\ \A d \in Public : \A k \in seed[d] : 1..k \subseteq seed[d]
    /\ \A p \in Publishers :
        /\ publisher[p].step = "apply" =>
             /\ publisher[p].next <= publisher[p].last
             /\ publisher[p].next > 1 => publisher[p].next - 1 \in seed[publisher[p].d]
        /\ publisher[p].step = "promote" => 4 \in seed[publisher[p].d]

\* Which rows a dataset has, by the files that were loaded.
RowsAreLoaded ==
    /\ \A d \in Public :
        /\ data[d].quality # NoRow <=> 1 \in seed[d]
        /\ page[d] # 0 <=> 2 \in seed[d]
        /\ manifest[d].status # NoRow <=> 3 \in seed[d]
        /\ data[d].verified => 4 \in seed[d]
    /\ \A d \in Full :
        /\ page[d] # 0 <=> data[d].quality # NoRow
        /\ manifest[d].status # NoRow <=> data[d].quality # NoRow
        /\ data[d].verified => data[d].quality # NoRow
    /\ \A d \in Datasets :
        /\ data[d].active => data[d].verified
        /\ page[d] = 0 => \A r \in Revisions : revision[d][r].status = NoRow

\* A candidate whose seed is complete has an unresolved error.
CandidateIsBlamed ==
    \A d \in Datasets :
        /\ manifest[d].status = "candidate"
        /\ d \in Public => 4 \in seed[d]
        => OpenErrors(book, d) # {}

PublishedHasNoError ==
    \A d \in Datasets : manifest[d].status = "published" =>
        data[d].verified /\ OpenErrors(book, d) = {}

\* What a request or the cache carries.
WasReviewed(d, r) ==
    /\ data[d].verified /\ r # 0
    /\ revision[d][r].status \in {"reviewed", "superseded"}

ReadersAreServed ==
    /\ \A n \in Readers :
        /\ reader[n].step # "idle" => data[reader[n].d].verified
        /\ reader[n].step \in {"linking", "served"} => WasReviewed(reader[n].d, reader[n].page)
    /\ cache # <<>> => WasReviewed(cache[1].d, cache[1].page)

KPInv ==
    /\ DatabaseTypeOK /\ RequestsTypeOK
    /\ FilesInOrder /\ RowsAreLoaded /\ CandidateIsBlamed /\ PublishedHasNoError
    /\ PageShowsReviewed /\ ReadersAreServed

\* A dataset has one scope, and drafts are numbered after the compiled revision.
ScopesAssumption == Public \cap Full = {} /\ Drafts \subseteq Nat \ {0, 1}

=============================================================================
