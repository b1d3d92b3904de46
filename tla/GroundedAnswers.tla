-------------------------- MODULE GroundedAnswers --------------------------
(***************************************************************************)
(* Questions grounded in evidence rows:                                    *)
(* crates/pal-companion-service/src/assistant.rs.                          *)
(*                                                                         *)
(* A row has an identifier, a title and a detail (their lengths), a        *)
(* quality and its sources.  Qualities are numbers: Unknown 0, Model 1,    *)
(* Measured 2, Exact 3.                                                    *)
(***************************************************************************)
EXTENDS Naturals, Sequences, FiniteSets

Sorting == INSTANCE SequencesExt

CONSTANTS
  MaxEvidenceRows,   \* MAX_EVIDENCE_ROWS
  MaxTitle,          \* the bytes a title may have
  MaxDetail          \* MAX_EVIDENCE_TEXT_BYTES

Unknown == 0
Exact == 3

Row(id, title, detail, quality, sources) ==
  [id |-> id, title |-> title, detail |-> detail, quality |-> quality, sources |-> sources]

Ids(evidence) == {evidence[i].id : i \in DOMAIN evidence}

\* GroundedAssistantRequest::validate
ValidRequest(request) ==
  /\ request.question > 0
  /\ Len(request.evidence) <= MaxEvidenceRows
  /\ \A i \in DOMAIN request.evidence :
       /\ request.evidence[i].title \in 1..MaxTitle
       /\ request.evidence[i].detail \in 1..MaxDetail

\* fallback: every row, cited by its identifier.
Fallback(request) == Ids(request.evidence)

\* weakest_quality
Weakest(evidence) ==
  IF evidence = {} THEN Unknown
                   ELSE CHOOSE q \in {e.quality : e \in evidence} : \A e \in evidence : q <= e.quality

\* flattened_source_ids
Sources(evidence) == UNION {{e.id} \cup e.sources : e \in evidence}

\* The rows of a context: its edges, then its seeds, then its other nodes.
EdgeRow(edge, label) ==
  Row(<<"kg-edge", edge.id>>, label[edge.from] + label[edge.to] + 1, 1,
      Weakest(edge.evidence), Sources(edge.evidence))
NodeRow(node) ==
  Row(<<"kg-node", node.id>>, node.label, 1, Weakest(node.evidence), Sources(node.evidence))

\* The elements of S in the order of their identifiers.
ById(S) == Sorting!SetToSortSeq(S, LAMBDA x, y : x.id < y.id)

ContextRows(pack) ==
  LET label == [n \in {x.id : x \in pack.nodes} |-> (CHOOSE x \in pack.nodes : x.id = n).label]
      edges == ById(pack.edges)
      seeds == ById({n \in pack.nodes : n.id \in pack.seeds})
      others == ById({n \in pack.nodes : n.id \notin pack.seeds})
  IN [i \in DOMAIN edges |-> EdgeRow(edges[i], label)]
     \o [i \in DOMAIN seeds |-> NodeRow(seeds[i])]
     \o [i \in DOMAIN others |-> NodeRow(others[i])]

RowBudget(request, maxRows) ==
  LET remaining == MaxEvidenceRows - Len(request.evidence)
  IN IF maxRows <= remaining THEN maxRows ELSE remaining

NewRows(request, pack) ==
  SelectSeq(ContextRows(pack), LAMBDA r : r.id \notin Ids(request.evidence))

\* attach_knowledge_context
Attached(request, pack, maxRows) ==
  LET rows == NewRows(request, pack)
      budget == RowBudget(request, maxRows)
  IN [request EXCEPT !.evidence =
        @ \o SubSeq(rows, 1, IF Len(rows) < budget THEN Len(rows) ELSE budget)]

-----------------------------------------------------------------------------
(***************************************************************************)
(* The knowledge graph: crates/pal-knowledge-graph/src/lib.rs, and what    *)
(* the assistant takes from it (GroundedRequest).                          *)
(*                                                                         *)
(* A graph is built from rows that are validated first.  A query walks it  *)
(* from its seeds, hop by hop, under a bound on the nodes; the nodes and   *)
(* the edges between them are a context pack, which is attached to a       *)
(* question.  A wiki page is validated against the graph's evidence.       *)
(*                                                                         *)
(* Identifiers are numbers, so that their order is that of the code; a     *)
(* label is its length.                                                    *)
(***************************************************************************)

CONSTANTS
  GraphInputs,  \* the rows a graph is built from: [nodes, edges], sequences
  Queries,      \* [seeds, hops, nodes, direction, relations]
  Pages,        \* wiki pages: [build, claims, related]
  AttachBudgets,\* values of max_rows
  Build,        \* the graph's own game build
  MaxHops, MaxQueryNodes,
  MaxAttaches   \* contexts attached to one question

VARIABLES
  graph,    \* the graph, or why it was not built
  walk,     \* KnowledgeGraph::expand, between two neighbours
  pack,     \* the KnowledgeContextPack
  request,  \* the GroundedAssistantRequest it is attached to
  page,     \* the page validated last, and the answer
  attaches  \* the contexts attached so far

graphVars == <<graph, walk, pack, request, page, attaches>>

RangeOf(s) == {s[i] : i \in DOMAIN s}
NoWalk == [on |-> FALSE]
NoPack == [is |-> "none"]
NoPage == [is |-> "none"]

-----------------------------------------------------------------------------
(* Building.                                                               *)

\* validate_node, validate_edge: every row has evidence and the graph's build.
ValidEntity(x) == x.evidence # {} /\ x.build = Build
UniqueIds(s) == \A i, j \in DOMAIN s : i # j => s[i].id # s[j].id

Buildable(g) ==
  /\ \A i \in DOMAIN g.nodes : ValidEntity(g.nodes[i])
  /\ UniqueIds(g.nodes)
  /\ \A i \in DOMAIN g.edges :
       /\ ValidEntity(g.edges[i])
       /\ {g.edges[i].from, g.edges[i].to} \subseteq {n.id : n \in RangeOf(g.nodes)}
  /\ UniqueIds(g.edges)

GraphInit ==
  /\ \E g \in GraphInputs :
       graph = IF Buildable(g)
                 THEN [is |-> "built", nodes |-> RangeOf(g.nodes), edges |-> RangeOf(g.edges)]
                 ELSE [is |-> "refused"]
  /\ walk = NoWalk /\ pack = NoPack /\ page = NoPage
  /\ request = [question |-> 1, evidence |-> <<>>]
  /\ attaches = 0

NodeIds == {n.id : n \in graph.nodes}

-----------------------------------------------------------------------------
(* Expanding.                                                              *)

\* relation_allowed
RelationAllowed(edge, q) == q.relations = {} \/ edge.relation \in q.relations

\* neighbor_candidates, with the node they are of: pairs in order.
Candidates(n, q) ==
  {<<n, e.id, e.to>> : e \in {x \in graph.edges :
     x.from = n /\ RelationAllowed(x, q) /\ q.direction \in {"Outgoing", "Both"}}}
  \cup
  {<<n, e.id, e.from>> : e \in {x \in graph.edges :
     x.to = n /\ RelationAllowed(x, q) /\ q.direction \in {"Incoming", "Both"}}}

FrontierCandidates(frontier, q) == UNION {Candidates(n, q) : n \in frontier}

Earlier(x, y) ==
  \/ x[1] < y[1]
  \/ x[1] = y[1] /\ x[2] < y[2]
  \/ x[1] = y[1] /\ x[2] = y[2] /\ x[3] <= y[3]

\* validate_query
ValidQuery(q) ==
  /\ q.seeds # {} /\ q.hops <= MaxHops
  /\ q.nodes >= Cardinality(q.seeds) /\ q.nodes <= MaxQueryNodes

StartExpand ==
  /\ graph.is = "built" /\ ~walk.on /\ attaches < MaxAttaches
  /\ \E q \in Queries :
       /\ ValidQuery(q) /\ q.seeds \subseteq NodeIds
       /\ walk' = [on |-> TRUE, query |-> q, visited |-> q.seeds, hop |-> 0,
                   todo |-> IF q.hops = 0 THEN {} ELSE FrontierCandidates(q.seeds, q),
                   next |-> {}, complete |-> TRUE]
  /\ pack' = NoPack
  /\ UNCHANGED <<graph, request, page, attaches>>

Seen(n) == n \in walk.visited

\* One neighbour of the walk: skipped, over the budget, or visited.
VisitNeighbour ==
  /\ walk.on
  /\ \E c \in walk.todo :
       /\ \A d \in walk.todo : Earlier(c, d)
       /\ walk' =
            IF Seen(c[3]) THEN [walk EXCEPT !.todo = @ \ {c}]
            ELSE IF Cardinality(walk.visited) >= walk.query.nodes
              THEN [walk EXCEPT !.todo = {}, !.next = {}, !.complete = FALSE]
              ELSE [walk EXCEPT !.todo = @ \ {c}, !.visited = @ \cup {c[3]},
                                !.next = @ \cup {c[3]}]
  /\ UNCHANGED <<graph, pack, request, page, attaches>>

HopsLeft == walk.hop + 1 < walk.query.hops

NextHop ==
  /\ walk.on /\ walk.todo = {} /\ walk.next # {} /\ HopsLeft
  /\ walk' = [walk EXCEPT !.hop = @ + 1, !.next = {},
                          !.todo = FrontierCandidates(walk.next, walk.query)]
  /\ UNCHANGED <<graph, pack, request, page, attaches>>

FinishExpand ==
  /\ walk.on /\ walk.todo = {} /\ (walk.next = {} \/ ~HopsLeft)
  /\ pack' = [is |-> "pack", seeds |-> walk.query.seeds, query |-> walk.query,
              nodes |-> {n \in graph.nodes : n.id \in walk.visited},
              edges |-> {e \in graph.edges : /\ {e.from, e.to} \subseteq walk.visited
                                             /\ RelationAllowed(e, walk.query)},
              complete |-> walk.complete]
  /\ walk' = NoWalk
  /\ UNCHANGED <<graph, request, page, attaches>>

\* attach_knowledge_context with the pack of the last query.
Attach ==
  /\ pack.is = "pack" /\ attaches < MaxAttaches
  /\ \E budget \in AttachBudgets :
       request' = Attached(request, pack, budget)
  /\ attaches' = attaches + 1
  /\ UNCHANGED <<graph, walk, pack, page>>

-----------------------------------------------------------------------------
(* Wiki pages.                                                             *)

AllEvidence == UNION {x.evidence : x \in graph.nodes \cup graph.edges}
\* Rows of one evidence may differ in quality.
RowsOf(ref) == {e \in AllEvidence : e.id = ref}

EvidenceQuality(ref) == Weakest(RowsOf(ref))

\* validate_wiki_page
PageIsValid(p) ==
  /\ p.build = Build
  /\ p.related \cup UNION {c.related : c \in p.claims} \subseteq NodeIds
  /\ \A c \in p.claims :
       /\ c.refs # {} /\ \A ref \in c.refs : RowsOf(ref) # {}
       /\ \A ref \in c.refs : c.quality <= EvidenceQuality(ref)

ValidatePage ==
  /\ graph.is = "built" /\ ~walk.on /\ page = NoPage
  /\ \E p \in Pages :
       page' = [is |-> IF PageIsValid(p) THEN "valid" ELSE "refused", page |-> p]
  /\ UNCHANGED <<graph, walk, pack, request, attaches>>

GraphNext == StartExpand \/ VisitNeighbour \/ NextHop \/ FinishExpand \/ Attach \/ ValidatePage

GraphSpec == GraphInit /\ [][GraphNext]_graphVars

-----------------------------------------------------------------------------
(* Properties *)

\* The reference: the nodes within n hops of S.
Ball[n \in Nat, S \in SUBSET NodeIds] ==
  IF n = 0 THEN S
  ELSE LET b == Ball[n - 1, S]
       IN b \cup {c[3] : c \in FrontierCandidates(b, pack.query)}

\* A context is the whole neighbourhood of its seeds, or it says that it is
\* not: complete_within_budget holds exactly when the neighbourhood fits, and
\* an incomplete context is full and has left out the farthest: when a node
\* of some distance is in it, every nearer node is (expand).
ContextIsNeighbourhood ==
  pack.is = "pack" =>
    LET ball == Ball[pack.query.hops, pack.seeds]
        ids == {n.id : n \in pack.nodes}
    IN /\ ids \subseteq ball
       /\ pack.complete <=> Cardinality(ball) <= pack.query.nodes
       /\ pack.complete => ids = ball
       /\ ~pack.complete => Cardinality(ids) = pack.query.nodes
       /\ \A h \in 1..pack.query.hops :
            ~(ids \subseteq Ball[h - 1, pack.seeds]) => Ball[h - 1, pack.seeds] \subseteq ids

\* The walk reaches only nodes the graph has: the index of a neighbour is
\* taken without a test (neighbor_candidates: node_indices[node_id]), and it
\* is the construction that answers for it (build, MissingEndpoint).
WalkStaysInGraph == walk.on => walk.visited \subseteq NodeIds

\* Contexts attached one after another never make the rows too many or two of
\* them the same (attach_knowledge_context: existing, row_budget).
EvidenceIsBounded ==
  /\ Len(request.evidence) <= MaxEvidenceRows
  /\ \A i, j \in DOMAIN request.evidence :
       i # j => request.evidence[i].id # request.evidence[j].id

\* "Edge facts are attached before standalone nodes": an attachment that adds
\* a node has left out no edge.
EdgesBeforeNodes ==
  Attach =>
    LET new == {request'.evidence[i].id : i \in (Len(request.evidence) + 1)..Len(request'.evidence)}
    IN (\E n \in pack.nodes : <<"kg-node", n.id>> \in new)
         => \A e \in pack.edges : <<"kg-edge", e.id>> \in Ids(request'.evidence)

\* No claim of an accepted page is stronger than any row of the evidence it
\* cites, also where the graph has several rows of one evidence
\* (validate_wiki_page).
ClaimsAreSupported ==
  page.is = "valid" =>
    \A c \in page.page.claims : \A ref \in c.refs : \A e \in RowsOf(ref) : c.quality <= e.quality

-----------------------------------------------------------------------------
(***************************************************************************)
(* The local coach: crates/pal-evidence-worker/src/main.rs.                *)
(*                                                                         *)
(* build_response selects catalogue records and owned Pals for a question, *)
(* turns them into evidence rows, and writes a deterministic answer that   *)
(* cites the rows by their positions.  The text of an answer is abstracted *)
(* to its lines: the evidence each one cites and the species or the number *)
(* it names.                                                               *)
(***************************************************************************)

CONSTANTS
  Catalogs,       \* sets of records [species, sprint, stamina, words]; sprint 0: none
  OwnedSets,      \* sets of Pals [inst, species, level, passives, words]
  Questions,      \* [kind, words]
  MaxSelectedCatalog, MaxSelectedOwned,
  MaxListed,      \* owned Pals listed in an answer (10)
  MaxCompared     \* mounts and records listed in an answer (5)

VARIABLES
  asked,      \* the EvidenceRequest
  response    \* the EvidenceResponse

answerVars == <<asked, response>>

Take(s, n) == SubSeq(s, 1, IF Len(s) < n THEN Len(s) ELSE n)
MaxOf(S) == CHOOSE x \in S : \A y \in S : x >= y

-----------------------------------------------------------------------------
(* Selection.                                                              *)

IsMountQuestion(q) == q.kind = "mount"
IsOwnedQuestion(q) == q.kind \in {"owned", "passive"}
OwnedContext(q) == IsMountQuestion(q) \/ IsOwnedQuestion(q)
OwnedSpecies(owned) == {p.species : p \in owned}

\* catalog_priority: ownership, a known sprint, matching words, the sprint.
Priority(r, owned, q) ==
  LET has == r.species \in OwnedSpecies(owned)
      mount == IsMountQuestion(q)
  IN (IF has /\ OwnedContext(q) THEN 100000 ELSE 0)
     + (IF mount /\ r.sprint > 0 THEN 50000 ELSE 0)
     + Cardinality(r.words \cap q.words) * 10000
     + (IF mount /\ has THEN r.sprint ELSE 0)

SelectedCatalog(a) ==
  LET before(x, y) == \/ Priority(x, a.owned, a.question) > Priority(y, a.owned, a.question)
                      \/ /\ Priority(x, a.owned, a.question) = Priority(y, a.owned, a.question)
                         /\ x.species < y.species
  IN Take(Sorting!SetToSortSeq(a.catalog, before), MaxSelectedCatalog)

\* The owned Pals of a selected species or with a matching word, by level.
OwnedMatching(a) ==
  LET species == {SelectedCatalog(a)[i].species : i \in DOMAIN SelectedCatalog(a)}
  IN {p \in a.owned : p.species \in species \/ p.words \cap a.question.words # {}}

RelevantOwned(a) ==
  LET before(x, y) == \/ x.level > y.level
                      \/ x.level = y.level /\ x.species < y.species
                      \/ x.level = y.level /\ x.species = y.species /\ x.inst < y.inst
  IN Take(Sorting!SetToSortSeq(OwnedMatching(a), before), MaxSelectedOwned)

-----------------------------------------------------------------------------
(* Evidence rows.  The first of the owned ones, 0, is the summary.         *)

Summary == <<"owned", 0>>
CatalogId(i) == <<"catalog", i>>
OwnedId(i) == <<"owned", i>>
Warning == <<"warning", 0>>

Evidence(a) ==
  (IF a.owned # {} THEN <<Row(Summary, 1, 1, Exact, {})>> ELSE <<>>)
  \o [i \in DOMAIN SelectedCatalog(a) |-> Row(CatalogId(i), 1, 1, Unknown, {})]
  \o [i \in DOMAIN RelevantOwned(a) |-> Row(OwnedId(i), 1, 1, Exact, {})]
  \o (IF a.catalog # {} THEN <<Row(Warning, 1, 1, Unknown, {})>> ELSE <<>>)

-----------------------------------------------------------------------------
(* Answers, as lines [cites, about, number].                               *)

Line(cites, about, number) == [cites |-> cites, about |-> about, number |-> number]

\* passive_mount_modifiers
SpeedBonus(p) ==
  (IF "MoveSpeed_up_3" \in p.passives THEN 30 ELSE 0) + (IF "Legend" \in p.passives THEN 20 ELSE 0)
StaminaBonus(p) == IF "Stamina_Up_3" \in p.passives THEN 75 ELSE 0
\* apply_percent_bonus
WithBonus(base, percent) == (base * (100 + percent)) \div 100

\* The best owned Pal of record i of the selection: sprint, then stamina.
MountCandidates(a) ==
  LET cat == SelectedCatalog(a)
      of(r) == {p \in a.owned : p.species = r.species}
      sprint(r, p) == WithBonus(r.sprint, SpeedBonus(p))
      stamina(r, p) == WithBonus(r.stamina, StaminaBonus(p))
      best(r) == MaxOf({sprint(r, p) : p \in of(r)})
  IN {[index |-> i, species |-> cat[i].species, sprint |-> best(cat[i]),
       stamina |-> MaxOf({stamina(cat[i], p) : p \in {o \in of(cat[i]) : sprint(cat[i], o) = best(cat[i])}})] :
        i \in {j \in DOMAIN cat : cat[j].sprint > 0 /\ of(cat[j]) # {}}}

MountRanking(a) ==
  LET before(x, y) == \/ x.sprint > y.sprint
                      \/ x.sprint = y.sprint /\ x.stamina > y.stamina
                      \/ x.sprint = y.sprint /\ x.stamina = y.stamina /\ x.species < y.species
  IN Sorting!SetToSortSeq(MountCandidates(a), before)

\* mount_answer: the ranking, the fastest, and the last of the most enduring.
MountAnswer(a) ==
  LET rank == MountRanking(a)
      most == MaxOf({rank[i].stamina : i \in DOMAIN rank})
      enduring == rank[MaxOf({i \in DOMAIN rank : rank[i].stamina = most})]
  IN IF rank = <<>> THEN <<Line({Summary}, 0, Cardinality(a.owned))>>
     ELSE [i \in DOMAIN Take(rank, MaxCompared) |->
             Line({CatalogId(rank[i].index), Summary}, rank[i].species, rank[i].sprint)]
          \o <<Line({CatalogId(rank[1].index)}, rank[1].species, rank[1].sprint),
               Line({CatalogId(enduring.index)}, enduring.species, enduring.stamina)>>

\* owned_answer
OwnedAnswer(a) ==
  LET own == RelevantOwned(a)
  IN <<Line({Summary}, 0, Cardinality(a.owned))>>
     \o [i \in DOMAIN Take(own, MaxListed) |-> Line({OwnedId(i)}, own[i].species, own[i].level)]
     \o (IF Len(own) > MaxListed THEN <<Line({}, 0, Len(own))>> ELSE <<>>)

\* catalog_answer
CatalogAnswer(a) ==
  LET cat == SelectedCatalog(a)
  IN [i \in DOMAIN Take(cat, MaxCompared) |-> Line({CatalogId(i)}, cat[i].species, cat[i].sprint)]
     \o (IF RelevantOwned(a) # <<>> THEN <<Line({Summary}, 0, Len(RelevantOwned(a)))>> ELSE <<>>)

\* deterministic_answer, or the fallback's list of the rows.
Answer(a) ==
  IF IsMountQuestion(a.question) THEN MountAnswer(a)
  ELSE IF IsOwnedQuestion(a.question) THEN OwnedAnswer(a)
  ELSE IF SelectedCatalog(a) # <<>> THEN CatalogAnswer(a)
  ELSE <<Line(Fallback([evidence |-> Evidence(a)]), 0, 0)>>

AnswerInit ==
  /\ asked \in [catalog : Catalogs, owned : OwnedSets, question : Questions]
  /\ response = [is |-> "none"]

\* build_response
Respond ==
  /\ response.is = "none"
  /\ LET grounded == [question |-> 1, evidence |-> Evidence(asked)]
     IN response' = IF ValidRequest(grounded)
                      THEN [is |-> "answer", evidence |-> grounded.evidence, lines |-> Answer(asked)]
                      ELSE [is |-> "error"]
  /\ UNCHANGED asked

AnswerNext == Respond

AnswerSpec == AnswerInit /\ [][AnswerNext]_answerVars

-----------------------------------------------------------------------------
(* Properties *)

Lines == {response.lines[i] : i \in DOMAIN response.lines}

\* An answer cites only evidence it comes with ("use only facts that are in
\* the EVIDENCE", prompt; the citations of deterministic_answer).
CitationsAreEvidence ==
  response.is = "answer" => \A l \in Lines : l.cites \subseteq Ids(response.evidence)

\* A line about a species that cites a catalogue row cites the row of that
\* species, although candidates are ranked again after the rows were numbered
\* (mount_answer: catalog_index).
CitationsNameTheirRow ==
  response.is = "answer" =>
    \A l \in Lines : \A i \in DOMAIN SelectedCatalog(asked) :
      (CatalogId(i) \in l.cites /\ l.about # 0) => SelectedCatalog(asked)[i].species = l.about

\* A mount question is answered with the fastest owned mount there is, with
\* its own passives counted, as long as the owned mounts fit the selection:
\* records of other species never take their places (catalog_priority).
FastestMountIsNamed ==
  LET mounts == {r \in asked.catalog : r.sprint > 0 /\ r.species \in OwnedSpecies(asked.owned)}
      real == {WithBonus(x[1].sprint, SpeedBonus(x[2])) :
                 x \in {y \in mounts \X asked.owned : y[1].species = y[2].species}}
  IN (/\ response.is = "answer" /\ IsMountQuestion(asked.question)
      /\ mounts # {} /\ Cardinality(mounts) <= MaxSelectedCatalog)
       => response.lines[1].number = MaxOf(real)

=============================================================================
