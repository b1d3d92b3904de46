------------------------------ MODULE MCCloud ------------------------------
(***************************************************************************)
(* The cloud service and the workers behind it, one component at a time:   *)
(* the publication and review of knowledge (reviewing operators, readers   *)
(* through the cache, publishers of seed files), personal projections      *)
(* (imports and readers), the identity of requests, the compiler of the    *)
(* catalogue's seed, the catalogue search, the knowledge graph and the     *)
(* evidence it attaches, the answers built on evidence, the breeding       *)
(* planner, and the profile a projection uploads page by page. The         *)
(* components share no variable; every behaviour observes one of them.     *)
(***************************************************************************)
EXTENDS Naturals, Integers, Sequences, FiniteSets, TLC

\* The components a run observes.
CONSTANT Parts
CONSTANTS None

VARIABLE part    \* the component this behaviour observes
\* The variables of the components: one that several of them have belongs
\* to the one observed.
VARIABLES data, manifest, book, revision, seed, publisher, review, reader
VARIABLES page
VARIABLES cache
VARIABLES binding, policy, catalog, commit, importer, reviewer, asking,
    answered
VARIABLES run, rows
VARIABLES now, newest, oldest, retired
VARIABLES request
VARIABLES source, phase, report, dir
VARIABLES outcome
VARIABLES doc, worker, read, output
VARIABLES input
VARIABLES graph, walk, pack, attaches
VARIABLES asked, response
VARIABLES known, left, changed, visits, result
VARIABLES pals, bases, states, overall, edit
VARIABLES entries, section, next, current, pageIndex, pages

\* Two imports of one owner, for the build's dataset.
PersonalImport == [owner |-> "o1", build |-> "b1", dataset |-> "d1"]
PersonalImports == ("i1" :> PersonalImport) @@ ("i2" :> PersonalImport)

(* Sources of the seed compiler: a sound one, varied one part at a time.   *)
SeedBlank == [w |-> 0, up |-> 0, pad |-> FALSE, ns |-> FALSE]
SeedAbsent == [SeedBlank EXCEPT !.w = -1]
T(w) == [w |-> w, up |-> 0, pad |-> FALSE, ns |-> FALSE]
Mixed(t) == [t EXCEPT !.up = 1]
Up(t) == [t EXCEPT !.up = 2]
Pad(t) == [t EXCEPT !.pad = TRUE]
Ns(t) == [t EXCEPT !.ns = TRUE]
Spellings(w) == {[w |-> w, up |-> u, pad |-> p, ns |-> n] : u \in 0 .. 2, p, n \in BOOLEAN}

SeedName == T(9)
SeedSpecies(id, name, learned, passives) == [id |-> id, name |-> name, learned |-> learned, passives |-> passives]
SeedItem(id, name) == [id |-> id, name |-> name, ok |-> TRUE]
Recipe(id, out, ingredients, unlock) ==
  [id |-> id, out |-> out, ingredients |-> ingredients, unlock |-> unlock, ok |-> TRUE]
SeedDrop(id, pal, item) == [id |-> id, pal |-> pal, item |-> item, ok |-> TRUE]
SeedRule(p, q, child, wildcard) == [p |-> p, q |-> q, child |-> child, wildcard |-> wildcard]
Learn(skill, level) == [skill |-> skill, level |-> level]

Base ==
  [pinned |-> TRUE, approved |-> TRUE, catalog |-> "whole", active |-> Ns(T(1)) :> SeedName, passive |-> T(1) :> SeedName,
   species |-> <<SeedSpecies(T(1), SeedName, <<>>, <<>>)>>, items |-> <<SeedItem(T(1), SeedName)>>,
   recipes |-> <<>>, drops |-> <<>>, breeding |-> <<>>]

UpTo(S, n) == UNION {[1 .. m -> S] : m \in 0 .. n}
Actives == {Ns(T(1)) :> SeedName, Ns(T(1)) :> SeedBlank @@ Up(T(1)) :> SeedName, Ns(T(1)) :> SeedName @@ T(1) :> SeedName,
            Pad(T(1)) :> SeedName, [k \in {} |-> SeedBlank]}
LearnedSeqs == UpTo({Learn(t, 1) : t \in Spellings(1) \cup {T(2)}} \cup {Learn(T(1), 2)}, 2)
Learning == {[Base EXCEPT !.active = a, !.species = <<SeedSpecies(T(1), SeedAbsent, l, <<>>)>>] :
               a \in Actives, l \in LearnedSeqs}
Passives == {[Base EXCEPT !.passive = [k \in S |-> SeedBlank], !.species = <<SeedSpecies(T(1), SeedName, <<>>, p)>>] :
               S \in SUBSET {T(1), Up(T(1)), Ns(T(1))} \cup {{Pad(T(1))}}, p \in UpTo(Spellings(1) \cup {T(2)}, 2)}
SeedNames == {[Base EXCEPT !.species = <<SeedSpecies(id, n, <<>>, <<>>)>>, !.items = <<SeedItem(T(2), m), SeedItem(i, SeedName)>>] :
            id \in {T(1), Up(T(1)), Pad(T(1)), SeedBlank}, n \in Spellings(1) \cup {SeedAbsent, SeedBlank},
            m \in {SeedBlank, Pad(SeedBlank), T(2), Pad(T(2)), Up(T(2))}, i \in {T(2), Up(T(2)), Pad(T(3))}}
SeedRecipes == {[Base EXCEPT !.items = [i \in DOMAIN ids |-> SeedItem(ids[i], SeedName)], !.recipes = r] :
              ids \in {<<T(1)>>, <<T(1), Up(T(1))>>, <<T(1), T(2)>>},
              r \in UpTo({Recipe(T(1), T(1), g, u) : g \in UpTo({T(1), T(2)}, 2),
                                                      u \in {SeedAbsent, SeedBlank, T(1), Mixed(T(1)), Up(T(1)), Pad(T(1)), T(2)}}, 1)
                    \cup {<<Recipe(T(1), T(1), <<>>, SeedAbsent), Recipe(id, out, <<>>, T(3))>> :
                            id \in {T(1), T(2)}, out \in {T(1), T(3)}}}
SeedDrops == {[Base EXCEPT !.species = <<SeedSpecies(T(1), SeedName, <<>>, <<>>)>> \o more, !.drops = d] :
            more \in {<<>>, <<SeedSpecies(Up(T(1)), SeedName, <<>>, <<>>)>>},
            d \in UpTo({SeedDrop(id, pal, item) : id \in {T(1), T(2)}, pal \in {T(1), Mixed(T(1)), Pad(T(1)), T(2)},
                                              item \in {T(1), T(2)}}, 2)}
SeedBreeding == {[Base EXCEPT !.species = <<SeedSpecies(T(1), SeedName, <<>>, <<>>), SeedSpecies(Up(T(2)), SeedName, <<>>, <<>>)>>,
                          !.breeding = b] :
               b \in UpTo({SeedRule(p, q, c, w) : p, q \in {T(1), Up(T(2)), T(3)}, c \in {T(1), T(3)}, w \in BOOLEAN}, 2)}
Refused == {[Base EXCEPT !.pinned = FALSE], [Base EXCEPT !.approved = FALSE],
            [Base EXCEPT !.catalog = "failed"], [Base EXCEPT !.catalog = "partial"], [Base EXCEPT !.items = <<[SeedItem(T(1), SeedName) EXCEPT !.ok = FALSE]>>],
            [Base EXCEPT !.drops = <<[SeedDrop(T(1), T(1), T(1)) EXCEPT !.ok = FALSE]>>],
            [Base EXCEPT !.recipes = <<[Recipe(T(1), T(1), <<>>, SeedAbsent) EXCEPT !.ok = FALSE]>>]}

SeedSources == Learning \cup Passives \cup SeedNames \cup SeedRecipes \cup SeedDrops \cup SeedBreeding \cup Refused

(* Documents and requests of the catalogue search.                         *)
\* A text of two syllables, as a number of two digits, starts with the first
\* and contains the second; the query 12 has the words 1 and 2; 9 is a stopword.
SearchFit(t, q) == IF q \in 1..9 /\ t > 9 THEN IF t \div 10 = q THEN 2 ELSE IF t % 10 = q THEN 1 ELSE 0 ELSE 0
SearchTokens(q) == IF q > 9 THEN {q \div 10, q % 10} \ {9} ELSE {q} \ {9}
\* Ids 101 and 201 differ in case only; 301 is the long form of a skill's id.
SearchKey(i) == IF i \in 201..299 THEN i - 100 ELSE i
SearchShort(i) == IF i > 300 THEN i - 200 ELSE i
SearchName(i) == i

SearchRequest(kind, q, limit) == [is |-> "request", kind |-> kind, query |-> q, limit |-> limit]
SearchText(i, n, t) == [id |-> i, name |-> n, text |-> t]
SearchPal(i, dex, on) == [id |-> i, dex |-> dex, dexText |-> dex, enabled |-> on, elements |-> {3},
                    works |-> {4}, skills |-> {101, 302, 103}, passives |-> {101, 102}]
SearchItem(i, n, legal, fallback) ==
  [id |-> i, name |-> n, legal |-> legal, fallback |-> fallback, category |-> 5, text |-> 6]
Skill(i) == [id |-> i, name |-> 0, text |-> 0, power |-> i, element |-> 3]
Building(i, n, fallback, unfinished) ==
  [id |-> i, name |-> n, fallback |-> fallback, unfinished |-> unfinished, category |-> 5,
   materials |-> {6}, text |-> 7, sort |-> 1]
Technology(i, n, fallback) ==
  [id |-> i, name |-> n, fallback |-> fallback, level |-> 1, text |-> 7, unlocks |-> {101, 202}, builds |-> {101}]

Documents ==
  [verified |-> TRUE,
   pals |-> {SearchPal(101, 7, TRUE)}, palTexts |-> {SearchText(101, 12, 0), SearchText(102, 2, 0)},
   skills |-> {Skill(301), Skill(302)}, skillTexts |-> {SearchText(301, 1, 6), SearchText(302, 2, 1), SearchText(103, 8, 0)},
   passives |-> {[id |-> 101, rank |-> 1], [id |-> 102, rank |-> 2]},
   passiveTexts |-> {SearchText(101, 1, 2), SearchText(102, 21, 6)},
   items |-> {SearchItem(101, 1, TRUE, FALSE), SearchItem(102, 21, FALSE, FALSE)},
   recipes |-> {[id |-> 1, item |-> 101], [id |-> 2, item |-> 201]},
   drops |-> {[pal |-> 1, item |-> 101, chance |-> 5], [pal |-> 2, item |-> 101, chance |-> 9],
              [pal |-> 3, item |-> 201, chance |-> 5]},
   buildings |-> {Building(101, 3, FALSE, FALSE), Building(102, 13, FALSE, TRUE)},
   methods |-> {[building |-> 201, product |-> 8]},
   technologies |-> {Technology(101, 0, FALSE)},
   shops |-> {[id |-> 101, currency |-> 5, currencyName |-> 51, products |-> {1, 2}],
              [id |-> 102, currency |-> 6, currencyName |-> 5, products |-> {12}]}]

\* The documents with one of the ways a part of them may differ.
SearchCatalogs ==
  {[Documents EXCEPT !.pals = p, !.palTexts = n, !.passives = k, !.skillTexts = s] :
     p \in {{SearchPal(101, 7, TRUE), SearchPal(201, d, TRUE), SearchPal(102, 8, on)} : d \in {7, 9}, on \in BOOLEAN},
     n \in {{SearchText(101, a, 0), SearchText(102, b, 0)} : a \in {12, 1}, b \in {0, 2}},
     k \in {{[id |-> 101, rank |-> 1]}, {[id |-> 101, rank |-> 1], [id |-> 202, rank |-> 2]}},
     s \in {Documents.skillTexts, {SearchText(301, 1, 6), SearchText(302, 0, 1)}}}
  \cup
  {[Documents EXCEPT !.items = i, !.technologies = t, !.recipes = r, !.verified = v] :
     i \in {{SearchItem(101, 1, l, f), SearchItem(102, n, TRUE, FALSE)} : l \in BOOLEAN, f \in BOOLEAN, n \in {2, 21}},
     t \in {{Technology(101, n, f), Technology(102, 12, FALSE)} : n \in {0, 2}, f \in BOOLEAN},
     r \in {Documents.recipes, {[id |-> 1, item |-> 103]}}, v \in BOOLEAN}

Kinds == {"species", "active_skill", "passive", "item", "building", "technology", "shop"}
SearchRequests == {SearchRequest(k, q, l) : k \in Kinds, q \in {0, 1, 2, 12, 19}, l \in {1, 4}}
SearchInputs ==
  {<<x, y>> : x \in SearchRequests \cup {[is |-> "bad"], SearchRequest("item", 1, 0)}, y \in {SearchRequest("item", 0, 4), SearchRequest("passive", 1, 1)}}

(* Graphs, queries and wiki pages.                                         *)
Ev(id, q) == [id |-> id, quality |-> q, sources |-> {}]
Node(id, label) == [id |-> id, label |-> label, build |-> 1, evidence |-> {Ev(id, 3)}]
Edge(id, from, to) ==
  [id |-> id, from |-> from, to |-> to, relation |-> id % 2, build |-> 1, evidence |-> {Ev(id, 2)}]

FourNodes == <<Node(1, 1), Node(2, 1), Node(3, 1), Node(4, 1)>>
\* Graphs of three edges, of which the last may have an end that is missing.
Ends == {p \in (1..4) \X (1..4) : p[1] # p[2]}
GraphGraphs ==
  {[nodes |-> FourNodes,
    edges |-> <<Edge(1, p[1], p[2]), Edge(2, q[1], q[2]), Edge(3, r[1], r[2])>>] :
     p \in {<<1, 2>>, <<3, 1>>}, q \in Ends, r \in Ends \cup {<<1, 5>>}}
GraphQueries ==
  [seeds : {{1}, {1, 2}}, hops : {0, 1, 2, 3}, nodes : {1, 3, 4},
   direction : {"Outgoing", "Incoming", "Both"}, relations : {{}}]
  \cup [seeds : {{1}}, hops : {2, 5}, nodes : {3, 9}, direction : {"Both"}, relations : {{1}}]

\* Three nodes of which evidence 1 has two rows, and labels of two lengths.
SmallGraphs ==
  {[nodes |-> <<Node(1, l), Node(2, 1), [Node(3, 1) EXCEPT !.evidence = {Ev(1, q), Ev(3, 3)}]>>,
    edges |-> <<Edge(4, 1, 2), Edge(5, 2, 3)>>] : l \in {1, 2}, q \in {0, 2}}
  \cup {[nodes |-> <<Node(1, 1), Node(1, 2)>>, edges |-> <<>>],
        [nodes |-> <<[Node(1, 1) EXCEPT !.build = 2]>>, edges |-> <<>>],
        [nodes |-> <<[Node(1, 1) EXCEPT !.evidence = {}]>>, edges |-> <<>>],
        [nodes |-> <<Node(1, 1)>>, edges |-> <<Edge(4, 1, 1), Edge(4, 1, 1)>>]}
SmallQueries ==
  [seeds : {{1}, {3}, {1, 3}}, hops : 1..2, nodes : 2..3, direction : {"Both"}, relations : {{}}]
Claim(q, refs, related) == [quality |-> q, refs |-> refs, related |-> related]
SmallPages ==
  {[build |-> 1, related |-> r, claims |-> {Claim(q, refs, {1})}] :
     r \in {{}, {9}}, q \in {1, 3}, refs \in {{}, {1}, {1, 2}, {9}}}
  \cup {[build |-> 2, related |-> {}, claims |-> {Claim(0, {1}, {})}]}

(* Records, owned Pals and questions of the evidence worker.               *)
AnswerRecord(s, sprint, stamina, words) == [species |-> s, sprint |-> sprint, stamina |-> stamina, words |-> words]
AnswerRecords == {AnswerRecord(s, sprint, 100, w) : s \in 1..3, sprint \in {0, 500, 600}, w \in {{}, {"fire"}}}
AnswerCatalogs == {C \in SUBSET AnswerRecords : \A x, y \in C : x # y => x.species # y.species}

AnswerPal(i, s, level, passives) == [inst |-> i, species |-> s, level |-> level, passives |-> passives, words |-> {}]
AnswerOwned == {AnswerPal(1, 1, 5, p) : p \in {{"Legend"}, {"MoveSpeed_up_3", "Stamina_Up_3"}}}
           \cup {AnswerPal(2, 2, 5, {}), AnswerPal(3, 2, 7, {"MoveSpeed_up_3"})}
           \cup {[AnswerPal(4, 3, 9, {}) EXCEPT !.words = {"fire"}]}
AnswerOwnedSets == {O \in SUBSET AnswerOwned : O # {} /\ \A x, y \in O : x # y => x.inst # y.inst}
AnswerQuestions == [kind : {"mount", "owned", "other"}, words : {{}, {"fire"}}]

(* Rules of the breeding planner.                                          *)
BreedSpecies == 1..4
BreedPal(i, s, q) == [inst |-> i, species |-> s, passives |-> q]

\* Rules around which a shorter way, or an equal one of an earlier rule, is
\* found after a longer one.
Chain == {[id |-> 1, a |-> 1, b |-> 1, c |-> 3], [id |-> 2, a |-> 1, b |-> 3, c |-> 2],
          [id |-> 3, a |-> 2, b |-> 2, c |-> 4]}
Fork == {[id |-> 1, a |-> 1, b |-> 1, c |-> 2], [id |-> 2, a |-> 2, b |-> 1, c |-> 3],
         [id |-> 1, a |-> 1, b |-> 1, c |-> 4]}
ChainRules == [id : 1..2, a : BreedSpecies, b : {1}, c : 2..4]
BreedLongRuleSets == {C \cup {x, y} : C \in {Chain, Fork}, x, y \in ChainRules}
BreedLongCollections == {{BreedPal(1, 1, {})}, {BreedPal(1, 2, {})}}
BreedLongRequests == {{}}

Reviewing == INSTANCE KnowledgePublication WITH
    Public <- {}, Full <- {"f1"}, Errors <- {"e1"}, Drafts <- {2, 3},
    Operators <- {"o1", "o2"}, Publishers <- {}, Readers <- {},
    MaxReview <- 3

Reading == INSTANCE KnowledgePublication WITH
    Public <- {}, Full <- {"f1"}, Errors <- {"e1"}, Drafts <- {2, 3},
    Operators <- {"o1"}, Publishers <- {}, Readers <- {"n1"}, MaxReview <- 2

Seeding == INSTANCE KnowledgePublication WITH
    Public <- {"p1", "p2"}, Full <- {}, Errors <- {"e1"}, Drafts <- {},
    Operators <- {"o1"}, Publishers <- {"s1", "s2"}, Readers <- {},
    MaxReview <- 1

Importing == INSTANCE PersonalCloud WITH
    Members <- {"m1"}, Owners <- {"o1"}, Builds <- {"b1"},
    Datasets <- {"d1"}, BuildOf <- [d \in {"d1"} |-> "b1"],
    Imports <- {"i1", "i2"}, ImportOf <- PersonalImports,
    Importers <- {"r1", "r2"}, Reviewers <- {"v1"}, Asking <- {}, Parts <- 2,
    None <- None

Personal == INSTANCE PersonalCloud WITH
    Members <- {"m1", "m2"}, Owners <- {"o1"}, Builds <- {"b1"},
    Datasets <- {"d1"}, BuildOf <- [d \in {"d1"} |-> "b1"],
    Imports <- {"i1", "i2"}, ImportOf <- PersonalImports,
    Importers <- {"r1"}, Reviewers <- {}, Asking <- {"q1"}, Parts <- 2,
    None <- None

Access == INSTANCE AccessIdentity WITH
    Requests <- {"q1", "q2"}, MaxKey <- 2, Ttl <- 1, MaxFetch <- 1,
    Lifetime <- 1, Skew <- 1, MaxTime <- 3

Seed == INSTANCE CatalogSeed WITH
    Sources <- SeedSources, Files <- 2, MaxRuns <- 2

Search == INSTANCE CatalogSearch WITH
    Catalogs <- SearchCatalogs, Inputs <- SearchInputs, Fit <- SearchFit,
    Tokens <- SearchTokens, Key <- SearchKey, Short <- SearchShort,
    Name <- SearchName, MaxLimit <- 4, ShownDrops <- 2

Grounded == INSTANCE GroundedAnswers WITH
    MaxEvidenceRows <- 4, MaxTitle <- 9, MaxDetail <- 4,
    GraphInputs <- GraphGraphs, Queries <- GraphQueries, Pages <- {},
    AttachBudgets <- {}, Build <- 1, MaxHops <- 4, MaxQueryNodes <- 8,
    MaxAttaches <- 1, Catalogs <- {}, OwnedSets <- {}, Questions <- {},
    MaxSelectedCatalog <- 2, MaxSelectedOwned <- 3, MaxListed <- 2,
    MaxCompared <- 2

Evidence == INSTANCE GroundedAnswers WITH
    MaxEvidenceRows <- 4, MaxTitle <- 4, MaxDetail <- 4,
    GraphInputs <- SmallGraphs, Queries <- SmallQueries, Pages <- SmallPages,
    AttachBudgets <- {1, 3, 6}, Build <- 1, MaxHops <- 4,
    MaxQueryNodes <- 8, MaxAttaches <- 2, Catalogs <- {}, OwnedSets <- {},
    Questions <- {}, MaxSelectedCatalog <- 2, MaxSelectedOwned <- 3,
    MaxListed <- 2, MaxCompared <- 2

Answers == INSTANCE GroundedAnswers WITH
    MaxEvidenceRows <- 8, MaxTitle <- 4, MaxDetail <- 4, GraphInputs <- {},
    Queries <- {}, Pages <- {}, AttachBudgets <- {}, Build <- 1,
    MaxHops <- 4, MaxQueryNodes <- 8, MaxAttaches <- 1,
    Catalogs <- AnswerCatalogs, OwnedSets <- AnswerOwnedSets,
    Questions <- AnswerQuestions, MaxSelectedCatalog <- 2,
    MaxSelectedOwned <- 3, MaxListed <- 2, MaxCompared <- 2

Breeding == INSTANCE BreedingPlanner WITH
    Species <- BreedSpecies, RuleSets <- BreedLongRuleSets,
    Collections <- BreedLongCollections, Targets <- {2, 3, 4},
    Requests <- BreedLongRequests, Limits <- {1, 3},
    Budgets <- {3, 12, 40}

Profile == INSTANCE ProfilePages WITH
    Ids <- {1, 2}, Names <- {1, 2}, MaxCount <- 3, MaxNames <- 3,
    MaxEntries <- 2, MaxWeight <- 5, SectionCount <- 2,
    EntryLengths <- {1, 3, 9}, MaxSectionEntries <- 4,
    MaxPageEntries <- 3, MaxPageBytes <- 10, MaxPages <- 6, MaxBytes <- 40,
    IndexEdge <- 2

\* A component that is not observed is idle from the start.
Unused == "unused"
IdleAtFirst ==
  /\ IF part \in {"reviewing", "reading", "seeding"} THEN TRUE ELSE
       data = Unused /\ manifest = Unused /\ book = Unused /\
       revision = Unused /\ seed = Unused /\ publisher = Unused /\
       review = Unused /\ reader = Unused
  /\ IF part \in {"reviewing", "reading", "seeding", "graph", "evidence"} THEN TRUE ELSE
       page = Unused
  /\ IF part \in {"reviewing", "reading", "seeding", "access"} THEN TRUE ELSE
       cache = Unused
  /\ IF part \in {"imports", "asking"} THEN TRUE ELSE
       binding = Unused /\ policy = Unused /\ catalog = Unused /\
       commit = Unused /\ importer = Unused /\ reviewer = Unused /\
       asking = Unused /\ answered = Unused
  /\ IF part \in {"imports", "asking", "seed"} THEN TRUE ELSE
       run = Unused /\ rows = Unused
  /\ IF part = "access" THEN TRUE ELSE
       now = Unused /\ newest = Unused /\ oldest = Unused /\ retired = Unused
  /\ IF part \in {"access", "graph", "evidence"} THEN TRUE ELSE
       request = Unused
  /\ IF part = "seed" THEN TRUE ELSE
       source = Unused /\ phase = Unused /\ report = Unused /\ dir = Unused
  /\ IF part \in {"seed", "paging"} THEN TRUE ELSE
       outcome = Unused
  /\ IF part = "search" THEN TRUE ELSE
       doc = Unused /\ worker = Unused /\ read = Unused /\ output = Unused
  /\ IF part \in {"search", "breeding"} THEN TRUE ELSE
       input = Unused
  /\ IF part \in {"graph", "evidence"} THEN TRUE ELSE
       graph = Unused /\ walk = Unused /\ pack = Unused /\ attaches = Unused
  /\ IF part = "answers" THEN TRUE ELSE
       asked = Unused /\ response = Unused
  /\ IF part = "breeding" THEN TRUE ELSE
       known = Unused /\ left = Unused /\ changed = Unused /\
       visits = Unused /\ result = Unused
  /\ IF part = "profile" THEN TRUE ELSE
       pals = Unused /\ bases = Unused /\ states = Unused /\
       overall = Unused /\ edit = Unused
  /\ IF part = "paging" THEN TRUE ELSE
       entries = Unused /\ section = Unused /\ next = Unused /\
       current = Unused /\ pageIndex = Unused /\ pages = Unused
StaysIdle ==
  /\ part' = part
  /\ IF part \in {"reviewing", "reading", "seeding"} THEN TRUE ELSE
       UNCHANGED <<data, manifest, book, revision, seed, publisher, review,
         reader>>
  /\ IF part \in {"reviewing", "reading", "seeding", "graph", "evidence"} THEN TRUE ELSE
       UNCHANGED <<page>>
  /\ IF part \in {"reviewing", "reading", "seeding", "access"} THEN TRUE ELSE
       UNCHANGED <<cache>>
  /\ IF part \in {"imports", "asking"} THEN TRUE ELSE
       UNCHANGED <<binding, policy, catalog, commit, importer, reviewer,
         asking, answered>>
  /\ IF part \in {"imports", "asking", "seed"} THEN TRUE ELSE
       UNCHANGED <<run, rows>>
  /\ IF part = "access" THEN TRUE ELSE
       UNCHANGED <<now, newest, oldest, retired>>
  /\ IF part \in {"access", "graph", "evidence"} THEN TRUE ELSE
       UNCHANGED <<request>>
  /\ IF part = "seed" THEN TRUE ELSE
       UNCHANGED <<source, phase, report, dir>>
  /\ IF part \in {"seed", "paging"} THEN TRUE ELSE
       UNCHANGED <<outcome>>
  /\ IF part = "search" THEN TRUE ELSE
       UNCHANGED <<doc, worker, read, output>>
  /\ IF part \in {"search", "breeding"} THEN TRUE ELSE
       UNCHANGED <<input>>
  /\ IF part \in {"graph", "evidence"} THEN TRUE ELSE
       UNCHANGED <<graph, walk, pack, attaches>>
  /\ IF part = "answers" THEN TRUE ELSE
       UNCHANGED <<asked, response>>
  /\ IF part = "breeding" THEN TRUE ELSE
       UNCHANGED <<known, left, changed, visits, result>>
  /\ IF part = "profile" THEN TRUE ELSE
       UNCHANGED <<pals, bases, states, overall, edit>>
  /\ IF part = "paging" THEN TRUE ELSE
       UNCHANGED <<entries, section, next, current, pageIndex, pages>>

knowledgeSteps == Reviewing!kpVars
personalSteps == Importing!pcVars
accessSteps == Access!aiVars
evidenceSteps == Evidence!graphVars
profileSteps == Profile!canonicalVars

ReviewingStarts == part = "reviewing" /\ Reviewing!KPInit
ReviewingRuns == part = "reviewing" /\ Reviewing!KPNext /\ StaysIdle

ReadingStarts == part = "reading" /\ Reading!KPInit
ReadingRuns == part = "reading" /\ Reading!KPNext /\ StaysIdle

SeedingStarts == part = "seeding" /\ Seeding!KPInit
SeedingRuns == part = "seeding" /\ Seeding!KPNext /\ StaysIdle

ImportsStarts == part = "imports" /\ Importing!Init
ImportsRuns == part = "imports" /\ Importing!Next /\ StaysIdle

AskingStarts == part = "asking" /\ Personal!Init
AskingRuns == part = "asking" /\ Personal!Next /\ StaysIdle

AccessStarts == part = "access" /\ Access!Init
AccessRuns == part = "access" /\ Access!Next /\ StaysIdle

SeedStarts == part = "seed" /\ Seed!Init
SeedRuns == part = "seed" /\ Seed!Next /\ StaysIdle

SearchStarts == part = "search" /\ Search!SearchInit
SearchRuns == part = "search" /\ Search!Next /\ StaysIdle

GraphStarts == part = "graph" /\ Grounded!GraphInit
GraphRuns == part = "graph" /\ Grounded!GraphNext /\ StaysIdle

EvidenceStarts == part = "evidence" /\ Evidence!GraphInit
EvidenceRuns == part = "evidence" /\ Evidence!GraphNext /\ StaysIdle

AnswersStarts == part = "answers" /\ Answers!AnswerInit
AnswersRuns == part = "answers" /\ Answers!AnswerNext /\ StaysIdle

BreedingStarts == part = "breeding" /\ Breeding!PlannerInit
BreedingRuns == part = "breeding" /\ Breeding!Next /\ StaysIdle

ProfileStarts == part = "profile" /\ Profile!CanonicalInit
ProfileRuns == part = "profile" /\ Profile!CanonicalNext /\ StaysIdle

PagingStarts == part = "paging" /\ Profile!PagingInit
PagingRuns == part = "paging" /\ Profile!PagingNext /\ StaysIdle

Init ==
  /\ part \in Parts
  /\ \/ ReviewingStarts
     \/ ReadingStarts
     \/ SeedingStarts
     \/ ImportsStarts
     \/ AskingStarts
     \/ AccessStarts
     \/ SeedStarts
     \/ SearchStarts
     \/ GraphStarts
     \/ EvidenceStarts
     \/ AnswersStarts
     \/ BreedingStarts
     \/ ProfileStarts
     \/ PagingStarts
  /\ IdleAtFirst

Next ==
  \/ ReviewingRuns
  \/ ReadingRuns
  \/ SeedingRuns
  \/ ImportsRuns
  \/ AskingRuns
  \/ AccessRuns
  \/ SeedRuns
  \/ SearchRuns
  \/ GraphRuns
  \/ EvidenceRuns
  \/ AnswersRuns
  \/ BreedingRuns
  \/ ProfileRuns
  \/ PagingRuns

vars == <<part, data, manifest, book, revision, seed, publisher, review,
    reader, page, cache, binding, policy, catalog, commit, importer,
    reviewer, asking, answered, run, rows, now, newest, oldest, retired,
    request, source, phase, report, dir, outcome, doc, worker, read, output,
    input, graph, walk, pack, attaches, asked, response, known, left,
    changed, visits, result, pals, bases, states, overall, edit, entries,
    section, next, current, pageIndex, pages>>

Spec == Init /\ [][Next]_vars

-----------------------------------------------------------------------------
\* What the public may read was reviewed: a dataset with an unresolved error is
\* not published, an error that blocks one is in the book, a page shows the
\* revision that was approved, a reader through the cache gets a revision that
\* was approved, and the seed files go in in order.
KnowledgeIsReviewed ==
  /\ part = "reviewing" => Reviewing!KnowledgeIsReviewed
  /\ part = "reading" => Reading!KnowledgeIsReviewed
  /\ part = "seeding" => Seeding!KnowledgeIsReviewed

\* A projection is whole whoever reads it while it is imported: one import
\* writes it, the active one has all its rows, an answer is recorded before it
\* is given, and the build and dataset it is read with are verified.
ProjectionsAreWhole ==
  /\ part = "imports" =>
       /\ Importing!OneWriterPerProjection
       /\ Importing!PolicyNamesVerified
       /\ Importing!UnknownBuildWaits
  /\ part = "asking" =>
       /\ Personal!ActiveIsComplete
       /\ Personal!ReadsAreWhole
       /\ Personal!AnswersAreRecorded
  /\ part = "profile" =>
       /\ Profile!CanonicalIsStable
       /\ Profile!CompleteMeansComplete
  /\ part = "paging" =>
       /\ Profile!PagesFit
       /\ Profile!PagesRebuildTheProfile
       /\ Profile!RefusedForAReason

\* What the catalogue and the answers say has its ground in the sources: every
\* reference compiled or counted as a gap, every record found by what it
\* shows, every claim by evidence of its quality, every citation by a row of
\* the answer's own evidence, and a breeding plan the shortest there is.
AnswersAreGrounded ==
  /\ part = "seed" =>
       /\ Seed!EveryReferenceAccounted
       /\ Seed!BookMatchesReport
       /\ Seed!SoundSourceIsCompiled
       /\ Seed!RulesAreUnordered
       /\ Seed!ManifestMeansWhole
  /\ part = "search" =>
       /\ Search!NeverPanics
       /\ Search!AnswersInStep
       /\ Search!OneRecordPerSpecies
       /\ Search!ShownPassiveIsFound
       /\ Search!RecipesFollowItems
       /\ Search!UnlocksNameTechnology
  /\ part = "graph" => Grounded!ContextIsNeighbourhood /\ Grounded!WalkStaysInGraph
  /\ part = "evidence" => Evidence!EvidenceIsBounded /\ Evidence!ClaimsAreSupported
  /\ part = "answers" =>
       /\ Answers!CitationsAreEvidence
       /\ Answers!CitationsNameTheirRow
       /\ Answers!FastestMountIsNamed
  /\ part = "breeding" =>
       /\ Breeding!PlanIsShortest
       /\ Breeding!PlanIsExecutable
       /\ Breeding!PlanIsCanonical
       /\ Breeding!BudgetSuffices

\* No step of the service acts on what somebody else replaced in the meantime:
\* a review is of what the operator saw, an activated dataset is the validated
\* one, a failed import leaves the projection as it was, a request is accepted
\* with a key that is still published or was a moment ago (and none is turned
\* away over a rotation), edges come before nodes in a full evidence pack, and
\* a profile keeps its identity exactly as long as its content.
CloudStepsAreCurrent ==
  /\ [][/\ part = "reviewing" => Reviewing!ReviewsAreCurrent
        /\ part = "seeding" => Seeding!ActivatedWasValidated]_knowledgeSteps
  /\ [][part = "imports" => Importing!FailedImportKeepsOld]_personalSteps
  /\ [](part = "access" => Access!RotationLocksNobodyOut)
  /\ [][part = "access" => Access!AcceptedKeyIsRecent]_accessSteps
  /\ [][part = "evidence" => Evidence!EdgesBeforeNodes]_evidenceSteps
  /\ [][part = "profile" => Profile!SameProfileSameIdentity /\ Profile!IdentityTellsApart]_profileSteps
=============================================================================
