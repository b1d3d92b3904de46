---------------------------- MODULE CatalogSearch ----------------------------
(***************************************************************************)
(* The catalogue worker: crates/pal-catalog-worker/src/main.rs.            *)
(*                                                                         *)
(* RawCatalog::load joins nine pinned documents into maps keyed by         *)
(* normalised ids; serve_requests answers one search per input line from   *)
(* them.  A text is a value, Blank for an empty or a missing one; how a    *)
(* text meets a query is the constant Fit (2: starts with, 1: contains).   *)
(* A document is a set of rows, one for each raw id; Key is normalize_id.  *)
(***************************************************************************)
EXTENDS Integers, Sequences, FiniteSets, Functions

CONSTANTS
  Catalogs,       \* contents of the nine documents
  Inputs,         \* the client's lines: requests [kind, query, limit], or BadLine
  Fit(_, _),      \* Fit(text, query) \in 0..2, for a text that is not the query
  Tokens(_),      \* a query's words: two characters or more, no stopword
  Key(_),         \* normalize_id
  Short(_),       \* the part of an active skill's id after "::"
  Name(_),        \* an id as a text
  MaxLimit,       \* MAX_RESULTS
  ShownDrops      \* drops listed with an item (16)

Blank == 0
BadLine == [is |-> "bad"]
Sorting == INSTANCE SequencesExt
Take(s, n) == SubSeq(s, 1, IF Len(s) < n THEN Len(s) ELSE n)

VARIABLES
  doc,        \* the documents on disk
  input,      \* what the client writes to standard input
  worker,     \* "start", "serving", "ended" (Ok), "failed" (Err), "panicked"
  read,       \* lines read
  output      \* responses written

vars == <<doc, input, worker, read, output>>

-----------------------------------------------------------------------------
(* RawCatalog::load *)

\* The rows that a map keyed by the normalised id keeps: the last inserted.
LastOf(rows) == {r \in rows : \A s \in rows : Key(s.id) = Key(r.id) => s.id <= r.id}
Keys(rows) == {Key(r.id) : r \in rows}
Row(rows, id) == CHOOSE r \in LastOf(rows) : Key(r.id) = Key(id)

\* localized_text_map leaves out a row without a name.
Localized(texts) == {t \in texts : t.name # Blank}

\* The ids under which an active skill is known: the whole one and the short one.
SkillRows(rows) ==
  {[r EXCEPT !.id = Short(r.id)] :
     r \in {x \in rows : \A y \in rows : Key(Short(y.id)) = Key(Short(x.id)) => y.id <= x.id}}
SkillNames(d) == Keys(Localized(d.skillTexts)) \cup Keys(SkillRows(Localized(d.skillTexts)))
SkillTexts(d) == SkillRows(Localized(d.skillTexts))

PassiveTexts(d) == {t \in Localized(d.passiveTexts) : Key(t.id) \in Keys(d.passives)}

\* Every recipe and every drop names an item; an active skill has its text.
Loads(d) ==
  /\ d.verified
  /\ \A r \in d.recipes : Key(r.item) \in Keys(d.items)
  /\ \A r \in d.drops : Key(r.item) \in Keys(d.items)
  /\ Keys(SkillRows(d.skills)) \subseteq Keys(SkillTexts(d))

\* The name of a technology: its own, or those of what it unlocks, joined.
TechnologyName(d, t) ==
  IF t.name # Blank THEN {t.name}
  ELSE LET unlocked(rows, ids) == {Row(rows, i) : i \in {j \in ids : Key(j) \in Keys(rows)}}
       IN {r.name : r \in {x \in unlocked(d.items, t.unlocks) \cup unlocked(d.buildings, t.builds) :
                             ~x.fallback /\ x.name # Blank}}

\* The products of a building's production methods.
Products(d, b) == {m.product : m \in {x \in d.methods : Key(x.building) = Key(b.id)}}

-----------------------------------------------------------------------------
(* Scores: 0 is None. *)

MaxOf(S) == CHOOSE x \in S : \A y \in S : y <= x

\* How well one of several texts meets a query: 3 as a whole, 2 from its
\* start, 1 somewhere.
TextFit(t, q) == IF t = Blank THEN 0 ELSE IF t = q THEN 3 ELSE Fit(t, q)
BestFit(texts, q) == MaxOf({0} \cup {TextFit(t, q) : t \in texts})

\* The ladder the score functions share: the names, then other texts in turn.
Ladder(q, names, rungs) ==
  IF q = Blank THEN 1
  ELSE CASE names = 3 -> 100
         [] names = 2 -> 80
         [] names = 1 -> 60
         [] names = 0 -> LET met == {r \in rungs : BestFit(r[2], q) > 0}
                         IN MaxOf({0} \cup {r[1] : r \in met})

\* search_atom_score; the dex number only matches as a whole.
SpeciesAtom(r, q) ==
  Ladder(q, IF r.dexText = q THEN 3 ELSE BestFit({Name(r.id), r.name}, q),
         {<<40, r.elements>>, <<30, r.works>>, <<20, {s[2] : s \in r.skills}>>})

\* search_score: the whole query, or the best of its words.
SpeciesScore(r, q) ==
  IF q = Blank THEN 1
  ELSE MaxOf({SpeciesAtom(r, q)} \cup {SpeciesAtom(r, t) : t \in Tokens(q)})

ActiveSkillScore(r, q) ==
  Ladder(q, BestFit({Name(r.id), r.name}, q), {<<40, {r.element}>>, <<20, {r.text}>>})
PassiveScore(r, q) ==
  Ladder(q, BestFit({Name(r.id), r.name}, q), {<<20, {r.text}>>})
ItemScore(r, q) ==
  Ladder(q, BestFit({Name(r.id), r.name}, q), {<<40, {r.category}>>, <<20, {r.text}>>})
BuildingScore(d, r, q) ==
  Ladder(q, BestFit({Name(r.id), r.name}, q),
         {<<40, {r.category}>>, <<30, r.materials \cup Products(d, r)>>, <<20, {r.text}>>})

\* Several names joined start with the first and contain them all.
JoinedFit(parts, q) ==
  IF Cardinality(parts) < 2 THEN BestFit(parts, q)
  ELSE LET first == CHOOSE t \in parts : \A u \in parts : t <= u
       IN IF TextFit(first, q) >= 2 THEN 2 ELSE IF BestFit(parts, q) > 0 THEN 1 ELSE 0

TechnologyScore(d, r, q) ==
  Ladder(q, MaxOf({TextFit(Name(r.id), q), JoinedFit(TechnologyName(d, r), q)}),
         {<<30, {Name(i) : i \in r.unlocks \cup r.builds}>>, <<20, {r.text}>>})

ShopScore(r, q) ==
  Ladder(q, BestFit({Name(r.id), Name(r.currency), r.currencyName}, q), {<<40, r.products>>})

-----------------------------------------------------------------------------
(* Records.  A search is a set of [score, order, record]: the score first, *)
(* then the keys of the kind's comparator, then the order of the map.      *)

Hit(score, order, record) == [score |-> score, order |-> order, record |-> record]

\* record: an enabled Pal with an icon and a Korean name.
SpeciesRecords(d) ==
  {[id |-> r.id,
    name |-> Row(Localized(d.palTexts), r.id).name,
    dex |-> r.dex, dexText |-> r.dexText, elements |-> r.elements, works |-> r.works,
    skills |-> {<<s, Row(Localized(d.skillTexts) \cup SkillTexts(d), s).name>> :
                  s \in {x \in r.skills : Key(x) \in SkillNames(d)}},
    passives |-> {<<p, Row(PassiveTexts(d), p).name>> :
                  p \in {x \in r.passives : Key(x) \in Keys(PassiveTexts(d))}}] :
     r \in {p \in d.pals : p.enabled /\ Key(p.id) \in Keys(Localized(d.palTexts))}}

\* search_species keeps the best match of the ids that normalise alike; the
\* first of the raw ids when they score the same.
SearchSpecies(d, q) ==
  LET met == {r \in SpeciesRecords(d) : SpeciesScore(r, q) > 0}
      better(x, y) == \/ SpeciesScore(x, q) > SpeciesScore(y, q)
                      \/ SpeciesScore(x, q) = SpeciesScore(y, q) /\ x.id < y.id
  IN {Hit(SpeciesScore(r, q), <<r.dex, r.id>>, r) :
        r \in {x \in met : \A y \in met : (y # x /\ Key(y.id) = Key(x.id)) => better(x, y)}}

\* search_active_skills: active_skill_record expects the text to be there.
ActiveSkillRows(d) == LastOf(SkillRows(d.skills))
SearchActiveSkills(d, q) ==
  LET record(r) == [r EXCEPT !.name = Row(SkillTexts(d), r.id).name, !.text = Row(SkillTexts(d), r.id).text]
      rows == {record(r) : r \in ActiveSkillRows(d)}
  IN {Hit(ActiveSkillScore(r, q), <<0 - r.power, r.name, r.id>>, r) :
        r \in {x \in rows : ActiveSkillScore(x, q) > 0}}

\* search_passives, passive_record
SearchPassives(d, q) ==
  LET rows == {[id |-> r.id, rank |-> r.rank, name |-> Row(PassiveTexts(d), r.id).name,
                text |-> Row(PassiveTexts(d), r.id).text] :
                 r \in {x \in LastOf(d.passives) : Key(x.id) \in Keys(PassiveTexts(d))}}
  IN {Hit(PassiveScore(r, q), <<0 - r.rank, r.name, r.id>>, r) : r \in {x \in rows : PassiveScore(x, q) > 0}}

\* item_record: every recipe, and the likeliest drops.
ItemRecord(d, r) ==
  LET drops == {x \in d.drops : Key(x.item) = Key(r.id)}
      likelier(x, y) == x.chance > y.chance \/ (x.chance = y.chance /\ x.pal < y.pal)
      shown == Take(Sorting!SetToSortSeq(drops, likelier), ShownDrops)
  IN [id |-> r.id, name |-> r.name, legal |-> r.legal,
      recipes |-> {x \in d.recipes : Key(x.item) = Key(r.id)},
      dropCount |-> Cardinality(drops), drops |-> Range(shown)]

\* search_items: what the game does not allow is only found by name.
SearchItems(d, q) ==
  {Hit(ItemScore(r, q), <<IF r.legal THEN 0 ELSE 1, r.name, r.id>>, ItemRecord(d, r)) :
     r \in {x \in LastOf(d.items) : ~x.fallback /\ (x.legal \/ q # Blank) /\ ItemScore(x, q) > 0}}

SearchBuildings(d, q) ==
  {Hit(BuildingScore(d, r, q), <<r.sort, r.name, Key(r.id)>>, r) :
     r \in {x \in LastOf(d.buildings) : ~x.fallback /\ ~x.unfinished /\ BuildingScore(d, x, q) > 0}}

SearchTechnologies(d, q) ==
  {Hit(TechnologyScore(d, r, q), <<r.level, Key(r.id)>>, [id |-> r.id, names |-> TechnologyName(d, r)]) :
     r \in {x \in LastOf(d.technologies) : ~x.fallback /\ TechnologyScore(d, x, q) > 0}}

SearchShops(d, q) ==
  {Hit(ShopScore(r, q), <<r.id>>, r) : r \in {x \in LastOf(d.shops) : ShopScore(x, q) > 0}}

Search(d, kind, q) ==
  CASE kind = "species" -> SearchSpecies(d, q)
    [] kind = "active_skill" -> SearchActiveSkills(d, q)
    [] kind = "passive" -> SearchPassives(d, q)
    [] kind = "item" -> SearchItems(d, q)
    [] kind = "building" -> SearchBuildings(d, q)
    [] kind = "technology" -> SearchTechnologies(d, q)
    [] kind = "shop" -> SearchShops(d, q)

\* The comparators: score downwards, then the keys upwards.
Before(x, y) ==
  \/ x.score > y.score
  \/ /\ x.score = y.score
     /\ \E i \in DOMAIN x.order :
          x.order[i] < y.order[i] /\ \A j \in 1..i - 1 : x.order[j] = y.order[j]

Respond(d, r) ==
  LET ranked == Sorting!SetToSortSeq(Search(d, r.kind, r.query), Before)
      hits == Take(ranked, r.limit)
  IN [kind |-> r.kind, query |-> r.query, matched |-> Len(ranked),
      records |-> [i \in DOMAIN hits |-> hits[i].record]]

-----------------------------------------------------------------------------
(* The process *)

SearchInit ==
  /\ doc \in Catalogs /\ input \in Inputs
  /\ worker = "start" /\ read = 0 /\ output = <<>>

\* run: the documents are loaded before the first line is read.
Load ==
  /\ worker = "start"
  /\ worker' = IF Loads(doc) THEN "serving" ELSE "failed"
  /\ UNCHANGED <<doc, input, read, output>>

\* decode_request
Decodes(line) == line # BadLine /\ line.limit \in 1..MaxLimit

\* One turn of serve_requests: a line is answered, or ends the worker.
Serve ==
  /\ worker = "serving" /\ read < Len(input)
  /\ read' = read + 1
  /\ LET line == input[read']
     IN IF ~Decodes(line) THEN worker' = "failed" /\ UNCHANGED output
        ELSE IF line.kind = "active_skill" /\ ~(Keys(SkillRows(doc.skills)) \subseteq Keys(SkillTexts(doc)))
        THEN worker' = "panicked" /\ UNCHANGED output
        ELSE output' = Append(output, Respond(doc, line)) /\ UNCHANGED worker
  /\ UNCHANGED <<doc, input>>

EndOfInput ==
  /\ worker = "serving" /\ read = Len(input)
  /\ worker' = "ended"
  /\ UNCHANGED <<doc, input, read, output>>

Next == Load \/ Serve \/ EndOfInput

SearchSpec == SearchInit /\ [][Next]_vars

-----------------------------------------------------------------------------
(* Properties *)

Records(k) == Range(output[k].records)
Whole(k) == output[k].matched = Len(output[k].records)

\* A search does not stop the worker: what active_skill_record expects was
\* checked when the catalogue was loaded, under the same short ids.
NeverPanics == worker # "panicked"

\* The k-th response answers the k-th line: a client of the service mode that
\* counts lines never takes one search's answer for another's (serve_requests).
AnswersInStep ==
  \A k \in DOMAIN output : output[k].kind = input[k].kind /\ output[k].query = input[k].query

\* Raw ids that differ in case only are one species of the answer, and the
\* total counts it once (search_species).
OneRecordPerSpecies ==
  \A k \in DOMAIN output :
    output[k].kind = "species" =>
      /\ \A x, y \in Records(k) : Key(x.id) = Key(y.id) => x = y
      /\ output[k].matched <= Cardinality(Keys(doc.pals))

\* A passive that a species record names can be looked up: a search of the
\* passives by that name finds it (load: declared_passives).
ShownPassiveIsFound ==
  \A k \in DOMAIN output :
    output[k].kind = "species" =>
      \A r \in Records(k) : \A p \in r.passives :
        \E h \in SearchPassives(doc, p[2]) : Key(h.record.id) = Key(p[1]) /\ h.score = 100

\* No recipe is lost: an item's record has every recipe of its normalised id,
\* and a whole listing has every recipe of the items it may show.
RecipesFollowItems ==
  \A k \in DOMAIN output :
    (output[k].kind = "item" /\ output[k].query = Blank /\ Whole(k)) =>
      UNION {r.recipes : r \in Records(k)} =
        {x \in doc.recipes : LET r == Row(doc.items, x.item) IN r.legal /\ ~r.fallback}

\* A technology the game leaves unnamed is found by the Korean name of what it
\* unlocks, and a stand-in name of an item never becomes a technology's name.
UnlocksNameTechnology ==
  \A k \in DOMAIN output :
    (output[k].kind = "technology" /\ Whole(k)) =>
      /\ \A t \in doc.technologies : \A i \in t.unlocks :
           (/\ t.name = Blank /\ ~t.fallback /\ t \in LastOf(doc.technologies)
            /\ Key(i) \in Keys(doc.items) /\ ~Row(doc.items, i).fallback
            /\ output[k].query # Blank /\ Row(doc.items, i).name = output[k].query)
             => \E r \in Records(k) : r.id = t.id
      /\ \A r \in Records(k) : \A n \in r.names :
           \/ \E t \in doc.technologies : t.id = r.id /\ t.name = n
           \/ \E i \in doc.items \cup doc.buildings : i.name = n /\ ~i.fallback
=============================================================================
