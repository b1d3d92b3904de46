----------------------------- MODULE CatalogSeed -----------------------------
(***************************************************************************)
(* The seed compiler: crates/pal-cloud-seed (main.rs, quality.rs and the   *)
(* graph statements of knowledge.rs).                                      *)
(*                                                                         *)
(* One run reads the catalogue's sources, compiles them into rows, loads   *)
(* the rows into an in-memory database with the migrations' keys, compares *)
(* the database with its own report and only then writes the seed files.   *)
(* A text is a word w in one of its spellings: up (0 lower case, 1 mixed,  *)
(* 2 upper), pad (with white space), ns (after the "EPalWazaID::" prefix). *)
(* The aliases of a Paldex number, the ':' inside ids and the wording of   *)
(* findings are left out.                                                  *)
(***************************************************************************)
EXTENDS Integers, Sequences, FiniteSets

CONSTANTS
  Sources,        \* what the sources may hold
  Files,          \* number of SQL files of a seed
  MaxRuns         \* runs of the compiler (bound)

VARIABLES
  source,     \* the sources, the same for every run
  run,        \* runs begun
  phase,      \* the stage the run is in, "idle" between two runs
  rows,       \* the rows compiled so far, by table
  report,     \* the references met, as QualityReportBuilder counts them
  outcome,    \* how the last run ended
  dir         \* the output directory: each file with the run that wrote it

vars == <<source, run, phase, rows, report, outcome, dir>>

-----------------------------------------------------------------------------
(* Texts *)

Blank == [w |-> 0, up |-> 0, pad |-> FALSE, ns |-> FALSE]
Absent == [w |-> -1, up |-> 0, pad |-> FALSE, ns |-> FALSE]
Trim(t) == [t EXCEPT !.pad = FALSE]
Fold(t) == [t EXCEPT !.up = 0]
Strip(t) == [t EXCEPT !.ns = t.ns /\ t.pad]   \* strip_prefix: only at the start

\* validate_id refuses an empty id and white space, and lets ':' through.
ValidId(t) == t # Blank /\ ~t.pad
NormalizeAlias(t) == Fold(Trim(t))

\* ReferenceIndex::resolve.  A reference that names no entry, or more than one
\* when case is ignored, keeps its own spelling.
\* Mutant: of several entries that differ in case, one is taken.
ResolveAny(index, raw, namespaced) ==
  LET bare == IF namespaced THEN Strip(Trim(raw)) ELSE Trim(raw)
      near == {t \in index : Fold(t) = Fold(bare)}
      named == IF raw \in index THEN {raw}
               ELSE IF Trim(raw) \in index THEN {Trim(raw)}
               ELSE IF bare \in index THEN {bare} ELSE near
  IN [out |-> IF named # {} THEN CHOOSE t \in named : TRUE ELSE raw,
      state |-> IF named = {} THEN "missing" ELSE "found"]
Resolve(index, raw, namespaced) ==
  LET bare == IF namespaced THEN Strip(Trim(raw)) ELSE Trim(raw)
      near == {t \in index : Fold(t) = Fold(bare)}
      named == IF raw \in index THEN {raw}
               ELSE IF Trim(raw) \in index THEN {Trim(raw)}
               ELSE IF bare \in index THEN {bare} ELSE near
  IN [out |-> IF Cardinality(named) = 1 THEN CHOOSE t \in named : TRUE ELSE raw,
      state |-> CASE named = {} -> "missing"
                  [] Cardinality(named) > 1 -> "ambiguous"
                  [] OTHER -> "found"]

-----------------------------------------------------------------------------
(* What one record becomes *)

Distinct(s) == \A i, j \in DOMAIN s : s[i] = s[j] => i = j
Column(s, f(_)) == [i \in DOMAIN s |-> f(s[i])]
IdOf(r) == r.id

SkillIds == {Strip(k) : k \in DOMAIN source.active}
PassiveIds == DOMAIN source.passive
SpeciesIds == {source.species[i].id : i \in DOMAIN source.species}
ItemIds == {source.items[i].id : i \in DOMAIN source.items}

\* canonicalize_learned_skills and canonicalize_guaranteed_passives: a reference
\* that resolves like an earlier one of the same species is a duplicate.
LearnedOut(s) == Column(s.learned, LAMBDA l : Resolve(SkillIds, l.skill, TRUE))
PassiveOut(s) == Column(s.passives, LAMBDA p : Resolve(PassiveIds, p, FALSE))
FirstOf(res) == {i \in DOMAIN res : \A j \in 1 .. i - 1 : res[j].out # res[i].out}
Conflicting(s) ==
  LET res == LearnedOut(s)
  IN \E i, j \in DOMAIN res : res[i].out = res[j].out /\ s.learned[i].level # s.learned[j].level

\* record_resolution and record_duplicate for the references of one subject.
Entry(kind, subject, i, raw, r, duplicate) ==
  [kind |-> kind, subject |-> subject, at |-> i, raw |-> raw, out |-> r.out,
   state |-> IF duplicate THEN "duplicate" ELSE r.state]
LearnedEntries(s) ==
  LET res == LearnedOut(s)
  IN {Entry("learns", s.id, i, s.learned[i].skill, res[i], i \notin FirstOf(res)) : i \in DOMAIN res}
PassiveEntries(s) ==
  LET res == PassiveOut(s)
  IN {Entry("passive", s.id, i, s.passives[i], res[i], i \notin FirstOf(res)) : i \in DOMAIN res}

SpeciesRow(s) ==
  [id |-> s.id,
   learned |-> {LearnedOut(s)[i].out : i \in FirstOf(LearnedOut(s))},
   passives |-> {PassiveOut(s)[i].out : i \in FirstOf(PassiveOut(s))}]

\* add_catalog_alias for a name and for the id: equal texts are one row.
Aliases(kind, id, name) ==
  {[kind |-> kind, id |-> id, alias |-> t] : t \in {name, id} \ {Blank}}

\* The Korean name of a skill is looked up by its raw id, then by its own; a
\* missing or blank one is replaced by the id.
Named(texts, raw, id) ==
  LET found == IF raw \in DOMAIN texts THEN texts[raw] ELSE IF id \in DOMAIN texts THEN texts[id] ELSE Blank
  IN IF Trim(found) = Blank THEN id ELSE Trim(found)

-----------------------------------------------------------------------------
(* The stages of a run *)

Fail(why) == phase' = "idle" /\ outcome' = why /\ UNCHANGED <<rows, report>>
Then(next) == phase' = next /\ UNCHANGED outcome

NoRows == [species |-> {}, aliases |-> {}, recipes |-> {}, drops |-> {}, rules |-> {}]

Init ==
  /\ source \in Sources
  /\ run = 0 /\ phase = "idle" /\ rows = NoRows /\ report = {} /\ outcome = "none"
  /\ dir = [f \in {} |-> 0]

\* run() up to the catalogue: an output directory that exists is refused.
Start ==
  /\ phase = "idle" /\ run < MaxRuns
  /\ run' = run + 1
  /\ IF DOMAIN dir # {} THEN Fail("exists")
     ELSE /\ Then("collect") /\ rows' = NoRows /\ report' = {}
  /\ UNCHANGED <<source, dir>>

\* collect_catalog: the worker is asked for every species.
CollectCatalog ==
  /\ phase = "collect"
  /\ IF source.catalog = "failed" THEN Fail("catalog")
     ELSE Then("read") /\ UNCHANGED <<rows, report>>
  /\ UNCHANGED <<source, run, dir>>

\* run(): the other sources; two of them are pinned by their hashes.
ReadSources ==
  /\ phase = "read"
  /\ IF ~source.pinned THEN Fail("hash") ELSE Then("inputs") /\ UNCHANGED <<rows, report>>
  /\ UNCHANGED <<source, run, dir>>

\* generate_seed: the catalogue's status and counts, and no empty source.
CheckInputs ==
  /\ phase = "inputs"
  /\ IF source.catalog # "whole" \/ DOMAIN source.active = {} \/ PassiveIds = {}
     THEN Fail("inputs") ELSE Then("skills") /\ UNCHANGED <<rows, report>>
  /\ UNCHANGED <<source, run, dir>>

\* Active skills: two raw ids with one canonical id are refused.
SkillIndex ==
  /\ phase = "skills"
  /\ IF \/ \E k \in DOMAIN source.active : ~ValidId(Strip(k))
        \/ Cardinality(SkillIds) # Cardinality(DOMAIN source.active)
     THEN Fail("skill id") ELSE Then("species") /\ UNCHANGED <<rows, report>>
  /\ UNCHANGED <<source, run, dir>>

CompileSpecies ==
  /\ phase = "species"
  /\ LET all == {source.species[i] : i \in DOMAIN source.species} IN
     IF \/ \E s \in all : ~ValidId(s.id) \/ Conflicting(s)
        \/ ~Distinct(Column(source.species, IdOf))
     THEN Fail("species")
     ELSE /\ rows' = [rows EXCEPT
               !.species = {SpeciesRow(s) : s \in all},
               !.aliases = UNION {Aliases("species", s.id, IF s.name = Absent THEN s.id ELSE s.name) : s \in all}]
          /\ report' = UNION {LearnedEntries(s) \cup PassiveEntries(s) : s \in all}
          /\ Then("texts")
  /\ UNCHANGED <<source, run, dir>>

CompileSkills ==
  /\ phase = "texts"
  /\ IF \E p \in PassiveIds : ~ValidId(p) THEN Fail("passive id")
     ELSE /\ rows' = [rows EXCEPT !.aliases = @ \cup
               UNION {Aliases("skill", Strip(k), Named(source.active, k, Strip(k))) : k \in DOMAIN source.active}
               \cup UNION {Aliases("passive", p, Named(source.passive, p, p)) : p \in PassiveIds}]
          /\ Then("items") /\ UNCHANGED report
  /\ UNCHANGED <<source, run, dir>>

ItemName(t) == IF Trim(t.name) = Blank THEN t.id ELSE Trim(t.name)

\* generate_item_seed_rows: the items.
CompileItems ==
  /\ phase = "items"
  /\ LET all == {source.items[i] : i \in DOMAIN source.items} IN
     IF \/ ~source.approved   \* the catalogue's identity, verification and counts
        \/ \E t \in all : ~ValidId(t.id) \/ ~t.ok
        \/ ~Distinct(Column(source.items, IdOf))
     THEN Fail("item")
     ELSE /\ rows' = [rows EXCEPT !.aliases = @ \cup
               UNION {Aliases("item", t.id, ItemName(t)) : t \in all}]
          /\ Then("recipes") /\ UNCHANGED report
  /\ UNCHANGED <<source, run, dir>>

Unlock(r) == Resolve(ItemIds, r.unlock, FALSE)

\* The recipes.  sql_optional_text writes NULL for a blank unlock item.
CompileRecipes ==
  /\ phase = "recipes"
  /\ LET all == {source.recipes[i] : i \in DOMAIN source.recipes}
         locked == {r \in all : r.unlock # Absent}
     IN
     IF \/ \E r \in all : \/ ~ValidId(r.id) \/ r.out \notin ItemIds \/ ~r.ok
                          \/ \E i \in DOMAIN r.ingredients : r.ingredients[i] \notin ItemIds
        \/ ~Distinct(Column(source.recipes, IdOf))
     THEN Fail("recipe")
     ELSE /\ rows' = [rows EXCEPT !.recipes =
               {[id |-> r.id, out |-> r.out, ingredients |-> r.ingredients,
                 unlock |-> IF r \in locked /\ Trim(Unlock(r).out) # Blank THEN Unlock(r).out ELSE Absent] : r \in all}]
          /\ report' = report \cup {Entry("unlock", r.id, 1, r.unlock, Unlock(r), FALSE) : r \in locked}
          /\ Then("drops")
  /\ UNCHANGED <<source, run, dir>>

CompileDrops ==
  /\ phase = "drops"
  /\ LET all == {source.drops[i] : i \in DOMAIN source.drops} IN
     IF \/ \E d \in all : ~ValidId(d.id) \/ ~ValidId(d.pal) \/ d.item \notin ItemIds \/ ~d.ok
        \/ ~Distinct(Column(source.drops, IdOf))
     THEN Fail("drop")
     ELSE /\ rows' = [rows EXCEPT !.drops =
               {[id |-> d.id, item |-> d.item, pal |-> Resolve(SpeciesIds, d.pal, FALSE).out] : d \in all}]
          /\ report' = report \cup
               {Entry("drop", d.id, 1, d.pal, Resolve(SpeciesIds, d.pal, FALSE), FALSE) : d \in all}
          /\ Then("breeding")
  /\ UNCHANGED <<source, run, dir>>

\* Byte order of two ids: upper case comes before lower case.
Rank(t) == 10 * (2 - t.up) + t.w
Ordered(b) == IF Rank(b.p) <= Rank(b.q) THEN <<b.p, b.q, b.child>> ELSE <<b.q, b.p, b.child>>

\* Rules for a gender and rules about an unknown species are left out.
CompileBreeding ==
  /\ phase = "breeding"
  /\ rows' = [rows EXCEPT !.rules =
       {Ordered(b) : b \in {x \in {source.breeding[i] : i \in DOMAIN source.breeding} :
                              x.wildcard /\ {x.p, x.q, x.child} \subseteq SpeciesIds}}]
  /\ Then("verify")
  /\ UNCHANGED <<source, run, report, dir>>

-----------------------------------------------------------------------------
(* The database the rows are loaded into *)

\* graph_node_statements.
Nodes ==
  {<<"species", s.id>> : s \in rows.species} \cup {<<"skill", k>> : k \in SkillIds}
  \cup {<<"passive", p>> : p \in PassiveIds} \cup {<<"item", t>> : t \in ItemIds}
  \cup {<<"recipe", r.id>> : r \in rows.recipes} \cup {<<"rule", b>> : b \in rows.rules}

\* The relations the rows state, as [kind, key, from, to]; key is the edge's id.
LearnsRows ==
  UNION {{[kind |-> "learns", key |-> <<s.id, k>>, from |-> <<"species", s.id>>, to |-> <<"skill", k>>] :
            k \in s.learned} : s \in rows.species}
PassiveRows ==
  UNION {{[kind |-> "passive", key |-> <<s.id, k>>, from |-> <<"species", s.id>>, to |-> <<"passive", k>>] :
            k \in s.passives} : s \in rows.species}
DropRows == {[kind |-> "drop", key |-> <<d.id>>, from |-> <<"species", d.pal>>, to |-> <<"item", d.item>>] : d \in rows.drops}
UnlockRows == {[kind |-> "unlock", key |-> <<r.id>>, from |-> <<"recipe", r.id>>, to |-> <<"item", r.unlock>>] :
                 r \in {x \in rows.recipes : x.unlock # Absent}}
References == LearnsRows \cup PassiveRows \cup DropRows \cup UnlockRows
Complete(e) == {e.from, e.to} \subseteq Nodes

RecipeRows ==
  UNION {{[kind |-> "output", key |-> <<r.id>>, from |-> <<"recipe", r.id>>, to |-> <<"item", r.out>>]}
         \cup {[kind |-> "ingredient", key |-> <<r.id, r.ingredients[i]>>, from |-> <<"item", r.ingredients[i]>>,
                to |-> <<"recipe", r.id>>] : i \in DOMAIN r.ingredients} : r \in rows.recipes}
BreedingRows ==
  UNION {{[kind |-> "parent a", key |-> b, from |-> <<"species", b[1]>>, to |-> <<"rule", b>>],
          [kind |-> "parent b", key |-> b, from |-> <<"species", b[2]>>, to |-> <<"rule", b>>],
          [kind |-> "child", key |-> b, from |-> <<"rule", b>>, to |-> <<"species", b[3]>>]} : b \in rows.rules}

\* graph_edge_statements: a reference is an edge when its ends are nodes;
\* recipes and rules are edges whatever their ends.
Edges == {e \in References : Complete(e)} \cup RecipeRows \cup BreedingRows

\* graph_gap_statements: a relation without one of its ends goes to the error book.
Gaps == {e \in References : ~Complete(e)}

\* The primary keys two rows may fight for: an alias by its normalised form,
\* an ingredient edge by recipe and item.
AliasKey(a) == <<a.kind, a.id, NormalizeAlias(a.alias)>>
KeysHold ==
  /\ \A a, b \in rows.aliases : AliasKey(a) = AliasKey(b) => a = b
  /\ \A r \in rows.recipes : Distinct(r.ingredients)

\* finish(): the sums of the report.
Counted(states) == Cardinality({e \in report : e.state \in states})

BookDiffers == Counted({"missing", "ambiguous"}) # Cardinality(Gaps)

\* verify_generated_sql, then finish() and the comparison of the two counts.
Verify ==
  /\ phase = "verify"
  /\ IF ~KeysHold THEN Fail("key")
     ELSE IF \E e \in Edges : ~Complete(e) THEN Fail("foreign key")
     ELSE IF BookDiffers THEN Fail("disagree")
     ELSE Then("write") /\ UNCHANGED <<rows, report>>
  /\ UNCHANGED <<source, run, dir>>

\* write_seed: the directory (0), the SQL files, the report, the manifest last.
Report == Files + 1
Manifest == Files + 2
Put(f) ==
  /\ phase = "write"
  /\ dir' = [k \in DOMAIN dir \cup {f} |-> IF k = f THEN run ELSE dir[k]]
  /\ IF DOMAIN dir' = 0 .. Manifest THEN phase' = "idle" /\ outcome' = "written" ELSE UNCHANGED <<phase, outcome>>
  /\ UNCHANGED <<source, run, rows, report>>
WriteFile == Put(Cardinality(DOMAIN dir))

\* The process is killed, or a write fails; the operator removes the directory.
Crash ==
  /\ phase # "idle"
  /\ Fail("crashed")
  /\ UNCHANGED <<source, run, dir>>
RemoveOutput ==
  /\ phase = "idle" /\ DOMAIN dir # {} /\ outcome # "written"
  /\ dir' = [f \in {} |-> 0]
  /\ UNCHANGED <<source, run, phase, rows, report, outcome>>

Next ==
  \/ Start \/ CollectCatalog \/ ReadSources \/ CheckInputs \/ SkillIndex \/ CompileSpecies \/ CompileSkills \/ CompileItems
  \/ CompileRecipes \/ CompileDrops \/ CompileBreeding \/ Verify \/ WriteFile
  \/ Crash \/ RemoveOutput

Spec == Init /\ [][Next]_vars

-----------------------------------------------------------------------------
(* Properties *)

\* Only a skill may be written with the name space.
Bare(kind, raw) == IF kind = "learns" THEN Strip(Trim(raw)) ELSE Trim(raw)
Alike(kind, a, b) == Fold(Bare(kind, a)) = Fold(Bare(kind, b))
Compiled == phase = "write"

\* Every reference of the sources: its subject, its spelling, the entries it
\* may name.
Refs ==
  UNION {{[kind |-> "learns", subject |-> s.id, raw |-> s.learned[i].skill, index |-> SkillIds] : i \in DOMAIN s.learned}
         \cup {[kind |-> "passive", subject |-> s.id, raw |-> s.passives[i], index |-> PassiveIds] : i \in DOMAIN s.passives}
         : s \in {source.species[i] : i \in DOMAIN source.species}}
  \cup {[kind |-> "unlock", subject |-> r.id, raw |-> r.unlock, index |-> ItemIds] :
          r \in {x \in {source.recipes[i] : i \in DOMAIN source.recipes} : x.unlock # Absent}}
  \cup {[kind |-> "drop", subject |-> d.id, raw |-> d.pal, index |-> SpeciesIds] :
          d \in {source.drops[i] : i \in DOMAIN source.drops}}
TargetOf(e) == IF e.kind = "drop" THEN e.from[2] ELSE e.to[2]
Of(set, r) == {e \in set : e.kind = r.kind /\ e.key[1] = r.subject /\ Alike(r.kind, TargetOf(e), r.raw)}

\* Every reference of the sources ends as an edge to an entry spelled like it or
\* in the error book.  It is an edge only to the entry with its own spelling or
\* to the only one that differs in case, and it is an error only when there is
\* neither: "unresolved relations are never invented" (quality.rs:268).
EveryReferenceAccounted ==
  Compiled => \A r \in Refs :
    LET like == {t \in r.index : Alike(r.kind, t, r.raw)} IN
    /\ Of(Edges, r) \cup Of(Gaps, r) # {}
    /\ \A e \in Of(Edges, r) : TargetOf(e) \in like /\ (TargetOf(e) = Bare(r.kind, r.raw) \/ Cardinality(like) = 1
                                    \/ \E q \in Refs : q.kind = r.kind /\ q.subject = r.subject /\ Bare(q.kind, q.raw) = TargetOf(e))
    /\ r.raw \in {TargetOf(e) : e \in Of(Gaps, r)} => Bare(r.kind, r.raw) \notin r.index /\ Cardinality(like) # 1

\* The report of the references and the error book of the database, which are
\* computed apart, count the same errors: the comparison at the end of
\* generate_seed fails only for a recipe whose unlock item is blank, which is an
\* unresolved reference for the one and no reference for the other.
BookMatchesReport ==
  outcome = "disagree" => \E i \in DOMAIN source.recipes : source.recipes[i].unlock = Blank

\* A name that is not its id, but spelled like it, gives two aliases one key.
Clash(id, name) == name # id /\ NormalizeAlias(name) = NormalizeAlias(id)
SoundSource ==
  LET elems(s) == {s[i] : i \in DOMAIN s} IN
  /\ source.pinned /\ source.approved /\ source.catalog = "whole" /\ DOMAIN source.active # {} /\ PassiveIds # {}
  /\ \A k, l \in DOMAIN source.active : Strip(k) = Strip(l) => k = l
  /\ \A k \in DOMAIN source.active : ValidId(Strip(k)) /\ ~Clash(Strip(k), Trim(source.active[k]))
  /\ \A p \in PassiveIds : ValidId(p) /\ ~Clash(p, Trim(source.passive[p]))
  /\ \A s \in elems(source.species) :
       /\ ValidId(s.id) /\ ~Clash(s.id, s.name)
       /\ \A i, j \in DOMAIN s.learned :
            Alike("learns", s.learned[i].skill, s.learned[j].skill) => s.learned[i].level = s.learned[j].level
  /\ \A t \in elems(source.items) : ValidId(t.id) /\ t.ok /\ ~Clash(t.id, Trim(t.name))
  /\ \A r \in elems(source.recipes) :
       /\ ValidId(r.id) /\ r.ok /\ r.out \in ItemIds /\ r.unlock # Blank
       /\ Distinct(r.ingredients) /\ elems(r.ingredients) \subseteq ItemIds
  /\ \A d \in elems(source.drops) : ValidId(d.id) /\ ValidId(d.pal) /\ d.ok /\ d.item \in ItemIds
  /\ \A f \in {"species", "items", "recipes", "drops"} : Distinct(Column(source[f], IdOf))

\* Sources whose ids are distinct and whose names do not clash with them are
\* compiled: dangling, ambiguous, repeated or misspelled references, rules about
\* unknown species and missing names never stop a run.
SoundSourceIsCompiled ==
  SoundSource => outcome \in {"none", "exists", "crashed", "written"}

\* The rules written hold each pair of parents once, in one order: the planner
\* that reads them would otherwise see a crossing twice.
RulesAreUnordered ==
  Compiled => \A a, b \in rows.rules : {a[1], a[2]} = {b[1], b[2]} /\ a[3] = b[3] => a = b

\* A directory with a manifest holds every file of the run that wrote it, after
\* any crash and any later run.
ManifestMeansWhole ==
  Manifest \in DOMAIN dir => DOMAIN dir = 0 .. Manifest /\ \A f \in DOMAIN dir : dir[f] = dir[Manifest]

=============================================================================
