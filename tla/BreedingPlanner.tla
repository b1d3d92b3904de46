--------------------------- MODULE BreedingPlanner ---------------------------
(***************************************************************************)
(* The breeding planner: crates/pal-companion-service/src/breeding.rs.     *)
(*                                                                         *)
(* solve_owned_breeding starts from the species of the owned Pals and      *)
(* visits the sorted rules again and again until a pass changes nothing.   *)
(* A visit may give a species a source or replace the source it has by one *)
(* of a lower rank; what was derived from the replaced source is corrected *)
(* by later visits only.  Every visit is counted against a budget.         *)
(*                                                                         *)
(* Species, rules and instances are numbers, so that their order is that   *)
(* of the identifiers in the code.                                         *)
(***************************************************************************)
EXTENDS Naturals, Sequences, FiniteSets

CONSTANTS
  Species,       \* species, as numbers
  RuleSets,      \* the sets of rules to try: records [id, a, b, c]
  Collections,   \* the sets of owned Pals: records [inst, species, passives]
  Targets,       \* the species asked for
  Requests,      \* the sets of passives asked for
  Limits,        \* values of maximum_generations
  Budgets        \* values of node_budget

VARIABLES
  input,    \* the arguments: rules, owned, required, limit, budget
  known,    \* known: species with a source
  left,     \* the rules left in this pass
  changed,  \* whether this pass changed anything
  visits,   \* node_visits
  result    \* "running", or the answer

vars == <<input, known, left, changed, visits, result>>

-----------------------------------------------------------------------------
(* Sources and ranks.                                                      *)

Owned(inst) == [gen |-> 0, rule |-> 0, a |-> 0, b |-> 0, inst |-> inst]
Bred(r, gen) == [gen |-> gen, rule |-> r.id, a |-> r.a, b |-> r.b, inst |-> 0]
IsBred(k) == k.gen > 0

\* candidate_rank: generation, rule, parents; the tuple's last component is
\* the instance of an owned Pal and the second parent of a bred one.
RankBefore(x, y) ==
  \/ x.gen < y.gen
  \/ x.gen = y.gen /\ x.rule < y.rule
  \/ x.gen = y.gen /\ x.rule = y.rule /\ x.a < y.a
  \/ /\ x.gen = y.gen /\ x.rule = y.rule /\ x.a = y.a
     /\ x.b + x.inst < y.b + y.inst

\* The order of rules_sorted: a pass visits the first rule it has left.
RuleBefore(x, y) ==
  \/ x.c < y.c
  \/ x.c = y.c /\ x.id < y.id
  \/ x.c = y.c /\ x.id = y.id /\ x.a < y.a
  \/ x.c = y.c /\ x.id = y.id /\ x.a = y.a /\ x.b <= y.b

\* The first instance of each owned species.
FirstOwned(O) ==
  LET of(s) == {p \in O : p.species = s}
  IN [s \in {p.species : p \in O} |->
        Owned(CHOOSE i \in {p.inst : p \in of(s)} : \A p \in of(s) : i <= p.inst)]

PlannerInit ==
  \E R \in RuleSets, O \in Collections, Q \in Requests, l \in Limits, b \in Budgets :
    \E target \in Targets :
      /\ input = [rules |-> R, owned |-> O, required |-> Q, limit |-> l, budget |-> b,
                  target |-> target]
      /\ known = FirstOwned(O)
      /\ left = R
      /\ changed = FALSE
      /\ visits = 0
      /\ result = [is |-> "running"]

-----------------------------------------------------------------------------
(* The passes.                                                             *)

Running == result.is = "running"

\* The generation a child of rule r would have now.
ChildGeneration(r) == (IF known[r.a].gen > known[r.b].gen THEN known[r.a].gen ELSE known[r.b].gen) + 1

\* The candidate of rule r is better than the source its child has.
Replaces(r) ==
  IF r.c \notin DOMAIN known THEN TRUE ELSE RankBefore(Bred(r, ChildGeneration(r)), known[r.c])

Applicable(r) ==
  /\ {r.a, r.b} \subseteq DOMAIN known
  /\ ChildGeneration(r) <= input.limit

Visit ==
  /\ Running
  /\ \E r \in left :
       /\ \A q \in left : RuleBefore(r, q)
       /\ visits' = visits + 1
       /\ IF visits + 1 > input.budget
            THEN /\ result' = [is |-> "BudgetExhausted"]
                 /\ UNCHANGED <<known, left, changed>>
            ELSE /\ IF Applicable(r) /\ Replaces(r)
                      THEN /\ known' = [s \in DOMAIN known \cup {r.c} |->
                                          IF s = r.c THEN Bred(r, ChildGeneration(r)) ELSE known[s]]
                           /\ changed' = TRUE
                      ELSE UNCHANGED <<known, changed>>
                 /\ left' = left \ {r}
                 /\ UNCHANGED result
  /\ UNCHANGED input

NextPass ==
  /\ Running /\ left = {} /\ changed
  /\ left' = input.rules
  /\ changed' = FALSE
  /\ UNCHANGED <<input, known, visits, result>>

\* collect_required_nodes: the least set with the target that holds the
\* parents of each bred species in it.
RequiredNodes(target) ==
  LET closed(S) == \A s \in S : IsBred(known[s]) => {known[s].a, known[s].b} \subseteq S
  IN {s \in DOMAIN known : \A S \in SUBSET DOMAIN known : (target \in S /\ closed(S)) => s \in S}

\* The owned donors of every passive asked for, and the warnings.
Coverage == [q \in input.required |-> {p.inst : p \in {o \in input.owned : q \in o.passives}}]
Warnings ==
  {"PARENT_GENDER_NOT_EVALUATED", "DISTINCT_PARENT_INSTANCE_NOT_EVALUATED"}
  \cup (IF input.required # {} THEN {"PASSIVE_INHERITANCE_PROBABILITY_UNKNOWN"} ELSE {})
  \cup (IF \E q \in input.required : Coverage[q] = {} THEN {"MISSING_REQUIRED_PASSIVE_DONOR"} ELSE {})

Finish ==
  /\ Running /\ left = {} /\ ~changed
  /\ result' = IF input.target \in DOMAIN known
                 THEN [is |-> "plan", generations |-> known[input.target].gen,
                       nodes |-> [s \in RequiredNodes(input.target) |-> known[s]],
                       coverage |-> Coverage, warnings |-> Warnings]
                 ELSE [is |-> "Unreachable"]
  /\ UNCHANGED <<input, known, left, changed, visits>>

Next == Visit \/ NextPass \/ Finish

PlannerSpec == PlannerInit /\ [][Next]_vars

-----------------------------------------------------------------------------
(* The reference: species within n generations of the owned ones.          *)

OwnedSpecies == {p.species : p \in input.owned}
Within[n \in Nat] ==
  IF n = 0 THEN OwnedSpecies
           ELSE Within[n - 1] \cup {r.c : r \in {q \in input.rules : {q.a, q.b} \subseteq Within[n - 1]}}

-----------------------------------------------------------------------------
(* Properties *)

\* A plan names the fewest generations there are, although sources are found
\* in the order of the rules and replaced later; a target is unreachable only
\* if no plan of at most maximum_generations exists (the loop of
\* solve_owned_breeding).
PlanIsShortest ==
  /\ result.is = "plan" =>
       /\ result.generations <= input.limit
       /\ input.target \in Within[result.generations]
       /\ result.generations > 0 => input.target \notin Within[result.generations - 1]
  /\ result.is = "Unreachable" => input.target \notin Within[input.limit]

\* A plan can be carried out from its own nodes: every node is owned or bred
\* by a rule from two nodes of the plan, one of the generation just before it
\* and none of a later one, so that no node is its own ancestor
\* (collect_required_nodes, and the corrections of replaced sources).
PlanIsExecutable ==
  result.is = "plan" =>
    LET n == result.nodes
    IN /\ input.target \in DOMAIN n
       /\ \A s \in DOMAIN n :
            IF IsBred(n[s])
              THEN /\ {n[s].a, n[s].b} \subseteq DOMAIN n
                   /\ \E r \in input.rules : r.c = s /\ r.id = n[s].rule /\ r.a = n[s].a /\ r.b = n[s].b
                   /\ n[s].gen = 1 + (IF n[n[s].a].gen > n[n[s].b].gen THEN n[n[s].a].gen ELSE n[n[s].b].gen)
              ELSE s \in OwnedSpecies /\ \E p \in input.owned : p.species = s /\ p.inst = n[s].inst

\* Of the rules that reach a node in its generation the plan takes the first
\* by identifier, whatever order the rules were visited in: the plan does not
\* depend on the history of replacements (candidate_rank).
PlanIsCanonical ==
  result.is = "plan" =>
    \A s \in DOMAIN result.nodes :
      \A r \in input.rules :
        (/\ r.c = s /\ IsBred(result.nodes[s])
         /\ {r.a, r.b} \subseteq Within[result.nodes[s].gen - 1])
          => result.nodes[s].rule <= r.id

\* A search is cut short only if its budget is smaller than one visit of
\* every rule for each generation and one more: passes beyond that never
\* happen, however the rules are ordered (node_budget).
BudgetSuffices ==
  result.is = "BudgetExhausted" =>
    input.budget < Cardinality(input.rules) * (input.limit + 1)
=============================================================================
