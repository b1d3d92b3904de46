------------------------------ MODULE MapLayers ------------------------------
(***************************************************************************)
(* The markers a map region gets besides the pack's own points of          *)
(* interest (pal-overlay-win, approved_map_surface.rs): the supplemental   *)
(* layers of layers.v1.json, named through the terminology file, and the   *)
(* places where Pals spawn; the search entries made from them; and what    *)
(* choosing an entry does to the filters (bin/pal-overlay.rs).             *)
(*                                                                         *)
(* The region is a square of Side map pixels, one world unit wide each.    *)
(* The pack stores map pixels, a projection answers normalised coordinates *)
(* between 0 and 1, so marker coordinates are kept in units of 1/Side      *)
(* pixel: a pixel is Side units, a normalised coordinate n/Side is n.      *)
(***************************************************************************)
EXTENDS Integers, Sequences, FiniteSets

CONSTANTS Side,
          Spots,        \* world positions points are at, some outside
          Layers,       \* layer ids, "boss" among them
          SpeciesOrder, \* the species in the order of their ids
          Placements,   \* [id, spawner, at], the rows of the spawn index
          CorePois,     \* [kind, at], the pack's own points
          MaxPals,      \* 8 in the code
          Precision,    \* 1000 in the code
          MaxPoints, MaxRules, None

VARIABLES stage,        \* "terms", "layers", "spawns", "ready" or "refused"
          terms,        \* [layer -> visibility and, when merged, the target]
          points,       \* points read from the layer file
          rules,        \* spawn rules read
          pois, entries,
          filters,
          selected      \* the entry chosen last

Species == {SpeciesOrder[i] : i \in DOMAIN SpeciesOrder}

vars == <<stage, terms, points, rules, pois, entries, filters, selected>>

Terms == [visibility : {"visible", "hidden_until_verified"}, into : {None}]
         \cup [visibility : {"merged"}, into : Layers]

Marker(kind, filter, night, x, y, at) ==
  [kind |-> kind, filter |-> filter, night |-> night, x |-> x, y |-> y, at |-> at]

\* The pack's points keep the map pixel the pack computed.
CoreMarkers ==
  {Marker(p.kind, None, FALSE, Side * p.at[1], Side * p.at[2], p.at) : p \in CorePois}
CoreEntries == {[target |-> "poi", id |-> p.kind] : p \in CorePois}

Init ==
  /\ stage = "terms"
  /\ terms = [l \in Layers |-> [visibility |-> "visible", into |-> None]]
  /\ points = {} /\ rules = {}
  /\ pois = CoreMarkers /\ entries = CoreEntries
  /\ filters = [kinds |-> {}, pals |-> {}, layers |-> {}, nightOnly |-> FALSE]
  /\ selected = None

\* load_poi_terminology: a merged term names a term of the file.
LoadTerminology(ts) ==
  /\ stage = "terms"
  /\ terms' = ts /\ stage' = "layers"
  /\ UNCHANGED <<points, rules, pois, entries, filters, selected>>

\* The layer a source layer is shown as: one merge, and hidden ones nowhere.
PublicLayer(l) ==
  CASE terms[l].visibility = "hidden_until_verified" -> None
    [] terms[l].visibility = "merged" -> terms[l].into
    [] OTHER -> l

PublicKind(public) == IF public = "boss" THEN "boss" ELSE "supplemental"

InRegion(at) == at[1] \in 0..Side /\ at[2] \in 0..Side

CoordinateKey(v) == (2 * v * Precision + Side) \div (2 * Side)

SameIdentity(a, b) ==
  /\ a.kind = b.kind /\ a.filter = b.filter
  /\ CoordinateKey(a.x) = CoordinateKey(b.x)
  /\ CoordinateKey(a.y) = CoordinateKey(b.y)

\* One point of the layer file: counted whatever becomes of it, and a marker
\* when its layer is public, its place in the region, and no marker stands there.
AddPoint(l, at) ==
  LET public == PublicLayer(l)
      kind == PublicKind(public)
      marker == Marker(kind, IF kind = "boss" THEN None ELSE public, FALSE,
                       at[1], at[2], at)
  IN /\ stage = "layers" /\ Cardinality(points) < MaxPoints
     /\ points' = points \cup {[layer |-> l, at |-> at]}
     /\ pois' = IF \/ public = None \/ ~InRegion(at)
                   \/ \E p \in pois : SameIdentity(p, marker)
                THEN pois ELSE pois \cup {marker}
     /\ UNCHANGED <<stage, terms, rules, entries, filters, selected>>

OfLayer(public) ==
  {p \in pois : IF public = "boss" THEN p.kind = "boss"
                ELSE p.kind = "supplemental" /\ p.filter = public}

\* The counts the file declares must be the ones observed; then each public
\* layer with a point in the region is offered in the search.
SealLayers(honest) ==
  LET public == {PublicLayer(l) : l \in Layers} \ {None}
  IN /\ stage = "layers"
     /\ IF honest
        THEN /\ stage' = "spawns"
             /\ entries' = entries \cup
                  {[target |-> "layer", id |-> l] : l \in {q \in public : OfLayer(q) # {}}}
        ELSE stage' = "refused" /\ UNCHANGED entries
     /\ UNCHANGED <<terms, points, rules, pois, filters, selected>>

\* The placements of a rule that the species has no marker for yet.
NewPlacements(rule) ==
  {p \in Placements :
     /\ p.spawner = rule.spawner
     /\ \A r \in rules : r.species = rule.species /\ r.night = rule.night
                           => r.spawner # rule.spawner}

AddRule(rule) ==
  /\ stage = "spawns" /\ Cardinality(rules) < MaxRules /\ rule \notin rules
  /\ rules' = rules \cup {rule}
  /\ pois' = pois \cup
       {Marker("palSpawn", rule.species, rule.night, p.at[1], p.at[2], p.at) :
          p \in {q \in NewPlacements(rule) : InRegion(q.at)}}
  /\ UNCHANGED <<stage, terms, points, entries, filters, selected>>

SealSpawns ==
  /\ stage = "spawns"
  /\ stage' = "ready"
  /\ entries' = entries \cup
       {[target |-> "pal", id |-> p.filter] : p \in {q \in pois : q.kind = "palSpawn"}}
  /\ UNCHANGED <<terms, points, rules, pois, filters, selected>>

Least(pals) ==
  LET least == CHOOSE i \in DOMAIN SpeciesOrder :
                 /\ SpeciesOrder[i] \in pals
                 /\ \A j \in 1..(i - 1) : SpeciesOrder[j] \notin pals
  IN SpeciesOrder[least]

\* At the limit the first of the sorted selection makes room.
WithPal(pals, species) ==
  IF species \in pals THEN pals
  ELSE (IF Cardinality(pals) = MaxPals THEN pals \ {Least(pals)} ELSE pals) \cup {species}

FiltersFor(entry) ==
  CASE entry.target = "pal" -> [filters EXCEPT !.pals = WithPal(@, entry.id)]
    [] entry.target = "poi" -> [filters EXCEPT !.kinds = @ \cup {entry.id}]
    [] entry.id = "boss" -> [filters EXCEPT !.kinds = @ \cup {"boss"}]
    [] OTHER -> [filters EXCEPT !.layers = @ \cup {entry.id}]

Select(entry) ==
  /\ stage = "ready" /\ entry \in entries
  /\ filters' = FiltersFor(entry) /\ selected' = entry
  /\ UNCHANGED <<stage, terms, points, rules, pois, entries>>

\* The settings window changes the filters as a whole.
ChangeFilters(night) ==
  /\ stage = "ready"
  /\ filters' = [filters EXCEPT !.nightOnly = night, !.kinds = {}, !.layers = {}]
  /\ selected' = None
  /\ UNCHANGED <<stage, terms, points, rules, pois, entries>>

Rules == [species : Species, spawner : {p.spawner : p \in Placements}, night : BOOLEAN]

Next ==
  \/ \E ts \in [Layers -> Terms] : LoadTerminology(ts)
  \/ \E l \in Layers, at \in Spots : AddPoint(l, at)
  \/ \E honest \in BOOLEAN : SealLayers(honest)
  \/ \E rule \in Rules : AddRule(rule)
  \/ SealSpawns
  \/ \E entry \in entries : Select(entry)
  \/ \E night \in BOOLEAN : ChangeFilters(night)

Spec == Init /\ [][Next]_vars

-----------------------------------------------------------------------------
\* The markers the expanded map draws under the filters (draw_pois).
Enabled(p) ==
  CASE p.kind = "palSpawn" -> p.filter \in filters.pals /\ (filters.nightOnly => p.night)
    [] p.kind = "supplemental" -> p.filter \in filters.layers
    [] OTHER -> p.kind \in filters.kinds

Answers(p, entry) ==
  CASE entry.target = "pal" -> p.kind = "palSpawn" /\ p.filter = entry.id
    [] entry.target = "poi" -> p.kind = entry.id
    [] OTHER -> p \in OfLayer(entry.id)

\* Choosing a search entry leaves a marker of what was chosen on the map, at
\* the limit of selected Pals too (filters_for_search_selection); the night
\* filter, which the choice leaves alone, may hide a Pal of the day.
SelectedIsShown ==
  selected # None /\ ~filters.nightOnly =>
    \E p \in pois : Enabled(p) /\ Answers(p, selected)

\* The night filter shows a Pal at every place where a rule spawns it at
\* night, also where a rule of the day spawns it (append_pal_spawn_markers).
NightPlacesAreShown ==
  \A r \in rules, q \in Placements :
    r.night /\ q.spawner = r.spawner /\ InRegion(q.at) =>
      \E p \in pois : /\ p.kind = "palSpawn" /\ p.filter = r.species
                      /\ p.night /\ p.at = q.at

=============================================================================
