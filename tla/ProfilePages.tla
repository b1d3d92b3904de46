---------------------------- MODULE ProfilePages ----------------------------
(***************************************************************************)
(* The canonical form from which the identity of a player's snapshot and   *)
(* of its cloud projection is computed (pal-wire, canonical.rs).  Content  *)
(* arrives in any order, with repeated names and facilities counted in     *)
(* pieces; validation refuses what has two readings, canonicalisation      *)
(* sorts, deduplicates and adds up.  Two sections stand for the six: Pals, *)
(* with lists of names, and bases, with counted facilities.                *)
(***************************************************************************)
EXTENDS Integers, Sequences, FiniteSets, Functions, SequencesExt

CONSTANTS Ids,          \* identifiers of Pals and bases, and places of Pals
          Names,        \* skills and buildings
          MaxCount,     \* the largest value of a counter (2^32 - 1)
          MaxNames,     \* MAX_PASSIVE_IDS_PER_PAL and its like
          MaxEntries, MaxWeight  \* bounds of the instance

VARIABLES pals, bases,  \* the content as it arrives
          states,       \* [section -> completeness and counts]
          overall,      \* the declared completeness of the whole
          edit          \* what the last step did: "same", "other" or "state"

canonicalVars == <<pals, bases, states, overall, edit>>

Sections == {"pals", "bases"}
Completeness == {"complete", "partial", "unavailable", "unknown"}
State(completeness, expected, observed) ==
  [completeness |-> completeness, expected |-> expected, observed |-> observed]

CanonicalInit ==
  /\ pals = <<>> /\ bases = <<>>
  /\ states = [s \in Sections |-> State("complete", 0, 0)]
  /\ overall = "complete"
  /\ edit = "same"

-----------------------------------------------------------------------------
\* Canonicalisation.

\* The sequence of a set's elements in order.
SortedSet(S) == [i \in 1..Cardinality(S) |->
                   CHOOSE x \in S : Cardinality({y \in S : y < x}) = i - 1]
ElementsOf(list) == {list[i] : i \in DOMAIN list}

SortDedup(list) == SortedSet(ElementsOf(list))

\* Entries in the order of their identifiers, which validation made distinct.
SortById(entries) ==
  [n \in DOMAIN entries |->
     entries[CHOOSE i \in DOMAIN entries :
               Cardinality({j \in DOMAIN entries : entries[j].id < entries[i].id}) = n - 1]]

\* The total of the facilities of one building.
RECURSIVE TotalFrom(_, _, _)
TotalFrom(facilities, name, i) ==
  IF i > Len(facilities) THEN 0
  ELSE (IF facilities[i].name = name THEN facilities[i].count ELSE 0)
       + TotalFrom(facilities, name, i + 1)
Total(facilities, name) == TotalFrom(facilities, name, 1)

NamesOf(facilities) == {facilities[i].name : i \in DOMAIN facilities}

Merged(facilities) ==
  [n \in DOMAIN SortedSet(NamesOf(facilities)) |->
     LET name == SortedSet(NamesOf(facilities))[n]
     IN [name |-> name, count |-> Total(facilities, name)]]

CanonicalPal(pal) == [pal EXCEPT !.skills = SortDedup(@)]
CanonicalBase(base) == [base EXCEPT !.facilities = Merged(@), !.assigned = SortDedup(@)]

CanonicalPals(ps) == LET sorted == SortById(ps) IN [i \in DOMAIN sorted |-> CanonicalPal(sorted[i])]
CanonicalBases(bs) == LET sorted == SortById(bs) IN [i \in DOMAIN sorted |-> CanonicalBase(sorted[i])]

-----------------------------------------------------------------------------
\* Validation.

Distinct(entries, Key(_)) ==
  \A i, j \in DOMAIN entries : Key(entries[i]) = Key(entries[j]) => i = j

PalsValid(ps) ==
  /\ \A i \in DOMAIN ps : Len(ps[i].skills) <= MaxNames
  /\ Distinct(ps, LAMBDA pal : pal.id) /\ Distinct(ps, LAMBDA pal : pal.place)

BasesValid(bs) ==
  /\ Distinct(bs, LAMBDA base : base.id)
  /\ \A i \in DOMAIN bs : \A name \in NamesOf(bs[i].facilities) :
       Total(bs[i].facilities, name) <= MaxCount

\* validate_snapshot_counts.
CountsValid(s) ==
  CASE s.completeness = "complete" -> s.expected = s.observed
    [] s.completeness = "partial" -> s.expected > 0 /\ s.observed <= s.expected
    [] s.completeness = "unavailable" -> s.expected = 0 /\ s.observed = 0
    [] OTHER -> s.expected = 0

HasContent(section) == IF section = "pals" THEN pals # <<>> ELSE bases # <<>>

Derived(all) ==
  CASE all = {"unavailable"} -> "unavailable"
    [] "unknown" \in all -> "unknown"
    [] all = {"complete"} -> "complete"
    [] OTHER -> "partial"

StatesValid ==
  /\ \A s \in Sections : /\ CountsValid(states[s])
                         /\ states[s].completeness = "unavailable" => ~HasContent(s)
  /\ overall = Derived({states[s].completeness : s \in Sections})

Valid == PalsValid(pals) /\ BasesValid(bases) /\ StatesValid

\* What the identity is a hash of.
Identity == <<CanonicalPals(pals), CanonicalBases(bases), states, overall>>

-----------------------------------------------------------------------------
\* Edits of the content: its meaning stays ("same") or changes ("other").

SwapAt(list, i) == [list EXCEPT ![i] = list[i + 1], ![i + 1] = list[i]]
Swaps(list) == {SwapAt(list, i) : i \in 1..(Len(list) - 1)}
Repeats(list) == {Append(list, list[i]) : i \in DOMAIN list}

\* A facility counted in one piece is counted in two.
SplitAt(facilities, i, n) ==
  Append([facilities EXCEPT ![i].count = @ - n], [name |-> facilities[i].name, count |-> n])
Splits(facilities) ==
  UNION {{SplitAt(facilities, i, n) : n \in 1..(facilities[i].count - 1)} : i \in DOMAIN facilities}

SamePals ==
  \/ pals' \in Swaps(pals)
  \/ \E i \in DOMAIN pals :
       \E l \in Swaps(pals[i].skills) \cup Repeats(pals[i].skills) :
         pals' = [pals EXCEPT ![i].skills = l]
SameBases ==
  \/ bases' \in Swaps(bases)
  \/ \E i \in DOMAIN bases :
       \/ \E l \in Swaps(bases[i].facilities) \cup Splits(bases[i].facilities) :
            bases' = [bases EXCEPT ![i].facilities = l]
       \/ \E l \in Swaps(bases[i].assigned) \cup Repeats(bases[i].assigned) :
            bases' = [bases EXCEPT ![i].assigned = l]

OtherPals ==
  \/ \E id \in Ids, place \in Ids :
       Len(pals) < MaxEntries /\ pals' = Append(pals, [id |-> id, place |-> place, skills |-> <<>>])
  \/ \E i \in DOMAIN pals : \E name \in Names \ ElementsOf(pals[i].skills) :
       pals' = [pals EXCEPT ![i].skills = Append(@, name)]
OtherBases ==
  \/ \E id \in Ids :
       Len(bases) < MaxEntries /\ bases' = Append(bases, [id |-> id, facilities |-> <<>>, assigned |-> <<>>])
  \/ \E i \in DOMAIN bases, name \in Names, count \in 1..2 :
       bases' = [bases EXCEPT ![i].facilities = Append(@, [name |-> name, count |-> count])]
  \/ \E i \in DOMAIN bases : \E id \in Ids \ ElementsOf(bases[i].assigned) :
       bases' = [bases EXCEPT ![i].assigned = Append(@, id)]

RECURSIVE Weight(_)
Weight(entries) ==
  IF entries = <<>> THEN 0
  ELSE LET e == Head(entries)
       IN 1 + Weight(Tail(entries))
          + IF "skills" \in DOMAIN e THEN Len(e.skills) ELSE Len(e.facilities) + Len(e.assigned)

Same ==
  /\ \/ SamePals /\ UNCHANGED bases
     \/ SameBases /\ UNCHANGED pals
  /\ edit' = "same" /\ UNCHANGED <<states, overall>>
Other ==
  /\ \/ OtherPals /\ UNCHANGED bases
     \/ OtherBases /\ UNCHANGED pals
  /\ edit' = "other" /\ UNCHANGED <<states, overall>>

\* Last, the parser declares the sections' and the whole's completeness.
Declare(s, state, whole) ==
  /\ Weight(pals) + Weight(bases) <= 1
  /\ states' = [states EXCEPT ![s] = state] /\ overall' = whole
  /\ edit' = "state" /\ UNCHANGED <<pals, bases>>

CanonicalNext ==
  \/ edit # "state" /\ (Same \/ Other) /\ Weight(pals') + Weight(bases') <= MaxWeight
  \/ \E s \in Sections, c \in Completeness, n, o \in 0..1, whole \in Completeness :
       Declare(s, State(c, n, o), whole)

CanonicalSpec == CanonicalInit /\ [][CanonicalNext]_canonicalVars

-----------------------------------------------------------------------------
\* The identity of a profile does not depend on the order or the repetitions
\* in which the parser delivers it (canonicalize_cloud_profile_sections).
SameProfileSameIdentity ==
  edit' = "same" /\ Valid /\ Valid' => Identity' = Identity

\* Profiles that differ in a Pal, a skill, a facility or an assignment have
\* different identities.
IdentityTellsApart ==
  edit' = "other" /\ Valid /\ Valid' => Identity' # Identity

\* The canonical form is its own canonical form: paginate_cloud_profile
\* canonicalises first and computes the identity of the result again.
CanonicalIsStable ==
  PalsValid(pals) /\ BasesValid(bases) =>
    /\ CanonicalPals(CanonicalPals(pals)) = CanonicalPals(pals)
    /\ CanonicalBases(CanonicalBases(bases)) = CanonicalBases(bases)

\* A snapshot accepted as complete, or as partial, has sections that all say
\* how much there is, and a complete one has every record that was expected
\* (validate_snapshot_section_states).
CompleteMeansComplete ==
  Valid =>
    /\ overall = "complete" => \A s \in Sections : states[s].expected = states[s].observed
    /\ overall \in {"complete", "partial"} =>
         \A s \in Sections : states[s].completeness # "unknown"
    /\ overall = "unavailable" => pals = <<>> /\ bases = <<>>

-----------------------------------------------------------------------------
(***************************************************************************)
(* A canonical profile cut into pages for transport (pal-wire,             *)
(* canonical.rs, paginate_cloud_profile): each section's entries, already  *)
(* sorted, are put on a page until one more would pass the limit of        *)
(* entries or of encoded bytes.  A page carries its index as a             *)
(* variable-length integer, so the same entry costs more on a later page.  *)
(* An entry is its encoded length; its position is its sort key.           *)
(***************************************************************************)

CONSTANTS SectionCount,      \* six in the code
          EntryLengths,      \* encoded lengths of entries
          MaxSectionEntries,        \* entries of a section, in the instance
          MaxPageEntries,    \* MAX_PROJECTION_PAGE_ENTRIES
          MaxPageBytes,      \* MAX_PROJECTION_PAGE_ENCODED_LEN
          MaxPages,          \* MAX_PROJECTION_PAGE_COUNT
          MaxBytes,          \* MAX_CANONICAL_CONTENT_LEN
          IndexEdge          \* first page index whose encoding is longer (128)

VARIABLES entries,      \* [section -> sequence of lengths]
          section, next,   \* the loop's place
          current, pageIndex,
          pages,        \* closed pages, in order, each with its descriptor
          outcome

pagingVars == <<entries, section, next, current, pageIndex, pages, outcome>>

PageSections == 1..SectionCount

PagingInit ==
  /\ entries \in [PageSections -> UNION {[1..n -> EntryLengths] : n \in 0..MaxSectionEntries}]
  /\ section = 0 /\ next = 1 /\ current = <<>> /\ pageIndex = 0
  /\ pages = <<>> /\ outcome = "working"

\* encoded_len of a page: index zero is not encoded at all.
IndexLength(index) == IF index = 0 THEN 0 ELSE IF index < IndexEdge THEN 2 ELSE 3

EncodedLen(index, list) == IndexLength(index) + FoldFunction(+, 0, list)

Finish(how) == outcome' = how /\ UNCHANGED <<entries, section, next, current, pageIndex, pages>>

\* reject_raw_oversized_entries: every entry must fit on a page of its own,
\* were it the first.
RejectRaw ==
  /\ outcome = "working" /\ section = 0
  /\ IF \E s \in PageSections : \E i \in DOMAIN entries[s] : EncodedLen(0, <<entries[s][i]>>) > MaxPageBytes
     THEN Finish("entry too large")
     ELSE section' = 1 /\ UNCHANGED <<entries, next, current, pageIndex, pages, outcome>>

\* close_page: the page and its descriptor, with the first and last key.
Page(list, last) ==
  [section |-> section, index |-> pageIndex, entries |-> list,
   length |-> EncodedLen(pageIndex, list), first |-> last - Len(list) + 1, last |-> last]

OverPage(list) == Len(list) > MaxPageEntries \/ EncodedLen(pageIndex, list) > MaxPageBytes

\* The page is closed and the entry begins the next one, if it fits there.
TurnPage(entry) ==
  /\ pages' = Append(pages, Page(current, next - 1))
  /\ pageIndex' = pageIndex + 1 /\ current' = <<entry>>
  /\ next' = next + 1
  /\ outcome' = IF EncodedLen(pageIndex + 1, <<entry>>) > MaxPageBytes
                THEN "entry too large" ELSE "working"

\* One turn of paginate_entries' loop.
TakeEntry ==
  /\ outcome = "working" /\ section \in PageSections /\ next <= Len(entries[section])
  /\ LET entry == entries[section][next] IN
     IF ~OverPage(Append(current, entry))
     THEN /\ current' = Append(current, entry) /\ next' = next + 1
          /\ UNCHANGED <<pageIndex, pages, outcome>>
     ELSE IF current = <<>>
     THEN outcome' = "entry too large" /\ UNCHANGED <<current, next, pageIndex, pages>>
     ELSE TurnPage(entry)
  /\ UNCHANGED <<entries, section>>

\* The last page of a section is closed if it has entries.
EndSection ==
  /\ outcome = "working" /\ section \in PageSections /\ next > Len(entries[section])
  /\ pages' = IF current = <<>> THEN pages ELSE Append(pages, Page(current, next - 1))
  /\ section' = section + 1 /\ next' = 1 /\ current' = <<>> /\ pageIndex' = 0
  /\ UNCHANGED <<entries, outcome>>

TotalLength == FoldFunction(+, 0, [p \in DOMAIN pages |-> pages[p].length])
TotalEntries == FoldFunction(+, 0, [p \in DOMAIN pages |-> Len(pages[p].entries)])

\* The page limit, the descriptor, and the transport limit.
Describe ==
  /\ outcome = "working" /\ section = SectionCount + 1
  /\ Finish(IF Len(pages) > MaxPages THEN "too many pages"
            ELSE IF TotalLength > MaxBytes THEN "transport too large" ELSE "described")

PagingNext == RejectRaw \/ TakeEntry \/ EndSection \/ Describe

PagingSpec == PagingInit /\ [][PagingNext]_pagingVars

-----------------------------------------------------------------------------
PagesOf(s) == SelectSeq(pages, LAMBDA page : page.section = s)

\* The pages of a described profile hold its entries, each once and in order;
\* a section's pages are numbered from zero and their key ranges follow each
\* other without gap (paginate_entries, close_page).
PagesRebuildTheProfile ==
  outcome = "described" =>
    /\ TotalEntries = FoldFunction(+, 0, [s \in PageSections |-> Len(entries[s])])
    /\ \A s \in PageSections :
         LET ps == PagesOf(s) IN
         /\ FlattenSeq([p \in DOMAIN ps |-> ps[p].entries]) = entries[s]
         /\ \A p \in DOMAIN ps : /\ ps[p].index = p - 1
                                 /\ ps[p].first = IF p = 1 THEN 1 ELSE ps[p - 1].last + 1

\* Every closed page is within both limits, its own index counted.
PagesFit ==
  \A p \in DOMAIN pages :
    /\ Len(pages[p].entries) \in 1..MaxPageEntries
    /\ IndexLength(pages[p].index) + FoldFunction(+, 0, pages[p].entries) <= MaxPageBytes

\* A profile is only refused for an entry that fits on no page it could be
\* put on, and no page is closed before it is full.
RefusedForAReason ==
  /\ outcome = "entry too large" =>
       \E s \in PageSections : \E i \in DOMAIN entries[s] :
         entries[s][i] + IndexLength(Len(pages)) > MaxPageBytes
  /\ \A p \in 1..(Len(pages) - 1) :
       pages[p + 1].section = pages[p].section =>
         \/ Len(pages[p].entries) = MaxPageEntries
         \/ pages[p].length + pages[p + 1].entries[1] > MaxPageBytes
=============================================================================
