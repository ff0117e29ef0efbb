----------------------------- MODULE RoutePacks -----------------------------
(***************************************************************************)
(* Prompt routes: route packs of the repository and of the profile         *)
(* (route_packs.py), the route a prompt is given (prompt_routes.py), the   *)
(* catalog for a prompt that has none (prompt_route_catalog.py), and the   *)
(* part of the session's first context that lists them (context.py), which *)
(* has a budget: what does not fit is left out, and counted.               *)
(*                                                                         *)
(* Sizes stand for bytes of JSON; a list is as large as its items.  Packs  *)
(* are ordered by id, here a number.  A file that does not parse is as     *)
(* good as none.  (_compact_command_index_entry only ever empties a list   *)
(* of rules that is empty already, so no entry gets smaller by it.)        *)
(***************************************************************************)
EXTENDS Collections

CONSTANTS
  ShippedPacks,  \* packs in the repository
  ProfilePacks,  \* packs a profile may add
  Tokens,        \* words a pack looks for in a prompt
  IndexBudget, SectionBudget, CatalogBudget

VARIABLES
  custom,  \* the packs of the profile
  route    \* what the last prompt was given: the wordbook's route, a pack's or the catalog

vars == <<custom, route>>

MarkerSize == 1
Prompts == [tokens : SUBSET Tokens, wordbook : BOOLEAN, weak : BOOLEAN]

\* load_route_packs: a profile pack replaces the repository's of its id.
Packs ==
  custom \cup {p \in ShippedPacks : \A q \in custom : q.id # p.id}

\* The packs in the order Precedes puts them: each after those before it.
Sorted(packs, Precedes(_, _)) ==
  [i \in 1..Cardinality(packs) |->
     CHOOSE p \in packs : Cardinality({q \in packs : Precedes(q, p)}) = i - 1]

ById(p, q) == p.id < q.id

\* _command_index_sort_key: profile packs first.
ByKey(p, q) == IF p.source = q.source THEN p.id < q.id ELSE p.source = "profile"

-----------------------------------------------------------------------------
(* The route of a prompt.                                                  *)

\* match_pack_route: the first trigger pack whose words are there.
Matches(pack, words) ==
  /\ pack.bucket = "trigger"
  /\ pack.required \subseteq words
  /\ pack.any = {} \/ pack.any \cap words # {}

MatchPackRoute(words) ==
  {p \in Packs : Matches(p, words) /\ \A q \in Packs : Matches(q, words) => p.id <= q.id}

\* resolve_prompt_route and the prompt hook: the wordbook first; without a
\* route, a prompt with a weak signal is given the catalog.
Resolve(p) ==
  IF p.wordbook THEN {<<"builtin">>}
  ELSE IF MatchPackRoute(p.tokens) # {} THEN {<<"pack", q.id>> : q \in MatchPackRoute(p.tokens)}
  ELSE IF p.weak THEN {<<"catalog">>} ELSE {}

-----------------------------------------------------------------------------
(* The budgets.                                                            *)

SizeOf(items) == MapThenSumSet(LAMBDA i : items[i].size, DOMAIN items)
Weight(packs) == MapThenSumSet(LAMBDA p : p.size, packs)
Fits(entries) == Weight(entries) <= IndexBudget

\* _append_after_droppable_eviction: entries without rules make way from the
\* end, until the one with rules fits; all of them, if it never does.
EvictDroppable(kept, entry) ==
  LET droppable == {e \in kept : ~e.rules}
      From(e) == {d \in droppable : ~ByKey(d, e)}
      enough == {e \in droppable : Fits((kept \ From(e)) \cup {entry})}
      gone == {d \in droppable : \A e \in enough : ~ByKey(d, e)}
  IN IF enough = {} THEN [kept |-> kept \ gone, dropped |-> gone \cup {entry}]
     ELSE [kept |-> (kept \ gone) \cup {entry}, dropped |-> gone]

\* A bug to be caught: the last entry makes way, whatever it is.
IndexEntryEvictingAny(acc, entry) ==
  LET final == {e \in acc.kept : \A d \in acc.kept : ~ByKey(e, d)} IN
  IF Fits(acc.kept \cup {entry}) THEN [acc EXCEPT !.kept = @ \cup {entry}]
  ELSE IF entry.rules /\ Fits((acc.kept \ final) \cup {entry})
  THEN [kept |-> (acc.kept \ final) \cup {entry}, dropped |-> acc.dropped \cup final]
  ELSE [acc EXCEPT !.dropped = @ \cup {entry}]

IndexEntry(acc, entry) ==
  IF Fits(acc.kept \cup {entry}) THEN [acc EXCEPT !.kept = @ \cup {entry}]
  ELSE IF entry.rules
  THEN LET after == EvictDroppable(acc.kept, entry)
       IN [after EXCEPT !.dropped = @ \cup acc.dropped]
  ELSE [acc EXCEPT !.dropped = @ \cup {entry}]

\* _command_index.  What is kept stays in the order of the keys.
Indexed == {p \in Packs : p.bucket # "listed_lazy"}
IndexOrder == Sorted(Indexed, ByKey)
CommandIndex(order) == FoldLeft(IndexEntry, [kept |-> {}, dropped |-> {}], order)

\* The marker that says how many were dropped is left out if it does not fit.
IndexSize(index) ==
  Weight(index.kept)
    + IF index.dropped # {} /\ Weight(index.kept) + MarkerSize <= IndexBudget THEN MarkerSize ELSE 0

\* How many items are shown next to rest: the longest beginning that fits,
\* with the marker unless nothing is left out.
Begun(items, budget, rest) ==
  LET marked(n) == IF n < Len(items) THEN MarkerSize ELSE 0
      some == {n \in 1..Len(items) :
                 \A k \in 1..n : rest + SizeOf(SubSeq(items, 1, k)) + marked(k) <= budget}
  IN IF rest > budget THEN 0 ELSE Max(some \cup {0})

\* A list cut to its first n items; the marker counts the others.
Cut(items, n) == [shown |-> SubSeq(items, 1, n), omitted |-> Len(items) - n]

\* _listed_item tells of a pack that was dropped from the index.
ListedItem(pack, index) ==
  [id |-> pack.id, size |-> IF pack \in index.dropped THEN 2 ELSE 1]

Cards == Sorted({p \in Packs : p.bucket = "always_inject"}, ById)
Others == Sorted({p \in Packs : p.bucket # "always_inject"}, ById)
Listed(packs, index) == [i \in DOMAIN packs |-> ListedItem(packs[i], index)]

\* The while loop of _budget_route_packs_section: from c cards and l items of
\* the list, the list is shortened item by item, and then the cards.
CutToFit(cards, listed, rest, c, l) ==
  LET size(i, j) == SizeOf(SubSeq(cards, 1, i)) + SizeOf(SubSeq(listed, 1, j)) + 2 * MarkerSize + rest
      order == [n \in 0..(c + l) |-> IF n <= l THEN <<c, l - n>> ELSE <<c + l - n, 0>>]
      enough == {n \in 0..(c + l) : size(order[n][1], order[n][2]) <= SectionBudget} \cup {c + l}
  IN {[cards |-> Cut(cards, p[1]), listed |-> Cut(listed, p[2])] : p \in {order[Min(enough)]}}

\* _budget_route_packs_section: cards and list are shortened, each as if the
\* other stayed whole; then both until they fit together.
RoutePacksSection(cards, listed, rest) ==
  IF SizeOf(cards) + SizeOf(listed) + rest <= SectionBudget
  THEN {[cards |-> Cut(cards, Len(cards)), listed |-> Cut(listed, Len(listed))]}
  ELSE UNION {CutToFit(cards, listed, rest, n[1], n[2]) :
                n \in {<<Begun(cards, SectionBudget, SizeOf(listed) + rest),
                         Begun(listed, SectionBudget, SizeOf(cards) + rest)>>}}

\* build_route_catalog: a card for the wordbook and one for every pack.
CatalogCards(packs) ==
  <<[id |-> 0, size |-> 1]>> \o [i \in DOMAIN packs |-> [id |-> packs[i].id, size |-> 1]]
Catalog(cards) ==
  IF SizeOf(cards) <= CatalogBudget THEN Cut(cards, Len(cards))
  ELSE Cut(cards, Begun(cards, CatalogBudget, 0))

-----------------------------------------------------------------------------
Init == custom = {} /\ route = {}

SavePack(pack) ==
  /\ custom' = {p \in custom : p.id # pack.id} \cup {pack}
  /\ route' = {}

RemovePack(pack) ==
  /\ custom' = custom \ {pack}
  /\ route' = {}

\* The prompt hook; `agent-tools prompt-check` resolves alike.
UserPromptSubmit(p) ==
  /\ route' = Resolve(p)
  /\ UNCHANGED custom

Next ==
  \/ \E pack \in ProfilePacks : SavePack(pack)
  \/ \E pack \in custom : RemovePack(pack)
  \/ \E p \in Prompts : UserPromptSubmit(p)

Spec == Init /\ [][Next]_vars

-----------------------------------------------------------------------------
(* What an agent must not do is not lost to a budget: the command index    *)
(* leaves a pack with rules out only when it does not fit next to those    *)
(* with rules before it, keeps within its budget, and every pack is in it  *)
(* or told of as dropped; the section and the catalog show or count every  *)
(* pack, and exceed their budgets only with nothing left to leave out      *)
(* (_command_index, _append_after_droppable_eviction,                      *)
(* _budget_route_packs_section, _budget_catalog).                          *)
RulesSurviveTheBudget ==
  \A index \in {CommandIndex(IndexOrder)} :
    /\ Weight(index.kept) <= IndexBudget
    /\ index.kept \cap index.dropped = {} /\ index.kept \cup index.dropped = Indexed
    /\ \A entry \in index.dropped :
         entry.rules => ~Fits({e \in index.kept : e.rules /\ ByKey(e, entry)} \cup {entry})
    /\ \A cards \in {Cards}, listed \in {Listed(Others, index)}, rest \in {IndexSize(index)} :
         \A section \in RoutePacksSection(cards, listed, rest) :
           /\ Len(section.cards.shown) + section.cards.omitted = Len(cards)
           /\ Len(section.listed.shown) + section.listed.omitted = Len(listed)
           /\ section.cards.shown # <<>> \/ section.listed.shown # <<>> =>
                SizeOf(section.cards.shown) + SizeOf(section.listed.shown) + rest <= SectionBudget
    /\ \A catalog \in {Catalog(CatalogCards(Sorted(Packs, ById)))} :
         /\ Len(catalog.shown) + catalog.omitted = Cardinality(Packs) + 1
         /\ catalog.shown # <<>> => SizeOf(catalog.shown) <= CatalogBudget
=============================================================================
