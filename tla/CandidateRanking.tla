-------------------------- MODULE CandidateRanking --------------------------
(***************************************************************************)
(* The order in which candidates reach the product agent, the fallback     *)
(* basket and the user: fund_preferences.py, the list of a request's       *)
(* candidates of graph/runtime.py, and the ranking of plan_retrieval in    *)
(* product_index/service.py; and which terms of redemption count as liquid *)
(* (product_index/service.py and compliance/service.py).                   *)
(*                                                                         *)
(* A candidate is [id, category, risk, words], words being the kinds of    *)
(* fund keywords in its tags and rationales.                               *)
(***************************************************************************)
EXTENDS Integers, Sequences, FiniteSets, SequencesExt, Ordering

\* A term is a label, or the days of a fixed term as "90d" (the code's "90" and the
\* character for day).
DaysOf(term) == CASE term = "30d" -> <<30>> [] term = "90d" -> <<90>> [] term = "180d" -> <<180>>
                  [] OTHER -> <<>>

\* _matches_liquidity_preference, _matches_low_risk_liquidity_requirement
CountsAsLiquid(term) ==
  term \in {"T+0", "T+1", "open"} \/ (DaysOf(term) # <<>> /\ DaysOf(term)[1] <= 90)

\* classify_fund_candidate_style
Style(c) ==
  IF c.category # "fund" THEN "other"
  ELSE IF "equity" \in c.words \/ ("bond" \notin c.words /\ c.risk \in {4, 5}) THEN "equity"
  ELSE IF "bond" \in c.words \/ c.risk \in {1, 2} THEN "bond" ELSE "other"

\* fund_preference_rank
FundRank(c, investor) ==
  IF c.category # "fund" \/ investor \notin {"growth", "aggressive"} THEN 0
  ELSE CASE Style(c) = "equity" -> 0 [] Style(c) = "other" -> 1 [] OTHER -> 2

\* sorted() of Python: by key, and in the order of s where keys are equal.
Less(k, l) == \E i \in DOMAIN k : k[i] < l[i] /\ \A j \in 1..(i - 1) : k[j] = l[j]
ByKey(keyOf, set) ==
  {p \in set \X set : \/ Less(keyOf[p[1]], keyOf[p[2]])
                      \/ keyOf[p[1]] = keyOf[p[2]] /\ p[1] < p[2]}
SortedBy(s, keyOf) == Arranged(s, 1..Len(s), ByKey(keyOf, 1..Len(s)))

\* order_fund_candidates_for_profile
OrderFunds(funds, investor) ==
  SortedBy(funds, [i \in DOMAIN funds |-> <<FundRank(funds[i], investor)>>])

\* _build_product_candidates, of what the repository holds for each category.
RequestPool(funds, wealth, stocks, investor) == OrderFunds(funds, investor) \o wealth \o stocks

\* _StaticVectorStore.search, the only store there is: the pool as it is listed.
StaticHits(list, limit) == LET near == FirstOf(list, limit) IN [i \in 1..Len(near) |-> near[i].id]

\* Mutant of HitPosition: what is not a hit is placed as if it were one.
HitPositionOfInput(hits, id, input) ==
  IF \E k \in DOMAIN hits : hits[k] = id
  THEN (CHOOSE k \in DOMAIN hits : hits[k] = id /\ \A l \in 1..(k - 1) : hits[l] # id) - 1
  ELSE input

\* hit_positions.get(id, ...): the first hit of a product, or behind as many
\* places as there are products hit.
HitPosition(hits, id, input) ==
  IF \E k \in DOMAIN hits : hits[k] = id
  THEN (CHOOSE k \in DOMAIN hits : hits[k] = id /\ \A l \in 1..(k - 1) : hits[l] # id) - 1
  ELSE Cardinality(Range(hits)) + input

\* The ranking of plan_retrieval.
Ranked(eligible, hits, preferred, investor) ==
  SortedBy(eligible,
    [i \in DOMAIN eligible |->
       <<IF eligible[i].category \in preferred THEN 0 ELSE 1,
         FundRank(eligible[i], investor),
         HitPosition(hits, eligible[i].id, i - 1)>>])

-----------------------------------------------------------------------------
(***************************************************************************)
(* Properties, over pools of up to three candidates.                       *)
(***************************************************************************)

Kinds == {[category |-> "fund", risk |-> 4, words |-> {"equity", "bond"}],
          [category |-> "fund", risk |-> 2, words |-> {}],
          [category |-> "fund", risk |-> 3, words |-> {}],
          [category |-> "wealth_management", risk |-> 1, words |-> {"bond"}],
          [category |-> "stock", risk |-> 4, words |-> {}]}
Pools == UNION {{[i \in 1..n |-> [id |-> i, category |-> k[i].category, risk |-> k[i].risk,
                                  words |-> k[i].words]] : k \in [1..n -> Kinds]} : n \in 0..3}
Hits == UNION {{h \in [1..n -> 1..3] : IsInjective(h)} : n \in 0..2}
Kept(s, ids) == Sifted(s, {i \in 1..Len(s) : s[i].id \in ids})
OfCategory(s, category) == Sifted(s, {i \in 1..Len(s) : s[i].category = category})
Place(s, c) == CHOOSE i \in DOMAIN s : s[i] = c

\* The ranking loses no candidate and adds none, and what the filters let through
\* is ranked as it would have been among all: the position of a product in the
\* answer of the store does not depend on which others are eligible.
KeepsOrder(list, hits, preferred, investor, ids) ==
  LET all == Ranked(list, hits, preferred, investor) IN
    /\ Range(all) = Range(list)
    /\ Ranked(Kept(list, ids), hits, preferred, investor) = Kept(all, ids)
FilteringKeepsOrder ==
  \A list \in Pools, hits \in Hits, investor \in {"balanced", "growth"},
     preferred \in {{}, {"fund"}, {"wealth_management"}}, ids \in SUBSET (1..3) :
    KeepsOrder(list, hits, preferred, investor, ids)

\* What a growth investor asks for comes first: a preferred category before the
\* others, then equity funds before bond funds, and only then what the store hit
\* before what it did not.
PutsWishesFirst(list, hits, preferred) ==
  LET all == Ranked(list, hits, preferred, "growth") IN
    \A c, d \in Range(list) :
      /\ c.category \in preferred /\ d.category \notin preferred => Place(all, c) < Place(all, d)
      /\ c.category = d.category /\ Style(c) = "equity" /\ Style(d) = "bond"
           => Place(all, c) < Place(all, d)
      /\ c.category = d.category /\ Style(c) = Style(d) =>
           (c.id \in Range(hits) /\ d.id \notin Range(hits) => Place(all, c) < Place(all, d))
WishesComeFirst ==
  \A list \in Pools, hits \in Hits, preferred \in {{}, {"fund"}, {"wealth_management"}} :
    PutsWishesFirst(list, hits, preferred)

\* The order in which the repository listed the products of a category survives the
\* retrieval: with the store of the application, funds that were put in the order of
\* the profile are not put into another one.
KeepsListing(list, preferred, investor) ==
  LET listed == RequestPool(OfCategory(list, "fund"), OfCategory(list, "wealth_management"),
                            OfCategory(list, "stock"), investor)
      limit == IF Len(listed) < 6 THEN 6 ELSE Len(listed)
      all == Ranked(listed, StaticHits(listed, limit), preferred, investor)
  IN \A category \in {"fund", "wealth_management", "stock"} :
       OfCategory(all, category) = OfCategory(listed, category)
RepositoryOrderSurvives ==
  \A list \in Pools, investor \in {"balanced", "growth"}, preferred \in {{}, {"fund"}} :
    KeepsListing(list, preferred, investor)

\* The order in which the candidates are offered is the one that was asked for.
RankingIsSound == FilteringKeepsOrder /\ WishesComeFirst /\ RepositoryOrderSurvives
=============================================================================
