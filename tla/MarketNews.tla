------------------------------ MODULE MarketNews ------------------------------
(***************************************************************************)
(* What market_news.py makes of search results: which of them are shown,   *)
(* how each is classified, and the temperature of the digest.              *)
(***************************************************************************)
EXTENDS Naturals, Sequences, FiniteSets

\* A raw result is [title, url, words]: title and url as _dedupe_title_key and
\* _dedupe_url_key see them, or Missing; words: the kinds of keywords in its text.
Missing == "missing"
KeysOf(result) ==
  {<<"title", result.title>>} \union
    (IF result.url = Missing THEN {} ELSE {<<"url", result.url>>})

\* The keys that are seen once the results in items are kept.
Seen(results, items) == UNION {KeysOf(results[j]) : j \in items}

\* One turn of the loop of _normalize_tavily_results: result i is left out if it has no
\* title or a key that was seen.
Normalize(items, results, i) ==
  IF results[i].title # Missing /\ KeysOf(results[i]) \intersect Seen(results, items) = {}
  THEN items \union {i} ELSE items

\* _normalize_tavily_results: which results are kept.
Normalized(results) ==
  LET items[i \in 0..Len(results)] == IF i = 0 THEN {} ELSE Normalize(items[i - 1], results, i)
  IN items
Items(results) == Normalized(results)[Len(results)]

\* classify_market_news_sentiment
Sentiment(result) ==
  IF "negative" \in result.words THEN "negative"
  ELSE IF "positive" \in result.words THEN "positive" ELSE "neutral"

\* _build_digest, _temperature
Count(results, sentiment) == Cardinality({i \in Items(results) : Sentiment(results[i]) = sentiment})
Temperature(results) ==
  LET good == Count(results, "positive")  bad == Count(results, "negative")
  IN IF good > bad THEN "long" ELSE IF bad > good THEN "short" ELSE "even"

-----------------------------------------------------------------------------
(***************************************************************************)
(* Properties, over lists of up to three results.                          *)
(***************************************************************************)

RawResults == [title: {Missing, "t1", "t2", "t3"}, url: {Missing, "u1", "u2"},
               words: {{"positive"}, {"negative"}}]
Searches == UNION {[1..n -> RawResults] : n \in 0..3}

\* A story is shown once: no two items share a title or an address, and what is left
\* out shares one with an item that is shown, so that no story gets lost.
ShowsOnce(results) ==
  \A i \in 1..Len(results) : results[i].title # Missing =>
    (i \in Items(results)
       <=> \A j \in Items(results) : j < i => KeysOf(results[i]) \intersect KeysOf(results[j]) = {})
StoriesAreShownOnce == \A results \in Searches : ShowsOnce(results)

\* Repeating a story does not change the temperature of the market.
RepeatsDoNotHeat ==
  \A results \in {r \in Searches : Len(r) <= 2} : \A i \in 1..Len(results) :
    Temperature(Append(results, results[i])) = Temperature(results)

\* However often a story is found it counts once.
RepeatsCountOnce == StoriesAreShownOnce /\ RepeatsDoNotHeat
=============================================================================
