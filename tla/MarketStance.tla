---------------------------- MODULE MarketStance ----------------------------
(***************************************************************************)
(* recommendation/intelligence/service.py: the view of the market that is  *)
(* given to the market agent as its facts, from the day's changes of the   *)
(* indices and the counts of a news digest, or from fixed texts when there *)
(* is no market data service.                                              *)
(*                                                                         *)
(* A change is an integer in hundredths of a percent.  A digest is <<>>    *)
(* (no service, a failed search, or one without items) or                  *)
(* <<[positive, negative]>>.                                               *)
(***************************************************************************)
EXTENDS Integers, Sequences, FiniteSets

Count(changes, sign) ==
  Cardinality({i \in DOMAIN changes : IF sign = "up" THEN changes[i] > 0 ELSE changes[i] < 0})
Sums(changes) ==
  LET sum[i \in 0..Len(changes)] == IF i = 0 THEN 0 ELSE sum[i - 1] + changes[i] IN sum
Total(changes) == Sums(changes)[Len(changes)]

\* The average change is above 0.2 percent, or below -0.2; no index, no change.
Rises(changes) == Total(changes) > 20 * Len(changes)
Falls(changes) == Total(changes) < -20 * Len(changes)

\* _sentiment_from_change
SentimentFromChange(changes) ==
  IF Rises(changes) THEN "positive" ELSE IF Falls(changes) THEN "negative" ELSE "neutral"

\* _stance_from_change
StanceFromChange(changes) ==
  IF Rises(changes) /\ Count(changes, "up") > Count(changes, "down") THEN "offensive"
  ELSE IF Falls(changes) /\ Count(changes, "down") > Count(changes, "up") THEN "defensive"
  ELSE "balanced"

\* _apply_news_signal: bad news decides, good news only of a market that is not bad.
ApplyNews(view, news) ==
  IF news.negative > news.positive THEN [sentiment |-> "negative", stance |-> "defensive"]
  ELSE IF /\ news.positive > news.negative
          /\ view.sentiment # "negative" /\ view.stance # "defensive"
  THEN [sentiment |-> "positive", stance |-> "offensive"]
  ELSE view

\* build_recommendation_snapshot
MarketView(changes, digest) ==
  LET view == [sentiment |-> SentimentFromChange(changes), stance |-> StanceFromChange(changes)]
  IN IF digest = <<>> THEN view ELSE ApplyNews(view, digest[1])

\* build_snapshot: words, the kinds of keywords in the texts.
ViewOfTexts(words) ==
  LET sentiment == IF "swings" \in words THEN "neutral"
                   ELSE IF "weak" \in words THEN "negative"
                   ELSE IF "strong" \in words THEN "positive" ELSE "neutral"
  IN [sentiment |-> sentiment,
      stance |-> IF sentiment = "negative" \/ "shelter" \in words THEN "defensive"
                 ELSE IF sentiment = "positive" /\ "growth" \in words THEN "offensive"
                 ELSE "balanced"]

\* The categories of a snapshot, whichever way its stance was found.
Preferred(view) ==
  IF view.stance = "defensive" THEN {"wealth_management", "fund"} ELSE {"fund", "stock"}
Avoided(view) == IF view.stance = "defensive" THEN {"stock"} ELSE {}

-----------------------------------------------------------------------------
(***************************************************************************)
(* Properties, over up to three indices and a small digest.                *)
(***************************************************************************)

Changes == UNION {[1..n -> {-100, -21, 0, 21, 100}] : n \in 0..3}
Digests == {<<>>} \union {<<d>> : d \in [positive: 0..2, negative: 0..2]}
Words == SUBSET {"swings", "weak", "strong", "shelter", "growth"}
StanceRank == [defensive |-> 1, balanced |-> 2, offensive |-> 3]
SentimentRank == [negative |-> 1, neutral |-> 2, positive |-> 3]

AtLeast(better, worse) ==
  /\ StanceRank[better.stance] >= StanceRank[worse.stance]
  /\ SentimentRank[better.sentiment] >= SentimentRank[worse.sentiment]

\* Nothing better about the market makes the view of it worse: neither indices that
\* did better nor bad stories less or good stories more, although counts, averages
\* and news are weighed one after the other with thresholds of their own.
Improves(better, changes) ==
  Len(better) = Len(changes) /\ \A i \in 1..Len(changes) : better[i] >= changes[i]
BetterMarketNeverWorsens ==
  \A changes \in Changes, digest \in Digests :
    LET view == MarketView(changes, digest) IN
      /\ \A better \in Changes :
           Improves(better, changes) => AtLeast(MarketView(better, digest), view)
      /\ \A d \in Digests :
           /\ digest # <<>> /\ d # <<>>
           /\ d[1].positive >= digest[1].positive /\ d[1].negative <= digest[1].negative
           => AtLeast(MarketView(changes, d), view)

\* A view of the day's data is of one mind: it shelters only from a market that it
\* finds bad and attacks only in one that it finds good, whatever the news add; and
\* no view, of data or texts, prefers what it avoids.
OfOneMind(view) ==
  /\ view.stance = "offensive" => view.sentiment = "positive"
  /\ view.stance = "defensive" => view.sentiment = "negative"
ViewsAreOfOneMind ==
  LET ofData == {MarketView(c, d) : c \in Changes, d \in Digests} IN
    /\ \A view \in ofData : OfOneMind(view)
    /\ \A view \in ofData \union {ViewOfTexts(w) : w \in Words} :
         Preferred(view) \intersect Avoided(view) = {}

\* The facts that the market agent is given.
MarketFactsAreFair == BetterMarketNeverWorsens /\ ViewsAreOfOneMind
=============================================================================
