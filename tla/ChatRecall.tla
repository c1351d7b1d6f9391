----------------------------- MODULE ChatRecall -----------------------------
(***************************************************************************)
(* chat/recall_service.py and chat/qdrant_store.py: which earlier messages *)
(* of a user are put into the prompt of the user profile agent.            *)
(*                                                                         *)
(* A point of the index is a message [user, session, content, print,       *)
(* overlaps, memory, density, bucket, likeness]: print is the fingerprint  *)
(* of its normalised content (<<>> if it has none), overlaps how many of   *)
(* the tags that are wanted it has, density in percent (<<>> if unknown),  *)
(* likeness the score of the vector search.  Scores are in ten-thousandths *)
(***************************************************************************)
EXTENDS Integers, Sequences, FiniteSets, SequencesExt, Ordering

Threshold == 7000
MostSnippets == 3

\* _freshness_bonus: the bucket was determined when the message was indexed.
Freshness(bucket) ==
  CASE bucket = "last_30d" -> 800 [] bucket = "last_90d" -> 400 [] bucket = "last_365d" -> -200
    [] bucket = "none" -> 0 [] OTHER -> -1200

\* _score_hit
Score(m) ==
  m.likeness + 2500 * m.overlaps.preference + 800 * m.overlaps.topic + 1200 * m.overlaps.symbol
  + (IF m.memory THEN 1800 ELSE 0)
  + (IF m.density = <<>> THEN 500 ELSE 15 * m.density[1])
  - (IF m.density # <<>> /\ m.density[1] < 15 THEN 4500 ELSE 0)
  + Freshness(m.bucket)

\* QdrantChatMessageStore.search: the user's messages but those of a session, as a list
\* from the nearest to the farthest.
Own(points, owner, excluded) ==
  {i \in 1..Len(points) : points[i].user = owner /\ points[i].session # excluded}
Nearer(points) ==
  {p \in (1..Len(points)) \X (1..Len(points)) :
     \/ points[p[1]].likeness > points[p[2]].likeness
     \/ points[p[1]].likeness = points[p[2]].likeness /\ p[1] < p[2]}
Search(points, owner, excluded, limit) ==
  FirstOf(Arranged(points, Own(points, owner, excluded), Nearer(points)), limit)

\* _rerank_hits: a stable sort, highest first.
Above(hits) ==
  {p \in (1..Len(hits)) \X (1..Len(hits)) :
     LET m == hits[p[1]]
         n == hits[p[2]] IN
       \/ Score(m) > Score(n)
       \/ Score(m) = Score(n) /\ m.likeness > n.likeness
       \/ Score(m) = Score(n) /\ m.likeness = n.likeness /\ p[1] < p[2]}
Reranked(hits) == Arranged(hits, 1..Len(hits), Above(hits))

Repeats(m, n) == m.content = n.content \/ (m.print # <<>> /\ m.print = n.print)
Showable(m) == Score(m) >= Threshold /\ m.content # "blank"

\* _select_snippets, in one pass over the ranked hits: the places taken so far.
Take(before, ranked, i, limit) ==
  IF /\ Cardinality(before) < limit /\ Showable(ranked[i])
     /\ \A j \in before : ~Repeats(ranked[i], ranked[j])
  THEN before \union {i} ELSE before
Takes(ranked, limit) ==
  LET taken[i \in 0..Len(ranked)] ==
        IF i = 0 THEN {} ELSE Take(taken[i - 1], ranked, i, limit)
  IN taken
Selected(ranked, limit) == Sifted(ranked, Takes(ranked, limit)[Len(ranked)])

\* ChatHistoryRecallService.recall
Asked(limit) == Max({8 * limit, 20})
Shown(limit) == Min({limit, MostSnippets})
Recall(points, owner, excluded, limit) ==
  Selected(Reranked(Search(points, owner, excluded, Asked(limit))), Shown(limit))

-----------------------------------------------------------------------------
(***************************************************************************)
(* Properties, over indices of up to three messages, and of four of the    *)
(* user's.                                                                 *)
(***************************************************************************)

Wanted(p) == [preference |-> p, topic |-> 0, symbol |-> 0]
Message(owner, session, content, print, p, likeness) ==
  [user |-> owner, session |-> session, content |-> content, print |-> print, overlaps |-> Wanted(p),
   memory |-> p > 0, density |-> IF content = "short" THEN <<10>> ELSE <<60>>,
   bucket |-> "last_30d", likeness |-> likeness]
Messages ==
  {Message("u1", "s1", c, <<c>>, p, l) : c \in {"a", "b", "c", "d", "short"}, p \in {0}, l \in {5000, 5500}}
    \union {Message("u1", "s1", "a_too", <<"a">>, 0, 5200), Message("u1", "s2", "b", <<>>, 1, 2000),
            Message("u2", "s3", "e", <<"e">>, 1, 9000), Message("u1", "s2", "blank", <<"blank">>, 1, 8000)}
Lists(messages, n) == {i \in [1..n -> messages] : IsInjective(i)}
Few == UNION {Lists(Messages, n) : n \in {0, 1, 3}}
Rivals == {m \in Messages : m.likeness \in {2000, 5200, 5500}}
Indices == Few \union Lists(Rivals, 4)

\* A prompt gets a user's own messages only, none of the session that is excluded,
\* at most three, no two of them the same message, and none below the threshold;
\* and, unless the store was asked for fewer than the user has, what is left out
\* repeats one that is shown or was beaten by as many as may be shown.
RecallsFairly(points, owner, excluded, limit) ==
  LET shown == Recall(points, owner, excluded, limit)
      own == Own(points, owner, excluded) IN
    /\ Len(shown) <= Shown(limit)
    /\ \A k \in DOMAIN shown : \E i \in own : shown[k] = points[i] /\ Score(points[i]) >= Threshold
    /\ \A k, l \in DOMAIN shown : k < l => ~Repeats(shown[k], shown[l])
    /\ Cardinality(own) <= Asked(limit) =>
         \A i \in own : Showable(points[i]) =>
           \E k \in DOMAIN shown :
             /\ Score(shown[k]) >= Score(points[i])
             /\ Repeats(points[i], shown[k]) \/ Len(shown) = Shown(limit)
RecallIsSound ==
  \A points \in Indices, excluded \in {"none", "s2"}, limit \in {2, 10} :
    RecallsFairly(points, "u1", excluded, limit)
=============================================================================
