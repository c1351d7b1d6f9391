-------------------------- MODULE ChatClient_proofs --------------------------
(***************************************************************************)
(* Proofs about ChatClient, for any number of sessions, questions, pieces  *)
(* and failures: the input is closed only while a reply is on its way, and *)
(* a question stays on the page while it is answered; and once all is      *)
(* quiet on a tidy page, it shows what is stored.                          *)
(***************************************************************************)
EXTENDS ChatClient, SequenceTheorems, TLAPS

Kinds == {"delta", "done", "error"}
Shown == MessagesOf(Questions)
Chosen == Sessions \union {None}
Rendering == [sessions: SUBSET Sessions, active: Chosen, streaming: BOOLEAN]
Openings == [at: {"no", "list", "create", "came"}, got: SUBSET Sessions, done: BOOLEAN]
Loads == [at: {"none", "asked", "answered"}, of: Chosen, got: Seq(Shown), clean: BOOLEAN]
Creations == [of: Chosen, for: Questions \union {None}]
Streams == [at: {"none", "creating", "posted", "open", "over"}, of: Chosen,
            kept: 0..MaxPieces, calm: BOOLEAN]
Replies == [at: {"off", "on"}, of: Chosen, said: 0..MaxPieces]

PageType ==
  /\ sessions \in SUBSET Sessions /\ active \in Chosen /\ messages \in Seq(Shown)
  /\ streaming \in BOOLEAN /\ seen \in Rendering /\ effected \in Chosen

RequestType ==
  /\ opening \in Openings /\ making \in SUBSET Creations
  /\ load \in Loads /\ (load.at # "none" => load.of \in Sessions)
  /\ deleting \in [Sessions -> {"no", "asked", "gone"}]
  /\ stream \in [Questions -> Streams]

ServerType ==
  /\ log \in [Sessions -> Seq(Shown) \union {None}]
  /\ server \in [Questions -> Replies]
  /\ wire \in [Questions -> Seq(Kinds)]

\* With n pieces taken, no more pieces come than MaxPieces: an event that is no piece may
\* have been put before the later ones.
Fits(w, n) ==
  \A i \in DOMAIN w : w[i] = "delta" =>
    \/ n + i <= MaxPieces
    \/ n + i <= MaxPieces + 1 /\ \E j \in 1..(i - 1) : w[j] # "delta"

\* A question waits for at most one creation, and nothing else.
WaitInv ==
  \A m \in making : m.for # None =>
    /\ stream[m.for].at = "creating"
    /\ \A n \in making : n.for = m.for => n = m

ReplyInv(q) ==
  /\ stream[q].at = "posted" => stream[q].kept = 0
  /\ stream[q].at = "open" => Fits(wire[q], stream[q].kept)

\* A reply that is calm is the only one, and the page knows that it is on its way.
CalmInv(q) ==
  InFlight(q) /\ stream[q].calm =>
    /\ streaming /\ seen.streaming
    /\ \A r \in Questions : InFlight(r) => r = q
    /\ Contains(messages, Question(q))

Busy == streaming => \E q \in Questions : InFlight(q)

PageInv ==
  /\ PageType /\ RequestType /\ ServerType
  /\ WaitInv /\ Busy
  /\ \A q \in Questions : ReplyInv(q) /\ CalmInv(q)

-----------------------------------------------------------------------------
(***************************************************************************)
(* What comes over the wire.                                               *)
(***************************************************************************)

LEMMA Joined ==
  ASSUME NEW a \in Seq(Kinds), NEW b \in Seq(Kinds)
  PROVE  /\ a \o b \in Seq(Kinds) /\ Len(a \o b) = Len(a) + Len(b)
         /\ \A i \in 1..Len(a) : (a \o b)[i] = a[i]
         /\ \A i \in 1..Len(b) : (a \o b)[Len(a) + i] = b[i]
<1> DEFINE k == Len(a)
           l == Len(b)
<1>1. /\ a \o b \in Seq(Kinds) /\ Len(a \o b) = k + l
      /\ \A i \in 1..(k + l) : (a \o b)[i] = IF i <= k THEN a[i] ELSE b[i - k]
  BY ConcatProperties
<1>2. k \in Nat /\ l \in Nat
  BY LenProperties
<1> HIDE DEF k, l
<1>3. \A i \in 1..k : i \in 1..(k + l) /\ i <= k
  BY <1>2
<1>4. \A i \in 1..l : k + i \in 1..(k + l) /\ ~(k + i <= k) /\ (k + i) - k = i
  BY <1>2
<1> QED
  BY <1>1, <1>3, <1>4 DEF k, l

LEMMA WholeFields ==
  ASSUME NEW n \in Nat
  PROVE  /\ Whole(n) \in Seq(Kinds) /\ Len(Whole(n)) = n + 1
         /\ \A i \in 1..n : Whole(n)[i] = "delta"
         /\ Whole(n)[n + 1] = "done"
<1> DEFINE d == [i \in 1..n |-> "delta"]
           e == <<"done">>
<1>1. d \in Seq(Kinds) /\ Len(d) = n /\ \A i \in 1..n : d[i] = "delta"
  <2>1. d \in [1..n -> Kinds]
    BY DEF Kinds
  <2>2. d \in Seq(Kinds)
    BY <2>1, IsASeq
  <2> QED
    BY <2>1, <2>2, LenProperties
<1>2. e \in Seq(Kinds) /\ Len(e) = 1 /\ e[1] = "done"
  BY DEF Kinds
<1>3. Whole(n) = d \o e
  BY DEF Whole
<1> HIDE DEF d, e
<1>4. /\ d \o e \in Seq(Kinds) /\ Len(d \o e) = n + 1
      /\ \A i \in 1..(n + 1) : (d \o e)[i] = IF i <= n THEN d[i] ELSE e[i - n]
  BY <1>1, <1>2, ConcatProperties
<1>5. n + 1 \in 1..(n + 1) /\ (n + 1) - n = 1 /\ \A i \in 1..n : i \in 1..(n + 1) /\ i <= n
  OBVIOUS
<1> QED
  BY <1>1, <1>2, <1>3, <1>4, <1>5

LEMMA CutFields ==
  ASSUME NEW n \in Nat
  PROVE  /\ Front(Whole(n)) \in Seq(Kinds) /\ Len(Front(Whole(n))) = n
         /\ \A i \in 1..n : Front(Whole(n))[i] = "delta"
<1> DEFINE w == Whole(n)
<1>1. /\ w \in Seq(Kinds) /\ Len(w) = n + 1
      /\ \A i \in 1..n : w[i] = "delta"
  BY WholeFields
<1>2. Front(w) = SubSeq(w, 1, Len(w) - 1)
  BY DEF Front
<1> HIDE DEF w
<1>3. \A i \in 1..n : w[i] \in Kinds
  BY <1>1 DEF Kinds
<1>4. /\ SubSeq(w, 1, n) \in Seq(Kinds)
      /\ Len(SubSeq(w, 1, n)) = (IF 1 <= n THEN n - 1 + 1 ELSE 0)
      /\ \A i \in 1..(n - 1 + 1) : SubSeq(w, 1, n)[i] = w[1 + i - 1]
  BY <1>3, SubSeqProperties
<1>5. Front(w) = SubSeq(w, 1, n) /\ n - 1 + 1 = n /\ (IF 1 <= n THEN n - 1 + 1 ELSE 0) = n
      /\ \A i \in 1..n : 1 + i - 1 = i
  BY <1>1, <1>2
<1> QED
  BY <1>1, <1>4, <1>5 DEF w

LEMMA LateFields ==
  ASSUME NEW n \in Nat, NEW p \in 1..(n + 1)
  PROVE  /\ InsertAt(Whole(n), p, "error") \in Seq(Kinds)
         /\ Len(InsertAt(Whole(n), p, "error")) = n + 2
         /\ \A i \in 1..(p - 1) : InsertAt(Whole(n), p, "error")[i] = "delta"
         /\ InsertAt(Whole(n), p, "error")[p] = "error"
         /\ InsertAt(Whole(n), p, "error")[n + 2] = "done"
<1> DEFINE w == Whole(n)
           e == <<"error">>
           a == SubSeq(w, 1, p - 1)
           b == SubSeq(w, p, n + 1)
<1>1. /\ w \in Seq(Kinds) /\ Len(w) = n + 1 /\ w[n + 1] = "done"
      /\ \A i \in 1..(n + 1) : w[i] \in Kinds
      /\ \A i \in 1..n : w[i] = "delta"
  <2>1. /\ w \in Seq(Kinds) /\ Len(w) = n + 1 /\ w[n + 1] = "done"
        /\ \A i \in 1..n : w[i] = "delta"
    BY WholeFields
  <2> HIDE DEF w
  <2> QED
    BY <2>1, ElementOfSeq
<1>2. e \in Seq(Kinds) /\ Len(e) = 1 /\ e[1] = "error"
  BY DEF Kinds
<1>3. InsertAt(w, p, "error") = a \o e \o b
  BY <1>1 DEF InsertAt
<1>4. a \in Seq(Kinds) /\ Len(a) = p - 1 /\ \A i \in 1..(p - 1) : a[i] = "delta"
  <2>1. /\ p - 1 \in Int /\ 1 \in Int /\ \A i \in 1..(p - 1) : w[i] \in Kinds
    BY <1>1
  <2>2. /\ a \in Seq(Kinds)
        /\ Len(a) = (IF 1 <= p - 1 THEN (p - 1) - 1 + 1 ELSE 0)
        /\ \A i \in 1..((p - 1) - 1 + 1) : a[i] = w[1 + i - 1]
    BY <2>1, SubSeqProperties
  <2> HIDE DEF a, w
  <2>3. \A i \in 1..(p - 1) : i \in 1..((p - 1) - 1 + 1) /\ 1 + i - 1 = i /\ i \in 1..n
    OBVIOUS
  <2>4. \A i \in 1..(p - 1) : a[i] = w[i]
    BY <2>2, <2>3
  <2> QED
    BY <1>1, <2>2, <2>3, <2>4
<1>5. b \in Seq(Kinds) /\ Len(b) = n + 2 - p /\ b[n + 2 - p] = "done"
  <2>1. p \in Int /\ n + 1 \in Int /\ \A i \in p..(n + 1) : w[i] \in Kinds
    BY <1>1
  <2>2. /\ b \in Seq(Kinds)
        /\ Len(b) = (IF p <= n + 1 THEN (n + 1) - p + 1 ELSE 0)
        /\ \A i \in 1..((n + 1) - p + 1) : b[i] = w[p + i - 1]
    BY <2>1, SubSeqProperties
  <2> HIDE DEF b, w
  <2>3. n + 2 - p \in 1..((n + 1) - p + 1) /\ p + (n + 2 - p) - 1 = n + 1
    OBVIOUS
  <2>4. Len(b) = n + 2 - p
    BY <2>2
  <2>5. b[n + 2 - p] = w[p + (n + 2 - p) - 1]
    BY <2>2, <2>3
  <2> QED
    BY <1>1, <2>2, <2>3, <2>4, <2>5
<1> HIDE DEF w, e, a, b
<1>6. /\ a \o e \in Seq(Kinds) /\ Len(a \o e) = p
      /\ (a \o e)[p] = "error" /\ \A i \in 1..(p - 1) : (a \o e)[i] = "delta"
  <2>1. /\ a \o e \in Seq(Kinds) /\ Len(a \o e) = Len(a) + Len(e)
        /\ \A i \in 1..(Len(a) + Len(e)) : (a \o e)[i] = IF i <= Len(a) THEN a[i] ELSE e[i - Len(a)]
    BY <1>2, <1>4, ConcatProperties
  <2>2. /\ Len(a) + Len(e) = p /\ p \in 1..p /\ ~(p <= p - 1) /\ p - (p - 1) = 1
        /\ \A i \in 1..(p - 1) : i \in 1..p /\ i <= p - 1
    BY <1>2, <1>4
  <2> QED
    BY <1>2, <1>4, <2>1, <2>2
<1> DEFINE c == a \o e
<1>7. /\ c \in Seq(Kinds) /\ Len(c) = p /\ c[p] = "error"
      /\ \A i \in 1..(p - 1) : c[i] = "delta"
  BY <1>6
<1> HIDE DEF c
<1>8. /\ c \o b \in Seq(Kinds) /\ Len(c \o b) = p + (n + 2 - p)
      /\ \A i \in 1..p : (c \o b)[i] = c[i]
      /\ \A i \in 1..(n + 2 - p) : (c \o b)[p + i] = b[i]
  <2>1. /\ c \o b \in Seq(Kinds) /\ Len(c \o b) = Len(c) + Len(b)
        /\ \A i \in 1..Len(c) : (c \o b)[i] = c[i]
        /\ \A i \in 1..Len(b) : (c \o b)[Len(c) + i] = b[i]
    BY <1>5, <1>7, Joined
  <2> QED
    BY <1>5, <1>7, <2>1
<1>9. /\ p + (n + 2 - p) = n + 2 /\ p \in 1..p /\ n + 2 - p \in 1..(n + 2 - p)
      /\ \A i \in 1..(p - 1) : i \in 1..p
  OBVIOUS
<1>10. /\ c \o b \in Seq(Kinds) /\ Len(c \o b) = n + 2
       /\ (c \o b)[p] = "error" /\ (c \o b)[n + 2] = "done"
       /\ \A i \in 1..(p - 1) : (c \o b)[i] = "delta"
  BY <1>5, <1>7, <1>8, <1>9
<1>11. InsertAt(w, p, "error") = c \o b
  BY <1>3 DEF c
<1> QED
  BY <1>10, <1>11 DEF w

\* Whatever the server sends for n pieces can be taken.
LEMMA SentFits ==
  ASSUME NEW n \in 0..MaxPieces, NEW w, w = Whole(n) \/ w \in Failing(n)
  PROVE  w \in Seq(Kinds) /\ Fits(w, 0)
<1>0. n \in Nat /\ MaxPieces \in Nat /\ n <= MaxPieces
  BY ClientAssumption
<1>1. CASE w = Whole(n)
  <2>1. w \in Seq(Kinds) /\ DOMAIN w = 1..(n + 1) /\ w[n + 1] # "delta"
    BY <1>0, <1>1, WholeFields, LenProperties
  <2> QED
    BY <1>0, <2>1 DEF Fits
<1>2. CASE w = Front(Whole(n))
  <2>1. w \in Seq(Kinds) /\ DOMAIN w = 1..n
    BY <1>0, <1>2, CutFields, LenProperties
  <2> QED
    BY <1>0, <2>1 DEF Fits
<1>3. CASE w = Front(Whole(n)) \o <<"error">>
  <2> DEFINE a == Front(Whole(n))
             e == <<"error">>
  <2>1. a \in Seq(Kinds) /\ Len(a) = n
    BY <1>0, CutFields
  <2>2. e \in Seq(Kinds) /\ Len(e) = 1 /\ e[1] = "error"
    BY DEF Kinds
  <2>3. w = a \o e
    BY <1>3
  <2> HIDE DEF a, e
  <2>4. /\ w \in Seq(Kinds) /\ Len(w) = n + 1 /\ w[n + 1] = "error"
    <3>1. /\ w \in Seq(Kinds) /\ Len(w) = Len(a) + Len(e)
          /\ \A i \in 1..Len(e) : w[Len(a) + i] = e[i]
      BY <2>1, <2>2, <2>3, Joined
    <3>2. 1 \in 1..1
      OBVIOUS
    <3> QED
      BY <1>0, <2>1, <2>2, <3>1, <3>2
  <2>6. DOMAIN w = 1..(n + 1) /\ w[n + 1] # "delta"
    BY <2>4, LenProperties
  <2> QED
    BY <1>0, <2>4, <2>6 DEF Fits
<1>4. ASSUME NEW p \in 1..(n + 1), w = InsertAt(Whole(n), p, "error")
      PROVE  w \in Seq(Kinds) /\ Fits(w, 0)
  <2>0. w \in Seq(Kinds) /\ Len(w) = n + 2 /\ w[p] = "error" /\ w[n + 2] = "done"
    BY <1>0, <1>4, LateFields
  <2>1. /\ w \in Seq(Kinds) /\ DOMAIN w = 1..(n + 2)
        /\ w[p] # "delta" /\ w[n + 2] # "delta"
    BY <2>0, LenProperties
  <2>2. ASSUME NEW i \in 1..(n + 2), w[i] = "delta"
        PROVE  \/ 0 + i <= MaxPieces
               \/ 0 + i <= MaxPieces + 1 /\ \E j \in 1..(i - 1) : w[j] # "delta"
    <3>1. i # n + 2 /\ i # p /\ i <= n + 1
      BY <1>0, <2>1, <2>2
    <3>2. CASE i < p
      BY <1>0, <3>1, <3>2
    <3>3. CASE i > p
      BY <1>0, <2>1, <3>1, <3>3
    <3> QED
      BY <1>0, <3>1, <3>2, <3>3
  <2> QED
    BY <2>1, <2>2 DEF Fits
<1> QED
  BY <1>1, <1>2, <1>3, <1>4 DEF Failing

\* A piece that comes is within the bound, and so are those after it.
LEMMA TailFits ==
  ASSUME NEW w \in Seq(Kinds), w # <<>>, NEW n \in Nat, Fits(w, n), Head(w) = "delta"
  PROVE  n + 1 <= MaxPieces /\ Tail(w) \in Seq(Kinds) /\ Fits(Tail(w), n + 1)
<1> DEFINE k == Len(w)
           v == Tail(w)
<1>1. /\ k \in Nat /\ DOMAIN w = 1..k /\ k # 0
      /\ v \in Seq(Kinds) /\ Len(v) = k - 1
      /\ \A i \in 1..(k - 1) : v[i] = w[i + 1]
  BY LenProperties, EmptySeq, HeadTailProperties
<1>2. DOMAIN v = 1..(k - 1)
  BY <1>1, LenProperties
<1>3. w[1] = "delta" /\ MaxPieces \in Nat
  BY ClientAssumption
<1> HIDE DEF k, v
<1>4. n + 1 <= MaxPieces
  BY <1>1, <1>3 DEF Fits
<1>5. ASSUME NEW i \in 1..(k - 1), v[i] = "delta"
      PROVE  \/ n + 1 + i <= MaxPieces
             \/ n + 1 + i <= MaxPieces + 1 /\ \E j \in 1..(i - 1) : v[j] # "delta"
  <2>1. i + 1 \in 1..k /\ w[i + 1] = "delta"
    BY <1>1, <1>5
  <2>2. CASE n + (i + 1) <= MaxPieces
    BY <1>3, <2>2
  <2>3. CASE n + (i + 1) <= MaxPieces + 1 /\ \E j \in 1..((i + 1) - 1) : w[j] # "delta"
    <3>1. PICK j \in 1..((i + 1) - 1) : w[j] # "delta"
      BY <2>3
    <3>2. j # 1 /\ j - 1 \in 1..(i - 1) /\ j - 1 \in 1..(k - 1) /\ (j - 1) + 1 = j
      BY <1>1, <1>3, <3>1
    <3>3. v[j - 1] # "delta"
      BY <1>1, <3>1, <3>2
    <3> QED
      BY <2>3, <3>2, <3>3
  <2> QED
    BY <1>1, <2>1, <2>2, <2>3 DEF Fits
<1>6. Fits(v, n + 1)
  BY <1>2, <1>5 DEF Fits
<1> QED
  BY <1>1, <1>4, <1>6 DEF v

-----------------------------------------------------------------------------
(***************************************************************************)
(* Steps that leave the replies alone.                                     *)
(***************************************************************************)

Types == PageType /\ RequestType /\ ServerType

LEMMA StillKeeps ==
  ASSUME PageInv, Types', WaitInv', UNCHANGED <<stream, wire, streaming, messages>>,
         seen'.streaming \in {seen.streaming, streaming}
  PROVE  PageInv'
<1>1. Busy'
  BY DEF PageInv, Busy, InFlight
<1>2. \A q \in Questions : ReplyInv(q)' /\ CalmInv(q)'
  BY DEF PageInv, ReplyInv, CalmInv, InFlight
<1> QED
  BY <1>1, <1>2 DEF PageInv, Types

\* No question waits for a new creation.
LEMMA WaitStays ==
  ASSUME PageInv, UNCHANGED <<stream, making>>
  PROVE  WaitInv'
BY DEF PageInv, WaitInv

LEMMA RenderKeeps ==
  ASSUME PageInv, Render
  PROVE  PageInv'
<1>1. /\ UNCHANGED <<sessions, active, messages, streaming, effected, opening, load, making,
                     deleting, stream, service>>
      /\ seen' = Rendered
  BY DEF Render
<1>2. Types' /\ seen'.streaming = streaming
  BY <1>1 DEF Types, PageType, RequestType, ServerType, PageInv, Rendered, Rendering, service
<1> QED
  BY <1>1, <1>2, StillKeeps, WaitStays DEF service

LEMMA OpenKeeps ==
  ASSUME PageInv, OpenPanel \/ ListCame \/ ServeList
  PROVE  PageInv'
<1>1. /\ UNCHANGED <<messages, streaming, seen, effected, load, making, deleting, stream, service>>
      /\ sessions' \in SUBSET Sessions /\ active' \in Chosen /\ opening' \in Openings
  <2>1. CASE OpenPanel
    BY <2>1 DEF OpenPanel, PageInv, PageType, RequestType, Openings
  <2>2. CASE ListCame
    BY <2>2 DEF ListCame, PageInv, PageType, RequestType, Openings, NotOpened, Chosen
  <2>3. CASE ServeList
    BY <2>3 DEF ServeList, PageInv, PageType, RequestType, Openings
  <2> QED
    BY <2>1, <2>2, <2>3
<1>2. Types'
  BY <1>1 DEF Types, PageType, RequestType, ServerType, PageInv, service
<1> QED
  BY <1>1, <1>2, StillKeeps, WaitStays DEF service

LEMMA DeleteKeeps ==
  ASSUME PageInv, NEW s \in Sessions,
         DeleteSession(s) \/ Deleted(s) \/ DeleteFails(s) \/ ServeDelete(s)
  PROVE  PageInv'
<1>1. /\ UNCHANGED <<messages, streaming, seen, effected, opening, load, making, stream,
                     server, wire>>
      /\ sessions' \in SUBSET Sessions /\ active' \in Chosen
      /\ deleting' \in [Sessions -> {"no", "asked", "gone"}]
      /\ log' \in [Sessions -> Seq(Shown) \union {None}]
  <2>1. CASE DeleteSession(s)
    BY <2>1 DEF DeleteSession, PageInv, PageType, RequestType, ServerType, service
  <2>2. CASE Deleted(s)
    BY <2>2 DEF Deleted, PageInv, PageType, RequestType, ServerType, service, Rendering, Chosen
  <2>3. CASE DeleteFails(s)
    BY <2>3 DEF DeleteFails, PageInv, PageType, RequestType, ServerType, service
  <2>4. CASE ServeDelete(s)
    BY <2>4 DEF ServeDelete, PageInv, PageType, RequestType, ServerType
  <2> QED
    BY <2>1, <2>2, <2>3, <2>4
<1>2. Types'
  BY <1>1 DEF Types, PageType, RequestType, ServerType, PageInv
<1> QED
  BY <1>1, <1>2, StillKeeps, WaitStays

LEMMA LoadingKeeps ==
  ASSUME PageInv, LoadFails \/ ServeLoad
  PROVE  PageInv'
<1>1. UNCHANGED <<sessions, active, messages, streaming, seen, effected, opening, making,
                  deleting, stream, service>>
  BY DEF LoadFails, ServeLoad
<1>2. load' \in Loads /\ (load'.at # "none" => load'.of \in Sessions)
  <2>1. CASE LoadFails
    BY <2>1, EmptySeq DEF LoadFails, NoLoad, Loads, Chosen
  <2>2. CASE ServeLoad
    <3> DEFINE c == \A q \in Questions : ~InFlight(q) /\ server[q].at = "off"
    <3>1. /\ load' = [load EXCEPT !.at = "answered", !.got = log[load.of], !.clean = c]
          /\ Live(load.of) /\ load \in Loads /\ load.of \in Sessions /\ c \in BOOLEAN
      BY <2>2 DEF ServeLoad, PageInv, RequestType
    <3> HIDE DEF c
    <3>2. log[load.of] \in Seq(Shown)
      BY <3>1 DEF Live, PageInv, ServerType
    <3> QED
      BY <3>1, <3>2 DEF Loads
  <2> QED
    BY <2>1, <2>2
<1>3. Types'
  BY <1>1, <1>2 DEF Types, PageType, RequestType, ServerType, PageInv, service
<1> QED
  BY <1>1, <1>3, StillKeeps, WaitStays DEF service

LEMMA CreationTypes ==
  ASSUME NEW o \in Chosen, NEW f \in Questions \union {None}
  PROVE  [of |-> o, for |-> f] \in Creations
BY DEF Creations

LEMMA CreateSessionKeeps ==
  ASSUME PageInv, CreateSession
  PROVE  PageInv'
<1>1. /\ making' = making \union {[of |-> None, for |-> None]}
      /\ UNCHANGED <<sessions, active, messages, streaming, seen, effected, opening, load,
                     deleting, stream, service>>
  BY DEF CreateSession
<1>2. [of |-> None, for |-> None] \in Creations
  BY DEF Creations, Chosen
<1>3. Types'
  BY <1>1, <1>2 DEF Types, PageType, RequestType, ServerType, PageInv, service
<1>4. WaitInv'
  BY <1>1 DEF WaitInv, PageInv
<1> QED
  BY <1>1, <1>3, <1>4, StillKeeps DEF service

LEMMA ServeCreateKeeps ==
  ASSUME PageInv, NEW s \in Sessions, ServeCreate(s)
  PROVE  PageInv'
<1>1. /\ log' = [log EXCEPT ![s] = <<>>]
      /\ UNCHANGED <<sessions, active, messages, streaming, seen, effected, load, deleting,
                     stream, server, wire>>
  BY DEF ServeCreate
<1>2. opening' \in Openings /\ making' \in SUBSET Creations /\ WaitInv'
  <2>1. CASE /\ opening' = [opening EXCEPT !.at = "came", !.got = {s}]
             /\ UNCHANGED making
    BY <1>1, <2>1 DEF PageInv, RequestType, Openings, WaitInv
  <2>2. ASSUME NEW m \in making, UNCHANGED opening,
               making' = (making \ {m}) \union {[m EXCEPT !.of = s]}
        PROVE  opening' \in Openings /\ making' \in SUBSET Creations /\ WaitInv'
    <3>1. m \in Creations /\ making \in SUBSET Creations /\ opening \in Openings
      BY DEF PageInv, RequestType
    <3>2. [m EXCEPT !.of = s] \in Creations /\ [m EXCEPT !.of = s].for = m.for
      BY <3>1 DEF Creations, Chosen
    <3>3. WaitInv'
      BY <1>1, <2>2, <3>2 DEF WaitInv, PageInv
    <3> QED
      BY <2>2, <3>1, <3>2, <3>3
  <2> QED
    BY <2>1, <2>2 DEF ServeCreate
<1>3. log' \in [Sessions -> Seq(Shown) \union {None}]
  BY <1>1, EmptySeq DEF PageInv, ServerType
<1>4. Types'
  BY <1>1, <1>2, <1>3 DEF Types, PageType, RequestType, ServerType, PageInv
<1> QED
  BY <1>1, <1>2, <1>4, StillKeeps

LEMMA ServeSaveKeeps ==
  ASSUME PageInv, NEW q \in Questions, ServeSave(q)
  PROVE  PageInv'
<1>1. /\ UNCHANGED <<client, wire>> /\ server' = [server EXCEPT ![q] = NoTurn]
      /\ \/ UNCHANGED log
         \/ server[q].said # 0 /\ Store(server[q].of, Answer(q, server[q].said))
  BY DEF ServeSave
<1>2. NoTurn \in Replies
  BY ClientAssumption DEF NoTurn, Replies, Chosen
<1>3. log' \in [Sessions -> Seq(Shown) \union {None}]
  <2> DEFINE s == server[q].of
             m == Answer(q, server[q].said)
  <2>1. log \in [Sessions -> Seq(Shown) \union {None}] /\ server[q] \in Replies
    BY DEF PageInv, ServerType
  <2>2. m \in Shown
    BY <2>1 DEF Answer, Shown, MessagesOf, Replies
  <2>3. CASE s \in Sessions /\ Live(s) /\ log' = [log EXCEPT ![s] = Append(@, m)]
    <3>1. log[s] \in Seq(Shown)
      BY <2>1, <2>3 DEF Live
    <3>2. Append(log[s], m) \in Seq(Shown)
      BY <2>2, <3>1, AppendProperties
    <3> QED
      BY <2>1, <2>3, <3>2
  <2>4. CASE UNCHANGED log
    BY <2>1, <2>4
  <2>5. CASE s \notin Sessions /\ log' = [log EXCEPT ![s] = Append(@, m)]
    BY <2>1, <2>5
  <2> QED
    BY <1>1, <2>3, <2>4, <2>5 DEF Store
<1>4. Types'
  BY <1>1, <1>2, <1>3 DEF Types, PageType, RequestType, ServerType, PageInv, client
<1> QED
  BY <1>1, <1>4, StillKeeps, WaitStays DEF client

-----------------------------------------------------------------------------
(***************************************************************************)
(* Steps that end what was calm.                                           *)
(***************************************************************************)

LEMMA EffectsDo ==
  ASSUME PageInv, NEW now \in Chosen, RunEffects(now)
  PROVE  /\ effected' = now /\ streaming' = FALSE /\ messages' \in Seq(Shown)
         /\ load' \in Loads /\ (load'.at # "none" => load'.of \in Sessions)
         /\ stream' \in [Questions -> Streams]
         /\ \A q \in Questions : /\ stream'[q].at = stream[q].at
                                 /\ stream'[q].kept = stream[q].kept
                                 /\ ~stream'[q].calm
<1>1. load' \in Loads /\ (load'.at # "none" => load'.of \in Sessions) /\ messages' \in Seq(Shown)
  <2>1. messages \in Seq(Shown) /\ <<>> \in Seq(Shown)
    BY EmptySeq DEF PageInv, PageType
  <2>2. CASE now = None
    <3>1. load' = NoLoad /\ messages' = <<>>
      BY <2>2 DEF RunEffects
    <3>2. NoLoad \in Loads /\ NoLoad.at = "none"
      BY EmptySeq DEF NoLoad, Loads, Chosen
    <3> QED
      BY <2>1, <3>1, <3>2
  <2>3. CASE now # None
    <3>1. load' = [NoLoad EXCEPT !.at = "asked", !.of = now] /\ messages' = messages
      BY <2>3 DEF RunEffects
    <3>2. now \in Sessions
      BY <2>3 DEF Chosen
    <3> QED
      BY <2>1, <3>1, <3>2 DEF NoLoad, Loads, Chosen
  <2> QED
    BY <2>2, <2>3
<1>2. \A q \in Questions : stream[q] \in Streams
  BY DEF PageInv, RequestType
<1>3. \A q \in Questions :
        LET x == [stream[q] EXCEPT !.calm = FALSE] IN
          x \in Streams /\ x.at = stream[q].at /\ x.kept = stream[q].kept /\ ~x.calm
  BY <1>2 DEF Streams
<1>4. stream' = [q \in Questions |-> [stream[q] EXCEPT !.calm = FALSE]]
  BY DEF RunEffects
<1> QED
  BY <1>1, <1>3, <1>4 DEF RunEffects

LEMMA EffectsKeep ==
  ASSUME PageInv, NEW now \in Chosen, RunEffects(now), Types', UNCHANGED <<wire, making>>
  PROVE  PageInv'
<1>1. /\ streaming' = FALSE
      /\ \A q \in Questions : /\ stream'[q].at = stream[q].at
                              /\ stream'[q].kept = stream[q].kept
                              /\ ~stream'[q].calm
  BY EffectsDo
<1>2. WaitInv'
  <2>1. \A m \in making : m.for \in Questions \union {None}
    BY DEF PageInv, RequestType, Creations
  <2> QED
    BY <1>1, <2>1 DEF PageInv, WaitInv
<1>3. Busy' /\ \A q \in Questions : ReplyInv(q)' /\ CalmInv(q)'
  BY <1>1 DEF PageInv, Busy, ReplyInv, CalmInv
<1> QED
  BY <1>2, <1>3 DEF PageInv, Types

LEMMA EffectsStepKeeps ==
  ASSUME PageInv, Effects
  PROVE  PageInv'
<1>1. /\ RunEffects(seen.active) /\ seen.active \in Chosen
      /\ UNCHANGED <<sessions, active, seen, opening, making, deleting, service>>
  BY DEF Effects, PageInv, PageType, Rendering
<1>2. Types'
  BY <1>1, EffectsDo DEF Types, PageType, RequestType, ServerType, PageInv, service
<1> QED
  BY <1>1, <1>2, EffectsKeep DEF service

LEMMA SwitchKeeps ==
  ASSUME PageInv, NEW s \in Sessions, SwitchSession(s)
  PROVE  PageInv'
<1>1. /\ RunEffects(s) /\ s \in Chosen /\ active' = s /\ seen' = [Rendered EXCEPT !.active = s]
      /\ UNCHANGED <<sessions, opening, making, deleting, service>>
  BY DEF SwitchSession, Chosen
<1>2. seen' \in Rendering
  BY <1>1 DEF PageInv, PageType, Rendered, Rendering
<1>3. Types'
  BY <1>1, <1>2, EffectsDo DEF Types, PageType, RequestType, ServerType, PageInv, service
<1> QED
  BY <1>1, <1>3, EffectsKeep DEF service

\* What was loaded is shown only while no reply is on its way.
LEMMA LoadedKeeps ==
  ASSUME PageInv, Loaded
  PROVE  PageInv'
<1>1. /\ UNCHANGED <<sessions, active, streaming, seen, effected, opening, making, deleting,
                     stream, service>>
      /\ load' = NoLoad
      /\ messages' = messages \/ (~seen.streaming /\ messages' = load.got)
  BY DEF Loaded
<1>2. load' \in Loads /\ load'.at = "none"
  BY <1>1, EmptySeq DEF NoLoad, Loads, Chosen
<1>3. messages' \in Seq(Shown)
  BY <1>1 DEF PageInv, PageType, RequestType, Loads
<1>4. Types'
  BY <1>1, <1>2, <1>3 DEF Types, PageType, RequestType, ServerType, PageInv, service
<1>5. Busy' /\ \A q \in Questions : ReplyInv(q)' /\ CalmInv(q)'
  BY <1>1 DEF PageInv, Busy, ReplyInv, CalmInv, InFlight, service
<1> QED
  BY <1>1, <1>4, <1>5, WaitStays DEF PageInv, Types

-----------------------------------------------------------------------------
(***************************************************************************)
(* A reply begins.                                                         *)
(***************************************************************************)

LEMMA AppendShows ==
  ASSUME NEW list \in Seq(Shown), NEW m \in Shown
  PROVE  /\ Append(list, m) \in Seq(Shown)
         /\ Contains(Append(list, m), m)
         /\ \A x : Contains(list, x) => Contains(Append(list, m), x)
<1> DEFINE n == Len(list)
           d == Append(list, m)
<1>1. /\ n \in Nat /\ d \in Seq(Shown) /\ Len(d) = n + 1
      /\ \A i \in 1..n : d[i] = list[i]
      /\ d[n + 1] = m
  BY LenProperties, AppendProperties
<1> HIDE DEF n, d
<1>2. n + 1 \in 1..(n + 1) /\ \A i \in 1..n : i \in 1..(n + 1)
  BY <1>1
<1>3. Contains(d, m)
  BY <1>1, <1>2 DEF Contains
<1>4. ASSUME NEW x, \E i \in 1..n : list[i] = x
      PROVE  \E i \in 1..(n + 1) : d[i] = x
  BY <1>1, <1>2, <1>4
<1> QED
  BY <1>1, <1>3, <1>4 DEF Contains, n, d

LEMMA StartDoes ==
  ASSUME PageInv, NEW q \in Questions, NEW s \in Chosen, NEW calm \in BOOLEAN,
         StartReply(q, s, calm)
  PROVE  /\ streaming' = TRUE
         /\ messages' \in Seq(Shown) /\ Contains(messages', Question(q))
         /\ load' \in Loads /\ (load'.at # "none" => load'.of \in Sessions)
         /\ stream' \in [Questions -> Streams]
         /\ stream'[q].at = "posted" /\ stream'[q].of = s /\ stream'[q].kept = 0
         /\ stream'[q].calm => calm /\ \A r \in Questions : ~InFlight(r)
         /\ \A p \in Questions : p # q => /\ stream'[p].at = stream[p].at
                                          /\ stream'[p].kept = stream[p].kept
                                          /\ ~stream'[p].calm
<1>1. Question(q) \in Shown
  BY DEF Question, Shown, MessagesOf
<1>2. messages' \in Seq(Shown) /\ Contains(messages', Question(q))
  BY <1>1, AppendShows DEF StartReply, PageInv, PageType
<1>3. load' \in Loads /\ (load'.at # "none" => load'.of \in Sessions)
  BY DEF StartReply, PageInv, RequestType, Loads
<1> DEFINE c == calm /\ \A r \in Questions : ~InFlight(r)
           x == [at |-> "posted", of |-> s, kept |-> 0, calm |-> c]
           y(p) == [stream[p] EXCEPT !.calm = FALSE]
<1>4. stream' = [p \in Questions |-> IF p = q THEN x ELSE y(p)]
  BY DEF StartReply
<1>5. /\ x \in Streams /\ x.at = "posted" /\ x.of = s /\ x.kept = 0
      /\ x.calm => calm /\ \A r \in Questions : ~InFlight(r)
  <2>1. 0 \in 0..MaxPieces /\ c \in BOOLEAN
    BY ClientAssumption
  <2>2. c => calm /\ \A r \in Questions : ~InFlight(r)
    OBVIOUS
  <2> HIDE DEF c
  <2> QED
    BY <2>1, <2>2 DEF Streams
<1>6. \A p \in Questions : /\ y(p) \in Streams /\ y(p).at = stream[p].at
                           /\ y(p).kept = stream[p].kept /\ ~y(p).calm
  BY DEF PageInv, RequestType, Streams
<1> HIDE DEF x, y
<1>7. stream' \in [Questions -> Streams]
  BY <1>4, <1>5, <1>6
<1>8. stream'[q] = x /\ \A p \in Questions : p # q => stream'[p] = y(p)
  BY <1>4
<1> QED
  BY <1>2, <1>3, <1>5, <1>6, <1>7, <1>8 DEF StartReply

LEMMA StartKeeps ==
  ASSUME PageInv, NEW q \in Questions, NEW s \in Chosen, NEW calm \in BOOLEAN,
         StartReply(q, s, calm), Types', WaitInv', wire' = wire, calm => seen'.streaming
  PROVE  PageInv'
<1>1. Busy'
  BY StartDoes DEF Busy, InFlight
<1>2. ASSUME NEW p \in Questions
      PROVE  ReplyInv(p)'
  <2>1. CASE p = q
    BY <2>1, StartDoes DEF ReplyInv
  <2>2. CASE p # q
    BY <2>2, StartDoes DEF ReplyInv, PageInv
  <2> QED
    BY <2>1, <2>2
<1>3. ASSUME NEW p \in Questions, InFlight(p)', stream'[p].calm
      PROVE  /\ streaming' /\ seen'.streaming
             /\ \A r \in Questions : InFlight(r)' => r = p
             /\ Contains(messages', Question(p))
  <2>1. p = q
    BY <1>3, StartDoes
  <2>2. calm /\ \A r \in Questions : ~InFlight(r)
    BY <1>3, <2>1, StartDoes
  <2>3. \A r \in Questions : r # q => stream'[r].at = stream[r].at
    BY StartDoes
  <2> QED
    BY <2>1, <2>2, <2>3, StartDoes DEF InFlight
<1>4. \A p \in Questions : CalmInv(p)'
  BY <1>3 DEF CalmInv
<1> QED
  BY <1>1, <1>2, <1>4 DEF PageInv, Types

LEMMA CreatedKeeps ==
  ASSUME PageInv, NEW m \in making, Created(m)
  PROVE  PageInv'
<1>1. /\ m.of # None /\ sessions' = sessions \union {m.of} /\ active' = m.of
      /\ making' = making \ {m} /\ opening' = [opening EXCEPT !.done = TRUE]
      /\ UNCHANGED <<seen, effected, deleting, service>>
  BY DEF Created
<1>2. /\ m \in Creations /\ m.of \in Sessions /\ m.of \in Chosen
      /\ sessions' \in SUBSET Sessions /\ active' \in Chosen
      /\ opening' \in Openings /\ making' \in SUBSET Creations
      /\ \A n \in making : n.for \in Questions \union {None}
  BY <1>1 DEF PageInv, PageType, RequestType, Creations, Chosen, Openings
<1>3. CASE m.for = None
  <2>1. UNCHANGED <<messages, streaming, stream, load>>
    BY <1>3 DEF Created
  <2>2. Types'
    BY <1>1, <1>2, <2>1 DEF Types, PageType, RequestType, ServerType, PageInv, service
  <2>3. WaitInv'
    BY <1>1, <2>1 DEF PageInv, WaitInv
  <2> QED
    BY <1>1, <2>1, <2>2, <2>3, StillKeeps DEF service
<1>4. CASE m.for # None
  <2>1. m.for \in Questions /\ StartReply(m.for, m.of, FALSE)
    BY <1>2, <1>4 DEF Created, Creations
  <2>2. Types'
    BY <1>1, <1>2, <2>1, StartDoes DEF Types, PageType, RequestType, ServerType, PageInv, service
  <2>3. WaitInv'
    <3>1. \A n \in making' : n.for # None => n.for # m.for
      BY <1>1, <1>4 DEF PageInv, WaitInv
    <3>2. \A p \in Questions : p # m.for => stream'[p].at = stream[p].at
      BY <1>2, <2>1, StartDoes
    <3> QED
      BY <1>1, <1>2, <3>1, <3>2 DEF PageInv, WaitInv
  <2> QED
    BY <1>1, <1>2, <2>1, <2>2, <2>3, StartKeeps DEF service
<1> QED
  BY <1>3, <1>4

LEMMA SendKeeps ==
  ASSUME PageInv, NEW q \in Questions, SendMessage(q)
  PROVE  PageInv'
<1>1. /\ stream[q].at = "none" /\ ~seen.streaming
      /\ UNCHANGED <<sessions, effected, opening, deleting, service>>
  BY DEF SendMessage
<1>2. /\ stream \in [Questions -> Streams] /\ stream[q] \in Streams /\ seen.active \in Chosen
      /\ \A n \in making : n.for # None => n.for # q
      /\ \A n \in making : n.for \in Questions \union {None}
  BY <1>1 DEF PageInv, PageType, RequestType, Rendering, WaitInv, Creations
<1>3. CASE seen.active = None
  <2> DEFINE m == [of |-> None, for |-> q]
             x == [stream[q] EXCEPT !.at = "creating"]
  <2>1. /\ making' = making \union {m} /\ stream' = [stream EXCEPT ![q] = x]
        /\ UNCHANGED <<active, messages, streaming, seen, load>>
    BY <1>2, <1>3 DEF SendMessage
  <2>2. /\ m \in Creations /\ m.for = q
        /\ x \in Streams /\ x.at = "creating" /\ x.kept = stream[q].kept
    BY <1>2 DEF Creations, Chosen, Streams
  <2> HIDE DEF m, x
  <2>3. /\ stream' \in [Questions -> Streams] /\ stream'[q] = x
        /\ \A p \in Questions : p # q => stream'[p] = stream[p]
    BY <1>2, <2>1, <2>2
  <2>4. Types'
    BY <1>1, <2>1, <2>2, <2>3 DEF Types, PageType, RequestType, ServerType, PageInv, service
  <2>5. WaitInv'
    BY <1>2, <2>1, <2>2, <2>3 DEF PageInv, WaitInv
  <2>6. \A p \in Questions : InFlight(p)' <=> InFlight(p)
    BY <1>1, <2>2, <2>3 DEF InFlight
  <2>7. Busy' /\ \A p \in Questions : ReplyInv(p)'
    BY <1>1, <2>1, <2>2, <2>3, <2>6 DEF PageInv, Busy, ReplyInv, service
  <2>8. ASSUME NEW p \in Questions
        PROVE  CalmInv(p)'
    <3>1. InFlight(p)' => stream'[p] = stream[p]
      BY <2>2, <2>3 DEF InFlight
    <3> QED
      BY <2>1, <2>6, <3>1 DEF PageInv, CalmInv
  <2> QED
    BY <2>4, <2>5, <2>7, <2>8 DEF PageInv, Types
<1>4. CASE seen.active # None
  <2> DEFINE calm == seen.active = effected
  <2>1. /\ StartReply(q, seen.active, calm) /\ calm \in BOOLEAN
        /\ seen' = [Rendered EXCEPT !.streaming = TRUE]
        /\ UNCHANGED <<active, making>>
    BY <1>4 DEF SendMessage
  <2> HIDE DEF calm
  <2>2. seen' \in Rendering /\ seen'.streaming
    BY <2>1 DEF PageInv, PageType, Rendered, Rendering
  <2>3. Types'
    BY <1>1, <1>2, <2>1, <2>2, StartDoes
       DEF Types, PageType, RequestType, ServerType, PageInv, service
  <2>4. WaitInv'
    <3>1. \A p \in Questions : p # q => stream'[p].at = stream[p].at
      BY <1>2, <2>1, StartDoes
    <3> QED
      BY <1>2, <2>1, <3>1 DEF PageInv, WaitInv
  <2> QED
    BY <1>1, <1>2, <2>1, <2>2, <2>3, <2>4, StartKeeps DEF service
<1> QED
  BY <1>3, <1>4

-----------------------------------------------------------------------------
(***************************************************************************)
(* A reply goes on and ends.                                               *)
(***************************************************************************)

\* A question's call changes, and was or is no reply in flight.
LEMMA CreateFailsKeeps ==
  ASSUME PageInv, NEW m \in making, CreateFails(m)
  PROVE  PageInv'
<1>1. /\ making' = making \ {m}
      /\ UNCHANGED <<sessions, active, messages, streaming, seen, effected, opening, load,
                     deleting, service>>
      /\ stream' = stream \/ (m.for # None /\ stream' = [stream EXCEPT ![m.for].at = "over"])
  BY DEF CreateFails
<1>2. /\ stream \in [Questions -> Streams] /\ making \in SUBSET Creations
      /\ \A n \in making : n.for \in Questions \union {None}
  BY DEF PageInv, RequestType, Creations
<1>3. CASE stream' = stream
  <2>1. Types'
    BY <1>1, <1>2, <1>3 DEF Types, PageType, RequestType, ServerType, PageInv, service
  <2>2. WaitInv'
    BY <1>1, <1>3 DEF PageInv, WaitInv
  <2> QED
    BY <1>1, <1>3, <2>1, <2>2, StillKeeps DEF service
<1>4. CASE m.for # None /\ stream' = [stream EXCEPT ![m.for].at = "over"]
  <2> DEFINE q == m.for
             x == [stream[q] EXCEPT !.at = "over"]
  <2>1. /\ q \in Questions /\ stream[q].at = "creating" /\ stream' = [stream EXCEPT ![q] = x]
        /\ \A n \in making' : n.for # None => n.for # q
    BY <1>1, <1>2, <1>4 DEF PageInv, WaitInv
  <2>2. x \in Streams /\ x.at = "over"
    BY <1>2, <2>1 DEF Streams
  <2> HIDE DEF q, x
  <2>3. /\ stream' \in [Questions -> Streams] /\ stream'[q] = x
        /\ \A p \in Questions : p # q => stream'[p] = stream[p]
    BY <1>2, <2>1, <2>2
  <2>4. Types'
    BY <1>1, <1>2, <2>3 DEF Types, PageType, RequestType, ServerType, PageInv, service
  <2>5. WaitInv'
    BY <1>1, <1>2, <2>1, <2>3 DEF PageInv, WaitInv
  <2>6. \A p \in Questions : InFlight(p)' <=> InFlight(p)
    BY <2>1, <2>2, <2>3 DEF InFlight
  <2>7. \A p \in Questions : InFlight(p)' => stream'[p] = stream[p]
    BY <2>2, <2>3 DEF InFlight
  <2>8. Busy' /\ \A p \in Questions : CalmInv(p)'
    BY <1>1, <2>6, <2>7 DEF PageInv, Busy, CalmInv
  <2>9. \A p \in Questions : ReplyInv(p)'
    BY <1>1, <2>2, <2>3 DEF PageInv, ReplyInv, service
  <2> QED
    BY <2>4, <2>5, <2>8, <2>9 DEF PageInv, Types
<1> QED
  BY <1>1, <1>3, <1>4

LEMMA NoStreamFields == NoStream \in Streams /\ NoStream.at = "none"
<1>1. 0 \in 0..MaxPieces
  BY ClientAssumption
<1> QED
  BY <1>1 DEF NoStream, Streams, Chosen

\* A reply that ends reopens the input; no other reply was calm.
LEMMA OverKeeps ==
  ASSUME PageInv, NEW q \in Questions, InFlight(q), Over(q), streaming' = FALSE,
         messages' \in Seq(Shown), wire' \in [Questions -> Seq(Kinds)],
         \A p \in Questions : p # q => wire'[p] = wire[p],
         UNCHANGED <<sessions, active, seen, effected, opening, load, making, deleting,
                     log, server>>
  PROVE  PageInv'
<1> DEFINE x == [NoStream EXCEPT !.at = "over"]
<1>1. x \in Streams /\ x.at = "over" /\ stream' = [stream EXCEPT ![q] = x]
  <2>1. NoStream \in Streams
    BY NoStreamFields
  <2>2. x \in Streams /\ x.at = "over"
    BY <2>1 DEF Streams
  <2> QED
    BY <2>2 DEF Over
<1>2. stream \in [Questions -> Streams] /\ \A n \in making : n.for \in Questions \union {None}
  BY DEF PageInv, RequestType, Creations
<1> HIDE DEF x
<1>3. /\ stream' \in [Questions -> Streams] /\ stream'[q] = x
      /\ \A p \in Questions : p # q => stream'[p] = stream[p]
  BY <1>1, <1>2
<1>4. Types'
  BY <1>3 DEF Types, PageType, RequestType, ServerType, PageInv
<1>5. WaitInv'
  <2>1. \A n \in making : n.for # None => n.for # q
    BY DEF PageInv, WaitInv, InFlight
  <2> QED
    BY <1>2, <1>3, <2>1 DEF PageInv, WaitInv
<1>6. Busy'
  BY DEF Busy
<1>7. ASSUME NEW p \in Questions
      PROVE  ReplyInv(p)' /\ CalmInv(p)'
  <2>1. CASE p = q
    BY <1>1, <1>3, <2>1 DEF ReplyInv, CalmInv, InFlight
  <2>2. CASE p # q
    <3>1. ~(InFlight(p) /\ stream[p].calm)
      BY <2>2 DEF PageInv, CalmInv
    <3> QED
      BY <1>3, <2>2, <3>1 DEF PageInv, ReplyInv, CalmInv, InFlight
  <2> QED
    BY <2>1, <2>2
<1> QED
  BY <1>4, <1>5, <1>6, <1>7 DEF PageInv, Types

\* The answer the page makes of what it has kept.
LEMMA AnswerShown ==
  ASSUME PageInv, NEW q \in Questions
  PROVE  /\ messages \in Seq(Shown)
         /\ Append(messages, Answer(q, stream[q].kept)) \in Seq(Shown)
<1>1. stream[q] \in Streams /\ messages \in Seq(Shown)
  BY DEF PageInv, RequestType, PageType
<1>2. Answer(q, stream[q].kept) \in Shown
  BY <1>1 DEF Answer, Shown, MessagesOf, Streams
<1> QED
  BY <1>1, <1>2, AppendProperties

LEMMA ReplyFailsKeeps ==
  ASSUME PageInv, NEW q \in Questions, ReplyFails(q)
  PROVE  PageInv'
<1>1. wire' \in [Questions -> Seq(Kinds)] /\ \A p \in Questions : p # q => wire'[p] = wire[p]
  BY EmptySeq DEF ReplyFails, PageInv, ServerType
<1> QED
  BY <1>1, OverKeeps, AnswerShown DEF ReplyFails

LEMMA ReplyStopsKeeps ==
  ASSUME PageInv, NEW q \in Questions, ReplyStops(q)
  PROVE  PageInv'
<1>1. messages' \in Seq(Shown) /\ InFlight(q)
  BY AnswerShown DEF ReplyStops, InFlight
<1>2. wire' \in [Questions -> Seq(Kinds)]
  BY DEF ReplyStops, PageInv, ServerType, service
<1> QED
  BY <1>1, <1>2, OverKeeps DEF ReplyStops, service

\* A reply that goes on: the calls in flight and what they know stay.
LEMMA GoesOnKeeps ==
  ASSUME PageInv, NEW q \in Questions, InFlight(q),
         NEW x \in Streams, x.at = "open", x.calm = stream[q].calm, Fits(wire'[q], x.kept),
         stream' = [stream EXCEPT ![q] = x],
         wire' \in [Questions -> Seq(Kinds)], \A p \in Questions : p # q => wire'[p] = wire[p],
         log' \in [Sessions -> Seq(Shown) \union {None}], server' \in [Questions -> Replies],
         UNCHANGED <<sessions, active, messages, streaming, seen, effected, opening, load,
                     making, deleting>>
  PROVE  PageInv'
<1>2. stream \in [Questions -> Streams] /\ \A n \in making : n.for \in Questions \union {None}
  BY DEF PageInv, RequestType, Creations
<1>3. /\ stream' \in [Questions -> Streams] /\ stream'[q] = x
      /\ \A p \in Questions : p # q => stream'[p] = stream[p]
  BY <1>2
<1>4. Types'
  BY <1>3 DEF Types, PageType, RequestType, ServerType, PageInv
<1>5. WaitInv'
  <2>1. \A n \in making : n.for # None => n.for # q
    BY DEF PageInv, WaitInv, InFlight
  <2> QED
    BY <1>2, <1>3, <2>1 DEF PageInv, WaitInv
<1>6. \A p \in Questions : (InFlight(p)' <=> InFlight(p)) /\ stream'[p].calm = stream[p].calm
  BY <1>3 DEF InFlight
<1>7. Busy' /\ \A p \in Questions : CalmInv(p)'
  BY <1>6 DEF PageInv, Busy, CalmInv
<1>8. ASSUME NEW p \in Questions
      PROVE  ReplyInv(p)'
  <2>1. CASE p = q
    BY <1>3, <2>1 DEF ReplyInv
  <2>2. CASE p # q
    BY <1>3, <2>2 DEF PageInv, ReplyInv
  <2> QED
    BY <2>1, <2>2
<1> QED
  BY <1>4, <1>5, <1>7, <1>8 DEF PageInv, Types

LEMMA ReceiveKeeps ==
  ASSUME PageInv, NEW q \in Questions, Receive(q)
  PROVE  PageInv'
<1>1. /\ stream[q].at = "open" /\ wire[q] # <<>> /\ wire' = [wire EXCEPT ![q] = Tail(@)]
      /\ UNCHANGED <<sessions, active, seen, effected, opening, load, making, deleting,
                     log, drawn, server>>
      /\ InFlight(q)
  BY DEF Receive, InFlight
<1>2. /\ stream \in [Questions -> Streams] /\ stream[q] \in Streams
      /\ wire \in [Questions -> Seq(Kinds)] /\ wire[q] \in Seq(Kinds)
      /\ Fits(wire[q], stream[q].kept)
  BY <1>1 DEF PageInv, RequestType, ServerType, ReplyInv
<1>3. Tail(wire[q]) \in Seq(Kinds)
  BY <1>1, <1>2, HeadTailProperties
<1>4. /\ wire' \in [Questions -> Seq(Kinds)] /\ wire'[q] = Tail(wire[q])
      /\ \A p \in Questions : p # q => wire'[p] = wire[p]
  BY <1>1, <1>2, <1>3
<1>5. CASE /\ Head(wire[q]) = "delta" /\ stream' = [stream EXCEPT ![q].kept = @ + 1]
           /\ UNCHANGED <<messages, streaming>>
  <2> DEFINE x == [stream[q] EXCEPT !.kept = stream[q].kept + 1]
  <2>1. stream[q].kept \in Nat /\ MaxPieces \in Nat
    BY <1>2, ClientAssumption DEF Streams
  <2>2. stream[q].kept + 1 <= MaxPieces /\ Fits(wire'[q], stream[q].kept + 1)
    BY <1>1, <1>2, <1>4, <1>5, <2>1, TailFits
  <2>3. stream[q].kept + 1 \in 0..MaxPieces
    BY <2>1, <2>2
  <2>4. /\ x \in Streams /\ x.at = "open" /\ x.calm = stream[q].calm
        /\ x.kept = stream[q].kept + 1
    BY <1>1, <1>2, <2>3 DEF Streams
  <2>5. stream' = [stream EXCEPT ![q] = x]
    BY <1>2, <1>5
  <2> HIDE DEF x
  <2>6. Fits(wire'[q], x.kept)
    BY <2>2, <2>4
  <2>7. log' \in [Sessions -> Seq(Shown) \union {None}] /\ server' \in [Questions -> Replies]
    BY <1>1 DEF PageInv, ServerType
  <2> QED
    BY <1>1, <1>4, <1>5, <2>4, <2>5, <2>6, <2>7, GoesOnKeeps
<1>6. CASE /\ Over(q) /\ streaming' = FALSE
           /\ \/ messages' = Append(messages, Answer(q, stream[q].kept))
              \/ UNCHANGED messages
  <2>1. messages' \in Seq(Shown)
    BY <1>6, AnswerShown
  <2> QED
    BY <1>1, <1>4, <1>6, <2>1, OverKeeps
<1> QED
  BY <1>5, <1>6 DEF Receive

LEMMA ServePostKeeps ==
  ASSUME PageInv, NEW q \in Questions, ServePost(q)
  PROVE  PageInv'
<1>1. PICK n \in 0..MaxPieces :
        /\ server' = [server EXCEPT ![q] = [at |-> "on", of |-> stream[q].of, said |-> n]]
        /\ \E w : (w = Whole(n) \/ w \in Failing(n)) /\ wire' = [wire EXCEPT ![q] = w]
  BY DEF ServePost
<1>2. PICK w : (w = Whole(n) \/ w \in Failing(n)) /\ wire' = [wire EXCEPT ![q] = w]
  BY <1>1
<1>3. /\ stream[q].at = "posted" /\ Live(stream[q].of) /\ InFlight(q)
      /\ Store(stream[q].of, Question(q))
      /\ stream' = [stream EXCEPT ![q].at = "open"]
      /\ UNCHANGED <<sessions, active, messages, streaming, seen, effected, opening, load,
                     making, deleting>>
  BY DEF ServePost, InFlight
<1>4. /\ stream \in [Questions -> Streams] /\ stream[q] \in Streams /\ stream[q].kept = 0
      /\ server \in [Questions -> Replies] /\ wire \in [Questions -> Seq(Kinds)]
      /\ log \in [Sessions -> Seq(Shown) \union {None}]
  BY <1>3 DEF PageInv, RequestType, ServerType, ReplyInv
<1>5. w \in Seq(Kinds) /\ Fits(w, 0)
  BY <1>2, SentFits
<1> DEFINE x == [stream[q] EXCEPT !.at = "open"]
<1>6. x \in Streams /\ x.at = "open" /\ x.calm = stream[q].calm /\ x.kept = 0
  BY <1>4 DEF Streams
<1>7. stream' = [stream EXCEPT ![q] = x]
  BY <1>3, <1>4
<1> HIDE DEF x
<1>8. /\ wire' \in [Questions -> Seq(Kinds)] /\ wire'[q] = w
      /\ \A p \in Questions : p # q => wire'[p] = wire[p]
  BY <1>2, <1>4, <1>5
<1>9. server' \in [Questions -> Replies]
  BY <1>1, <1>4 DEF Replies, Streams
<1>10. log' \in [Sessions -> Seq(Shown) \union {None}]
  <2> DEFINE s == stream[q].of
  <2>1. log' = [log EXCEPT ![s] = Append(log[s], Question(q))] /\ log[s] # None
    BY <1>3, <1>4 DEF Store, Live
  <2>2. CASE s \in Sessions
    <3>1. log[s] \in Seq(Shown) /\ Question(q) \in Shown
      BY <1>4, <2>1, <2>2 DEF Question, Shown, MessagesOf
    <3>2. Append(log[s], Question(q)) \in Seq(Shown)
      BY <3>1, AppendProperties
    <3> QED
      BY <1>4, <2>1, <2>2, <3>2
  <2>3. CASE s \notin Sessions
    BY <1>4, <2>1, <2>3
  <2> QED
    BY <2>2, <2>3
<1>11. Fits(wire'[q], x.kept)
  BY <1>5, <1>6, <1>8
<1> QED
  BY <1>3, <1>6, <1>7, <1>8, <1>9, <1>10, <1>11, GoesOnKeeps

-----------------------------------------------------------------------------
(***************************************************************************)
(* The invariant of the page, and what follows from it.                    *)
(***************************************************************************)

LEMMA PageInit == Init => PageInv
<1> SUFFICES ASSUME Init PROVE PageInv
  OBVIOUS
<1>1. PageType
  BY EmptySeq DEF Init, PageType, Rendered, Rendering, Chosen
<1>2. NoLoad \in Loads /\ NoLoad.at = "none"
  BY EmptySeq DEF NoLoad, Loads, Chosen
<1>3. NoStream \in Streams /\ NoStream.at = "none"
  BY NoStreamFields
<1>4. NoTurn \in Replies
  BY ClientAssumption DEF NoTurn, Replies, Chosen
<1>5. RequestType
  BY <1>2, <1>3 DEF Init, RequestType, Openings, NotOpened
<1>6. ServerType
  BY <1>4, EmptySeq DEF Init, ServerType
<1>7. WaitInv /\ Busy /\ \A q \in Questions : ReplyInv(q) /\ CalmInv(q)
  BY <1>3 DEF Init, WaitInv, Busy, ReplyInv, CalmInv, InFlight
<1> QED
  BY <1>1, <1>5, <1>6, <1>7 DEF PageInv

LEMMA PageStep == PageInv /\ [Next]_vars => PageInv'
<1> SUFFICES ASSUME PageInv, [Next]_vars PROVE PageInv'
  OBVIOUS
<1>1. CASE UNCHANGED vars
  <2>1. Types' /\ WaitInv'
    BY <1>1 DEF vars, client, service, Types, PageType, RequestType, ServerType, PageInv, WaitInv
  <2> QED
    BY <1>1, <2>1, StillKeeps DEF vars, client, service
<1>2. CASE Next
  BY <1>2, RenderKeeps, EffectsStepKeeps, OpenKeeps, CreateSessionKeeps, LoadedKeeps,
     LoadingKeeps, SwitchKeeps, DeleteKeeps, CreatedKeeps, CreateFailsKeeps, SendKeeps,
     ReceiveKeeps, ReplyFailsKeeps, ReplyStopsKeeps, ServeCreateKeeps, ServePostKeeps,
     ServeSaveKeeps DEF Next
<1> QED
  BY <1>1, <1>2

LEMMA PageInvariant == Spec => []PageInv
BY PageInit, PageStep, PTL DEF Spec

\* The input is closed only while a reply is on its way, however replies end, sessions
\* are switched, deleted and created, and renders and effects fall between them.
THEOREM InputReopens == Spec => []BusyMeansReplyComing
<1>1. PageInv => BusyMeansReplyComing
  <2> SUFFICES ASSUME PageInv PROVE BusyMeansReplyComing
    OBVIOUS
  <2>1. TypeOK
    BY DEF PageInv, PageType, RequestType, ServerType, TypeOK, Shown, Chosen, Rendering,
       Openings, Loads, Creations, Streams, Replies
  <2> QED
    BY <2>1 DEF PageInv, Busy, BusyMeansReplyComing
<1> QED
  BY <1>1, PageInvariant, PTL

\* A question asked in a session whose effects had run stays on the page until its reply
\* has ended, whatever load was under way.
THEOREM QuestionStays == Spec => []QuestionStaysShown
<1>1. PageInv => QuestionStaysShown
  BY DEF PageInv, CalmInv, QuestionStaysShown
<1> QED
  BY <1>1, PageInvariant, PTL

-----------------------------------------------------------------------------
(***************************************************************************)
(* What the page shows and what is stored.                                 *)
(***************************************************************************)

\* The page knows no id that was not drawn, so none it knows is ever drawn again.
DrawnPage ==
  /\ sessions \subseteq drawn /\ seen.sessions \subseteq drawn /\ opening.got \subseteq drawn
  /\ {active, seen.active, effected} \subseteq drawn \union {None}
  /\ \A m \in making : m.of \in drawn \union {None}

\* Nor is any id of a session there is; nothing empty is stored.
DrawnLog ==
  \A s \in Sessions : Live(s) => s \in drawn /\ \A i \in DOMAIN log[s] : log[s][i].size # 0

Off(q) == ~InFlight(q) /\ server[q].at = "off"

LoadInv ==
  /\ load.at # "none" => load.of = effected
  /\ load.at = "answered" /\ load.clean =>
       (\A q \in Questions : Off(q)) /\ (Live(load.of) => load.got = log[load.of])

\* The events w end a reply with n pieces, k of which were taken, unless an error comes first.
Ends(w, k, n) ==
  \A i \in DOMAIN w : w[i] = "done" /\ (\A j \in 1..(i - 1) : w[j] # "error") => k + i = n + 1

\* The one reply q under way: its question is yet to be stored; or it is on its way,
\* and stored after it or before; or it has come and is yet to be stored.
OneReply(q, stored) ==
  /\ \A p \in Questions : p # q => Off(p)
  /\ \/ /\ stream[q].at = "posted" /\ stream[q].of = effected /\ server[q].at = "off"
        /\ Shows(messages, Append(stored, Question(q)))
     \/ /\ stream[q].at = "open" /\ server[q].at = "on" /\ server[q].of = effected
        /\ Ends(wire[q], stream[q].kept, server[q].said)
        /\ Shows(messages, stored)
     \/ /\ stream[q].at = "open" /\ server[q].at = "off"
        /\ \E n \in 0..MaxPieces : /\ Ends(wire[q], stream[q].kept, n)
                                  /\ Shows(Append(messages, Answer(q, n)), stored)
     \/ /\ ~InFlight(q) /\ server[q].at = "on" /\ server[q].of = effected
        /\ Shows(messages, IF server[q].said = 0 THEN stored
                           ELSE Append(stored, Answer(q, server[q].said)))

Agrees(stored) ==
  \/ (\A q \in Questions : Off(q)) /\ Shows(messages, stored)
  \/ \E q \in Questions : OneReply(q, stored)

TidyPage ==
  /\ effected = None => messages = <<>> /\ \A q \in Questions : ~InFlight(q)
  /\ effected # None /\ Live(effected) => Agrees(log[effected])

SyncInv == DrawnPage /\ DrawnLog /\ LoadInv /\ (tidy /\ load.at = "none" => TidyPage)


-----------------------------------------------------------------------------
(***************************************************************************)
(* A message more on the page, in the log, or on both.                     *)
(***************************************************************************)

LEMMA Appended ==
  ASSUME NEW list \in Seq(Shown), NEW m \in Shown
  PROVE  /\ Len(list) \in Nat /\ DOMAIN list = 1..Len(list)
         /\ Append(list, m) \in Seq(Shown) /\ DOMAIN Append(list, m) = 1..(Len(list) + 1)
         /\ \A i \in 1..Len(list) : Append(list, m)[i] = list[i]
         /\ Append(list, m)[Len(list) + 1] = m
<1>1. /\ Append(list, m) \in Seq(Shown) /\ Len(Append(list, m)) = Len(list) + 1
      /\ \A i \in 1..Len(list) : Append(list, m)[i] = list[i]
      /\ Append(list, m)[Len(list) + 1] = m
  BY AppendProperties
<1> QED
  BY <1>1, LenProperties

\* at tells where in page, with the positions P, the messages of stored are, with the
\* positions S.
ShowsAt(at, page, stored, S, P) ==
  /\ \A i, j \in S : i < j => at[i] < at[j]
  /\ \A i \in S : page[at[i]] = stored[i]
  /\ {at[i] : i \in S} = {j \in P : page[j].size # 0}

LEMMA ShowsWhere ==
  ASSUME NEW page, NEW stored, NEW S, S = DOMAIN stored, NEW P, P = DOMAIN page
  PROVE  Shows(page, stored) <=> \E at \in [S -> P] : ShowsAt(at, page, stored, S, P)
<1>1. Shows(page, stored)
        <=> \E at \in [DOMAIN stored -> DOMAIN page] :
              ShowsAt(at, page, stored, DOMAIN stored, DOMAIN page)
  BY Zenon DEF Shows, ShowsAt
<1> QED
  BY <1>1, Zenon

LEMMA ShowsBoth ==
  ASSUME NEW page \in Seq(Shown), NEW stored \in Seq(Shown), NEW m \in Shown, m.size # 0,
         Shows(page, stored)
  PROVE  Shows(Append(page, m), Append(stored, m))
<1> DEFINE k == Len(stored)
           l == Len(page)
           p == Append(page, m)
           t == Append(stored, m)
<1>1. /\ k \in Nat /\ DOMAIN stored = 1..k /\ DOMAIN t = 1..(k + 1)
      /\ \A i \in 1..k : t[i] = stored[i]
      /\ t[k + 1] = m
  BY Appended
<1>2. /\ l \in Nat /\ DOMAIN page = 1..l /\ DOMAIN p = 1..(l + 1)
      /\ \A i \in 1..l : p[i] = page[i]
      /\ p[l + 1] = m
  BY Appended
<1> HIDE DEF k, l, p, t
<1>3. PICK at \in [1..k -> 1..l] : ShowsAt(at, page, stored, 1..k, 1..l)
  BY <1>1, <1>2, ShowsWhere
<1> DEFINE b == [i \in 1..(k + 1) |-> IF i <= k THEN at[i] ELSE l + 1]
<1>4. /\ b \in [1..(k + 1) -> 1..(l + 1)]
      /\ \A i \in 1..k : i \in 1..(k + 1) /\ b[i] = at[i] /\ b[i] \in 1..l
      /\ k + 1 \in 1..(k + 1) /\ b[k + 1] = l + 1
  BY <1>1, <1>2
<1>5. \A i \in 1..(k + 1) : i \in 1..k \/ i = k + 1
  BY <1>1
<1> HIDE DEF b
<1>6. ASSUME NEW i \in 1..(k + 1), NEW j \in 1..(k + 1), i < j
      PROVE  b[i] < b[j]
  <2>1. i \in 1..k
    BY <1>1, <1>6
  <2>2. CASE j \in 1..k
    BY <1>3, <1>4, <1>6, <2>1, <2>2 DEF ShowsAt
  <2>3. CASE j = k + 1
    BY <1>2, <1>4, <2>1, <2>3
  <2> QED
    BY <1>5, <2>2, <2>3
<1>7. \A i \in 1..(k + 1) : p[b[i]] = t[i]
  BY <1>1, <1>2, <1>3, <1>4, <1>5 DEF ShowsAt
<1>8. \A j \in 1..(l + 1) : p[j].size # 0 => \E i \in 1..(k + 1) : b[i] = j
  <2> SUFFICES ASSUME NEW j \in 1..(l + 1), p[j].size # 0
               PROVE  \E i \in 1..(k + 1) : b[i] = j
    OBVIOUS
  <2>1. CASE j = l + 1
    BY <1>4, <2>1
  <2>2. CASE j # l + 1
    <3>1. j \in 1..l /\ page[j].size # 0
      BY <1>2, <2>2
    <3>2. PICK i \in 1..k : at[i] = j
      BY <1>3, <3>1 DEF ShowsAt
    <3> QED
      BY <1>4, <3>2
  <2> QED
    BY <2>1, <2>2
<1>9. \A i \in 1..(k + 1) : b[i] \in 1..(l + 1) /\ p[b[i]].size # 0
  <2> SUFFICES ASSUME NEW i \in 1..(k + 1)
               PROVE  b[i] \in 1..(l + 1) /\ p[b[i]].size # 0
    OBVIOUS
  <2>1. CASE i = k + 1
    BY <1>2, <1>4, <2>1
  <2>2. CASE i \in 1..k
    <3>1. page[at[i]].size # 0 /\ at[i] \in 1..l
      BY <1>3, <2>2 DEF ShowsAt
    <3> QED
      BY <1>2, <1>4, <2>2, <3>1
  <2> QED
    BY <1>5, <2>1, <2>2
<1>10. {b[i] : i \in 1..(k + 1)} = {j \in 1..(l + 1) : p[j].size # 0}
  BY <1>8, <1>9
<1> QED
  <2>1. ShowsAt(b, p, t, 1..(k + 1), 1..(l + 1))
    BY <1>6, <1>7, <1>10 DEF ShowsAt
  <2> QED
    BY <1>1, <1>2, <1>4, <2>1, ShowsWhere DEF p, t

\* An empty reply is shown and not stored.
LEMMA ShowsEmpty ==
  ASSUME NEW page \in Seq(Shown), NEW stored \in Seq(Shown), NEW m \in Shown, m.size = 0,
         Shows(page, stored)
  PROVE  Shows(Append(page, m), stored)
<1> DEFINE k == Len(stored)
           l == Len(page)
           p == Append(page, m)
<1>1. k \in Nat /\ DOMAIN stored = 1..k
  BY LenProperties
<1>2. /\ l \in Nat /\ DOMAIN page = 1..l /\ DOMAIN p = 1..(l + 1)
      /\ \A i \in 1..l : p[i] = page[i]
      /\ p[l + 1] = m
  BY Appended
<1> HIDE DEF k, l, p
<1>3. PICK at \in [1..k -> 1..l] : ShowsAt(at, page, stored, 1..k, 1..l)
  BY <1>1, <1>2, ShowsWhere
<1>4. at \in [1..k -> 1..(l + 1)] /\ \A i \in 1..k : at[i] \in 1..l
  BY <1>2
<1>5. \A i \in 1..k : p[at[i]] = stored[i]
  BY <1>2, <1>3, <1>4 DEF ShowsAt
<1>6. {j \in 1..(l + 1) : p[j].size # 0} = {j \in 1..l : page[j].size # 0}
  <2>1. \A j \in 1..(l + 1) : j \in 1..l \/ j = l + 1
    BY <1>2
  <2>2. \A j \in 1..l : j \in 1..(l + 1) /\ p[j] = page[j]
    BY <1>2
  <2> QED
    BY <1>2, <2>1, <2>2
<1> QED
  <2>1. ShowsAt(at, p, stored, 1..k, 1..(l + 1))
    BY <1>3, <1>5, <1>6 DEF ShowsAt
  <2> QED
    BY <1>1, <1>2, <1>4, <2>1, ShowsWhere DEF p

LEMMA ShowsSelf ==
  ASSUME NEW list \in Seq(Shown), \A i \in DOMAIN list : list[i].size # 0
  PROVE  Shows(list, list)
<1> DEFINE at == [i \in DOMAIN list |-> i]
<1>1. /\ at \in [DOMAIN list -> DOMAIN list]
      /\ \A i \in DOMAIN list : at[i] = i
  OBVIOUS
<1> HIDE DEF at
<1>2. {at[i] : i \in DOMAIN list} = {j \in DOMAIN list : list[j].size # 0}
  BY <1>1
<1> QED
  BY <1>1, <1>2 DEF Shows

-----------------------------------------------------------------------------
(***************************************************************************)
(* How a reply ends.                                                       *)
(***************************************************************************)

LEMMA SentEnds ==
  ASSUME NEW n \in 0..MaxPieces, NEW w, w = Whole(n) \/ w \in Failing(n)
  PROVE  Ends(w, 0, n)
<1>0. n \in Nat
  OBVIOUS
<1>1. CASE w = Whole(n)
  <2>1. DOMAIN w = 1..(n + 1) /\ \A i \in 1..n : w[i] = "delta"
    BY <1>0, <1>1, WholeFields, LenProperties
  <2> QED
    BY <1>0, <2>1 DEF Ends
<1>2. CASE w = Front(Whole(n))
  <2>1. DOMAIN w = 1..n /\ \A i \in 1..n : w[i] = "delta"
    BY <1>0, <1>2, CutFields, LenProperties
  <2> QED
    BY <2>1 DEF Ends
<1>3. CASE w = Front(Whole(n)) \o <<"error">>
  <2> DEFINE a == Front(Whole(n))
             e == <<"error">>
  <2>1. a \in Seq(Kinds) /\ Len(a) = n /\ \A i \in 1..n : a[i] = "delta"
    BY <1>0, CutFields
  <2>2. e \in Seq(Kinds) /\ Len(e) = 1 /\ e[1] = "error"
    BY DEF Kinds
  <2>3. w = a \o e
    BY <1>3
  <2> HIDE DEF a, e
  <2>4. /\ w \in Seq(Kinds) /\ Len(w) = Len(a) + Len(e)
        /\ \A i \in 1..Len(a) : w[i] = a[i]
        /\ \A i \in 1..Len(e) : w[Len(a) + i] = e[i]
    BY <2>1, <2>2, <2>3, Joined
  <2>5. 1 \in 1..1
    OBVIOUS
  <2>6. DOMAIN w = 1..(n + 1) /\ w[n + 1] = "error" /\ \A i \in 1..n : w[i] = "delta"
    BY <1>0, <2>1, <2>2, <2>4, <2>5, LenProperties
  <2> QED
    BY <1>0, <2>6 DEF Ends
<1>4. ASSUME NEW p \in 1..(n + 1), w = InsertAt(Whole(n), p, "error")
      PROVE  Ends(w, 0, n)
  <2>0. /\ w \in Seq(Kinds) /\ Len(w) = n + 2 /\ w[p] = "error"
        /\ \A i \in 1..(p - 1) : w[i] = "delta"
    BY <1>0, <1>4, LateFields
  <2>1. DOMAIN w = 1..(n + 2)
    BY <2>0, LenProperties
  <2>2. ASSUME NEW i \in 1..(n + 2), w[i] = "done"
        PROVE  \E j \in 1..(i - 1) : w[j] = "error"
    <3>1. i # p /\ ~(i \in 1..(p - 1))
      BY <2>0, <2>2
    <3>2. p \in 1..(i - 1)
      BY <1>0, <3>1
    <3> QED
      BY <2>0, <3>2
  <2> QED
    BY <2>1, <2>2 DEF Ends
<1> QED
  BY <1>1, <1>2, <1>3, <1>4 DEF Failing

LEMMA TailEnds ==
  ASSUME NEW w \in Seq(Kinds), w # <<>>, NEW k \in Nat, NEW n \in Nat, Ends(w, k, n)
  PROVE  /\ Head(w) = "delta" => Ends(Tail(w), k + 1, n)
         /\ Head(w) = "done" => k = n
<1> DEFINE l == Len(w)
           v == Tail(w)
<1>1. /\ l \in Nat /\ DOMAIN w = 1..l /\ l # 0 /\ Head(w) = w[1]
      /\ v \in Seq(Kinds) /\ Len(v) = l - 1
      /\ \A i \in 1..(l - 1) : v[i] = w[i + 1]
  BY LenProperties, EmptySeq, HeadTailProperties
<1>2. DOMAIN v = 1..(l - 1)
  BY <1>1, LenProperties
<1> HIDE DEF l, v
<1>3. ASSUME Head(w) = "delta"
      PROVE  Ends(v, k + 1, n)
  <2>1. ASSUME NEW i \in 1..(l - 1), v[i] = "done", \A j \in 1..(i - 1) : v[j] # "error"
        PROVE  k + 1 + i = n + 1
    <3>1. i + 1 \in 1..l /\ w[i + 1] = "done"
      BY <1>1, <2>1
    <3>2. ASSUME NEW j \in 1..((i + 1) - 1)
          PROVE  w[j] # "error"
      <4>1. CASE j = 1
        BY <1>1, <1>3, <4>1
      <4>2. CASE j # 1
        <5>1. j - 1 \in 1..(i - 1) /\ j - 1 \in 1..(l - 1) /\ (j - 1) + 1 = j
          BY <1>1, <4>2
        <5> QED
          BY <1>1, <2>1, <5>1
      <4> QED
        BY <4>1, <4>2
    <3>3. k + (i + 1) = n + 1
      BY <1>1, <3>1, <3>2 DEF Ends
    <3> QED
      BY <3>3
  <2> QED
    BY <1>2, <2>1 DEF Ends
<1>4. ASSUME Head(w) = "done"
      PROVE  k = n
  <2>1. 1 \in 1..l /\ 1..(1 - 1) = {}
    BY <1>1
  <2>2. k + 1 = n + 1
    BY <1>1, <1>4, <2>1 DEF Ends
  <2> QED
    BY <2>2
<1> QED
  BY <1>3, <1>4 DEF v

-----------------------------------------------------------------------------
(***************************************************************************)
(* Ids that were drawn, and what is stored under them.                     *)
(***************************************************************************)

\* What Store does.
LEMMA StoreDoes ==
  ASSUME PageInv, DrawnLog, NEW s, NEW m \in Shown, m.size # 0, Store(s, m), drawn' = drawn
  PROVE  /\ DrawnLog'
         /\ \A t \in Sessions : /\ log'[t] # None => log[t] # None
                                /\ t # s => log'[t] = log[t]
         /\ s \in Sessions /\ log[s] # None => log'[s] = Append(log[s], m)
<1>1. log \in [Sessions -> Seq(Shown) \union {None}]
  BY DEF PageInv, ServerType
<1>2. CASE s \in Sessions /\ log[s] # None
  <2>1. log' = [log EXCEPT ![s] = Append(log[s], m)]
    BY <1>1, <1>2 DEF Store, Live
  <2>2. log[s] \in Seq(Shown)
    BY <1>1, <1>2
  <2> DEFINE a == Append(log[s], m)
  <2>3. \A i \in DOMAIN a : a[i].size # 0
    <3>1. /\ Len(log[s]) \in Nat /\ DOMAIN log[s] = 1..Len(log[s])
          /\ DOMAIN a = 1..(Len(log[s]) + 1)
          /\ \A i \in 1..Len(log[s]) : a[i] = log[s][i]
          /\ a[Len(log[s]) + 1] = m
      BY <2>2, Appended
    <3>2. \A i \in DOMAIN log[s] : log[s][i].size # 0
      BY <1>2 DEF DrawnLog, Live
    <3> DEFINE n == Len(log[s])
    <3> HIDE DEF n, a
    <3>3. \A i \in 1..(n + 1) : i \in 1..n \/ i = n + 1
      BY <3>1 DEF n
    <3> QED
      BY <3>1, <3>2, <3>3 DEF n
  <2>4. log'[s] = a /\ \A t \in Sessions : t # s => log'[t] = log[t]
    BY <1>1, <1>2, <2>1
  <2> HIDE DEF a
  <2>5. DrawnLog'
    BY <1>2, <2>3, <2>4 DEF DrawnLog, Live
  <2> QED
    BY <1>2, <2>4, <2>5 DEF a
<1>3. CASE ~(s \in Sessions /\ log[s] # None)
  <2>1. \A t \in Sessions : log'[t] = log[t]
    BY <1>1, <1>3 DEF Store, Live
  <2> QED
    BY <1>3, <2>1 DEF DrawnLog, Live
<1> QED
  BY <1>2, <1>3

\* What the page knows was drawn, whatever it does.
LEMMA PageStaysDrawn ==
  ASSUME PageInv, DrawnPage, DrawnLog, UNCHANGED <<log, drawn>>, Next
  PROVE  DrawnPage' /\ DrawnLog'
<1>1. DrawnLog'
  BY DEF DrawnLog, Live
<1> SUFFICES DrawnPage'
  BY <1>1
<1>2. CASE Render
  BY <1>2 DEF Render, DrawnPage, Rendered
<1>3. CASE Effects
  BY <1>3 DEF Effects, RunEffects, DrawnPage
<1>4. CASE OpenPanel \/ CreateSession \/ Loaded \/ LoadFails \/ ServeLoad
  <2>1. /\ UNCHANGED <<sessions, active, seen, effected, drawn>> /\ opening'.got = opening.got
        /\ \A m \in making' : m \in making \/ m.of = None
    BY <1>4 DEF OpenPanel, CreateSession, Loaded, LoadFails, ServeLoad, service, PageInv,
                RequestType, Openings
  <2> QED
    BY <2>1 DEF DrawnPage
<1>5. CASE ListCame
  BY <1>5 DEF ListCame, DrawnPage, NotOpened
<1>6. CASE ServeList
  <2>1. /\ UNCHANGED <<sessions, active, seen, effected, making, drawn>>
        /\ opening'.got = opening.got \/ opening'.got = {s \in Sessions : Live(s)}
    BY <1>6 DEF ServeList, service, PageInv, RequestType, Openings
  <2> QED
    BY <2>1 DEF DrawnPage, DrawnLog
<1>7. ASSUME NEW s \in Sessions,
             SwitchSession(s) \/ DeleteSession(s) \/ Deleted(s) \/ DeleteFails(s)
                \/ ServeDelete(s)
      PROVE  DrawnPage'
  <2>1. CASE SwitchSession(s)
    <3>1. seen' = [Rendered EXCEPT !.active = s] /\ active' = s /\ effected' = s
      BY <2>1 DEF SwitchSession, RunEffects
    <3>2. seen'.sessions = sessions /\ seen'.active = s
      BY <3>1 DEF Rendered
    <3> QED
      BY <2>1, <3>1, <3>2 DEF SwitchSession, DrawnPage
  <2>2. CASE DeleteSession(s) \/ DeleteFails(s) \/ ServeDelete(s)
    BY <2>2 DEF DeleteSession, DeleteFails, ServeDelete, DrawnPage
  <2>3. CASE Deleted(s)
    BY <2>3 DEF Deleted, DrawnPage
  <2> QED
    BY <1>7, <2>1, <2>2, <2>3
<1>8. ASSUME NEW m \in making, Created(m) \/ CreateFails(m)
      PROVE  DrawnPage'
  <2>1. CASE Created(m)
    BY <2>1 DEF Created, DrawnPage, PageInv, RequestType, Openings
  <2>2. CASE CreateFails(m)
    BY <2>2 DEF CreateFails, DrawnPage
  <2> QED
    BY <1>8, <2>1, <2>2
<1>9. ASSUME NEW q \in Questions,
             SendMessage(q) \/ Receive(q) \/ ReplyFails(q) \/ ReplyStops(q) \/ ServePost(q)
               \/ ServeSave(q)
      PROVE  DrawnPage'
  <2>1. CASE SendMessage(q)
    <3>1. /\ UNCHANGED <<sessions, active, effected, opening>>
          /\ \A m \in making' : m \in making \/ m.of = None
          /\ seen'.sessions \in {seen.sessions, sessions}
          /\ seen'.active \in {seen.active, active}
      BY <2>1 DEF SendMessage, Rendered
    <3> QED
      BY <3>1 DEF DrawnPage
  <2>2. CASE ~SendMessage(q)
    <3>1. UNCHANGED <<sessions, active, seen, effected, opening, making>>
      BY <1>9, <2>2 DEF Receive, ReplyFails, ReplyStops, ServePost, ServeSave, client
    <3> QED
      BY <3>1 DEF DrawnPage
  <2> QED
    BY <2>1, <2>2
<1>10. ASSUME NEW s \in Sessions, ServeCreate(s)
       PROVE  FALSE
  BY <1>10 DEF ServeCreate
<1> QED
  BY <1>1, <1>2, <1>3, <1>4, <1>5, <1>6, <1>7, <1>8, <1>9, <1>10 DEF Next

\* A drawn id is drawn for good.
LEMMA CreateIsDrawn ==
  ASSUME PageInv, DrawnPage, DrawnLog, NEW s \in Sessions, ServeCreate(s)
  PROVE  DrawnPage' /\ DrawnLog'
<1>1. /\ drawn' = drawn \union {s} /\ log' = [log EXCEPT ![s] = <<>>]
      /\ UNCHANGED <<sessions, active, seen, effected>>
  BY DEF ServeCreate
<1>2. log \in [Sessions -> Seq(Shown) \union {None}] /\ DOMAIN <<>> = {}
  BY EmptySeq, LenProperties DEF PageInv, ServerType
<1>3. DrawnLog'
  BY <1>1, <1>2 DEF DrawnLog, Live
<1>4. opening'.got \subseteq drawn' /\ \A m \in making' : m.of \in drawn' \union {None}
  <2>1. CASE opening' = [opening EXCEPT !.at = "came", !.got = {s}] /\ UNCHANGED making
    BY <1>1, <2>1 DEF DrawnPage, PageInv, RequestType, Openings
  <2>2. ASSUME NEW m \in making, UNCHANGED opening,
               making' = (making \ {m}) \union {[m EXCEPT !.of = s]}
        PROVE  opening'.got \subseteq drawn' /\ \A n \in making' : n.of \in drawn' \union {None}
    <3>1. [m EXCEPT !.of = s].of = s
      BY DEF PageInv, RequestType, Creations
    <3> QED
      BY <1>1, <2>2, <3>1 DEF DrawnPage
  <2> QED
    BY <2>1, <2>2 DEF ServeCreate
<1> QED
  BY <1>1, <1>3, <1>4 DEF DrawnPage

LEMMA DrawnStep ==
  ASSUME PageInv, DrawnPage, DrawnLog, Next
  PROVE  DrawnPage' /\ DrawnLog'
<1>1. CASE UNCHANGED <<log, drawn>>
  BY <1>1, PageStaysDrawn
<1>2. ASSUME NEW s \in Sessions, ServeCreate(s)
      PROVE  DrawnPage' /\ DrawnLog'
  BY <1>2, CreateIsDrawn
<1>3. ASSUME NEW s \in Sessions, ServeDelete(s)
      PROVE  DrawnPage' /\ DrawnLog'
  <2>1. /\ log' = [log EXCEPT ![s] = None]
        /\ UNCHANGED <<sessions, active, seen, effected, opening, making, drawn>>
    BY <1>3 DEF ServeDelete
  <2>2. log \in [Sessions -> Seq(Shown) \union {None}]
    BY DEF PageInv, ServerType
  <2> QED
    BY <2>1, <2>2 DEF DrawnPage, DrawnLog, Live
<1>4. ASSUME NEW q \in Questions, ServePost(q)
      PROVE  DrawnPage' /\ DrawnLog'
  <2>1. PICK s : s = stream[q].of
    OBVIOUS
  <2>2. Store(s, Question(q)) /\ UNCHANGED drawn
    BY <1>4, <2>1 DEF ServePost
  <2>3. Question(q) \in Shown /\ Question(q).size # 0
    BY DEF Question, Shown, MessagesOf
  <2>4. DrawnLog'
    BY <2>2, <2>3, StoreDoes
  <2> QED
    BY <1>4, <2>4 DEF ServePost, DrawnPage
<1>5. ASSUME NEW q \in Questions, ServeSave(q)
      PROVE  DrawnPage' /\ DrawnLog'
  <2>1. UNCHANGED <<client, drawn>>
    BY <1>5 DEF ServeSave
  <2>2. PICK s, n : s = server[q].of /\ n = server[q].said
    OBVIOUS
  <2>3. CASE n # 0 /\ Store(s, Answer(q, n))
    <3>1. n \in 0..MaxPieces
      BY <2>2 DEF PageInv, ServerType, Replies
    <3>2. Answer(q, n) \in Shown /\ Answer(q, n).size # 0
      BY <2>3, <3>1 DEF Answer, Shown, MessagesOf
    <3>3. DrawnLog'
      BY <2>1, <2>3, <3>2, StoreDoes
    <3> QED
      BY <2>1, <3>3 DEF client, DrawnPage
  <2>4. CASE UNCHANGED log
    BY <2>1, <2>4 DEF client, DrawnPage, DrawnLog, Live
  <2> QED
    BY <1>5, <2>2, <2>3, <2>4 DEF ServeSave
<1> QED
  <2>1. \/ UNCHANGED <<log, drawn>>
        \/ \E s \in Sessions : ServeCreate(s) \/ ServeDelete(s)
        \/ \E q \in Questions : ServePost(q) \/ ServeSave(q)
    BY DEF Next, Render, Effects, OpenPanel, ListCame, CreateSession, Loaded, LoadFails,
           SwitchSession, DeleteSession, Deleted, DeleteFails, Created, CreateFails,
           SendMessage, Receive, ReplyFails, ReplyStops, ServeList, ServeLoad, service
  <2> QED
    BY <1>1, <1>2, <1>3, <1>4, <1>5, <2>1

-----------------------------------------------------------------------------
(***************************************************************************)
(* Steps that change nothing a reply or a load is about.                   *)
(***************************************************************************)

Drawn == DrawnPage /\ DrawnLog

\* The invariant after a step, with what is stored then.
LEMMA TidyNext ==
  ASSUME NEW stored,
         effected' = None => messages' = <<>> /\ \A q \in Questions : ~InFlight(q)',
         effected' # None /\ log'[effected'] # None =>
           stored = log'[effected'] /\ Agrees(stored)'
  PROVE  TidyPage'
<1>1. ASSUME effected' # None, log'[effected'] # None
      PROVE  Agrees(log[effected])'
  <2>1. stored = log'[effected'] /\ Agrees(stored)'
    BY <1>1
  <2> QED
    BY <2>1 DEF Agrees, OneReply
<1> QED
  BY <1>1 DEF TidyPage, Live

LEMMA SyncStill ==
  ASSUME PageInv, SyncInv, Drawn', tidy' => tidy,
         UNCHANGED <<messages, effected, load, server, wire>>,
         \A q \in Questions : /\ InFlight(q)' <=> InFlight(q)
                              /\ InFlight(q) => stream'[q] = stream[q],
         effected \in Sessions /\ log'[effected] # None => log'[effected] = log[effected]
  PROVE  SyncInv'
<1>1. \A q \in Questions : Off(q)' <=> Off(q)
  BY DEF Off
<1>2. load.at # "none" => load.of \in Sessions
  BY DEF PageInv, RequestType
<1>3. LoadInv'
  BY <1>1, <1>2 DEF SyncInv, LoadInv, Live
<1>4. ASSUME NEW q \in Questions, NEW stored, OneReply(q, stored)
      PROVE  OneReply(q, stored)'
  <2>1. \A p \in Questions : p # q => Off(p)'
    BY <1>1, <1>4 DEF OneReply
  <2>2. CASE InFlight(q)
    BY <1>4, <2>1, <2>2 DEF OneReply
  <2>3. CASE ~InFlight(q)
    BY <1>4, <2>1, <2>3 DEF OneReply, InFlight
  <2> QED
    BY <2>2, <2>3
<1>5. ASSUME tidy', load'.at = "none"
      PROVE  TidyPage'
  <2>1. TidyPage
    BY <1>5 DEF SyncInv
  <2>2. effected' = None => messages' = <<>> /\ \A q \in Questions : ~InFlight(q)'
    BY <2>1 DEF TidyPage
  <2>3. PICK stored : stored = log[effected]
    OBVIOUS
  <2>4. ASSUME effected' # None, log'[effected'] # None
        PROVE  stored = log'[effected'] /\ Agrees(stored)'
    <3>1. effected \in Sessions
      BY <2>4 DEF PageInv, PageType, Chosen
    <3>2. stored = log'[effected'] /\ Live(effected)
      BY <2>3, <2>4, <3>1 DEF Live
    <3>3. Agrees(stored)
      BY <2>1, <2>3, <2>4, <3>2 DEF TidyPage
    <3>4. CASE (\A q \in Questions : Off(q)) /\ Shows(messages, stored)
      BY <1>1, <3>2, <3>4 DEF Agrees
    <3>5. ASSUME NEW q \in Questions, OneReply(q, stored)
          PROVE  Agrees(stored)'
      BY <1>4, <3>5 DEF Agrees
    <3> QED
      BY <3>2, <3>3, <3>4, <3>5 DEF Agrees
  <2> QED
    BY <2>2, <2>4, TidyNext
<1> QED
  BY <1>3, <1>5 DEF SyncInv, Drawn

LEMMA RenderSyncs ==
  ASSUME PageInv, SyncInv, Drawn',
         Render \/ OpenPanel \/ ListCame \/ CreateSession \/ ServeList
  PROVE  SyncInv'
<1>1. UNCHANGED <<messages, effected, load, server, wire, tidy, stream, log>>
  BY DEF Render, OpenPanel, ListCame, CreateSession, ServeList, service
<1> QED
  BY <1>1, SyncStill DEF InFlight

LEMMA SessionsSync ==
  ASSUME PageInv, SyncInv, Drawn', NEW s \in Sessions,
         DeleteSession(s) \/ Deleted(s) \/ DeleteFails(s) \/ ServeDelete(s) \/ ServeCreate(s)
  PROVE  SyncInv'
<1>1. UNCHANGED <<messages, effected, load, server, wire, tidy, stream>>
  BY DEF DeleteSession, Deleted, DeleteFails, ServeDelete, ServeCreate, service
<1>2. log \in [Sessions -> Seq(Shown) \union {None}]
  BY DEF PageInv, ServerType
<1>3. effected \in Sessions => effected \in drawn
  BY ClientAssumption DEF SyncInv, DrawnPage
<1>4. ASSUME effected \in Sessions, log'[effected] # None
      PROVE  log'[effected] = log[effected]
  <2>1. CASE ServeCreate(s)
    BY <1>2, <1>3, <1>4, <2>1 DEF ServeCreate
  <2>2. CASE ServeDelete(s)
    BY <1>2, <1>4, <2>2 DEF ServeDelete
  <2>3. CASE UNCHANGED log
    BY <2>3
  <2> QED
    BY <2>1, <2>2, <2>3 DEF DeleteSession, Deleted, DeleteFails, service
<1> QED
  BY <1>1, <1>4, SyncStill DEF InFlight

LEMMA WaitingSyncs ==
  ASSUME PageInv, SyncInv, Drawn', NEW q \in Questions, ~InFlight(q), ~InFlight(q)',
         UNCHANGED <<messages, effected, load, server, wire, tidy, log>>,
         \A p \in Questions : p # q => stream'[p] = stream[p]
  PROVE  SyncInv'
<1>1. \A p \in Questions : /\ InFlight(p)' <=> InFlight(p)
                           /\ InFlight(p) => stream'[p] = stream[p]
  BY DEF InFlight
<1> QED
  BY <1>1, SyncStill

-----------------------------------------------------------------------------
(***************************************************************************)
(* Loads.                                                                  *)
(***************************************************************************)

\* No load is clean while a reply is under way.
LEMMA LoadStays ==
  ASSUME LoadInv, NEW q \in Questions, ~Off(q), UNCHANGED <<load, effected>>
  PROVE  LoadInv'
BY DEF LoadInv

LEMMA RunSyncs ==
  ASSUME PageInv, SyncInv, Drawn', NEW now \in Chosen, RunEffects(now)
  PROVE  SyncInv'
<1>1. /\ effected' = now /\ tidy' = (tidy /\ \A q \in Questions : ~InFlight(q))
      /\ \A q \in Questions : stream'[q].at = stream[q].at
  BY EffectsDo DEF RunEffects
<1>2. CASE now = None
  <2>1. messages' = <<>> /\ load' = NoLoad /\ load'.at = "none"
    BY <1>2 DEF RunEffects, NoLoad
  <2>2. LoadInv'
    BY <2>1 DEF LoadInv
  <2>3. tidy' => TidyPage'
    BY <1>1, <1>2, <2>1 DEF TidyPage, InFlight
  <2> QED
    BY <2>2, <2>3 DEF SyncInv, Drawn
<1>3. CASE now # None
  <2>1. load' = [NoLoad EXCEPT !.at = "asked", !.of = now]
    BY <1>3 DEF RunEffects
  <2>2. load'.at = "asked" /\ load'.of = now
    BY <2>1 DEF NoLoad
  <2>3. LoadInv'
    BY <1>1, <2>2 DEF LoadInv
  <2> QED
    BY <2>2, <2>3 DEF SyncInv, Drawn
<1> QED
  BY <1>2, <1>3

\* What a clean load shows is what is stored.
LEMMA LoadedSyncs ==
  ASSUME PageInv, SyncInv, Drawn', Loaded
  PROVE  SyncInv'
<1>1. /\ load.at = "answered" /\ load' = NoLoad /\ load'.at = "none"
      /\ tidy' => load.clean /\ messages' = load.got
      /\ UNCHANGED <<effected, stream, server, log>>
  BY DEF Loaded, NoLoad, service
<1>2. load.of = effected /\ effected \in Sessions /\ effected # None
  BY <1>1, ClientAssumption DEF SyncInv, LoadInv, PageInv, RequestType
<1>3. LoadInv'
  BY <1>1 DEF LoadInv
<1>4. PICK stored : stored = log[effected]
  OBVIOUS
<1>5. ASSUME tidy', stored # None
      PROVE  Agrees(stored)'
  <2>1. /\ \A q \in Questions : Off(q)
        /\ messages' = stored
    BY <1>1, <1>2, <1>4, <1>5 DEF SyncInv, LoadInv, Live
  <2>2. stored \in Seq(Shown) /\ \A i \in DOMAIN stored : stored[i].size # 0
    BY <1>2, <1>4, <1>5 DEF PageInv, ServerType, SyncInv, DrawnLog, Live
  <2>3. Shows(messages', stored)
    BY <2>1, <2>2, ShowsSelf
  <2>4. \A q \in Questions : Off(q)'
    BY <1>1, <2>1 DEF Off, InFlight
  <2> QED
    BY <2>3, <2>4 DEF Agrees
<1>6. tidy' => TidyPage'
  BY <1>1, <1>2, <1>4, <1>5, TidyNext
<1> QED
  BY <1>3, <1>6 DEF SyncInv, Drawn

LEMMA LoadFailsSyncs ==
  ASSUME PageInv, SyncInv, Drawn', LoadFails
  PROVE  SyncInv'
BY DEF LoadFails, NoLoad, SyncInv, LoadInv, Drawn

LEMMA ServeLoadSyncs ==
  ASSUME PageInv, SyncInv, Drawn', ServeLoad
  PROVE  SyncInv'
<1> DEFINE c == \A q \in Questions : ~InFlight(q) /\ server[q].at = "off"
<1>1. /\ load.at = "asked" /\ load \in Loads
      /\ load' = [load EXCEPT !.at = "answered", !.got = log[load.of], !.clean = c]
      /\ UNCHANGED <<effected, stream, server, log>>
  BY DEF ServeLoad, service, PageInv, RequestType
<1>2. c => \A q \in Questions : Off(q)'
  BY <1>1 DEF Off, InFlight
<1> HIDE DEF c
<1>3. /\ load'.at = "answered" /\ load'.of = load.of /\ load'.got = log[load.of]
      /\ load'.clean = c
  BY <1>1 DEF Loads
<1>4. LoadInv'
  BY <1>1, <1>2, <1>3 DEF SyncInv, LoadInv
<1> QED
  BY <1>3, <1>4 DEF SyncInv, Drawn

-----------------------------------------------------------------------------
(***************************************************************************)
(* A reply begins, goes on and ends.                                       *)
(***************************************************************************)

LEMMA StartSyncs ==
  ASSUME PageInv, SyncInv, Drawn', NEW q \in Questions, NEW s \in Sessions,
         NEW calm \in BOOLEAN, StartReply(q, s, calm), UNCHANGED <<effected, server, log>>
  PROVE  SyncInv'
<1>1. /\ load' = [load EXCEPT !.clean = FALSE]
      /\ messages' = Append(messages, Question(q))
      /\ tidy' => /\ tidy /\ load.at = "none" /\ s = effected
                  /\ \A p \in Questions : Off(p)
  BY DEF StartReply, Off
<1>2. load'.at = load.at /\ load'.of = load.of /\ ~load'.clean
  BY <1>1 DEF PageInv, RequestType, Loads
<1>3. LoadInv'
  BY <1>2 DEF SyncInv, LoadInv
<1>4. PICK stored : stored = log[effected]
  OBVIOUS
<1>5. ASSUME tidy', stored # None
      PROVE  Agrees(stored)'
  <2>1. /\ \A p \in Questions : Off(p)
        /\ s = effected /\ s # None
        /\ TidyPage
    BY <1>1, <1>5, ClientAssumption DEF SyncInv
  <2>2. Agrees(stored)
    BY <1>4, <1>5, <2>1 DEF TidyPage, Live
  <2>3. Shows(messages, stored)
    BY <2>1, <2>2 DEF Agrees, OneReply, Off, InFlight
  <2>4. Question(q) \in Shown /\ Question(q).size # 0
    BY DEF Question, Shown, MessagesOf
  <2>5. messages \in Seq(Shown) /\ stored \in Seq(Shown)
    BY <1>4, <1>5, <2>1 DEF PageInv, PageType, ServerType
  <2>6. Shows(messages', Append(stored, Question(q)))
    BY <1>1, <2>3, <2>4, <2>5, ShowsBoth
  <2>7. stream'[q].at = "posted" /\ stream'[q].of = effected' /\ server'[q].at = "off"
    <3>1. s \in Chosen
      BY DEF Chosen
    <3>2. stream'[q].at = "posted" /\ stream'[q].of = s
      BY <3>1, StartDoes
    <3>3. server[q].at = "off"
      BY <2>1 DEF Off
    <3> QED
      BY <2>1, <3>2, <3>3
  <2>8. \A p \in Questions : p # q => Off(p)'
    BY <2>1, StartDoes DEF Off, InFlight, Chosen
  <2>9. OneReply(q, stored)'
    BY <2>6, <2>7, <2>8 DEF OneReply
  <2> QED
    BY <2>9 DEF Agrees
<1>6. tidy' => TidyPage'
  <2>1. tidy' => effected' # None
    BY <1>1, ClientAssumption
  <2> QED
    BY <1>4, <1>5, <2>1, TidyNext
<1> QED
  BY <1>3, <1>6 DEF SyncInv, Drawn

LEMMA CreatedSyncs ==
  ASSUME PageInv, SyncInv, Drawn', NEW m \in making, Created(m)
  PROVE  SyncInv'
<1>1. m \in Creations /\ m.of \in Sessions /\ UNCHANGED <<effected, service>>
  BY DEF Created, PageInv, RequestType, Creations, Chosen
<1>2. CASE m.for = None
  <2>1. UNCHANGED <<messages, stream, load, tidy>>
    BY <1>2 DEF Created
  <2> QED
    BY <1>1, <2>1, SyncStill DEF InFlight, service
<1>3. CASE m.for # None
  <2>1. m.for \in Questions /\ StartReply(m.for, m.of, FALSE)
    BY <1>1, <1>3 DEF Created, Creations
  <2> QED
    BY <1>1, <2>1, StartSyncs DEF service
<1> QED
  BY <1>2, <1>3

LEMMA CreateFailsSyncs ==
  ASSUME PageInv, SyncInv, Drawn', NEW m \in making, CreateFails(m)
  PROVE  SyncInv'
<1>1. UNCHANGED <<messages, effected, load, service, tidy>>
  BY DEF CreateFails
<1>2. m.for \in Questions \union {None} /\ stream \in [Questions -> Streams]
  BY DEF PageInv, RequestType, Creations
<1>3. CASE m.for = None
  BY <1>1, <1>3, SyncStill DEF CreateFails, InFlight, service
<1>4. CASE m.for # None
  <2>1. PICK q \in Questions : q = m.for
    BY <1>2, <1>4
  <2>2. stream[q].at = "creating" /\ stream' = [stream EXCEPT ![q].at = "over"]
    BY <1>4, <2>1 DEF CreateFails, PageInv, WaitInv
  <2>3. stream'[q].at = "over" /\ \A p \in Questions : p # q => stream'[p] = stream[p]
    BY <1>2, <2>2 DEF Streams
  <2> QED
    BY <1>1, <2>2, <2>3, WaitingSyncs DEF InFlight, service
<1> QED
  BY <1>3, <1>4

LEMMA SendSyncs ==
  ASSUME PageInv, SyncInv, Drawn', NEW q \in Questions, SendMessage(q)
  PROVE  SyncInv'
<1>1. /\ stream[q].at = "none" /\ UNCHANGED <<effected, service>>
      /\ stream \in [Questions -> Streams]
  BY DEF SendMessage, PageInv, RequestType
<1>2. CASE seen.active = None
  <2>1. /\ stream' = [stream EXCEPT ![q].at = "creating"]
        /\ UNCHANGED <<messages, load, tidy>>
    BY <1>2 DEF SendMessage
  <2>2. stream'[q].at = "creating" /\ \A p \in Questions : p # q => stream'[p] = stream[p]
    BY <1>1, <2>1 DEF Streams
  <2> QED
    BY <1>1, <2>1, <2>2, WaitingSyncs DEF InFlight, service
<1>3. CASE seen.active # None
  <2>1. PICK s, calm : s = seen.active /\ calm = (seen.active = effected)
    OBVIOUS
  <2>2. s \in Sessions /\ calm \in BOOLEAN
    BY <1>3, <2>1 DEF PageInv, PageType, Rendering, Chosen
  <2>3. StartReply(q, s, calm)
    BY <1>3, <2>1 DEF SendMessage
  <2> QED
    BY <1>1, <2>2, <2>3, StartSyncs DEF service
<1> QED
  BY <1>2, <1>3

LEMMA FailureSyncs ==
  ASSUME PageInv, SyncInv, Drawn', NEW q \in Questions, ReplyFails(q) \/ ReplyStops(q)
  PROVE  SyncInv'
<1>1. ~Off(q) /\ tidy' = FALSE /\ UNCHANGED <<load, effected>>
  BY DEF ReplyFails, ReplyStops, Off, InFlight
<1> QED
  BY <1>1, LoadStays DEF SyncInv, Drawn

\* While a reply is under way in a live session, the page is about that one.
LEMMA TheReply ==
  ASSUME SyncInv, tidy, load.at = "none", NEW q \in Questions, ~Off(q),
         NEW stored, stored = log[effected], effected # None, stored # None
  PROVE  OneReply(q, stored)
<1>1. Agrees(stored)
  BY DEF SyncInv, TidyPage, Live
<1> QED
  BY <1>1 DEF Agrees, OneReply

LEMMA ReceiveSyncs ==
  ASSUME PageInv, SyncInv, Drawn', NEW q \in Questions, Receive(q)
  PROVE  SyncInv'
<1>1. /\ stream[q].at = "open" /\ wire[q] # <<>> /\ wire' = [wire EXCEPT ![q] = Tail(@)]
      /\ UNCHANGED <<effected, load, log, server>>
      /\ InFlight(q) /\ ~Off(q)
  BY DEF Receive, InFlight, Off
<1>2. LoadInv'
  BY <1>1, LoadStays DEF SyncInv
<1>3. /\ stream \in [Questions -> Streams] /\ stream[q] \in Streams
      /\ wire \in [Questions -> Seq(Kinds)] /\ wire[q] \in Seq(Kinds)
      /\ messages \in Seq(Shown) /\ server[q] \in Replies
  BY DEF PageInv, PageType, RequestType, ServerType
<1>4. wire'[q] = Tail(wire[q]) /\ \A p \in Questions : p # q => wire'[p] = wire[p]
  BY <1>1, <1>3
<1>5. PICK stored, k : stored = log[effected] /\ k = stream[q].kept
  OBVIOUS
<1>6. k \in Nat
  BY <1>3, <1>5 DEF Streams
<1>7. ASSUME tidy', load.at = "none", stored # None
      PROVE  effected # None => Agrees(stored)'
  <2> SUFFICES ASSUME effected # None PROVE Agrees(stored)'
    OBVIOUS
  <2>1. tidy /\ OneReply(q, stored) /\ stored \in Seq(Shown)
    <3>1. tidy
      BY <1>7 DEF Receive
    <3>2. effected \in Sessions
      BY DEF PageInv, PageType, Chosen
    <3> QED
      BY <1>1, <1>5, <1>7, <3>1, <3>2, TheReply DEF PageInv, ServerType
  <2>2. \A p \in Questions : p # q => Off(p)
    BY <2>1 DEF OneReply
  <2>3. PICK n \in 0..MaxPieces :
          /\ Ends(wire[q], k, n)
          /\ \/ /\ server[q].at = "on" /\ server[q].of = effected /\ server[q].said = n
                /\ Shows(messages, stored)
             \/ /\ server[q].at = "off"
                /\ Shows(Append(messages, Answer(q, n)), stored)
    BY <1>1, <1>3, <1>5, <2>1 DEF OneReply, Replies, InFlight
  <2>4. CASE /\ Head(wire[q]) = "delta" /\ stream' = [stream EXCEPT ![q].kept = @ + 1]
             /\ UNCHANGED messages
    <3>1. /\ stream'[q].kept = k + 1 /\ stream'[q].at = "open"
          /\ \A p \in Questions : p # q => stream'[p] = stream[p]
      BY <1>1, <1>3, <1>5, <2>4 DEF Streams
    <3>2. Ends(wire'[q], k + 1, n)
      BY <1>1, <1>3, <1>4, <1>6, <2>3, <2>4, TailEnds
    <3>3. \A p \in Questions : p # q => Off(p)'
      BY <1>1, <2>2, <3>1 DEF Off, InFlight
    <3>4. OneReply(q, stored)'
      BY <1>1, <2>3, <2>4, <3>1, <3>2, <3>3 DEF OneReply
    <3> QED
      BY <3>4 DEF Agrees
  <2>5. CASE /\ Head(wire[q]) = "done" /\ Over(q)
             /\ messages' = Append(messages, Answer(q, stream[q].kept))
    <3>1. k = n
      BY <1>1, <1>3, <1>6, <2>3, <2>5, TailEnds
    <3>2. /\ ~InFlight(q)'
          /\ \A p \in Questions : p # q => stream'[p] = stream[p]
      BY <1>3, <2>5 DEF Over, NoStream, InFlight
    <3>3. \A p \in Questions : p # q => Off(p)'
      BY <1>1, <2>2, <3>2 DEF Off, InFlight
    <3>4. messages' = Append(messages, Answer(q, n))
      BY <1>5, <2>5, <3>1
    <3>5. CASE server[q].at = "off"
      BY <1>1, <2>3, <3>2, <3>3, <3>4, <3>5 DEF Agrees, Off
    <3>6. CASE server[q].at = "on" /\ server[q].of = effected /\ server[q].said = n
      <4>1. Answer(q, n) \in Shown /\ Answer(q, n).size = n
        BY DEF Answer, Shown, MessagesOf
      <4>2. Shows(messages', IF n = 0 THEN stored ELSE Append(stored, Answer(q, n)))
        <5>1. CASE n = 0
          BY <1>3, <2>1, <2>3, <3>4, <3>6, <4>1, <5>1, ShowsEmpty
        <5>2. CASE n # 0
          BY <1>3, <2>1, <2>3, <3>4, <3>6, <4>1, <5>2, ShowsBoth
        <5> QED
          BY <5>1, <5>2
      <4>3. OneReply(q, stored)'
        BY <1>1, <3>2, <3>3, <3>6, <4>2 DEF OneReply
      <4> QED
        BY <4>3 DEF Agrees
    <3> QED
      BY <2>3, <3>5, <3>6
  <2> QED
    BY <1>7, <2>4, <2>5 DEF Receive
<1>8. tidy' /\ load'.at = "none" => TidyPage'
  <2>1. tidy' /\ load'.at = "none" => effected' # None
    BY <1>1 DEF Receive, SyncInv, TidyPage
  <2> QED
    BY <1>1, <1>5, <1>7, <2>1, TidyNext
<1> QED
  BY <1>2, <1>8 DEF SyncInv, Drawn

LEMMA ServePostSyncs ==
  ASSUME PageInv, SyncInv, Drawn', NEW q \in Questions, ServePost(q)
  PROVE  SyncInv'
<1>1. /\ stream[q].at = "posted" /\ stream' = [stream EXCEPT ![q].at = "open"]
      /\ UNCHANGED <<messages, effected, load, drawn, tidy>>
      /\ InFlight(q) /\ ~Off(q)
  BY DEF ServePost, InFlight, Off
<1>2. LoadInv'
  BY <1>1, LoadStays DEF SyncInv
<1>3. /\ stream \in [Questions -> Streams] /\ stream[q].kept = 0
      /\ wire \in [Questions -> Seq(Kinds)] /\ server \in [Questions -> Replies]
      /\ log \in [Sessions -> Seq(Shown) \union {None}]
  BY <1>1 DEF PageInv, RequestType, ServerType, ReplyInv
<1>4. PICK s : s = stream[q].of
  OBVIOUS
<1>5. PICK n \in 0..MaxPieces : \E w :
        /\ server' = [server EXCEPT ![q] = [at |-> "on", of |-> s, said |-> n]]
        /\ w = Whole(n) \/ w \in Failing(n)
        /\ wire' = [wire EXCEPT ![q] = w]
  BY <1>4 DEF ServePost
<1>5a. PICK w :
        /\ server' = [server EXCEPT ![q] = [at |-> "on", of |-> s, said |-> n]]
        /\ w = Whole(n) \/ w \in Failing(n)
        /\ wire' = [wire EXCEPT ![q] = w]
  BY <1>5
<1>6. Store(s, Question(q)) /\ log[s] # None
  BY <1>4 DEF ServePost, Live
<1>7. Question(q) \in Shown /\ Question(q).size # 0
  BY DEF Question, Shown, MessagesOf
<1>8. /\ \A t \in Sessions : log'[t] # None => log[t] # None
      /\ s \in Sessions /\ log[s] # None => log'[s] = Append(log[s], Question(q))
  BY <1>1, <1>6, <1>7, StoreDoes DEF SyncInv
<1>9. /\ stream'[q].at = "open" /\ stream'[q].kept = 0 /\ wire'[q] = w
      /\ server'[q].at = "on" /\ server'[q].of = s /\ server'[q].said = n
      /\ \A p \in Questions : p # q => stream'[p] = stream[p] /\ server'[p] = server[p]
  BY <1>1, <1>3, <1>5a DEF Streams
<1>10. PICK stored, after : stored = log[effected] /\ after = log'[effected]
  OBVIOUS
<1>11. ASSUME tidy', load.at = "none", effected # None, after # None
       PROVE  Agrees(after)'
  <2>1. effected \in Sessions
    BY <1>11 DEF PageInv, PageType, Chosen
  <2>2. stored # None
    BY <1>8, <1>10, <1>11, <2>1
  <2>3. OneReply(q, stored)
    BY <1>1, <1>10, <1>11, <2>2, TheReply
  <2>4. s = effected /\ Shows(messages, Append(stored, Question(q)))
    BY <1>1, <1>4, <2>3 DEF OneReply, InFlight
  <2>5. after = Append(stored, Question(q))
    BY <1>6, <1>8, <1>10, <2>1, <2>4
  <2>6. Ends(wire'[q], 0, n)
    BY <1>5a, <1>9, SentEnds
  <2>7. \A p \in Questions : p # q => Off(p)'
    BY <1>9, <2>3 DEF OneReply, Off, InFlight
  <2>8. OneReply(q, after)'
    BY <1>1, <1>9, <2>4, <2>5, <2>6, <2>7 DEF OneReply
  <2> QED
    BY <2>8 DEF Agrees
<1>12. tidy' /\ load'.at = "none" => TidyPage'
  <2>1. tidy' /\ load'.at = "none" => effected' # None
    BY <1>1 DEF SyncInv, TidyPage
  <2> QED
    BY <1>1, <1>10, <1>11, <2>1, TidyNext
<1>13. DrawnPage' /\ DrawnLog'
  BY DEF Drawn
<1> QED
  BY <1>2, <1>12, <1>13 DEF SyncInv

LEMMA ServeSaveSyncs ==
  ASSUME PageInv, SyncInv, Drawn', NEW q \in Questions, ServeSave(q)
  PROVE  SyncInv'
<1>1. /\ server[q].at = "on" /\ server' = [server EXCEPT ![q] = NoTurn]
      /\ UNCHANGED <<messages, effected, load, stream, drawn, wire, tidy>>
      /\ ~Off(q)
  BY DEF ServeSave, client, Off
<1>2. LoadInv'
  BY <1>1, LoadStays DEF SyncInv
<1>3. /\ server \in [Questions -> Replies] /\ server[q] \in Replies
      /\ log \in [Sessions -> Seq(Shown) \union {None}] /\ messages \in Seq(Shown)
  BY DEF PageInv, PageType, ServerType
<1>4. PICK s, n : s = server[q].of /\ n = server[q].said
  OBVIOUS
<1>5. n \in 0..MaxPieces /\ Answer(q, n) \in Shown /\ Answer(q, n).size = n
  BY <1>3, <1>4 DEF Replies, Answer, Shown, MessagesOf
<1>6. /\ \A t \in Sessions : log'[t] # None => log[t] # None
      /\ n = 0 => UNCHANGED log
      /\ n # 0 /\ s \in Sessions /\ log[s] # None => log'[s] = Append(log[s], Answer(q, n))
  <2>1. CASE n = 0
    BY <1>4, <2>1 DEF ServeSave
  <2>2. CASE n # 0
    <3>1. Store(s, Answer(q, n))
      BY <1>4, <2>2 DEF ServeSave
    <3> QED
      BY <1>1, <1>5, <2>2, <3>1, StoreDoes DEF SyncInv
  <2> QED
    BY <2>1, <2>2
<1>7. /\ server'[q].at = "off"
      /\ \A p \in Questions : p # q => server'[p] = server[p]
  BY <1>1, <1>3 DEF NoTurn
<1>8. PICK stored, after : stored = log[effected] /\ after = log'[effected]
  OBVIOUS
<1>9. ASSUME tidy', load.at = "none", effected # None, after # None
      PROVE  Agrees(after)'
  <2>1. effected \in Sessions
    BY <1>9 DEF PageInv, PageType, Chosen
  <2>2. stored # None /\ stored \in Seq(Shown)
    BY <1>3, <1>6, <1>8, <1>9, <2>1
  <2>3. OneReply(q, stored)
    BY <1>1, <1>8, <1>9, <2>2, TheReply
  <2>4. \A p \in Questions : p # q => Off(p)'
    BY <1>1, <1>7, <2>3 DEF OneReply, Off, InFlight
  <2>5. s = effected
    BY <1>1, <1>4, <2>3 DEF OneReply
  <2>6. after = IF n = 0 THEN stored ELSE Append(stored, Answer(q, n))
    BY <1>6, <1>8, <2>1, <2>2, <2>5
  <2>7. CASE /\ stream[q].at = "open" /\ Ends(wire[q], stream[q].kept, n)
             /\ Shows(messages, stored)
    <3>1. Shows(Append(messages, Answer(q, n)), after)
      <4>1. CASE n = 0
        BY <1>3, <1>5, <2>2, <2>6, <2>7, <4>1, ShowsEmpty
      <4>2. CASE n # 0
        BY <1>3, <1>5, <2>2, <2>6, <2>7, <4>2, ShowsBoth
      <4> QED
        BY <4>1, <4>2
    <3>2. OneReply(q, after)'
      BY <1>1, <1>5, <1>7, <2>4, <2>7, <3>1 DEF OneReply
    <3> QED
      BY <3>2 DEF Agrees
  <2>8. CASE ~InFlight(q) /\ Shows(messages, after)
    BY <1>1, <1>7, <2>4, <2>8 DEF Agrees, Off, InFlight
  <2>9. \/ /\ stream[q].at = "open" /\ Ends(wire[q], stream[q].kept, n)
           /\ Shows(messages, stored)
        \/ ~InFlight(q) /\ Shows(messages, after)
    BY <1>1, <1>4, <2>3, <2>6 DEF OneReply
  <2> QED
    BY <2>7, <2>8, <2>9
<1>10. tidy' /\ load'.at = "none" => TidyPage'
  <2>1. effected' = None /\ tidy' /\ load'.at = "none"
          => messages' = <<>> /\ \A p \in Questions : ~InFlight(p)'
    BY <1>1 DEF SyncInv, TidyPage, InFlight
  <2> QED
    BY <1>1, <1>8, <1>9, <2>1, TidyNext
<1>11. DrawnPage' /\ DrawnLog'
  BY DEF Drawn
<1> QED
  BY <1>2, <1>10, <1>11 DEF SyncInv

-----------------------------------------------------------------------------
(***************************************************************************)
(* The settled page.                                                       *)
(***************************************************************************)

LEMMA SyncInit == Init => SyncInv
<1> SUFFICES ASSUME Init PROVE SyncInv
  OBVIOUS
<1>1. load.at = "none" /\ \A q \in Questions : ~InFlight(q)
  BY DEF Init, NoLoad, NoStream, InFlight
<1>2. DOMAIN <<>> = {}
  BY EmptySeq, LenProperties
<1>3. DrawnPage /\ DrawnLog
  BY <1>2 DEF Init, DrawnPage, DrawnLog, Live, Rendered, NotOpened
<1>4. LoadInv /\ TidyPage
  BY <1>1 DEF Init, LoadInv, TidyPage
<1> QED
  BY <1>3, <1>4 DEF SyncInv

LEMMA SyncStep == PageInv /\ SyncInv /\ [Next]_vars => SyncInv'
<1> SUFFICES ASSUME PageInv, SyncInv, [Next]_vars PROVE SyncInv'
  OBVIOUS
<1>1. CASE UNCHANGED vars
  <2>1. Drawn'
    BY <1>1 DEF vars, client, service, SyncInv, Drawn, DrawnPage, DrawnLog, Live
  <2> QED
    BY <1>1, <2>1, SyncStill DEF vars, client, service, InFlight
<1>2. CASE Next
  <2>1. Drawn'
    BY <1>2, DrawnStep DEF SyncInv, Drawn
  <2>2. CASE Effects
    BY <2>1, <2>2, RunSyncs DEF Effects, PageInv, PageType, Rendering
  <2>3. ASSUME NEW s \in Sessions, SwitchSession(s)
        PROVE  SyncInv'
    BY <2>1, <2>3, RunSyncs DEF SwitchSession, Chosen
  <2> QED
    BY <1>2, <2>1, <2>2, <2>3, RenderSyncs, SessionsSync, LoadedSyncs, LoadFailsSyncs,
       ServeLoadSyncs, CreatedSyncs, CreateFailsSyncs, SendSyncs, FailureSyncs,
       ReceiveSyncs, ServePostSyncs, ServeSaveSyncs DEF Next
<1> QED
  BY <1>1, <1>2

\* Once everything is quiet, the page shows what is stored, whatever the pieces the
\* replies came in and whichever of page and server finished them first.
THEOREM SettledPage == Spec => []SettledPageIsLog
<1>1. PageInv /\ SyncInv => SettledPageIsLog
  <2> SUFFICES ASSUME PageInv, SyncInv, Quiet, tidy
               PROVE  IF active = None THEN messages = <<>>
                      ELSE Live(active) => Shows(messages, log[active])
    BY DEF SettledPageIsLog
  <2>1. effected = active /\ TidyPage /\ \A q \in Questions : Off(q)
    BY DEF Quiet, SyncInv, Off
  <2>2. active # None /\ Live(active) => Agrees(log[active])
    BY <2>1 DEF TidyPage
  <2>3. active # None /\ Live(active) => Shows(messages, log[active])
    BY <2>1, <2>2 DEF Agrees, OneReply, Off, InFlight
  <2> QED
    BY <2>1, <2>3 DEF TidyPage
<1>2. Spec => []SyncInv
  BY SyncInit, SyncStep, PageInvariant, PTL DEF Spec
<1> QED
  BY <1>1, <1>2, PageInvariant, PTL
=============================================================================
