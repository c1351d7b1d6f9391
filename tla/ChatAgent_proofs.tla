--------------------------- MODULE ChatAgent_proofs ---------------------------
(***************************************************************************)
(* The chat agent for every number of streams, threads, rounds and calls:  *)
(* first what each step does to its stream, then the three parts of the    *)
(* invariant: the executor, the reports and the conversations.  Then facts *)
(* about the analysis of a company, for all figures, reports and           *)
(* industries, and about the digest of any news.                           *)
(***************************************************************************)
EXTENDS ChatReports, FiniteSetTheorems, SequenceTheorems, WellFoundedInduction, TLAPS

Between == {"asking", "chunks", "delta"}
InTools == {"call", "waiting", "expired", "errorEvent", "callEvent"}

JobStates == {"none", "queued", "running", "done", "failed", "cancelled"}
Asked == [role: {"assistant"}, round: 1..Rounds, calls: Seq(Indexes)]
Told == [role: {"tool"}, call: Calls, report: Jobs \union {NoJob}]

PoolShapes ==
  /\ job \in [Jobs -> [state: JobStates, call: [round: Nat, index: Nat]]]
  /\ queue \in Seq(Jobs)
  /\ worker \in [Workers -> Jobs \union {NoJob}]

Shapes ==
  /\ stream \in [Streams -> Streaming]
  /\ messages \in [Streams -> Seq(Asked \union Told)]
  /\ PoolShapes

\* A stream asks for as many analyses as it has calls that are begun.
Counted(s) ==
  /\ stream[s].jobs <= MaxCalls[s]
  /\ stream[s].at \in Between => stream[s].calls <= MaxCalls[s] /\ stream[s].jobs <= stream[s].calls
  /\ stream[s].at \in InTools =>
       /\ stream[s].todo # <<>> /\ stream[s].calls <= MaxCalls[s]
       /\ stream[s].at = "call" => stream[s].jobs + Len(stream[s].todo) <= stream[s].calls
       /\ stream[s].at # "call" => stream[s].jobs + Len(stream[s].todo) <= stream[s].calls + 1
  /\ stream[s].at \in {"waiting", "expired"} => stream[s].jobs >= 1

CountInv == Shapes /\ \A s \in Streams : Counted(s)

-----------------------------------------------------------------------------
(***************************************************************************)
(* What the steps do to their stream.                                      *)
(***************************************************************************)
LEMMA JobIs ==
  /\ \A s \in Streams : \A k \in 1..MaxCalls[s] : <<s, k>> \in Jobs
  /\ \A j \in Jobs : j[1] \in Streams /\ j[2] \in 1..MaxCalls[j[1]] /\ j = <<j[1], j[2]>>
  /\ NoJob \notin Jobs /\ Raised \notin Jobs /\ NoJob # Raised
<1>1. \A s \in Streams : \A k \in 1..MaxCalls[s] : <<s, k>> \in Jobs
  BY DEF Jobs
<1>2. \A j \in Jobs : j[1] \in Streams /\ j[2] \in 1..MaxCalls[j[1]] /\ j = <<j[1], j[2]>>
  BY DEF Jobs
<1>3. NoJob \notin Jobs /\ Raised \notin Jobs /\ NoJob # Raised
  BY DEF Jobs, NoJob, Raised
<1>4. QED
  BY <1>1, <1>2, <1>3

LEMMA NonEmpty ==
  ASSUME NEW T, NEW q \in Seq(T), q # <<>>
  PROVE  /\ Len(q) \in Nat /\ Len(q) >= 1 /\ (Len(q) = 1 \/ Len(q) > 1)
         /\ Head(q) \in T /\ Head(q) = q[1]
         /\ Tail(q) \in Seq(T) /\ Len(Tail(q)) = Len(q) - 1
         /\ \A k \in 1..Len(Tail(q)) : Tail(q)[k] = q[k + 1]
         /\ Len(q) > 1 => Tail(q) # <<>>
<1>1. Len(q) \in Nat /\ Len(q) >= 1 /\ (Len(q) = 1 \/ Len(q) > 1)
  <2> DEFINE n == Len(q)
  <2>1. n \in Nat \ {0}
    BY EmptySeq
  <2> HIDE DEF n
  <2>2. n \in Nat /\ n >= 1 /\ (n = 1 \/ n > 1)
    BY <2>1
  <2>3. QED
    BY <2>2 DEF n
<1>2. Head(q) = q[1]
  OBVIOUS
<1>3. ASSUME Tail(q) = <<>> PROVE Len(q) = 1
  <2> DEFINE n == Len(q)
             k == Len(Tail(q))
  <2>1. k = n - 1 /\ k = 0 /\ n \in Nat
    BY <1>3, HeadTailProperties, EmptySeq
  <2> HIDE DEF n, k
  <2>2. n = 1
    BY <2>1
  <2>3. QED
    BY <2>2 DEF n
<1>4. Len(q) > 1 => Tail(q) # <<>>
  BY <1>1, <1>3
<1>5. QED
  BY <1>1, <1>2, <1>4, HeadTailProperties

LEMMA Fields ==
  ASSUME Shapes, NEW s \in Streams
  PROVE  /\ stream[s] \in Streaming
         /\ stream[s].round \in 1..Rounds /\ stream[s].todo \in Seq(Indexes)
         /\ stream[s].calls \in Nat /\ stream[s].jobs \in Nat /\ stream[s].result \in Results
         /\ stream[s].at \in Between \union InTools \union {"ended"}
         /\ messages[s] \in Seq(Asked \union Told) /\ MaxCalls[s] \in Nat
<1>1. stream[s] \in Streaming
  BY DEF Shapes
<1>2. messages[s] \in Seq(Asked \union Told) /\ MaxCalls[s] \in Nat
  BY AgentAssumption DEF Shapes
<1>3. QED
  BY <1>1, <1>2 DEF Streaming, Yields, Between, InTools

\* A step of stream s that leaves the others alone.
Frame(s) ==
  /\ stream' \in [Streams -> Streaming]
  /\ messages' \in [Streams -> Seq(Asked \union Told)]
  /\ \A u \in Streams : u # s => stream'[u] = stream[u] /\ messages'[u] = messages[u]

\* The stream stays what it is but for where it stands.
Same(s) ==
  /\ stream'[s].round = stream[s].round /\ stream'[s].todo = stream[s].todo
  /\ stream'[s].calls = stream[s].calls /\ stream'[s].jobs = stream[s].jobs

LEMMA Replaced ==
  ASSUME Shapes, NEW s \in Streams, NEW st \in Streaming, NEW ms \in Seq(Asked \union Told),
         stream' = [stream EXCEPT ![s] = st], messages' = [messages EXCEPT ![s] = ms]
  PROVE  Frame(s) /\ stream'[s] = st /\ messages'[s] = ms
BY DEF Shapes, Frame

LEMMA Unspoken ==
  ASSUME Shapes, NEW s \in Streams, NEW st \in Streaming,
         stream' = [stream EXCEPT ![s] = st], UNCHANGED messages
  PROVE  Frame(s) /\ stream'[s] = st /\ messages'[s] = messages[s]
BY DEF Shapes, Frame

LEMMA GotoDoes ==
  ASSUME Shapes, NEW s \in Streams, NEW at \in Between \union InTools, Goto(s, at),
         UNCHANGED messages
  PROVE  /\ Frame(s) /\ Same(s) /\ messages'[s] = messages[s]
         /\ stream'[s].at = at /\ stream'[s].result = stream[s].result
<1> DEFINE st == [stream[s] EXCEPT !.at = at]
<1>1. st \in Streaming /\ st.at = at /\ st.round = stream[s].round /\ st.todo = stream[s].todo
      /\ st.calls = stream[s].calls /\ st.jobs = stream[s].jobs /\ st.result = stream[s].result
  BY Fields DEF Streaming, Yields, Between, InTools
<1>2. stream' = [stream EXCEPT ![s] = st]
  BY DEF Goto
<1>3. QED
  BY <1>1, <1>2, Unspoken DEF Same

LEMMA EndDoes ==
  ASSUME Shapes, NEW s \in Streams, NEW outcome \in {"done", "error", "left"}, End(s, outcome)
  PROVE  /\ Frame(s) /\ messages'[s] = <<>> /\ stream'[s].at = "ended"
         /\ stream'[s].jobs = stream[s].jobs /\ stream'[s].result = NoJob
<1> DEFINE st == [at |-> "ended", round |-> 1, todo |-> <<>>, calls |-> 0,
                  jobs |-> stream[s].jobs, result |-> NoJob, outcome |-> outcome]
<1>1. <<>> \in Seq(Indexes) /\ <<>> \in Seq(Asked \union Told) /\ 1 \in 1..Rounds
  BY AgentAssumption
<1>2. st \in Streaming /\ st.at = "ended" /\ st.jobs = stream[s].jobs /\ st.result = NoJob
  BY <1>1, Fields DEF Streaming, Results
<1>3. stream' = [stream EXCEPT ![s] = st] /\ messages' = [messages EXCEPT ![s] = <<>>]
  BY DEF End
<1>4. QED
  BY <1>1, <1>2, <1>3, Replaced

\* The tool of the current call has returned or raised.
LEMMA ReplyDoes ==
  ASSUME Shapes, NEW s \in Streams, NEW result \in Results,
         stream' = [stream EXCEPT ![s] = Reply(stream[s], result)], UNCHANGED messages
  PROVE  /\ Frame(s) /\ Same(s) /\ messages'[s] = messages[s]
         /\ stream'[s].at = (IF result = Raised THEN "errorEvent" ELSE "callEvent")
         /\ stream'[s].result = result
<1> DEFINE at == IF result = Raised THEN "errorEvent" ELSE "callEvent"
           st == [stream[s] EXCEPT !.at = at, !.result = result]
<1>1. at \in Yields
  BY DEF Yields
<1> HIDE DEF at
<1>2. st \in Streaming /\ st.at = at /\ st.round = stream[s].round /\ st.todo = stream[s].todo
      /\ st.calls = stream[s].calls /\ st.jobs = stream[s].jobs /\ st.result = result
  BY <1>1, Fields DEF Streaming
<1>3. stream' = [stream EXCEPT ![s] = st]
  BY DEF Reply, at
<1>4. QED
  BY <1>2, <1>3, Unspoken DEF Same, at

LEMMA SubmitDoes ==
  ASSUME Shapes, NEW s \in Streams, Submit(s)
  PROVE  /\ Frame(s) /\ messages'[s] = messages[s] /\ stream[s].at = "call"
         /\ stream'[s].at = "waiting" /\ stream'[s].jobs = stream[s].jobs + 1
         /\ stream'[s].round = stream[s].round /\ stream'[s].todo = stream[s].todo
         /\ stream'[s].calls = stream[s].calls /\ stream'[s].result = stream[s].result
<1> DEFINE n == stream[s].jobs + 1
           st == [stream[s] EXCEPT !.at = "waiting", !.jobs = n]
<1>1. n \in Nat
  BY Fields
<1> HIDE DEF n
<1>2. st \in Streaming /\ st.at = "waiting" /\ st.round = stream[s].round
      /\ st.todo = stream[s].todo /\ st.calls = stream[s].calls /\ st.jobs = n
      /\ st.result = stream[s].result
  BY <1>1, Fields DEF Streaming
<1>3. stream' = [stream EXCEPT ![s] = st] /\ UNCHANGED messages /\ stream[s].at = "call"
  BY DEF Submit, At, n
<1>4. QED
  BY <1>2, <1>3, Unspoken DEF n

\* A response with calls is kept in the conversation, and its calls are to be done.
Kept(s, calls) ==
  /\ calls \in Seq(Indexes) /\ calls # <<>>
  /\ stream[s].calls + Len(calls) <= MaxCalls[s]
  /\ messages'[s] = Append(messages[s], [role |-> "assistant", round |-> stream[s].round,
                                         calls |-> calls])
  /\ stream'[s].at = "call" /\ stream'[s].todo = calls
  /\ stream'[s].calls = stream[s].calls + Len(calls)
  /\ stream'[s].jobs = stream[s].jobs /\ stream'[s].round = stream[s].round
  /\ stream'[s].result = stream[s].result

\* A response with n calls.
Responded(s, n, calls) ==
  /\ stream[s].calls + n <= MaxCalls[s]
  /\ IF n = 0 THEN End(s, "done")
     ELSE /\ stream' = [stream EXCEPT ![s] = [@ EXCEPT !.at = "call", !.todo = calls,
                                                      !.calls = stream[s].calls + n]]
          /\ messages' = [messages EXCEPT ![s] =
                            Append(@, [role |-> "assistant", round |-> stream[s].round,
                                       calls |-> calls])]

LEMMA CompleteDoes ==
  ASSUME Shapes, NEW s \in Streams, Complete(s)
  PROVE  /\ Frame(s) /\ stream[s].at = "chunks" /\ UNCHANGED pool
         /\ End(s, "done") \/ \E calls : Kept(s, calls)
<1>1. stream[s].at = "chunks" /\ UNCHANGED pool
  BY DEF Complete, At
<1>2. PICK n \in 0..MaxCalls[s] : \E c \in [1..n -> Indexes] : Responded(s, n, c)
  BY DEF Complete, Responded
<1>5. PICK calls \in [1..n -> Indexes] : Responded(s, n, calls)
  BY <1>2
<1>3. CASE n = 0
  BY <1>1, <1>5, <1>3, EndDoes DEF Responded
<1>4. CASE n # 0
  <2>1. calls \in Seq(Indexes) /\ Len(calls) = n /\ calls # <<>> /\ n \in Nat
    BY <1>5, <1>4, Fields
  <2> DEFINE total == stream[s].calls + n
             st == [stream[s] EXCEPT !.at = "call", !.todo = calls, !.calls = total]
             m == [role |-> "assistant", round |-> stream[s].round, calls |-> calls]
  <2>2. total \in Nat
    BY <2>1, Fields
  <2>3. stream' = [stream EXCEPT ![s] = st] /\ messages' = [messages EXCEPT ![s] = Append(messages[s], m)]
    <3>1. /\ stream' = [stream EXCEPT ![s] = [@ EXCEPT !.at = "call", !.todo = calls,
                                                      !.calls = stream[s].calls + n]]
          /\ messages' = [messages EXCEPT ![s] =
                            Append(@, [role |-> "assistant", round |-> stream[s].round,
                                       calls |-> calls])]
      BY <1>5, <1>4 DEF Responded
    <3>2. QED
      BY <3>1
  <2> HIDE DEF total
  <2>4. st \in Streaming /\ st.at = "call" /\ st.round = stream[s].round
        /\ st.todo = calls /\ st.calls = total /\ st.jobs = stream[s].jobs
        /\ st.result = stream[s].result
    BY <2>1, <2>2, Fields DEF Streaming
  <2>5. Append(messages[s], m) \in Seq(Asked \union Told)
    BY <2>1, Fields DEF Asked
  <2>6. Frame(s) /\ stream'[s] = st /\ messages'[s] = Append(messages[s], m)
    BY <2>3, <2>4, <2>5, Replaced
  <2>7. Kept(s, calls)
    BY <1>5, <2>1, <2>4, <2>6 DEF Kept, Responded, total
  <2>8. QED
    BY <1>1, <2>6, <2>7
<1>6. QED
  BY <1>3, <1>4

\* The answer of the current call joins the conversation; more calls wait, or none.
Replied(s) ==
  /\ messages'[s] = Append(messages[s], ToolMessage(stream[s]))
  /\ stream'[s].calls = stream[s].calls /\ stream'[s].jobs = stream[s].jobs
  /\ stream'[s].result = NoJob
  /\ \/ /\ Len(stream[s].todo) > 1 /\ stream'[s].at = "call"
        /\ stream'[s].todo = Tail(stream[s].todo) /\ stream'[s].round = stream[s].round
     \/ /\ Len(stream[s].todo) = 1 /\ stream'[s].at = "asking" /\ stream'[s].todo = <<>>

LEMMA ToolMessageIs ==
  ASSUME Shapes, NEW s \in Streams, stream[s].todo # <<>>
  PROVE  /\ ToolMessage(stream[s]) \in Told
         /\ ToolMessage(stream[s]).role = "tool"
         /\ ToolMessage(stream[s]).call = [round |-> stream[s].round, index |-> Head(stream[s].todo)]
         /\ ToolMessage(stream[s]).report = (IF stream[s].result = Raised THEN NoJob
                                             ELSE stream[s].result)
<1>1. Head(stream[s].todo) \in Indexes
  BY Fields
<1>2. QED
  BY <1>1, Fields DEF ToolMessage, Told, Calls, Results

LEMMA AnswerDoes ==
  ASSUME Shapes, NEW s \in Streams, Answer(s), stream[s].todo # <<>>
  PROVE  Frame(s) /\ (End(s, "done") \/ Replied(s))
<1> DEFINE m == ToolMessage(stream[s])
           ms == messages[s] \o <<m>>
           st == IF Len(stream[s].todo) > 1
                 THEN [stream[s] EXCEPT !.at = "call", !.todo = Tail(@), !.result = NoJob]
                 ELSE [stream[s] EXCEPT !.at = "asking", !.todo = <<>>, !.round = @ + 1,
                                        !.result = NoJob]
<1>1. CASE Len(stream[s].todo) = 1 /\ stream[s].round = Rounds
  BY <1>1, EndDoes DEF Answer, Advance
<1>2. CASE ~(Len(stream[s].todo) = 1 /\ stream[s].round = Rounds)
  <2>1. stream' = [stream EXCEPT ![s] = st] /\ messages' = [messages EXCEPT ![s] = ms]
    BY <1>2 DEF Answer, Advance, Shapes
  <2>2. m \in Asked \union Told
    BY ToolMessageIs
  <2> HIDE DEF m
  <2>3. ms = Append(messages[s], m) /\ ms \in Seq(Asked \union Told)
    BY <2>2, Fields
  <2>4. Len(stream[s].todo) > 1 \/ Len(stream[s].todo) = 1
    <3>1. stream[s].todo \in Seq(Indexes)
      BY Fields
    <3>2. QED
      BY <3>1, NonEmpty
  <2>5. CASE Len(stream[s].todo) > 1
    <3>1. st = [stream[s] EXCEPT !.at = "call", !.todo = Tail(@), !.result = NoJob]
      BY <2>5
    <3>2. Tail(stream[s].todo) \in Seq(Indexes)
      BY Fields
    <3>3. st \in Streaming /\ st.at = "call" /\ st.todo = Tail(stream[s].todo)
          /\ st.round = stream[s].round /\ st.calls = stream[s].calls
          /\ st.jobs = stream[s].jobs /\ st.result = NoJob
      BY <3>1, <3>2, Fields DEF Streaming, Results
    <3> HIDE DEF st
    <3>4. QED
      BY <2>1, <2>3, <2>5, <3>3, Replaced DEF Replied, m
  <2>6. CASE Len(stream[s].todo) = 1
    <3>1. st = [stream[s] EXCEPT !.at = "asking", !.todo = <<>>, !.round = @ + 1, !.result = NoJob]
      BY <2>6
    <3>2. <<>> \in Seq(Indexes) /\ stream[s].round + 1 \in 1..Rounds
      BY <1>2, <2>6, Fields, AgentAssumption
    <3>3. st \in Streaming /\ st.at = "asking" /\ st.todo = <<>>
          /\ st.calls = stream[s].calls /\ st.jobs = stream[s].jobs /\ st.result = NoJob
      BY <3>1, <3>2, Fields DEF Streaming, Results
    <3> HIDE DEF st
    <3>4. QED
      BY <2>1, <2>3, <2>6, <3>3, Replaced DEF Replied, m
  <2> HIDE DEF ms, st
  <2>7. QED
    BY <2>4, <2>5, <2>6
<1>3. QED
  BY <1>1, <1>2

-----------------------------------------------------------------------------
(***************************************************************************)
(* Shapes and counts.                                                      *)
(***************************************************************************)
LEMMA CountInit == Init => CountInv
<1> SUFFICES ASSUME Init PROVE CountInv
  OBVIOUS
<1>1. 1 \in 1..Rounds /\ <<>> \in Seq(Indexes) /\ <<>> \in Seq(Asked \union Told)
      /\ <<>> \in Seq(Jobs) /\ \A s \in Streams : MaxCalls[s] \in Nat
  BY AgentAssumption
<1>2. stream \in [Streams -> Streaming] /\ messages \in [Streams -> Seq(Asked \union Told)]
  BY <1>1 DEF Init, Streaming, Results
<1>3. PoolShapes
  BY <1>1 DEF Init, PoolShapes, JobStates
<1>4. ASSUME NEW s \in Streams PROVE Counted(s)
  <2>1. stream[s].at = "asking" /\ stream[s].calls = 0 /\ stream[s].jobs = 0
    BY DEF Init
  <2>2. QED
    BY <1>1, <2>1 DEF Counted, Between, InTools
<1>5. QED
  BY <1>2, <1>3, <1>4 DEF CountInv, Shapes

\* Where the stream stands within a call, and what is counted there.
LEMMA Numbers ==
  ASSUME CountInv, NEW s \in Streams
  PROVE  /\ stream[s].calls \in Nat /\ stream[s].jobs \in Nat /\ MaxCalls[s] \in Nat
         /\ stream[s].todo \in Seq(Indexes) /\ Len(stream[s].todo) \in Nat
         /\ stream[s].at \in InTools =>
              /\ stream[s].todo # <<>> /\ Len(stream[s].todo) >= 1
              /\ Len(Tail(stream[s].todo)) = Len(stream[s].todo) - 1
              /\ Len(stream[s].todo) > 1 => Tail(stream[s].todo) # <<>>
<1>1. /\ stream[s].calls \in Nat /\ stream[s].jobs \in Nat /\ MaxCalls[s] \in Nat
      /\ stream[s].todo \in Seq(Indexes) /\ Len(stream[s].todo) \in Nat
  BY Fields DEF CountInv
<1>2. ASSUME stream[s].at \in InTools
      PROVE  /\ stream[s].todo # <<>> /\ Len(stream[s].todo) >= 1
             /\ Len(Tail(stream[s].todo)) = Len(stream[s].todo) - 1
             /\ Len(stream[s].todo) > 1 => Tail(stream[s].todo) # <<>>
  <2>1. stream[s].todo # <<>>
    BY <1>2 DEF CountInv, Counted
  <2>2. Len(stream[s].todo) >= 1 /\ Len(Tail(stream[s].todo)) = Len(stream[s].todo) - 1
    BY <1>1, <2>1, NonEmpty
  <2>3. Len(stream[s].todo) > 1 => Tail(stream[s].todo) # <<>>
    BY <1>1, <2>1, NonEmpty
  <2>4. QED
    BY <2>1, <2>2, <2>3
<1>3. QED
  BY <1>1, <1>2

LEMMA StreamCounts ==
  ASSUME CountInv, NEW s \in Streams, StreamStep(s)
  PROVE  Frame(s) /\ Counted(s)'
<1>1. Shapes /\ Counted(s)
  BY DEF CountInv
<1>2. CASE \E outcome \in {"done", "error", "left"} : End(s, outcome)
  <2>1. Frame(s) /\ stream'[s].at = "ended" /\ stream'[s].jobs = stream[s].jobs
    BY <1>1, <1>2, EndDoes
  <2>2. QED
    BY <1>1, <2>1 DEF Counted, Between, InTools
<1>3. CASE Ask(s) \/ Delta(s)
  <2>1. /\ Frame(s) /\ Same(s)
        /\ stream[s].at \in Between /\ stream'[s].at \in Between
    BY <1>1, <1>3, GotoDoes DEF Ask, Delta, At, Between
  <2>2. QED
    BY <1>1, <2>1 DEF Counted, Same, Between, InTools
<1>4. CASE Complete(s)
  <2>1. Frame(s) /\ stream[s].at = "chunks"
    BY <1>1, <1>4, CompleteDoes
  <2>2. CASE \E calls : Kept(s, calls)
    <3>1. PICK calls : Kept(s, calls)
      BY <2>2
    <3>2. /\ calls # <<>> /\ stream[s].calls + Len(calls) <= MaxCalls[s]
          /\ stream'[s].at = "call" /\ stream'[s].todo = calls
          /\ stream'[s].calls = stream[s].calls + Len(calls)
          /\ stream'[s].jobs = stream[s].jobs /\ Len(calls) \in Nat
      BY <3>1 DEF Kept
    <3>3. stream[s].jobs <= MaxCalls[s] /\ stream[s].jobs <= stream[s].calls
      BY <1>1, <2>1 DEF Counted, Between
    <3>4. stream[s].jobs + Len(calls) <= stream[s].calls + Len(calls)
      BY <3>2, <3>3, Numbers
    <3>5. QED
      BY <2>1, <3>2, <3>3, <3>4 DEF Counted, Between, InTools
  <2>3. QED
    BY <1>1, <1>2, <1>4, <2>2, CompleteDoes
<1>5. CASE Submit(s)
  <2>1. /\ Frame(s) /\ stream[s].at = "call" /\ stream'[s].at = "waiting"
        /\ stream'[s].jobs = stream[s].jobs + 1 /\ stream'[s].todo = stream[s].todo
        /\ stream'[s].calls = stream[s].calls
    BY <1>1, <1>5, SubmitDoes
  <2>2. /\ stream[s].todo # <<>> /\ stream[s].calls <= MaxCalls[s]
        /\ stream[s].jobs + Len(stream[s].todo) <= stream[s].calls
    BY <1>1, <2>1 DEF Counted, InTools
  <2>3. /\ stream[s].jobs + 1 <= MaxCalls[s] /\ stream[s].jobs + 1 >= 1
        /\ stream[s].jobs + 1 + Len(stream[s].todo) <= stream[s].calls + 1
    BY <2>1, <2>2, Numbers DEF InTools
  <2>4. QED
    BY <2>1, <2>2, <2>3 DEF Counted, Between, InTools
<1>6. CASE Execute(s) \/ Answered(s) \/ Cancel(s)
  <2>1. PICK result \in Results :
          stream' = [stream EXCEPT ![s] = Reply(stream[s], result)] /\ UNCHANGED messages
    <3>1. stream[s].jobs \in 1..MaxCalls[s] => Mine(s) \in Results
      BY JobIs DEF Mine, Results
    <3>2. Answered(s) => stream[s].jobs \in 1..MaxCalls[s]
      BY <1>1, Numbers DEF Answered, At, Counted
    <3>3. QED
      BY <1>6, <3>1, <3>2 DEF Execute, Answered, Cancel, Results
  <2>2. /\ Frame(s) /\ Same(s) /\ stream'[s].at \in {"errorEvent", "callEvent"}
    BY <1>1, <2>1, ReplyDoes
  <2>3. stream[s].at \in {"call", "waiting", "expired"}
    BY <1>6 DEF Execute, Answered, Cancel, At
  <2>4. stream[s].todo # <<>> /\ stream[s].calls <= MaxCalls[s] /\ stream[s].jobs <= MaxCalls[s]
    BY <1>1, <2>3 DEF Counted, InTools
  <2>5. stream[s].jobs + Len(stream[s].todo) <= stream[s].calls + 1
    BY <1>1, <2>3, Numbers DEF Counted, InTools
  <2>6. QED
    BY <2>2, <2>4, <2>5 DEF Counted, Same, Between, InTools
<1>7. CASE Expire(s)
  <2>1. /\ Frame(s) /\ Same(s) /\ stream[s].at = "waiting" /\ stream'[s].at = "expired"
    BY <1>1, <1>7, GotoDoes DEF Expire, At, InTools
  <2>2. QED
    BY <1>1, <2>1 DEF Counted, Same, Between, InTools
<1>8. CASE Resume(s) /\ ~At(s, "callEvent")
  <2>1. \/ At(s, "delta") /\ Goto(s, "chunks") /\ UNCHANGED messages
        \/ At(s, "errorEvent") /\ Goto(s, "callEvent") /\ UNCHANGED messages
    BY <1>8 DEF Resume, Yields, At
  <2>2. /\ Frame(s) /\ Same(s)
        /\ \/ stream[s].at = "delta" /\ stream'[s].at = "chunks"
           \/ stream[s].at = "errorEvent" /\ stream'[s].at = "callEvent"
    BY <1>1, <2>1, GotoDoes DEF At, Between, InTools
  <2>3. QED
    BY <1>1, <2>2 DEF Counted, Same, Between, InTools
<1>9. CASE Resume(s) /\ At(s, "callEvent")
  <2>1. Answer(s) /\ stream[s].at = "callEvent"
    BY <1>9 DEF Resume, At
  <2>2. stream[s].at \in InTools
    BY <2>1 DEF InTools
  <2>3. Frame(s) /\ (End(s, "done") \/ Replied(s))
    BY <1>1, <2>1, <2>2, Numbers, AnswerDoes
  <2>4. CASE Replied(s)
    <3>1. /\ stream[s].calls <= MaxCalls[s] /\ stream[s].jobs <= MaxCalls[s]
          /\ stream[s].jobs + Len(stream[s].todo) <= stream[s].calls + 1
      BY <1>1, <2>1 DEF Counted, InTools
    <3>2. stream'[s].calls = stream[s].calls /\ stream'[s].jobs = stream[s].jobs
      BY <2>4 DEF Replied
    <3>3. CASE Len(stream[s].todo) > 1 /\ stream'[s].at = "call"
               /\ stream'[s].todo = Tail(stream[s].todo)
      <4>1. stream[s].jobs + Len(Tail(stream[s].todo)) <= stream[s].calls
            /\ Tail(stream[s].todo) # <<>>
        BY <2>2, <3>1, <3>3, Numbers
      <4>2. QED
        BY <2>3, <3>1, <3>2, <3>3, <4>1 DEF Counted, Between, InTools
    <3>4. CASE Len(stream[s].todo) = 1 /\ stream'[s].at = "asking"
      <4>1. stream[s].jobs <= stream[s].calls
        BY <3>1, <3>4, Numbers
      <4>2. QED
        BY <2>3, <3>1, <3>2, <3>4, <4>1 DEF Counted, Between, InTools
    <3>5. QED
      BY <2>4, <3>3, <3>4 DEF Replied
  <2>5. QED
    BY <1>2, <2>3, <2>4
<1>10. QED
  <2>1. Fail(s) \/ Leave(s) => \E outcome \in {"done", "error", "left"} : End(s, outcome)
    BY DEF Fail, Leave
  <2>2. QED
    BY <1>2, <1>3, <1>4, <1>5, <1>6, <1>7, <1>8, <1>9, <2>1 DEF StreamStep

-----------------------------------------------------------------------------
(***************************************************************************)
(* The executor.                                                           *)
(***************************************************************************)
Waits == {"waiting", "expired"}

\* What waits in the queue is not started, and waits there once.
QueueInv ==
  /\ \A i \in 1..Len(queue) : job[queue[i]].state \in {"queued", "cancelled"}
  /\ \A i, k \in 1..Len(queue) : queue[i] = queue[k] => i = k

\* A stream's analyses are asked for one after the other, and wait while it waits.
AskedInv ==
  /\ \A j \in Jobs : j[2] > stream[j[1]].jobs => job[j].state = "none"
  /\ \A j \in Jobs : job[j].state = "queued" =>
       /\ j[2] = stream[j[1]].jobs /\ stream[j[1]].at \in Waits
       /\ \E i \in 1..Len(queue) : queue[i] = j

\* A busy thread runs an analysis of its own.
WorkerInv ==
  /\ \A w \in Workers : worker[w] # NoJob => job[worker[w]].state = "running"
  /\ \A v, w \in Workers : worker[v] = worker[w] /\ worker[v] # NoJob => v = w

PoolInv == QueueInv /\ AskedInv /\ WorkerInv

\* What is asked for stays so, and a report is final.
JobsKept ==
  \A j \in Jobs :
    /\ job[j].state # "none" => job'[j].state # "none" /\ job'[j].call = job[j].call
    /\ job[j].state = "done" => job'[j].state = "done"

LEMMA PoolFields ==
  ASSUME PoolShapes
  PROVE  /\ \A j \in Jobs : job[j].state \in JobStates /\ job[j].call \in [round: Nat, index: Nat]
         /\ queue \in Seq(Jobs) /\ \A i \in 1..Len(queue) : queue[i] \in Jobs
         /\ \A w \in Workers : worker[w] \in Jobs \union {NoJob}
BY DEF PoolShapes

\* The analysis a waiting stream waits for is one of its own.
LEMMA MineIs ==
  ASSUME CountInv, NEW s \in Streams, stream[s].at \in Waits
  PROVE  Mine(s) \in Jobs /\ Mine(s)[1] = s /\ Mine(s)[2] = stream[s].jobs
<1>1. stream[s].jobs \in 1..MaxCalls[s]
  BY Numbers DEF CountInv, Counted, Waits
<1>2. QED
  BY <1>1, JobIs DEF Mine

\* One analysis changes its state.
Moves(j, state) ==
  /\ job' \in [Jobs -> [state: JobStates, call: [round: Nat, index: Nat]]]
  /\ job'[j].state = state /\ job'[j].call = job[j].call
  /\ \A k \in Jobs : k # j => job'[k] = job[k]

LEMMA MovesDoes ==
  ASSUME PoolShapes, NEW j \in Jobs, NEW state \in JobStates, job' = [job EXCEPT ![j].state = state]
  PROVE  Moves(j, state)
<1> DEFINE jb == [job[j] EXCEPT !.state = state]
<1>1. jb \in [state: JobStates, call: [round: Nat, index: Nat]] /\ jb.state = state
      /\ jb.call = job[j].call
  BY DEF PoolShapes
<1>2. job' = [job EXCEPT ![j] = jb]
  OBVIOUS
<1> HIDE DEF jb
<1>3. QED
  BY <1>1, <1>2 DEF PoolShapes, Moves

LEMMA SubmitPools ==
  ASSUME CountInv, PoolInv, NEW s \in Streams, Submit(s)
  PROVE  /\ PoolShapes' /\ PoolInv' /\ JobsKept
         /\ job'[Mine(s)'].state = "queued"
         /\ job'[Mine(s)'].call = [round |-> stream[s].round, index |-> Head(stream[s].todo)]
<1> DEFINE n == stream[s].jobs + 1
           j == <<s, n>>
           call == [round |-> stream[s].round, index |-> Head(stream[s].todo)]
           jb == [state |-> "queued", call |-> call]
<1>1. /\ Shapes /\ PoolShapes /\ Counted(s)
      /\ QueueInv /\ AskedInv /\ WorkerInv
  BY DEF CountInv, Shapes, PoolInv
<1>2. /\ Frame(s) /\ stream[s].at = "call" /\ stream'[s].at = "waiting" /\ stream'[s].jobs = n
  BY <1>1, SubmitDoes
<1>3. j \in Jobs /\ j[1] = s /\ j[2] = n /\ n \in Nat /\ n > stream[s].jobs
  <2>1. n \in 1..MaxCalls[s] /\ n \in Nat /\ n > stream[s].jobs
    <3>1. /\ stream[s].calls <= MaxCalls[s] /\ Len(stream[s].todo) >= 1
          /\ stream[s].jobs + Len(stream[s].todo) <= stream[s].calls
      BY <1>1, <1>2, Numbers DEF Counted, InTools
    <3>2. QED
      BY <3>1, Numbers
  <2>2. QED
    BY <2>1, JobIs
<1>4. job[j].state = "none"
  BY <1>1, <1>3 DEF AskedInv
<1>5. jb \in [state: JobStates, call: [round: Nat, index: Nat]]
  <2>1. stream[s].round \in Nat /\ Head(stream[s].todo) \in Nat
    <3>1. stream[s].round \in 1..Rounds /\ stream[s].todo \in Seq(Indexes) /\ stream[s].todo # <<>>
      BY <1>1, <1>2, Fields, Numbers DEF InTools
    <3>2. Head(stream[s].todo) \in Indexes
      BY <3>1, NonEmpty
    <3>3. (\A x \in Indexes : x \in Nat) /\ (\A r \in 1..Rounds : r \in Nat)
      BY AgentAssumption
    <3>4. QED
      BY <3>1, <3>2, <3>3
  <2>2. QED
    BY <2>1 DEF JobStates
<1>6. job' = [job EXCEPT ![j] = jb] /\ queue' = Append(queue, j) /\ UNCHANGED worker
  BY DEF Submit
<1> HIDE DEF n, call
<1>7. Mine(s)' = j
  BY <1>2 DEF Mine
<1> HIDE DEF j
<1>8. /\ job'[j] = jb /\ \A k \in Jobs : k # j => job'[k] = job[k]
      /\ job' \in [Jobs -> [state: JobStates, call: [round: Nat, index: Nat]]]
  BY <1>1, <1>3, <1>5, <1>6 DEF PoolShapes
<1>9. /\ queue' \in Seq(Jobs) /\ Len(queue') = Len(queue) + 1 /\ queue'[Len(queue) + 1] = j
      /\ \A i \in 1..Len(queue) : queue'[i] = queue[i]
      /\ Len(queue) \in Nat
  BY <1>1, <1>3, <1>6, AppendProperties, LenProperties DEF PoolShapes
<1>10. PoolShapes'
  BY <1>1, <1>6, <1>8, <1>9 DEF PoolShapes
<1>11. \A i \in 1..Len(queue) : queue[i] \in Jobs /\ queue[i] # j
  BY <1>1, <1>4, PoolFields DEF QueueInv
<1>12. QueueInv'
  <2>1. ASSUME NEW i \in 1..Len(queue') PROVE job'[queue'[i]].state \in {"queued", "cancelled"}
    <3>1. CASE i = Len(queue) + 1
      BY <1>8, <1>9, <3>1
    <3>2. CASE i \in 1..Len(queue)
      BY <1>1, <1>8, <1>9, <1>11, <3>2 DEF QueueInv
    <3>3. QED
      BY <1>9, <3>1, <3>2
  <2>2. ASSUME NEW i \in 1..Len(queue'), NEW k \in 1..Len(queue'), queue'[i] = queue'[k] PROVE i = k
    <3>1. CASE i \in 1..Len(queue) /\ k \in 1..Len(queue)
      BY <1>1, <1>9, <2>2, <3>1 DEF QueueInv
    <3>2. CASE ~(i \in 1..Len(queue) /\ k \in 1..Len(queue))
      BY <1>9, <1>11, <2>2, <3>2
    <3>3. QED
      BY <3>1, <3>2
  <2>3. QED
    BY <2>1, <2>2 DEF QueueInv
<1>13. AskedInv'
  <2>1. ASSUME NEW k \in Jobs, k[2] > stream'[k[1]].jobs PROVE job'[k].state = "none"
    <3>1. CASE k[1] = s
      <4>1. k[2] \in Nat /\ stream[s].jobs \in Nat
        BY <3>1, JobIs, Numbers
      <4>2. k # j /\ k[2] > stream[s].jobs
        BY <1>2, <1>3, <2>1, <3>1, <4>1
      <4>3. QED
        BY <1>1, <1>8, <3>1, <4>2 DEF AskedInv
    <3>2. CASE k[1] # s
      BY <1>1, <1>2, <1>3, <1>8, <2>1, <3>2, JobIs DEF AskedInv, Frame
    <3>3. QED
      BY <3>1, <3>2
  <2>2. ASSUME NEW k \in Jobs, job'[k].state = "queued"
        PROVE  /\ k[2] = stream'[k[1]].jobs /\ stream'[k[1]].at \in Waits
               /\ \E i \in 1..Len(queue') : queue'[i] = k
    <3>1. CASE k = j
      BY <1>2, <1>3, <1>9, <3>1 DEF Waits
    <3>2. CASE k # j
      <4>1. job[k].state = "queued"
        BY <1>8, <2>2, <3>2
      <4>2. k[1] # s /\ k[1] \in Streams
        BY <1>1, <1>2, <4>1, JobIs DEF AskedInv, Waits
      <4>3. PICK i \in 1..Len(queue) : queue[i] = k
        BY <1>1, <4>1 DEF AskedInv
      <4>4. i \in 1..Len(queue') /\ queue'[i] = k
        BY <1>9, <4>3
      <4>5. QED
        BY <1>1, <1>2, <4>1, <4>2, <4>4 DEF AskedInv, Frame
    <3>3. QED
      BY <3>1, <3>2
  <2>3. QED
    BY <2>1, <2>2 DEF AskedInv
<1>14. WorkerInv'
  BY <1>1, <1>4, <1>6, <1>8, PoolFields DEF WorkerInv
<1>15. JobsKept
  BY <1>4, <1>8 DEF JobsKept
<1>16. QED
  BY <1>7, <1>8, <1>10, <1>12, <1>13, <1>14, <1>15 DEF PoolInv, call

LEMMA CancelPools ==
  ASSUME CountInv, PoolInv, NEW s \in Streams, Cancel(s)
  PROVE  PoolShapes' /\ PoolInv' /\ JobsKept
<1> DEFINE j == Mine(s)
           state == IF job[j].state = "queued" THEN "cancelled" ELSE job[j].state
<1>1. /\ Shapes /\ PoolShapes /\ QueueInv /\ AskedInv /\ WorkerInv
  BY DEF CountInv, Shapes, PoolInv
<1>2. /\ Frame(s) /\ stream[s].at = "expired" /\ stream'[s].jobs = stream[s].jobs
  <2>1. /\ stream' = [stream EXCEPT ![s] = Reply(stream[s], Raised)] /\ UNCHANGED messages
        /\ Raised \in Results /\ stream[s].at = "expired"
    BY DEF Cancel, At, Results
  <2>2. QED
    BY <1>1, <2>1, ReplyDoes DEF Same
<1>3. j \in Jobs /\ j[1] = s /\ j[2] = stream[s].jobs
  BY <1>2, MineIs DEF Waits
<1>4. state \in JobStates /\ job' = [job EXCEPT ![j].state = state] /\ UNCHANGED <<queue, worker>>
  BY <1>1, <1>3, PoolFields DEF Cancel, JobStates
<1>5. /\ job[j].state = "queued" => state = "cancelled"
      /\ job[j].state # "queued" => state = job[j].state
  OBVIOUS
<1> HIDE DEF j, state
<1>6. Moves(j, state)
  BY <1>1, <1>3, <1>4, MovesDoes
<1>7. PoolShapes'
  BY <1>1, <1>4, <1>6 DEF PoolShapes, Moves
<1>8. QueueInv'
  <2>1. \A i \in 1..Len(queue) : job'[queue[i]].state \in {"queued", "cancelled"}
    BY <1>1, <1>5, <1>6, PoolFields DEF QueueInv, Moves
  <2>2. QED
    BY <1>1, <1>4, <2>1 DEF QueueInv
<1>9. AskedInv'
  <2>1. ASSUME NEW k \in Jobs, k[2] > stream'[k[1]].jobs PROVE job'[k].state = "none"
    <3>1. k[2] > stream[k[1]].jobs
      BY <1>2, <2>1, JobIs DEF Frame
    <3>2. QED
      BY <1>1, <1>5, <1>6, <3>1 DEF AskedInv, Moves
  <2>2. ASSUME NEW k \in Jobs, job'[k].state = "queued"
        PROVE  /\ k[2] = stream'[k[1]].jobs /\ stream'[k[1]].at \in Waits
               /\ \E i \in 1..Len(queue') : queue'[i] = k
    <3>1. k # j /\ job[k].state = "queued"
      BY <1>5, <1>6, <2>2 DEF Moves
    <3>2. /\ k[2] = stream[k[1]].jobs /\ stream[k[1]].at \in Waits
          /\ \E i \in 1..Len(queue) : queue[i] = k
      BY <1>1, <3>1 DEF AskedInv
    <3>3. k[1] \in Streams /\ k[1] # s
      BY <1>3, <3>1, <3>2, JobIs
    <3>4. QED
      BY <1>2, <1>4, <3>2, <3>3 DEF Frame
  <2>3. QED
    BY <2>1, <2>2 DEF AskedInv
<1>10. WorkerInv'
  BY <1>1, <1>4, <1>5, <1>6, PoolFields DEF WorkerInv, Moves
<1>11. JobsKept
  BY <1>5, <1>6 DEF JobsKept, Moves
<1>12. QED
  BY <1>7, <1>8, <1>9, <1>10, <1>11 DEF PoolInv

LEMMA TakeUpPools ==
  ASSUME CountInv, PoolInv, NEW w \in Workers, TakeUp(w)
  PROVE  PoolShapes' /\ PoolInv' /\ JobsKept
<1> DEFINE j == Head(queue)
           m == Len(queue)
<1>1. /\ Shapes /\ PoolShapes /\ QueueInv /\ AskedInv /\ WorkerInv
  BY DEF CountInv, Shapes, PoolInv
<1>2. /\ queue \in Seq(Jobs) /\ queue # <<>> /\ queue' = Tail(queue)
      /\ UNCHANGED <<stream, messages>> /\ worker[w] = NoJob
  BY <1>1 DEF TakeUp, PoolShapes
<1>3. /\ m \in Nat /\ m >= 1 /\ j \in Jobs /\ j = queue[1]
      /\ queue' \in Seq(Jobs) /\ Len(queue') = m - 1
      /\ \A i \in 1..Len(queue') : queue'[i] = queue[i + 1]
  BY <1>2, NonEmpty
<1>4. job[j].state \in {"queued", "cancelled"}
  BY <1>1, <1>3 DEF QueueInv
<1>5. \/ job[j].state = "cancelled" /\ UNCHANGED <<job, worker>>
      \/ /\ job[j].state = "queued" /\ job' = [job EXCEPT ![j].state = "running"]
         /\ worker' = [worker EXCEPT ![w] = j]
  BY <1>4 DEF TakeUp
<1> HIDE DEF j, m
<1>6. \/ job[j].state = "cancelled" /\ UNCHANGED <<job, worker>>
      \/ job[j].state = "queued" /\ Moves(j, "running") /\ worker' = [worker EXCEPT ![w] = j]
  BY <1>1, <1>3, <1>5, MovesDoes DEF JobStates
<1>7. \A k \in Jobs : k # j => job'[k] = job[k]
  BY <1>6 DEF Moves
<1>8. PoolShapes'
  BY <1>1, <1>3, <1>6 DEF PoolShapes, Moves
\* The others in the queue move up.
<1>9. \A i \in 1..Len(queue') : /\ i + 1 \in 1..m /\ queue[i + 1] \in Jobs
                               /\ queue[i + 1] # j /\ queue'[i] = queue[i + 1]
  BY <1>1, <1>3, PoolFields DEF QueueInv, m
<1>10. QueueInv'
  <2>1. ASSUME NEW i \in 1..Len(queue') PROVE job'[queue'[i]].state \in {"queued", "cancelled"}
    BY <1>1, <1>7, <1>9 DEF QueueInv, m
  <2>2. ASSUME NEW i \in 1..Len(queue'), NEW k \in 1..Len(queue'), queue'[i] = queue'[k] PROVE i = k
    <3>1. i + 1 = k + 1
      BY <1>1, <1>9, <2>2 DEF QueueInv, m
    <3>2. QED
      BY <3>1
  <2>3. QED
    BY <2>1, <2>2 DEF QueueInv
<1>11. AskedInv'
  <2>1. ASSUME NEW k \in Jobs, k[2] > stream'[k[1]].jobs PROVE job'[k].state = "none"
    BY <1>1, <1>2, <1>4, <1>7, <2>1 DEF AskedInv
  <2>2. ASSUME NEW k \in Jobs, job'[k].state = "queued"
        PROVE  /\ k[2] = stream'[k[1]].jobs /\ stream'[k[1]].at \in Waits
               /\ \E i \in 1..Len(queue') : queue'[i] = k
    <3>1. k # j /\ job[k].state = "queued"
      BY <1>6, <1>7, <2>2 DEF Moves
    <3>2. PICK i \in 1..m : queue[i] = k
      BY <1>1, <3>1 DEF AskedInv, m
    <3>3. i # 1
      BY <1>3, <3>1, <3>2
    <3>4. i - 1 \in 1..Len(queue') /\ queue'[i - 1] = k
      BY <1>3, <3>2, <3>3
    <3>5. QED
      BY <1>1, <1>2, <3>1, <3>4 DEF AskedInv
  <2>3. QED
    BY <2>1, <2>2 DEF AskedInv
<1>12. WorkerInv'
  <2>1. CASE UNCHANGED <<job, worker>>
    BY <1>1, <2>1 DEF WorkerInv
  <2>2. CASE job[j].state = "queued" /\ Moves(j, "running") /\ worker' = [worker EXCEPT ![w] = j]
    <3>1. worker'[w] = j /\ \A v \in Workers : v # w => worker'[v] = worker[v]
      BY <1>1, <2>2 DEF PoolShapes
    <3>2. \A v \in Workers : worker[v] # NoJob => worker[v] \in Jobs /\ worker[v] # j
      BY <1>1, <2>2, PoolFields DEF WorkerInv
    <3>3. QED
      BY <1>1, <2>2, <3>1, <3>2 DEF WorkerInv, Moves
  <2>3. QED
    BY <1>6, <2>1, <2>2
<1>13. JobsKept
  BY <1>4, <1>6, <1>7 DEF JobsKept, Moves
<1>14. QED
  BY <1>8, <1>10, <1>11, <1>12, <1>13 DEF PoolInv

LEMMA ReturnPools ==
  ASSUME CountInv, PoolInv, NEW w \in Workers, Return(w)
  PROVE  PoolShapes' /\ PoolInv' /\ JobsKept
<1> DEFINE j == worker[w]
<1>1. /\ Shapes /\ PoolShapes /\ QueueInv /\ AskedInv /\ WorkerInv
  BY DEF CountInv, Shapes, PoolInv
<1>2. j \in Jobs /\ j # NoJob /\ job[j].state = "running"
  BY <1>1, PoolFields DEF Return, WorkerInv
<1>3. PICK state \in {"done", "failed"} : job' = [job EXCEPT ![j].state = state]
  BY DEF Return
<1>4. worker' = [worker EXCEPT ![w] = NoJob] /\ UNCHANGED <<stream, messages, queue>>
  BY DEF Return
<1>5. worker'[w] = NoJob /\ \A v \in Workers : v # w => worker'[v] = worker[v] /\ worker[v] # j
  BY <1>1, <1>2, <1>4 DEF PoolShapes, WorkerInv
<1> HIDE DEF j
<1>6. Moves(j, state)
  BY <1>1, <1>2, <1>3, MovesDoes DEF JobStates
<1>7. PoolShapes'
  BY <1>1, <1>4, <1>6 DEF PoolShapes, Moves
<1>8. QueueInv'
  <2>1. \A i \in 1..Len(queue) : job'[queue[i]].state \in {"queued", "cancelled"}
    BY <1>1, <1>2, <1>6, PoolFields DEF QueueInv, Moves
  <2>2. QED
    BY <1>1, <1>4, <2>1 DEF QueueInv
<1>9. AskedInv'
  <2>1. ASSUME NEW k \in Jobs, k[2] > stream[k[1]].jobs PROVE job'[k].state = "none"
    <3>1. job[k].state = "none" /\ k # j
      BY <1>1, <1>2, <2>1 DEF AskedInv
    <3> QED
      BY <1>6, <3>1 DEF Moves
  <2>2. ASSUME NEW k \in Jobs, job'[k].state = "queued"
        PROVE  job[k].state = "queued"
    <3>1. k # j
      BY <1>6, <2>2 DEF Moves
    <3> QED
      BY <1>6, <2>2, <3>1 DEF Moves
  <2>3. stream' = stream /\ queue' = queue
    BY <1>4
  <2> QED
    BY <1>1, <2>1, <2>2, <2>3 DEF AskedInv
<1>10. WorkerInv'
  <2>1. \A v \in Workers : worker'[v] # NoJob =>
          v # w /\ worker'[v] = worker[v] /\ worker[v] \in Jobs /\ job'[worker[v]] = job[worker[v]]
    BY <1>1, <1>5, <1>6, PoolFields DEF Moves
  <2>2. QED
    BY <1>1, <2>1 DEF WorkerInv
<1>11. JobsKept
  BY <1>2, <1>6 DEF JobsKept, Moves
<1>12. QED
  BY <1>7, <1>8, <1>9, <1>10, <1>11 DEF PoolInv

\* Every other step of a stream leaves the pool alone, and its analysis is not given
\* up while it is queued.
LEMMA QuietPools ==
  ASSUME CountInv, PoolInv, NEW s \in Streams, StreamStep(s), ~Submit(s), ~Cancel(s)
  PROVE  PoolShapes' /\ PoolInv' /\ JobsKept
<1>1. /\ Shapes /\ PoolShapes /\ QueueInv /\ AskedInv /\ WorkerInv
  BY DEF CountInv, Shapes, PoolInv
<1>2. UNCHANGED <<job, queue, worker>>
  BY DEF StreamStep, Ask, Delta, Fail, Complete, Execute, Answered, Expire, Resume, Leave, pool
<1>3. Frame(s)
  BY StreamCounts
<1>4. stream'[s].jobs = stream[s].jobs
  <2>1. CASE \E outcome \in {"done", "error", "left"} : End(s, outcome)
    BY <1>1, <2>1, EndDoes
  <2>2. CASE Complete(s)
    BY <1>1, <2>1, <2>2, CompleteDoes DEF Kept
  <2>3. CASE Execute(s)
    BY <1>1, <2>3, ReplyDoes DEF Execute, Results, Same
  <2>4. CASE Answered(s)
    <3>1. Mine(s) \in Results /\ Raised \in Results
      BY <2>4, MineIs DEF Answered, At, Waits, Results
    <3>2. QED
      BY <1>1, <2>4, <3>1, ReplyDoes DEF Answered, Same
  <2>5. CASE Ask(s) \/ Delta(s) \/ Expire(s)
    BY <1>1, <2>5, GotoDoes DEF Ask, Delta, Expire, Same, Between, InTools
  <2>6. CASE Resume(s) /\ At(s, "callEvent")
    <3>1. Answer(s) /\ stream[s].at \in InTools
      BY <2>6 DEF Resume, At, InTools
    <3>2. QED
      BY <1>1, <2>1, <3>1, Numbers, AnswerDoes DEF Replied
  <2>7. CASE Resume(s) /\ ~At(s, "callEvent")
    BY <1>1, <2>7, GotoDoes DEF Resume, Yields, At, Same, Between, InTools
  <2>8. QED
    BY <2>1, <2>2, <2>3, <2>4, <2>5, <2>6, <2>7 DEF StreamStep, Fail, Leave
<1>5. stream[s].at \in Waits => stream'[s].at \in Waits \/ job[Mine(s)].state # "queued"
  <2>1. CASE Expire(s)
    BY <1>1, <2>1, GotoDoes DEF Expire, Waits, InTools
  <2>2. CASE Answered(s)
    BY <2>2 DEF Answered
  <2>3. QED
    BY <2>1, <2>2 DEF StreamStep, Ask, Delta, Fail, Complete, Execute, Resume, Leave, At, Waits, Yields
<1>6. AskedInv'
  <2>1. ASSUME NEW k \in Jobs, k[2] > stream'[k[1]].jobs PROVE job'[k].state = "none"
    <3>1. k[2] > stream[k[1]].jobs
      BY <1>3, <1>4, <2>1, JobIs DEF Frame
    <3>2. QED
      BY <1>1, <1>2, <3>1 DEF AskedInv
  <2>2. ASSUME NEW k \in Jobs, job'[k].state = "queued"
        PROVE  /\ k[2] = stream'[k[1]].jobs /\ stream'[k[1]].at \in Waits
               /\ \E i \in 1..Len(queue') : queue'[i] = k
    <3>1. /\ job[k].state = "queued" /\ k[2] = stream[k[1]].jobs /\ stream[k[1]].at \in Waits
          /\ \E i \in 1..Len(queue) : queue[i] = k
      BY <1>1, <1>2, <2>2 DEF AskedInv
    <3>2. CASE k[1] = s
      <4>1. k = Mine(s)
        BY <3>1, <3>2, JobIs DEF Mine
      <4>2. QED
        BY <1>2, <1>4, <1>5, <3>1, <3>2, <4>1
    <3>3. CASE k[1] # s
      BY <1>2, <1>3, <3>1, <3>3, JobIs DEF Frame
    <3>4. QED
      BY <3>2, <3>3
  <2>3. QED
    BY <2>1, <2>2 DEF AskedInv
<1>7. PoolShapes' /\ QueueInv' /\ WorkerInv' /\ JobsKept
  BY <1>1, <1>2 DEF PoolShapes, QueueInv, WorkerInv, JobsKept
<1>8. QED
  BY <1>6, <1>7 DEF PoolInv

PoolsInv == CountInv /\ PoolInv

LEMMA PoolInit == Init => PoolInv
<1> SUFFICES ASSUME Init PROVE PoolInv
  OBVIOUS
<1>1. Len(queue) = 0 /\ \A i \in 1..Len(queue) : FALSE
  BY DEF Init
<1>2. \A j \in Jobs : job[j].state = "none"
  BY DEF Init
<1>3. \A w \in Workers : worker[w] = NoJob
  BY DEF Init
<1>4. QED
  BY <1>1, <1>2, <1>3 DEF PoolInv, QueueInv, AskedInv, WorkerInv

LEMMA PoolsStep ==
  ASSUME PoolsInv, [Next]_vars
  PROVE  PoolsInv' /\ JobsKept
<1>1. CountInv /\ PoolInv /\ Shapes
  BY DEF PoolsInv, CountInv
<1>2. ASSUME NEW s \in Streams, StreamStep(s) PROVE PoolsInv' /\ JobsKept
  <2>1. Frame(s) /\ Counted(s)'
    BY <1>1, <1>2, StreamCounts
  <2>2. PoolShapes' /\ PoolInv' /\ JobsKept
    BY <1>1, <1>2, SubmitPools, CancelPools, QuietPools
  <2>3. ASSUME NEW u \in Streams PROVE Counted(u)'
    <3>1. CASE u = s
      BY <2>1, <3>1
    <3>2. CASE u # s
      BY <1>1, <2>1, <3>2 DEF CountInv, Counted, Frame
    <3>3. QED
      BY <3>1, <3>2
  <2>4. QED
    BY <2>1, <2>2, <2>3 DEF PoolsInv, CountInv, Shapes, Frame
<1>3. ASSUME NEW w \in Workers, TakeUp(w) \/ Return(w) PROVE PoolsInv' /\ JobsKept
  <2>1. PoolShapes' /\ PoolInv' /\ JobsKept
    BY <1>1, <1>3, TakeUpPools, ReturnPools
  <2>2. UNCHANGED <<stream, messages>>
    BY <1>3 DEF TakeUp, Return
  <2>3. QED
    BY <1>1, <2>1, <2>2 DEF PoolsInv, CountInv, Shapes, Counted
<1>4. CASE UNCHANGED vars
  BY <1>1, <1>4 DEF PoolsInv, CountInv, Shapes, PoolShapes, Counted, PoolInv, QueueInv,
                    AskedInv, WorkerInv, JobsKept, vars
<1>5. QED
  BY <1>2, <1>3, <1>4 DEF Next

LEMMA ShapesTyped == ASSUME Shapes PROVE TypeOK
<1>1. ASSUME NEW s \in Streams, NEW i \in DOMAIN messages[s]
      PROVE  LET m == messages[s][i] IN
               \/ m.role = "assistant" /\ m.calls \in Seq(Indexes) /\ m.round \in 1..Rounds
               \/ m.role = "tool" /\ m.call \in Calls /\ m.report \in Jobs \union {NoJob}
  <2>1. messages[s] \in Seq(Asked \union Told)
    BY Fields
  <2>2. messages[s][i] \in Asked \union Told
    BY <2>1, ElementOfSeq, LenProperties
  <2>3. QED
    BY <2>2 DEF Asked, Told
<1>2. PoolShapes
  BY DEF Shapes
<1>3. QED
  BY <1>1, <1>2, PoolFields DEF TypeOK, Shapes, PoolShapes, JobStates

LEMMA QueuedOnce ==
  ASSUME PoolsInv, NEW j \in Jobs, job[j].state = "queued"
  PROVE  Cardinality({i \in DOMAIN queue : queue[i] = j}) = 1
<1>1. QueueInv /\ AskedInv /\ queue \in Seq(Jobs)
  BY DEF PoolsInv, PoolInv, CountInv, Shapes, PoolShapes
<1>2. PICK i \in 1..Len(queue) : queue[i] = j
  BY <1>1 DEF AskedInv
<1>3. DOMAIN queue = 1..Len(queue)
  BY <1>1, LenProperties
<1>4. {k \in DOMAIN queue : queue[k] = j} = {i}
  BY <1>1, <1>2, <1>3 DEF QueueInv
<1>5. QED
  BY <1>4, FS_Singleton

\* For any number of streams and threads, an analysis in the queue has its stream
\* waiting for it and a busy thread runs one: see QueueIsAwaited.
THEOREM PoolWorksForStreams == Spec => []QueueIsAwaited
<1>1. Init => PoolsInv
  BY CountInit, PoolInit DEF PoolsInv
<1>2. PoolsInv /\ [Next]_vars => PoolsInv'
  BY PoolsStep
<1>3. PoolsInv => QueueIsAwaited
  <2> SUFFICES ASSUME PoolsInv PROVE QueueIsAwaited
    OBVIOUS
  <2>1. TypeOK
    BY ShapesTyped DEF PoolsInv, CountInv
  <2>2. ASSUME NEW j \in Jobs, job[j].state = "queued"
        PROVE  j = Mine(j[1]) /\ stream[j[1]].at \in {"waiting", "expired"}
    <3>1. j[2] = stream[j[1]].jobs /\ stream[j[1]].at \in Waits /\ j = <<j[1], j[2]>>
      BY <2>2, JobIs DEF PoolsInv, PoolInv, AskedInv
    <3>2. QED
      BY <3>1 DEF Mine, Waits
  <2>3. \A w \in Workers : worker[w] # NoJob => job[worker[w]].state = "running"
    BY DEF PoolsInv, PoolInv, WorkerInv
  <2>4. QED
    BY <2>1, <2>2, <2>3, QueuedOnce DEF QueueIsAwaited
<1>4. QED
  BY <1>1, <1>2, <1>3, PTL DEF Spec

-----------------------------------------------------------------------------
(***************************************************************************)
(* The reports.                                                            *)
(***************************************************************************)
\* What a step of a stream does to what is said in it.
Ends(s) == messages'[s] = <<>> /\ stream'[s].at = "ended" /\ stream'[s].result = NoJob

Stays(s) ==
  /\ messages'[s] = messages[s] /\ Same(s) /\ stream[s].at # "callEvent"
  /\ \/ stream[s].at \in Between /\ stream'[s].at \in Between
     \/ stream[s].at \in InTools /\ stream'[s].at \in InTools
  /\ stream'[s].at \in Waits => stream[s].at \in Waits
  /\ \/ stream'[s].result \in {stream[s].result, NoJob, Raised}
     \/ /\ stream[s].at \in Waits /\ stream'[s].at = "callEvent"
        /\ stream'[s].result = Mine(s) /\ job[Mine(s)].state = "done"

LEMMA StreamTalks ==
  ASSUME PoolsInv, NEW s \in Streams, StreamStep(s), ~Submit(s)
  PROVE  \/ Ends(s)
         \/ stream[s].at = "chunks" /\ \E calls : Kept(s, calls)
         \/ stream[s].at = "callEvent" /\ Replied(s)
         \/ Stays(s)
<1>1. CountInv /\ Shapes
  BY DEF PoolsInv, CountInv
<1>2. CASE \E outcome \in {"done", "error", "left"} : End(s, outcome)
  BY <1>1, <1>2, EndDoes DEF Ends
<1>3. CASE Complete(s)
  BY <1>1, <1>2, <1>3, CompleteDoes
<1>4. CASE Ask(s) \/ Delta(s)
  <2>1. PICK at \in {"chunks", "delta"} : Goto(s, at) /\ stream[s].at \in Between
                                         /\ UNCHANGED messages
    BY <1>4 DEF Ask, Delta, At, Between
  <2>2. /\ messages'[s] = messages[s] /\ Same(s) /\ stream'[s].at = at
        /\ stream'[s].result = stream[s].result
    BY <1>1, <2>1, GotoDoes DEF Between
  <2>3. QED
    BY <2>1, <2>2 DEF Stays, Between, InTools, Waits
<1>5. CASE Expire(s)
  <2>1. /\ messages'[s] = messages[s] /\ Same(s) /\ stream[s].at = "waiting"
        /\ stream'[s].at = "expired" /\ stream'[s].result = stream[s].result
    BY <1>1, <1>5, GotoDoes DEF Expire, At, InTools
  <2>2. QED
    BY <2>1 DEF Stays, InTools, Waits
<1>6. CASE Resume(s) /\ ~At(s, "callEvent")
  <2>1. \/ At(s, "delta") /\ Goto(s, "chunks") /\ UNCHANGED messages
        \/ At(s, "errorEvent") /\ Goto(s, "callEvent") /\ UNCHANGED messages
    BY <1>6 DEF Resume, Yields, At
  <2>2. /\ messages'[s] = messages[s] /\ Same(s) /\ stream'[s].result = stream[s].result
        /\ \/ stream[s].at = "delta" /\ stream'[s].at = "chunks"
           \/ stream[s].at = "errorEvent" /\ stream'[s].at = "callEvent"
    BY <1>1, <2>1, GotoDoes DEF At, Between, InTools
  <2>3. QED
    BY <2>2 DEF Stays, Between, InTools, Waits
<1>7. CASE Resume(s) /\ At(s, "callEvent")
  <2>1. Answer(s) /\ stream[s].at = "callEvent"
    BY <1>7 DEF Resume, At
  <2>2. stream[s].todo # <<>>
    BY <1>1, <2>1, Numbers DEF InTools
  <2>3. QED
    BY <1>1, <1>2, <2>1, <2>2, AnswerDoes
<1>8. CASE Execute(s) \/ Cancel(s)
  <2>1. PICK result \in {NoJob, Raised} :
          /\ stream' = [stream EXCEPT ![s] = Reply(stream[s], result)] /\ UNCHANGED messages
          /\ stream[s].at \in {"call", "expired"}
    BY <1>8 DEF Execute, Cancel, At
  <2>2. /\ messages'[s] = messages[s] /\ Same(s) /\ stream'[s].result = result
        /\ stream'[s].at \in {"errorEvent", "callEvent"}
    BY <1>1, <2>1, ReplyDoes DEF Results
  <2>3. QED
    BY <2>1, <2>2 DEF Stays, InTools, Waits
<1>9. CASE Answered(s)
  <2>1. stream[s].at = "waiting" /\ Mine(s) \in Jobs
    BY <1>1, <1>9, MineIs DEF Answered, At, Waits
  <2>2. \E result \in Results :
          /\ stream' = [stream EXCEPT ![s] = Reply(stream[s], result)] /\ UNCHANGED messages
          /\ result = Raised \/ (result = Mine(s) /\ job[Mine(s)].state = "done")
    <3>1. Mine(s) \in Results /\ Raised \in Results /\ UNCHANGED messages
      BY <1>9, <2>1 DEF Answered, Results
    <3>2. CASE job[Mine(s)].state = "done"
      <4>1. stream' = [stream EXCEPT ![s] = Reply(stream[s], Mine(s))]
        BY <1>9, <3>2 DEF Answered
      <4>2. QED
        BY <3>1, <3>2, <4>1
    <3>3. CASE job[Mine(s)].state # "done"
      <4>1. stream' = [stream EXCEPT ![s] = Reply(stream[s], Raised)]
        BY <1>9, <3>3 DEF Answered
      <4>2. QED
        BY <3>1, <4>1
    <3>4. QED
      BY <3>2, <3>3
  <2>3. PICK result \in Results :
          /\ stream' = [stream EXCEPT ![s] = Reply(stream[s], result)] /\ UNCHANGED messages
          /\ result = Raised \/ (result = Mine(s) /\ job[Mine(s)].state = "done")
    BY <2>2
  <2>4. /\ messages'[s] = messages[s] /\ Same(s) /\ stream'[s].result = result
        /\ stream'[s].at = (IF result = Raised THEN "errorEvent" ELSE "callEvent")
    BY <1>1, <2>3, ReplyDoes
  <2>5. Mine(s) # Raised
    BY <2>1, JobIs
  <2>6. QED
    BY <2>1, <2>3, <2>4, <2>5 DEF Stays, InTools, Waits
<1>10. QED
  <2>1. Fail(s) \/ Leave(s) => \E outcome \in {"done", "error", "left"} : End(s, outcome)
    BY DEF Fail, Leave
  <2>2. QED
    BY <1>2, <1>3, <1>4, <1>5, <1>6, <1>7, <1>8, <1>9, <2>1 DEF StreamStep

\* The call being executed.
Now(s) == [round |-> stream[s].round, index |-> Head(stream[s].todo)]

\* The analysis a stream waits for was asked for by this call, and the report it has
\* answers it.
Awaited(s) ==
  stream[s].at \in Waits => job[Mine(s)].state # "none" /\ job[Mine(s)].call = Now(s)

Resulted(s) ==
  stream[s].result \in Jobs =>
    /\ stream[s].at = "callEvent"
    /\ job[stream[s].result].state = "done" /\ job[stream[s].result].call = Now(s)

ReportInv == \A s \in Streams : Awaited(s) /\ Resulted(s) /\ ReportsAnswerTheirCall(s)

LEMMA MessageIs ==
  ASSUME Shapes, NEW s \in Streams
  PROVE  /\ messages[s] \in Seq(Asked \union Told) /\ DOMAIN messages[s] = 1..Len(messages[s])
         /\ Len(messages[s]) \in Nat
         /\ \A i \in 1..Len(messages[s]) :
              /\ messages[s][i] \in Asked \union Told
              /\ messages[s][i].role = "assistant" => messages[s][i].calls \in Seq(Indexes)
              /\ messages[s][i].role = "tool" => messages[s][i].report \in Jobs \union {NoJob}
<1>1. messages[s] \in Seq(Asked \union Told)
  BY Fields
<1>2. DOMAIN messages[s] = 1..Len(messages[s]) /\ Len(messages[s]) \in Nat
  BY <1>1, LenProperties
<1>3. ASSUME NEW i \in 1..Len(messages[s])
      PROVE  /\ messages[s][i] \in Asked \union Told
             /\ messages[s][i].role = "assistant" => messages[s][i].calls \in Seq(Indexes)
             /\ messages[s][i].role = "tool" => messages[s][i].report \in Jobs \union {NoJob}
  <2>1. messages[s][i] \in Asked \union Told
    BY <1>1, ElementOfSeq
  <2>2. QED
    BY <2>1 DEF Asked, Told
<1>4. QED
  BY <1>1, <1>2, <1>3

\* What has been reported stays true.
LEMMA ReportsStay ==
  ASSUME Shapes, JobsKept, NEW s \in Streams, ReportsAnswerTheirCall(s), messages'[s] = messages[s]
  PROVE  ReportsAnswerTheirCall(s)'
<1>1. ASSUME NEW i \in DOMAIN messages[s], messages[s][i].role = "tool", messages[s][i].report # NoJob
      PROVE  job'[messages[s][i].report].call = messages[s][i].call
             /\ job'[messages[s][i].report].state = "done"
  <2>1. messages[s][i].report \in Jobs
    BY <1>1, MessageIs
  <2>2. /\ job[messages[s][i].report].call = messages[s][i].call
        /\ job[messages[s][i].report].state = "done"
    BY <1>1 DEF ReportsAnswerTheirCall
  <2>3. QED
    BY <2>1, <2>2 DEF JobsKept
<1>2. QED
  BY <1>1 DEF ReportsAnswerTheirCall

LEMMA ReportsAdd ==
  ASSUME Shapes, JobsKept, NEW s \in Streams, ReportsAnswerTheirCall(s),
         NEW m \in Asked \union Told, messages'[s] = Append(messages[s], m),
         m.role = "tool" /\ m.report # NoJob =>
           job'[m.report].call = m.call /\ job'[m.report].state = "done"
  PROVE  ReportsAnswerTheirCall(s)'
<1>1. /\ DOMAIN messages'[s] = 1..(Len(messages[s]) + 1) /\ messages'[s][Len(messages[s]) + 1] = m
      /\ \A i \in 1..Len(messages[s]) : messages'[s][i] = messages[s][i]
      /\ DOMAIN messages[s] = 1..Len(messages[s]) /\ Len(messages[s]) \in Nat
  BY MessageIs, AppendProperties, LenProperties
<1>2. ASSUME NEW i \in DOMAIN messages'[s], messages'[s][i].role = "tool",
             messages'[s][i].report # NoJob
      PROVE  job'[messages'[s][i].report].call = messages'[s][i].call
             /\ job'[messages'[s][i].report].state = "done"
  <2>1. CASE i = Len(messages[s]) + 1
    BY <1>1, <1>2, <2>1
  <2>2. CASE i \in 1..Len(messages[s])
    <3>1. messages[s][i].role = "tool" /\ messages[s][i].report # NoJob
      BY <1>1, <1>2, <2>2
    <3>2. messages[s][i].report \in Jobs
      BY <3>1, <2>2, MessageIs
    <3>3. /\ job[messages[s][i].report].call = messages[s][i].call
          /\ job[messages[s][i].report].state = "done"
      BY <1>1, <2>2, <3>1 DEF ReportsAnswerTheirCall
    <3>4. QED
      BY <1>1, <2>2, <3>2, <3>3 DEF JobsKept
  <2>3. QED
    BY <1>1, <1>2, <2>1, <2>2
<1>3. QED
  BY <1>2 DEF ReportsAnswerTheirCall

LEMMA ReportStream ==
  ASSUME PoolsInv, ReportInv, NEW s \in Streams, StreamStep(s)
  PROVE  Awaited(s)' /\ Resulted(s)' /\ ReportsAnswerTheirCall(s)'
<1>1. /\ CountInv /\ PoolInv /\ Shapes /\ JobsKept
      /\ Awaited(s) /\ Resulted(s) /\ ReportsAnswerTheirCall(s)
  BY PoolsStep DEF PoolsInv, CountInv, ReportInv, Next
<1>2. NoJob \notin Jobs /\ Raised \notin Jobs
  BY JobIs
<1>3. CASE Ends(s)
  <2>1. Awaited(s)' /\ Resulted(s)'
    BY <1>2, <1>3 DEF Ends, Awaited, Resulted, Waits
  <2>2. DOMAIN messages'[s] = {}
    BY <1>3 DEF Ends
  <2>3. QED
    BY <2>1, <2>2 DEF ReportsAnswerTheirCall
<1>4. CASE stream[s].at = "chunks" /\ \E calls : Kept(s, calls)
  <2>1. PICK calls : Kept(s, calls)
    BY <1>4
  <2> DEFINE m == [role |-> "assistant", round |-> stream[s].round, calls |-> calls]
  <2>2. m \in Asked \union Told /\ m.role # "tool"
    BY <1>1, <2>1, Fields DEF Kept, Asked
  <2>3. messages'[s] = Append(messages[s], m)
    BY <2>1 DEF Kept
  <2> HIDE DEF m
  <2>4. ReportsAnswerTheirCall(s)'
    BY <1>1, <2>2, <2>3, ReportsAdd
  <2>5. stream'[s].at = "call" /\ stream'[s].result \notin Jobs
    BY <1>1, <1>4, <2>1 DEF Kept, Resulted
  <2>6. QED
    BY <2>4, <2>5 DEF Awaited, Resulted, Waits
<1>5. CASE stream[s].at = "callEvent" /\ Replied(s)
  <2> DEFINE m == ToolMessage(stream[s])
  <2>1. /\ m \in Told /\ m.call = Now(s)
        /\ m.report = (IF stream[s].result = Raised THEN NoJob ELSE stream[s].result)
    BY <1>1, <1>5, Numbers, ToolMessageIs DEF InTools, Now
  <2>2. messages'[s] = Append(messages[s], m)
    BY <1>5 DEF Replied
  <2> HIDE DEF m
  <2>3. ASSUME m.report # NoJob
        PROVE  job'[m.report].call = m.call /\ job'[m.report].state = "done"
    <3>1. m.report = stream[s].result /\ stream[s].result \in Jobs
      BY <1>1, <2>1, <2>3, Fields DEF Results
    <3>2. job[m.report].call = m.call /\ job[m.report].state = "done"
      BY <1>1, <2>1, <3>1 DEF Resulted
    <3>3. QED
      BY <1>1, <3>1, <3>2 DEF JobsKept
  <2>4. ReportsAnswerTheirCall(s)'
    BY <1>1, <2>1, <2>2, <2>3, ReportsAdd
  <2>5. stream'[s].at \in {"call", "asking"} /\ stream'[s].result = NoJob
    BY <1>5 DEF Replied
  <2>6. QED
    BY <1>2, <2>4, <2>5 DEF Awaited, Resulted, Waits
<1>6. CASE Stays(s)
  <2>1. ReportsAnswerTheirCall(s)'
    BY <1>1, <1>6, ReportsStay DEF Stays
  <2>2. /\ Now(s)' = Now(s) /\ Mine(s)' = Mine(s)
        /\ stream[s].at \in Waits => Mine(s) \in Jobs
    BY <1>1, <1>6, MineIs DEF Stays, Same, Now, Mine
  <2>3. Awaited(s)'
    <3>1. ASSUME stream'[s].at \in Waits
          PROVE  job'[Mine(s)].state # "none" /\ job'[Mine(s)].call = Now(s)
      <4>1. stream[s].at \in Waits
        BY <1>6, <3>1 DEF Stays
      <4>2. QED
        BY <1>1, <2>2, <4>1 DEF Awaited, JobsKept
    <3>2. QED
      BY <2>2, <3>1 DEF Awaited
  <2>4. Resulted(s)'
    <3>1. ASSUME stream'[s].result \in Jobs
          PROVE  /\ stream'[s].at = "callEvent"
                 /\ job'[stream'[s].result].state = "done"
                 /\ job'[stream'[s].result].call = Now(s)
      <4>1. stream'[s].result # stream[s].result
        BY <1>1, <1>6, <3>1 DEF Stays, Resulted
      <4>2. /\ stream[s].at \in Waits /\ stream'[s].at = "callEvent"
            /\ stream'[s].result = Mine(s) /\ job[Mine(s)].state = "done"
        BY <1>2, <1>6, <3>1, <4>1 DEF Stays
      <4>3. job[Mine(s)].call = Now(s) /\ Mine(s) \in Jobs
        BY <1>1, <2>2, <4>2 DEF Awaited
      <4>4. QED
        BY <1>1, <4>2, <4>3 DEF JobsKept
    <3>2. QED
      BY <2>2, <3>1 DEF Resulted
  <2>5. QED
    BY <2>1, <2>3, <2>4
<1>7. CASE Submit(s)
  <2>1. /\ messages'[s] = messages[s] /\ stream[s].at = "call"
        /\ stream'[s].round = stream[s].round /\ stream'[s].todo = stream[s].todo
        /\ stream'[s].result = stream[s].result
    BY <1>1, <1>7, SubmitDoes
  <2>2. /\ job'[Mine(s)'].state = "queued" /\ job'[Mine(s)'].call = Now(s)
    BY <1>1, <1>7, SubmitPools DEF Now
  <2>3. Awaited(s)'
    BY <2>1, <2>2 DEF Awaited, Now
  <2>4. Resulted(s)'
    BY <1>1, <2>1 DEF Resulted
  <2>5. ReportsAnswerTheirCall(s)'
    BY <1>1, <2>1, ReportsStay
  <2>6. QED
    BY <2>3, <2>4, <2>5
<1>8. QED
  BY <1>3, <1>4, <1>5, <1>6, <1>7, StreamTalks

\* A stream that does not step keeps its reports while analyses go on.
LEMMA ReportOthers ==
  ASSUME PoolsInv, ReportInv, JobsKept, NEW u \in Streams,
         stream'[u] = stream[u], messages'[u] = messages[u]
  PROVE  Awaited(u)' /\ Resulted(u)' /\ ReportsAnswerTheirCall(u)'
<1>1. CountInv /\ Shapes /\ Awaited(u) /\ Resulted(u) /\ ReportsAnswerTheirCall(u)
  BY DEF PoolsInv, CountInv, ReportInv
<1>2. ReportsAnswerTheirCall(u)'
  BY <1>1, ReportsStay
<1>3. Now(u)' = Now(u) /\ Mine(u)' = Mine(u) /\ (stream[u].at \in Waits => Mine(u) \in Jobs)
  BY <1>1, MineIs DEF Now, Mine
<1>4. Awaited(u)'
  BY <1>1, <1>3 DEF Awaited, JobsKept
<1>5. Resulted(u)'
  BY <1>1, <1>3 DEF Resulted, JobsKept
<1>6. QED
  BY <1>2, <1>4, <1>5

LEMMA ReportStep ==
  ASSUME PoolsInv, ReportInv, [Next]_vars
  PROVE  ReportInv'
<1>1. JobsKept /\ CountInv
  BY PoolsStep DEF PoolsInv
<1>2. ASSUME NEW s \in Streams, StreamStep(s) PROVE ReportInv'
  <2>1. Frame(s)
    BY <1>1, <1>2, StreamCounts
  <2>2. ASSUME NEW u \in Streams PROVE Awaited(u)' /\ Resulted(u)' /\ ReportsAnswerTheirCall(u)'
    <3>1. CASE u = s
      BY <1>2, <3>1, ReportStream
    <3>2. CASE u # s
      BY <1>1, <2>1, <3>2, ReportOthers DEF Frame
    <3>3. QED
      BY <3>1, <3>2
  <2>3. QED
    BY <2>2 DEF ReportInv
<1>3. CASE UNCHANGED <<stream, messages>>
  BY <1>1, <1>3, ReportOthers DEF ReportInv
<1>4. QED
  BY <1>2, <1>3 DEF Next, TakeUp, Return, vars

LEMMA ReportInit == Init => ReportInv
BY JobIs DEF Init, ReportInv, Awaited, Resulted, ReportsAnswerTheirCall, Waits

-----------------------------------------------------------------------------
(***************************************************************************)
(* The conversations.                                                      *)
(***************************************************************************)
Messages == Asked \union Told

\* The k-th call of message i is answered k messages later.
Answers(ms, i, k) ==
  /\ i + k \in 1..Len(ms) /\ ms[i + k].role = "tool"
  /\ ms[i + k].call = [round |-> ms[i].round, index |-> ms[i].calls[k]]

AllAnswered(ms, last) ==
  \A i \in 1..last : ms[i].role = "assistant" =>
    \A k \in 1..Len(ms[i].calls) : Answers(ms, i, k)

ToolsFollow(ms) ==
  \A i \in 1..Len(ms) : ms[i].role = "tool" =>
    \E h \in 1..(i - 1) : ms[h].role = "assistant" /\ i - h \in 1..Len(ms[h].calls)

\* Message a asked for the calls being executed: it comes after whole answers, its
\* first calls are answered after it, and the others are still to be done.
Pending(ms, a, round, todo) ==
  /\ ms[a].role = "assistant" /\ ms[a].round = round /\ AllAnswered(ms, a - 1)
  /\ Len(ms[a].calls) = (Len(ms) - a) + Len(todo)
  /\ \A k \in 1..Len(todo) : todo[k] = ms[a].calls[(Len(ms) - a) + k]
  /\ \A k \in 1..(Len(ms) - a) : Answers(ms, a, k)
  /\ \A i \in (a + 1)..Len(ms) : ms[i].role = "tool"

Whole(s) ==
  /\ ToolsFollow(messages[s])
  /\ stream[s].at \in Between => AllAnswered(messages[s], Len(messages[s]))
  /\ stream[s].at \in InTools =>
       \E a \in 1..Len(messages[s]) : Pending(messages[s], a, stream[s].round, stream[s].todo)

WholeInv == \A s \in Streams : Whole(s)

LEMMA Appended ==
  ASSUME NEW ms \in Seq(Messages), NEW m \in Messages
  PROVE  /\ Len(ms) \in Nat /\ Len(Append(ms, m)) = Len(ms) + 1
         /\ Append(ms, m)[Len(ms) + 1] = m
         /\ \A i \in 1..Len(ms) : Append(ms, m)[i] = ms[i]
BY AppendProperties, LenProperties

\* What is answered stays so.
LEMMA AnswersStay ==
  ASSUME NEW ms \in Seq(Messages), NEW m \in Messages, NEW i \in 1..Len(ms), NEW k \in Nat,
         Answers(ms, i, k)
  PROVE  Answers(Append(ms, m), i, k)
<1> DEFINE longer == Append(ms, m)
           n == Len(ms)
<1>1. /\ n \in Nat /\ Len(longer) = n + 1 /\ i \in 1..n /\ i + k \in 1..n
      /\ \A l \in 1..n : longer[l] = ms[l]
  BY Appended DEF Answers
<1> HIDE DEF longer, n
<1>2. i + k \in 1..Len(longer) /\ longer[i + k] = ms[i + k] /\ longer[i] = ms[i]
  BY <1>1
<1>3. QED
  BY <1>2 DEF Answers, longer

LEMMA AllAnsweredStays ==
  ASSUME NEW ms \in Seq(Messages), NEW m \in Messages, NEW last \in Nat, last <= Len(ms),
         AllAnswered(ms, last)
  PROVE  AllAnswered(Append(ms, m), last)
<1>1. ASSUME NEW i \in 1..last, Append(ms, m)[i].role = "assistant",
             NEW k \in 1..Len(Append(ms, m)[i].calls)
      PROVE  Answers(Append(ms, m), i, k)
  <2>1. i \in 1..Len(ms) /\ Append(ms, m)[i] = ms[i]
    BY Appended
  <2>2. Answers(ms, i, k) /\ k \in Nat
    BY <1>1, <2>1 DEF AllAnswered
  <2>3. QED
    BY <2>1, <2>2, AnswersStay
<1>2. QED
  BY <1>1 DEF AllAnswered

LEMMA ToolsFollowStay ==
  ASSUME NEW ms \in Seq(Messages), NEW m \in Messages, ToolsFollow(ms),
         m.role = "tool" => \E h \in 1..Len(ms) : /\ ms[h].role = "assistant"
                                                 /\ Len(ms) + 1 - h \in 1..Len(ms[h].calls)
  PROVE  ToolsFollow(Append(ms, m))
<1> DEFINE longer == Append(ms, m)
           n == Len(ms)
<1>1. /\ n \in Nat /\ Len(longer) = n + 1 /\ longer[n + 1] = m
      /\ \A l \in 1..n : longer[l] = ms[l]
  BY Appended
<1>2. ASSUME NEW i \in 1..n, ms[i].role = "tool"
      PROVE  \E h \in 1..(i - 1) : ms[h].role = "assistant" /\ i - h \in 1..Len(ms[h].calls)
  BY <1>2 DEF ToolsFollow
<1>3. m.role = "tool" => \E h \in 1..n : ms[h].role = "assistant" /\ n + 1 - h \in 1..Len(ms[h].calls)
  OBVIOUS
<1> HIDE DEF longer, n
<1>4. ASSUME NEW i \in 1..Len(longer), longer[i].role = "tool"
      PROVE  \E h \in 1..(i - 1) : longer[h].role = "assistant" /\ i - h \in 1..Len(longer[h].calls)
  <2>1. CASE i = n + 1
    <3>1. PICK h \in 1..n : ms[h].role = "assistant" /\ n + 1 - h \in 1..Len(ms[h].calls)
      BY <1>1, <1>3, <1>4, <2>1
    <3>2. h \in 1..(i - 1) /\ longer[h] = ms[h]
      BY <1>1, <2>1, <3>1
    <3>3. longer[h].role = "assistant" /\ n + 1 - h \in 1..Len(longer[h].calls)
      BY <3>1, <3>2
    <3>4. i - h \in 1..Len(longer[h].calls)
      <4>1. i - h = n + 1 - h
        BY <1>1, <2>1
      <4>2. QED
        BY <3>3, <4>1
    <3>5. QED
      BY <3>2, <3>3, <3>4
  <2>2. CASE i \in 1..n
    <3>1. PICK h \in 1..(i - 1) : ms[h].role = "assistant" /\ i - h \in 1..Len(ms[h].calls)
      BY <1>1, <1>2, <1>4, <2>2
    <3>2. longer[h] = ms[h]
      BY <1>1, <2>2, <3>1
    <3>3. QED
      BY <3>1, <3>2
  <2>3. QED
    BY <1>1, <2>1, <2>2
<1>5. QED
  BY <1>4 DEF ToolsFollow, longer

\* A response with calls begins its answers.
LEMMA PendingBegins ==
  ASSUME NEW ms \in Seq(Messages), NEW m \in Messages, AllAnswered(ms, Len(ms)),
         m.role = "assistant", m.calls \in Seq(Indexes)
  PROVE  \E a \in 1..Len(Append(ms, m)) : Pending(Append(ms, m), a, m.round, m.calls)
<1> DEFINE longer == Append(ms, m)
           n == Len(ms)
<1>1. n \in Nat /\ Len(longer) = n + 1 /\ longer[n + 1] = m /\ Len(m.calls) \in Nat
  BY Appended, LenProperties
<1>2. AllAnswered(longer, n)
  BY <1>1, AllAnsweredStays
<1> HIDE DEF longer, n
<1>3. /\ n + 1 \in 1..Len(longer) /\ (n + 1) - 1 = n /\ Len(longer) - (n + 1) = 0
      /\ 1..(Len(longer) - (n + 1)) = {} /\ ((n + 1) + 1)..Len(longer) = {}
  BY <1>1
<1>4. Len(m.calls) = (Len(longer) - (n + 1)) + Len(m.calls)
      /\ \A k \in 1..Len(m.calls) : (Len(longer) - (n + 1)) + k = k
  BY <1>1
<1>5. Pending(longer, n + 1, m.round, m.calls)
  BY <1>1, <1>2, <1>3, <1>4 DEF Pending
<1>6. QED
  BY <1>3, <1>5 DEF longer

\* A tool message answers the next call: the rest is still to be done, or all is
\* answered.
LEMMA PendingGoesOn ==
  ASSUME NEW ms \in Seq(Messages), NEW m \in Messages, NEW a \in 1..Len(ms), NEW round,
         NEW todo \in Seq(Indexes), todo # <<>>, Pending(ms, a, round, todo),
         m.role = "tool", m.call = [round |-> round, index |-> Head(todo)]
  PROVE  /\ Len(ms) + 1 - a \in 1..Len(ms[a].calls)
         /\ Len(todo) > 1 => Pending(Append(ms, m), a, round, Tail(todo))
         /\ Len(todo) = 1 => AllAnswered(Append(ms, m), Len(Append(ms, m)))
<1> DEFINE longer == Append(ms, m)
           n == Len(ms)
           d == Len(todo)
           rest == Tail(todo)
           calls == ms[a].calls
           c == Len(calls)
<1>1. /\ n \in Nat /\ Len(longer) = n + 1 /\ longer[n + 1] = m
      /\ \A i \in 1..n : longer[i] = ms[i]
  BY Appended
<1>2. /\ d \in Nat /\ d >= 1 /\ Head(todo) = todo[1] /\ Len(rest) = d - 1
      /\ \A k \in 1..Len(rest) : rest[k] = todo[k + 1]
  BY NonEmpty
<1>3. /\ ms[a].role = "assistant" /\ ms[a].round = round /\ AllAnswered(ms, a - 1)
      /\ c = (n - a) + d
      /\ \A k \in 1..d : todo[k] = calls[(n - a) + k]
      /\ \A k \in 1..(n - a) : Answers(ms, a, k)
      /\ \A i \in (a + 1)..n : ms[i].role = "tool"
  BY DEF Pending
<1>4. a \in 1..n
  OBVIOUS
<1> HIDE DEF n, d, rest, c
<1>5. n + 1 - a \in 1..c
  BY <1>1, <1>2, <1>3, <1>4
<1>6. AllAnswered(longer, a - 1)
  BY <1>1, <1>3, <1>4, AllAnsweredStays DEF n
<1>7. \A k \in 1..(n - a) : Answers(longer, a, k)
  <2>1. ASSUME NEW k \in 1..(n - a) PROVE Answers(longer, a, k)
    <3>1. k \in Nat /\ Answers(ms, a, k)
      BY <1>1, <1>3, <1>4
    <3>2. QED
      BY <3>1, AnswersStay
  <2>2. QED
    BY <2>1
<1> HIDE DEF longer
<1>8. longer[a] = ms[a] /\ longer[a].calls = calls
  BY <1>1, <1>4
<1> HIDE DEF calls
\* The new answer.
<1>9. Answers(longer, a, n + 1 - a)
  <2>1. a + (n + 1 - a) = n + 1 /\ n + 1 \in 1..Len(longer) /\ (n - a) + 1 = n + 1 - a /\ 1 \in 1..d
    BY <1>1, <1>2, <1>4
  <2>2. todo[1] = calls[n + 1 - a]
    BY <1>3, <2>1
  <2>3. m.call = [round |-> longer[a].round, index |-> longer[a].calls[n + 1 - a]]
    BY <1>2, <1>3, <1>8, <2>2
  <2>4. QED
    BY <1>1, <2>1, <2>3 DEF Answers
<1>10. \A k \in 1..(Len(longer) - a) : Answers(longer, a, k)
  <2>1. \A k \in 1..(Len(longer) - a) : k \in 1..(n - a) \/ k = n + 1 - a
    BY <1>1, <1>4
  <2>2. QED
    BY <1>7, <1>9, <2>1
<1>11. \A i \in (a + 1)..Len(longer) : longer[i].role = "tool"
  <2>1. \A i \in (a + 1)..Len(longer) : i = n + 1 \/ (i \in (a + 1)..n /\ i \in 1..n)
    BY <1>1, <1>4
  <2>2. QED
    BY <1>1, <1>3, <2>1
<1>12. ASSUME d > 1 PROVE Pending(longer, a, round, rest)
  <2>1. c = (Len(longer) - a) + Len(rest)
    BY <1>1, <1>2, <1>3, <1>4
  <2>2. ASSUME NEW k \in 1..Len(rest) PROVE rest[k] = calls[(Len(longer) - a) + k]
    <3>1. k + 1 \in 1..d /\ (n - a) + (k + 1) = (Len(longer) - a) + k
      BY <1>1, <1>2, <1>4
    <3>2. rest[k] = todo[k + 1] /\ todo[k + 1] = calls[(n - a) + (k + 1)]
      BY <1>2, <1>3, <3>1
    <3>3. QED
      BY <3>1, <3>2
  <2>3. QED
    BY <1>3, <1>6, <1>8, <1>10, <1>11, <2>1, <2>2 DEF Pending, c
<1>13. ASSUME d = 1 PROVE AllAnswered(longer, Len(longer))
  <2>1. c = Len(longer) - a
    BY <1>1, <1>3, <1>4, <1>13
  <2>2. ASSUME NEW i \in 1..Len(longer), longer[i].role = "assistant",
               NEW k \in 1..Len(longer[i].calls)
        PROVE  Answers(longer, i, k)
    <3>1. i \in 1..(a - 1) \/ i = a \/ i \in (a + 1)..Len(longer)
      BY <1>1, <1>4
    <3>2. CASE i \in 1..(a - 1)
      BY <1>6, <2>2, <3>2 DEF AllAnswered
    <3>3. CASE i = a
      BY <1>8, <1>10, <2>1, <3>3 DEF c
    <3>4. CASE i \in (a + 1)..Len(longer)
      BY <1>11, <2>2, <3>4
    <3>5. QED
      BY <3>1, <3>2, <3>3, <3>4
  <2>3. QED
    BY <2>2 DEF AllAnswered
<1>14. QED
  BY <1>5, <1>12, <1>13 DEF longer, n, d, rest, c, calls

LEMMA WholeStream ==
  ASSUME PoolsInv, NEW s \in Streams, Whole(s), StreamStep(s)
  PROVE  Whole(s)'
<1> DEFINE ms == messages[s]
<1>1. /\ CountInv /\ Shapes /\ ms \in Seq(Messages) /\ ToolsFollow(ms) /\ Len(ms) \in Nat
  BY MessageIs DEF PoolsInv, CountInv, Whole, Messages
<1>2. CASE Ends(s)
  <2>1. ms' = <<>> /\ stream'[s].at = "ended" /\ 1..Len(ms') = {}
    BY <1>2 DEF Ends
  <2>2. QED
    BY <2>1 DEF Whole, ToolsFollow, Between, InTools
<1>3. CASE stream[s].at = "chunks" /\ \E calls : Kept(s, calls)
  <2>1. PICK calls : Kept(s, calls)
    BY <1>3
  <2> DEFINE m == [role |-> "assistant", round |-> stream[s].round, calls |-> calls]
  <2>2. /\ m \in Messages /\ m.role = "assistant" /\ m.round = stream[s].round
        /\ m.calls = calls /\ calls \in Seq(Indexes)
    BY <1>1, <2>1, Fields DEF Kept, Asked, Messages
  <2>3. /\ ms' = Append(ms, m) /\ stream'[s].at = "call" /\ stream'[s].todo = calls
        /\ stream'[s].round = stream[s].round
    BY <2>1 DEF Kept
  <2>4. AllAnswered(ms, Len(ms))
    BY <1>3 DEF Whole, Between
  <2> HIDE DEF m, ms
  <2>5. ToolsFollow(Append(ms, m))
    BY <1>1, <2>2, ToolsFollowStay
  <2>6. \E a \in 1..Len(Append(ms, m)) : Pending(Append(ms, m), a, m.round, m.calls)
    BY <1>1, <2>2, <2>4, PendingBegins
  <2>7. \E a \in 1..Len(ms') : Pending(ms', a, stream'[s].round, stream'[s].todo)
    BY <2>2, <2>3, <2>6
  <2>8. ToolsFollow(ms')
    BY <2>3, <2>5
  <2>9. QED
    BY <2>3, <2>7, <2>8 DEF Whole, Between, InTools, ms
<1>4. CASE stream[s].at = "callEvent" /\ Replied(s)
  <2> DEFINE m == ToolMessage(stream[s])
             todo == stream[s].todo
  <2>1. /\ m \in Messages /\ m.role = "tool" /\ todo \in Seq(Indexes) /\ todo # <<>>
        /\ m.call = [round |-> stream[s].round, index |-> Head(todo)]
    BY <1>1, <1>4, Numbers, ToolMessageIs DEF InTools, Messages
  <2>2. ms' = Append(ms, m)
    BY <1>4 DEF Replied
  <2>3. PICK a \in 1..Len(ms) : Pending(ms, a, stream[s].round, todo)
    BY <1>4 DEF Whole, InTools
  <2>4. \/ /\ Len(todo) > 1 /\ stream'[s].at = "call" /\ stream'[s].todo = Tail(todo)
           /\ stream'[s].round = stream[s].round
        \/ Len(todo) = 1 /\ stream'[s].at = "asking"
    BY <1>4 DEF Replied
  <2> HIDE DEF m, ms, todo
  <2>5. /\ Len(ms) + 1 - a \in 1..Len(ms[a].calls)
        /\ Len(todo) > 1 => Pending(ms', a, stream[s].round, Tail(todo))
        /\ Len(todo) = 1 => AllAnswered(ms', Len(ms'))
    BY <1>1, <2>1, <2>2, <2>3, PendingGoesOn
  <2>6. ToolsFollow(ms')
    <3>1. ms[a].role = "assistant"
      BY <2>3 DEF Pending
    <3>2. QED
      BY <1>1, <2>1, <2>2, <2>5, <3>1, ToolsFollowStay
  <2>7. a \in 1..Len(ms')
    BY <1>1, <2>1, <2>2, Appended
  <2>8. QED
    BY <2>4, <2>5, <2>6, <2>7 DEF Whole, Between, InTools, ms
<1>5. CASE Stays(s) \/ Submit(s)
  <2>1. /\ ms' = ms /\ stream'[s].round = stream[s].round /\ stream'[s].todo = stream[s].todo
        /\ \/ stream[s].at \in Between /\ stream'[s].at \in Between
           \/ stream[s].at \in InTools /\ stream'[s].at \in InTools
    BY <1>1, <1>5, SubmitDoes DEF Stays, Same, InTools
  <2>2. QED
    BY <2>1 DEF Whole, Between, InTools
<1>6. QED
  BY <1>2, <1>3, <1>4, <1>5, StreamTalks

LEMMA WholeStep ==
  ASSUME PoolsInv, WholeInv, [Next]_vars
  PROVE  WholeInv'
<1>1. CountInv
  BY DEF PoolsInv
<1>2. ASSUME NEW s \in Streams, StreamStep(s), NEW u \in Streams PROVE Whole(u)'
  <2>1. Frame(s)
    BY <1>1, <1>2, StreamCounts
  <2>2. CASE u = s
    BY <1>2, <2>2, WholeStream DEF WholeInv
  <2>3. CASE u # s
    BY <2>1, <2>3 DEF Frame, WholeInv, Whole
  <2>4. QED
    BY <2>2, <2>3
<1>3. CASE UNCHANGED <<stream, messages>>
  BY <1>3 DEF WholeInv, Whole
<1>4. QED
  BY <1>2, <1>3 DEF Next, TakeUp, Return, vars, WholeInv

LEMMA WholeInit == Init => WholeInv
<1> SUFFICES ASSUME Init, NEW s \in Streams PROVE Whole(s)
  BY DEF WholeInv
<1>1. messages[s] = <<>> /\ Len(messages[s]) = 0 /\ 1..Len(messages[s]) = {}
      /\ stream[s].at = "asking"
  BY DEF Init
<1>2. QED
  BY <1>1 DEF Whole, ToolsFollow, AllAnswered, InTools

\* For any number of rounds and calls, and whatever tools, timeouts and clients do,
\* the model is only sent conversations whose calls are all answered, each by its
\* own report: see ConversationWhole.
THEOREM ConversationsAreWhole == Spec => []ConversationWhole
<1> DEFINE IInv == PoolsInv /\ ReportInv /\ WholeInv
<1>1. Init => IInv
  BY CountInit, PoolInit, ReportInit, WholeInit DEF PoolsInv
<1>2. IInv /\ [Next]_vars => IInv'
  BY PoolsStep, ReportStep, WholeStep
<1>3. IInv => ConversationWhole
  <2> SUFFICES ASSUME IInv, NEW s \in Streams, At(s, "asking"), NEW i \in DOMAIN messages[s]
               PROVE  /\ ReportsAnswerTheirCall(s)
                      /\ messages[s][i].role = "assistant" =>
                           \A k \in DOMAIN messages[s][i].calls :
                             /\ i + k \in DOMAIN messages[s]
                             /\ messages[s][i + k].role = "tool"
                             /\ messages[s][i + k].call =
                                  [round |-> messages[s][i].round, index |-> messages[s][i].calls[k]]
                      /\ messages[s][i].role = "tool" =>
                           \E h \in 1..(i - 1) : /\ messages[s][h].role = "assistant"
                                                 /\ i - h \in DOMAIN messages[s][h].calls
    BY DEF ConversationWhole, ReportInv
  <2>1. /\ Shapes /\ ReportsAnswerTheirCall(s) /\ ToolsFollow(messages[s])
        /\ AllAnswered(messages[s], Len(messages[s]))
    BY DEF PoolsInv, CountInv, ReportInv, WholeInv, Whole, At, Between
  <2>2. DOMAIN messages[s] = 1..Len(messages[s]) /\ Len(messages[s]) \in Nat
    BY <2>1, MessageIs
  <2>3. \A h \in 1..Len(messages[s]) : messages[s][h].role = "assistant" =>
          DOMAIN messages[s][h].calls = 1..Len(messages[s][h].calls)
    BY <2>1, MessageIs, LenProperties
  <2>4. ASSUME messages[s][i].role = "assistant", NEW k \in DOMAIN messages[s][i].calls
        PROVE  Answers(messages[s], i, k)
    BY <2>1, <2>2, <2>3, <2>4 DEF AllAnswered
  <2>5. ASSUME messages[s][i].role = "tool"
        PROVE  \E h \in 1..(i - 1) : /\ messages[s][h].role = "assistant"
                                     /\ i - h \in DOMAIN messages[s][h].calls
    <3>1. PICK h \in 1..(i - 1) : /\ messages[s][h].role = "assistant"
                                  /\ i - h \in 1..Len(messages[s][h].calls)
      BY <2>1, <2>2, <2>5 DEF ToolsFollow
    <3>2. h \in 1..Len(messages[s])
      BY <2>2
    <3>3. QED
      BY <2>3, <3>1, <3>2
  <2>6. QED
    BY <2>1, <2>2, <2>4, <2>5 DEF Answers
<1>4. QED
  BY <1>1, <1>2, <1>3, PTL DEF Spec

-----------------------------------------------------------------------------
(***************************************************************************)
(* What an analysis tells of a company, for all figures.                   *)
(***************************************************************************)

Figure == {<<>>} \union {<<v>> : v \in Int}
AllFigures ==
  [{"ocf", "capex", "profit", "revenue", "revenueBefore", "roe", "grossMargin", "pe",
    "liabilities", "assets", "receivables", "receivablesBefore", "inventory",
    "inventoryBefore", "goodwill"} -> Figure]

LEMMA LeastOf ==
  ASSUME NEW a \in Nat, NEW b \in Nat
  PROVE  Min({a, b}) = IF a < b THEN a ELSE b
<1>1. Min({a, b}) \in {a, b} /\ \A x \in {a, b} : Min({a, b}) <= x
  <2>1. \E m \in {a, b} : \A x \in {a, b} : m <= x
    <3>1. CASE a <= b
      BY <3>1
    <3>2. CASE b <= a
      BY <3>2
    <3> QED
      BY <3>1, <3>2
  <2> QED
    BY <2>1 DEF Min
<1> QED
  BY <1>1

LEMMA Division ==
  ASSUME NEW n \in Int, NEW d \in Nat \ {0}
  PROVE  /\ n \div d \in Int /\ n % d \in 0..(d - 1)
         /\ n = d * (n \div d) + (n % d)
OBVIOUS

LEMMA HalfRest ==
  ASSUME NEW f \in Int
  PROVE  f % 2 \in {0, 1}
OBVIOUS

LEMMA RoundedFacts ==
  ASSUME NEW n \in Int, NEW d \in Nat \ {0}
  PROVE  Rounded(n, d) \in Int /\ (n <= 0 => Rounded(n, d) <= 0)
<1> DEFINE f == n \div d
           m == n % d
<1>1. f \in Int /\ m \in 0..(d - 1) /\ n = d * f + m
  BY Division
<1>2. f % 2 \in {0, 1}
  BY <1>1, HalfRest
<1>3. Rounded(n, d) = IF 2 * m < d THEN f ELSE IF 2 * m > d THEN f + 1 ELSE f + (f % 2)
  BY DEF Rounded
<1> HIDE DEF f, m
<1>4. Rounded(n, d) \in Int /\ Rounded(n, d) <= f + 1
  BY <1>1, <1>2, <1>3
<1>5. ASSUME n <= 0, ~(f <= -1)
      PROVE  f = 0 /\ m = 0
  <2>1. f >= 0
    BY <1>1, <1>5
  <2>2. d * f >= 0
    BY <2>1, <1>1
  <2>3. d * f = 0 /\ m = 0
    BY <1>1, <1>5, <2>2
  <2> QED
    BY <1>1, <2>1, <2>3
<1>6. n <= 0 => Rounded(n, d) <= 0
  BY <1>1, <1>3, <1>4, <1>5
<1> QED
  BY <1>4, <1>6

LEMMA FreeIsInt ==
  ASSUME NEW f \in AllFigures, Given(f.ocf)
  PROVE  FreeCashFlow(f)[1] \in Int
<1>1. f.ocf \in Figure /\ f.capex \in Figure
  BY DEF AllFigures
<1>2. PICK v \in Int : f.ocf = <<v>>
  BY <1>1 DEF Figure, Given
<1>3. OrZero(f.capex) \in Int
  BY <1>1 DEF Figure, OrZero, Given
<1>4. PICK c \in Int : c = OrZero(f.capex)
  BY <1>3
<1>5. FreeCashFlow(f) = <<v - (IF c < 0 THEN -c ELSE c)>>
  BY <1>2, <1>4 DEF FreeCashFlow
<1> QED
  BY <1>4, <1>5

LEMMA LowCash ==
  ASSUME NEW f
  PROVE  "low_profit_cash_conversion" \in Flags(f)
           <=> Given(CashRatio(f)) /\ CashRatio(f)[1] < 80
BY DEF Flags

LEMMA WeakCash ==
  ASSUME NEW f, Given(FreeCashFlow(f)), FreeCashFlow(f)[1] <= 0
  PROVE  "weak_operating_cash_flow" \in Flags(f)
BY DEF Flags

\* A ratio has a positive denominator.
LEMMA RatioFacts ==
  ASSUME NEW n \in Figure, NEW d \in Figure, RatioOf(n, d) # <<>>
  PROVE  \E a \in Int, b \in Nat \ {0} :
           /\ RatioOf(n, d) = <<a, b>>
           /\ Hundredths(RatioOf(n, d)) = <<Rounded(100 * a, b)>>
           /\ n # <<>> /\ d # <<>>
           /\ (d[1] < 0 => a = -n[1])
<1>1. n # <<>> /\ d # <<>> /\ d # <<0>>
  BY DEF RatioOf, Given
<1>2. PICK v \in Int : n = <<v>>
  BY <1>1 DEF Figure
<1>3. PICK w \in Int : d = <<w>>
  BY <1>1 DEF Figure
<1>4. w # 0 /\ n[1] = v /\ d[1] = w
  BY <1>1, <1>2, <1>3
<1>5. RatioOf(n, d) = IF w < 0 THEN <<-v, -w>> ELSE <<v, w>>
  BY <1>1, <1>4 DEF RatioOf, Given
<1>6. \A a, b : <<a, b>> # <<>> /\ <<a, b>>[1] = a /\ <<a, b>>[2] = b
  OBVIOUS
<1>7. \A a, b : Hundredths(<<a, b>>) = <<Rounded(100 * a, b)>>
  BY <1>6 DEF Hundredths
<1>8. CASE w < 0
  <2>1. RatioOf(n, d) = <<-v, -w>> /\ -v \in Int /\ -w \in Nat \ {0}
    BY <1>5, <1>8
  <2> QED
    BY <2>1, <1>1, <1>4, <1>7
<1>9. CASE w > 0
  <2>1. RatioOf(n, d) = <<v, w>> /\ w \in Nat \ {0}
    BY <1>5, <1>9
  <2> QED
    BY <2>1, <1>1, <1>4, <1>7, <1>9
<1> QED
  BY <1>4, <1>8, <1>9

\* The cash ratio of a report is an integer if it is known.
LEMMA CashRatioInt ==
  ASSUME NEW f \in AllFigures, Given(CashRatio(f))
  PROVE  CashRatio(f) \in {<<v>> : v \in Int}
<1>1. f.ocf \in Figure /\ f.profit \in Figure
  BY DEF AllFigures
<1>2. RatioOf(f.ocf, f.profit) # <<>>
  BY DEF CashRatio, Hundredths, Given
<1>3. PICK a \in Int, b \in Nat \ {0} : Hundredths(RatioOf(f.ocf, f.profit)) = <<Rounded(100 * a, b)>>
  BY <1>1, <1>2, RatioFacts
<1>4. Rounded(100 * a, b) \in Int
  BY RoundedFacts
<1> QED
  BY <1>3, <1>4 DEF CashRatio

\* The score of financial quality and the flag of low cash conversion agree at the
\* threshold for all figures: _build_scorecard and _build_risk_flags read the same
\* rounded ratio.
THEOREM FlagAlwaysMatchesScore ==
  ASSUME NEW f \in AllFigures, Given(CashRatio(f))
  PROVE  Scores(f).finance <= 3 <=> "low_profit_cash_conversion" \in Flags(f)
<1>1. PICK v \in Int : CashRatio(f) = <<v>>
  BY CashRatioInt
<1>2. CashRatio(f)[1] = v
  BY <1>1
<1>3. Scores(f).finance = ScoreThreshold(CashRatio(f), 100, 80)
  BY DEF Scores
<1>4. Scores(f).finance = IF v >= 100 THEN 5 ELSE IF v >= 80 THEN 4 ELSE IF v >= 0 THEN 3 ELSE 2
  BY <1>2, <1>3 DEF ScoreThreshold
<1>5. Scores(f).finance <= 3 <=> v < 80
  BY <1>4
<1> QED
  BY <1>2, <1>5, LowCash

\* With the cash flow known, a company whose operations bring in no cash, or which loses
\* money, is not called strong: a cash flow that is not positive raises the flag of weak
\* operations, and a positive one beside a loss makes a ratio below the threshold.
LEMMA KnownLossIsNotStrong ==
  ASSUME NEW f \in AllFigures,
         Given(f.ocf),
         f.ocf[1] <= 0 \/ (Given(f.profit) /\ f.profit[1] < 0)
  PROVE  Stance(f) # "strong"
<1>1. /\ f.ocf \in Figure /\ f.profit \in Figure
      /\ f.capex \in Figure
  BY DEF AllFigures
<1>2. PICK v \in Int : f.ocf = <<v>>
  BY <1>1 DEF Figure, Given
<1>3. f.ocf[1] = v
  BY <1>2
<1>4. OrZero(f.capex) \in Int
  <2>1. CASE f.capex = <<>>
    BY <2>1 DEF OrZero, Given
  <2>2. ASSUME NEW w \in Int, f.capex = <<w>> PROVE OrZero(f.capex) \in Int
    BY <2>2 DEF OrZero, Given
  <2> QED
    BY <1>1, <2>1, <2>2 DEF Figure
<1>5. CASE v <= 0
  <2> DEFINE c == OrZero(f.capex)
             free == v - (IF c < 0 THEN -c ELSE c)
  <2>1. FreeCashFlow(f) = <<free>>
    BY <1>3 DEF FreeCashFlow
  <2>2. FreeCashFlow(f) # <<>> /\ FreeCashFlow(f)[1] = free
    BY <2>1
  <2>3. free <= 0
    BY <1>4, <1>5
  <2>4. "weak_operating_cash_flow" \in Flags(f)
    BY <2>2, <2>3, WeakCash DEF Given
  <2> QED
    BY <2>4 DEF Stance
<1>6. CASE v > 0
  <2>1. Given(f.profit) /\ f.profit[1] < 0
    BY <1>3, <1>6
  <2>2. PICK w \in Int : f.profit = <<w>>
    BY <1>1, <2>1 DEF Figure, Given
  <2>3. f.profit[1] = w /\ w < 0 /\ f.profit # <<0>>
    BY <2>1, <2>2
  <2>4. RatioOf(f.ocf, f.profit) = <<-v, -w>>
    BY <1>3, <2>1, <2>3 DEF RatioOf
  <2>5. RatioOf(f.ocf, f.profit) # <<>>
    BY <2>4
  <2>6. PICK a \in Int, b \in Nat \ {0} :
          /\ Hundredths(RatioOf(f.ocf, f.profit)) = <<Rounded(100 * a, b)>>
          /\ a = -v
    BY <1>1, <1>3, <2>1, <2>5, RatioFacts
  <2>7. 100 * a \in Int /\ 100 * a <= 0
    BY <1>6, <2>6
  <2>8. Rounded(100 * a, b) \in Int /\ Rounded(100 * a, b) <= 0
    BY <2>7, RoundedFacts
  <2>9. CashRatio(f) # <<>> /\ CashRatio(f)[1] = Rounded(100 * a, b)
    BY <2>6 DEF CashRatio
  <2>10. "low_profit_cash_conversion" \in Flags(f)
    BY <2>8, <2>9, LowCash DEF Given
  <2> QED
    BY <2>10 DEF Stance
<1> QED
  BY <1>2, <1>5, <1>6

\* Whoever is called strong has cash coming in as far as that is known, and a loss that is
\* called strong comes with the warning that the cash flow is missing (analyze,
\* _build_conclusion), for all figures.
THEOREM StrongLossIsAlwaysWarnedOf ==
  ASSUME NEW f \in AllFigures
  PROVE  StrongOnlyWithCash(f)
<1> SUFFICES ASSUME Stance(f) = "strong"
             PROVE  /\ Given(f.ocf) => f.ocf[1] > 0
                    /\ Given(f.profit) /\ f.profit[1] < 0
                         => Warnings(f) = {"cash_flow_missing", "dcf_not_calculated"}
  BY DEF StrongOnlyWithCash
<1>1. Given(f.ocf) => f.ocf[1] > 0
  <2> SUFFICES ASSUME Given(f.ocf) PROVE f.ocf[1] > 0
    OBVIOUS
  <2>1. f.ocf \in Figure
    BY DEF AllFigures
  <2>2. PICK v \in Int : f.ocf = <<v>>
    BY <2>1 DEF Figure, Given
  <2>3. f.ocf[1] \in Int
    BY <2>2
  <2> QED
    BY <2>3, KnownLossIsNotStrong
<1>2. ASSUME Given(f.profit), f.profit[1] < 0
      PROVE  Warnings(f) = {"cash_flow_missing", "dcf_not_calculated"}
  <2>1. ~Given(f.ocf)
    BY <1>2, KnownLossIsNotStrong
  <2>2. ~DcfCalculated(f)
    BY <2>1 DEF DcfCalculated, FreeCashFlow, Given
  <2> QED
    BY <2>1, <2>2 DEF Warnings
<1> QED
  BY <1>1, <1>2

\* Rounding keeps the order of the sums that make the composite.
LEMMA RoundedKeepsOrder ==
  ASSUME NEW n \in Int, NEW m \in Int, n <= m
  PROVE  Rounded(n, 6) <= Rounded(m, 6)
<1>1. /\ n \div 6 \in Int /\ n % 6 \in 0..5 /\ n = 6 * (n \div 6) + (n % 6)
      /\ m \div 6 \in Int /\ m % 6 \in 0..5 /\ m = 6 * (m \div 6) + (m % 6)
  OBVIOUS
<1>2. PICK a \in Int, b \in Int, q \in 0..5, t \in 0..5 :
        a = n \div 6 /\ b = m \div 6 /\ q = n % 6 /\ t = m % 6
  BY <1>1
<1>3. PICK x, y : x = a % 2 /\ y = b % 2
  OBVIOUS
<1>4. x \in {0, 1} /\ y \in {0, 1} /\ (a = b => x = y)
  BY <1>2, <1>3, HalfRest
<1>5. /\ Rounded(n, 6) = IF 2 * q < 6 THEN a ELSE IF 2 * q > 6 THEN a + 1 ELSE a + x
      /\ Rounded(m, 6) = IF 2 * t < 6 THEN b ELSE IF 2 * t > 6 THEN b + 1 ELSE b + y
  BY <1>2, <1>3 DEF Rounded
<1>6. n = 6 * a + q /\ m = 6 * b + t
  BY <1>1, <1>2
<1>7. a < b \/ (a = b /\ q <= t)
  BY <1>2, <1>6
<1> QED
  BY <1>2, <1>4, <1>5, <1>7

LEMMA ThresholdFacts ==
  ASSUME NEW x, Given(x) => x[1] \in Int, NEW high \in Int, NEW medium \in Int
  PROVE  ScoreThreshold(x, high, medium) \in 2..5
BY DEF ScoreThreshold

\* A figure that is hidden scores in the middle.
LEMMA HiddenScore ==
  ASSUME NEW x, NEW y, y \in {x, <<>>}, NEW high \in Int, NEW medium \in Int,
         Given(x) => x[1] \in Int, ScoreThreshold(x, high, medium) >= 3
  PROVE  ScoreThreshold(y, high, medium) <= ScoreThreshold(x, high, medium)
<1>1. CASE y = x
  BY <1>1, ThresholdFacts
<1>2. CASE y = <<>>
  BY <1>2, ThresholdFacts DEF ScoreThreshold, Given
<1> QED
  BY <1>1, <1>2

LEMMA RatioInt ==
  ASSUME NEW n \in Figure, NEW d \in Figure, Given(Hundredths(RatioOf(n, d)))
  PROVE  Hundredths(RatioOf(n, d))[1] \in Int
<1>1. RatioOf(n, d) # <<>>
  BY DEF Hundredths, Given
<1>2. PICK a \in Int, b \in Nat \ {0} : Hundredths(RatioOf(n, d)) = <<Rounded(100 * a, b)>>
  BY <1>1, RatioFacts
<1>3. Rounded(100 * a, b) \in Int
  BY RoundedFacts
<1> QED
  BY <1>2, <1>3

LEMMA GrowthInt ==
  ASSUME NEW f \in AllFigures, Given(Hundredths(RevenueGrowth(f)))
  PROVE  Hundredths(RevenueGrowth(f))[1] \in Int
<1>1. f.revenue \in Figure /\ f.revenueBefore \in Figure
  BY DEF AllFigures
<1>2. Given(f.revenue)
  BY DEF RevenueGrowth, GrowthRate, Hundredths, Given
<1>3. PICK v \in Int : f.revenue = <<v>>
  BY <1>1, <1>2 DEF Figure, Given
<1>4. OrZero(f.revenueBefore) \in Int
  BY <1>1 DEF Figure, OrZero, Given
<1>5. PICK w \in Figure : w = <<f.revenue[1] - OrZero(f.revenueBefore)>>
  <2>1. PICK c \in Int : c = OrZero(f.revenueBefore)
    BY <1>4
  <2>2. v - c \in Int /\ f.revenue[1] - OrZero(f.revenueBefore) = v - c
    BY <1>3, <2>1
  <2>3. <<v - c>> \in Figure
    BY <2>2 DEF Figure
  <2> QED
    BY <2>2, <2>3
<1>6. RevenueGrowth(f) = RatioOf(w, f.revenueBefore)
  BY <1>2, <1>5 DEF RevenueGrowth, GrowthRate
<1> QED
  BY <1>1, <1>6, RatioInt

\* A derived figure of which a part is hidden is the same or hidden.
LEMMA HiddenRatios ==
  ASSUME NEW f \in AllFigures, NEW h, Hides(h, f)
  PROVE  /\ CashRatio(h) \in {CashRatio(f), <<>>}
         /\ Hundredths(RevenueGrowth(h)) \in {Hundredths(RevenueGrowth(f)), <<>>}
         /\ h.roe \in {f.roe, <<>>} /\ h.pe \in {f.pe, <<>>}
         /\ h.ocf \in {f.ocf, <<>>}
<1>1. /\ h.ocf \in {f.ocf, <<>>} /\ h.profit \in {f.profit, <<>>}
      /\ h.revenue \in {f.revenue, <<>>} /\ h.revenueBefore \in {f.revenueBefore, <<>>}
      /\ h.roe \in {f.roe, <<>>} /\ h.pe \in {f.pe, <<>>}
  BY DEF Hides, AllFigures
<1>2. CashRatio(h) \in {CashRatio(f), <<>>}
  <2>1. CASE h.ocf = f.ocf /\ h.profit = f.profit
    BY <2>1 DEF CashRatio
  <2>2. CASE h.ocf = <<>> \/ h.profit = <<>>
    <3>1. RatioOf(h.ocf, h.profit) = <<>>
      BY <2>2 DEF RatioOf, Given
    <3> QED
      BY <3>1 DEF CashRatio, Hundredths
  <2> QED
    BY <1>1, <2>1, <2>2
<1>3. Hundredths(RevenueGrowth(h)) \in {Hundredths(RevenueGrowth(f)), <<>>}
  <2>1. CASE h.revenue = f.revenue /\ h.revenueBefore = f.revenueBefore
    BY <2>1 DEF RevenueGrowth
  <2>2. CASE h.revenue = <<>> \/ h.revenueBefore = <<>>
    <3>1. RevenueGrowth(h) = <<>>
      BY <2>2 DEF RevenueGrowth, GrowthRate, RatioOf, Given
    <3> QED
      BY <3>1 DEF Hundredths
  <2> QED
    BY <1>1, <2>1, <2>2
<1> QED
  BY <1>1, <1>2, <1>3

\* The score of risk is at most 5, which is that of no flag.
LEMMA RiskFacts ==
  ASSUME NEW f
  PROVE  Scores(f).risk \in 1..5 /\ (Flags(f) = {} => Scores(f).risk = 5)
<1>1. PICK F : F = Flags(f)
  OBVIOUS
<1>2. F \subseteq {"low_profit_cash_conversion", "weak_operating_cash_flow", "high_debt_to_asset",
                  "receivables_growth_outpaces_revenue", "inventory_pressure", "goodwill_pressure",
                  "low_gross_margin"}
  BY <1>1 DEF Flags
<1>3. IsFiniteSet(F)
  <2>1. PICK a, b, c, d, e, g, i : F \subseteq {a, b, c, d, e, g, i}
    BY ONLY <1>2
  <2>2. /\ IsFiniteSet({a}) /\ IsFiniteSet({b}) /\ IsFiniteSet({c}) /\ IsFiniteSet({d})
        /\ IsFiniteSet({e}) /\ IsFiniteSet({g}) /\ IsFiniteSet({i})
    BY ONLY FS_Singleton
  <2>3. IsFiniteSet({a} \cup {b}) /\ IsFiniteSet({c} \cup {d}) /\ IsFiniteSet({e} \cup {g})
    BY ONLY <2>2, FS_Union
  <2>4. IsFiniteSet(({a} \cup {b}) \cup ({c} \cup {d})) /\ IsFiniteSet(({e} \cup {g}) \cup {i})
    BY ONLY <2>2, <2>3, FS_Union
  <2>5. IsFiniteSet((({a} \cup {b}) \cup ({c} \cup {d})) \cup (({e} \cup {g}) \cup {i}))
    BY ONLY <2>4, FS_Union
  <2>6. F \subseteq (({a} \cup {b}) \cup ({c} \cup {d})) \cup (({e} \cup {g}) \cup {i})
    BY ONLY <2>1
  <2> QED
    BY ONLY <2>5, <2>6, FS_Subset
<1>4. PICK c \in Nat : c = Cardinality(F) /\ (F = {} => c = 0)
  BY <1>3, FS_CardinalityType, FS_EmptySet
<1>5. Min({c, 4}) = IF c < 4 THEN c ELSE 4
  BY <1>4, LeastOf
<1>6. Scores(f).risk = 5 - Min({c, 4})
  BY <1>1, <1>4 DEF Scores
<1> QED
  BY <1>1, <1>4, <1>5, <1>6

LEMMA ScoresAre ==
  ASSUME NEW f \in AllFigures
  PROVE  /\ DOMAIN Scores(f) = {"finance", "profitability", "growth", "valuation", "risk", "dcf"}
         /\ Scores(f).finance = ScoreThreshold(CashRatio(f), 100, 80)
         /\ Scores(f).profitability = ScoreThreshold(f.roe, 20, 10)
         /\ Scores(f).growth = ScoreThreshold(Hundredths(RevenueGrowth(f)), 15, 5)
         /\ Scores(f).valuation = IF ~Given(f.pe) THEN 3 ELSE IF f.pe[1] <= 25 THEN 4
                                  ELSE IF f.pe[1] <= 40 THEN 3 ELSE 2
         /\ Scores(f).dcf = IF DcfCalculated(f) THEN 4 ELSE 3
         /\ \A k \in DOMAIN Scores(f) : Scores(f)[k] \in 1..5
<1>1. /\ DOMAIN Scores(f) = {"finance", "profitability", "growth", "valuation", "risk", "dcf"}
      /\ Scores(f).finance = ScoreThreshold(CashRatio(f), 100, 80)
      /\ Scores(f).profitability = ScoreThreshold(f.roe, 20, 10)
      /\ Scores(f).growth = ScoreThreshold(Hundredths(RevenueGrowth(f)), 15, 5)
      /\ Scores(f).valuation = IF ~Given(f.pe) THEN 3 ELSE IF f.pe[1] <= 25 THEN 4
                               ELSE IF f.pe[1] <= 40 THEN 3 ELSE 2
      /\ Scores(f).dcf = IF DcfCalculated(f) THEN 4 ELSE 3
  BY DEF Scores
<1>2. Scores(f).finance \in 2..5
  <2>1. Given(CashRatio(f)) => CashRatio(f)[1] \in Int
    BY CashRatioInt
  <2> QED
    BY <1>1, <2>1, ThresholdFacts
<1>3. Scores(f).profitability \in 2..5
  <2>1. Given(f.roe) => f.roe[1] \in Int
    BY DEF AllFigures, Figure, Given
  <2> QED
    BY <1>1, <2>1, ThresholdFacts
<1>4. Scores(f).growth \in 2..5
  BY <1>1, GrowthInt, ThresholdFacts
<1>5. Scores(f).valuation \in 2..4 /\ Scores(f).dcf \in 3..4 /\ Scores(f).risk \in 1..5
  BY <1>1, RiskFacts
<1>6. \A k \in DOMAIN Scores(f) : Scores(f)[k] \in 1..5
  BY <1>1, <1>2, <1>3, <1>4, <1>5
<1> QED
  BY <1>1, <1>6

\* A figure that is missing is no merit, for all figures and any of them missing: it
\* scores in the middle and can do no more than take away a flag, so that a company of
\* which nothing is bad is rated no better for it (_score_threshold, _build_risk_flags).
THEOREM MissingIsNeverAMerit ==
  ASSUME NEW f \in AllFigures, NEW h \in AllFigures
  PROVE  MissingIsNoMerit(h, f)
<1> SUFFICES ASSUME Hides(h, f), NothingBad(f)
             PROVE  /\ \A k \in DOMAIN Scores(f) : Scores(h)[k] <= Scores(f)[k]
                    /\ Stance(h) = "strong" => Stance(f) = "strong"
  BY DEF MissingIsNoMerit
<1>2. Flags(f) = {} /\ \A k \in DOMAIN Scores(f) : Scores(f)[k] >= 3
  BY DEF NothingBad
<1>3. PICK s, t : s = Scores(f) /\ t = Scores(h)
  OBVIOUS
<1>4. DOMAIN s = {"finance", "profitability", "growth", "valuation", "risk", "dcf"}
  BY <1>3, ScoresAre
<1>5. t.finance <= s.finance
  <2>1. CashRatio(h) \in {CashRatio(f), <<>>}
    BY HiddenRatios
  <2>2. Given(CashRatio(f)) => CashRatio(f)[1] \in Int
    BY CashRatioInt
  <2>3. s.finance = ScoreThreshold(CashRatio(f), 100, 80) /\ s.finance >= 3
    BY <1>2, <1>3, <1>4, ScoresAre
  <2>4. t.finance = ScoreThreshold(CashRatio(h), 100, 80)
    BY <1>3, ScoresAre
  <2> QED
    BY <2>1, <2>2, <2>3, <2>4, HiddenScore
<1>6. t.profitability <= s.profitability
  <2>1. h.roe \in {f.roe, <<>>}
    BY HiddenRatios
  <2>2. Given(f.roe) => f.roe[1] \in Int
    BY DEF AllFigures, Figure, Given
  <2>3. s.profitability = ScoreThreshold(f.roe, 20, 10) /\ s.profitability >= 3
    BY <1>2, <1>3, <1>4, ScoresAre
  <2>4. t.profitability = ScoreThreshold(h.roe, 20, 10)
    BY <1>3, ScoresAre
  <2> QED
    BY <2>1, <2>2, <2>3, <2>4, HiddenScore
<1>7. t.growth <= s.growth
  <2>1. Hundredths(RevenueGrowth(h)) \in {Hundredths(RevenueGrowth(f)), <<>>}
    BY HiddenRatios
  <2>2. s.growth = ScoreThreshold(Hundredths(RevenueGrowth(f)), 15, 5) /\ s.growth >= 3
    BY <1>2, <1>3, <1>4, ScoresAre
  <2>3. t.growth = ScoreThreshold(Hundredths(RevenueGrowth(h)), 15, 5)
    BY <1>3, ScoresAre
  <2> QED
    BY <2>1, <2>2, <2>3, GrowthInt, HiddenScore
<1>8. t.valuation <= s.valuation
  <2>1. h.pe = f.pe \/ ~Given(h.pe)
    BY HiddenRatios DEF Given
  <2>2. s.valuation >= 3 /\ s.valuation \in 1..5
    BY <1>2, <1>3, <1>4, ScoresAre
  <2>3. CASE h.pe = f.pe
    <3>1. t.valuation = s.valuation
      BY <1>3, <2>3, ScoresAre
    <3> QED
      BY <2>2, <3>1
  <2>4. CASE ~Given(h.pe)
    <3>1. t.valuation = 3
      BY <1>3, <2>4, ScoresAre
    <3> QED
      BY <2>2, <3>1
  <2> QED
    BY <2>1, <2>3, <2>4
<1>9. t.risk <= s.risk
  BY <1>2, <1>3, RiskFacts
<1>10. t.dcf <= s.dcf
  <2>1. DcfCalculated(h) => DcfCalculated(f)
    <3> SUFFICES ASSUME DcfCalculated(h) PROVE DcfCalculated(f)
      OBVIOUS
    <3>1. h.ocf # <<>>
      BY DEF DcfCalculated, FreeCashFlow, Given
    <3>2. Given(f.ocf)
      BY <3>1, HiddenRatios DEF Given
    <3>3. Given(FreeCashFlow(f))
      BY <3>2 DEF FreeCashFlow, Given
    <3>4. FreeCashFlow(f)[1] \in Int
      BY <3>2, FreeIsInt
    <3>5. ~(FreeCashFlow(f)[1] <= 0)
      BY <1>2, <3>3, WeakCash
    <3> QED
      BY <3>3, <3>4, <3>5 DEF DcfCalculated
  <2> QED
    BY <1>3, <2>1, ScoresAre
<1>11. \A k \in DOMAIN s : t[k] <= s[k]
  BY <1>4, <1>5, <1>6, <1>7, <1>8, <1>9, <1>10
<1>12. Composite(h) <= Composite(f) /\ Composite(h) \in Int /\ Composite(f) \in Int
  <2>1. \A k \in DOMAIN s : s[k] \in 1..5 /\ t[k] \in 1..5
    BY <1>3, ScoresAre
  <2>2. PICK n, m :
          /\ n = 10 * (t.finance + t.profitability + t.growth + t.valuation + t.risk + t.dcf)
          /\ m = 10 * (s.finance + s.profitability + s.growth + s.valuation + s.risk + s.dcf)
    OBVIOUS
  <2>3. n \in Int /\ m \in Int /\ n <= m
    BY <1>4, <1>5, <1>6, <1>7, <1>8, <1>9, <1>10, <2>1, <2>2
  <2>4. Composite(h) = Rounded(n, 6) /\ Composite(f) = Rounded(m, 6)
    BY <1>3, <2>2 DEF Composite
  <2> QED
    BY <2>3, <2>4, RoundedKeepsOrder, RoundedFacts
<1>13. Stance(h) = "strong" => Stance(f) = "strong"
  BY <1>2, <1>12 DEF Stance
<1> QED
  BY <1>3, <1>11, <1>13

-----------------------------------------------------------------------------
(***************************************************************************)
(* Order: the places of the members of a set that an order arranges.       *)
(***************************************************************************)

IsOrder(set, before) ==
  /\ \A x, y \in set : <<x, y>> \in before => <<y, x>> \notin before
  /\ \A x, y, z \in set : <<x, y>> \in before /\ <<y, z>> \in before => <<x, z>> \in before
  /\ \A x, y \in set : x # y => <<x, y>> \in before \/ <<y, x>> \in before

\* The rank tells what comes before what.
LEMMA RankFacts ==
  ASSUME NEW S, IsFiniteSet(S), NEW R, IsOrder(S, R)
  PROVE  /\ \A x \in S : Rank(S, R, x) \in 0..(Cardinality(S) - 1)
         /\ \A x, y \in S : <<x, y>> \in R <=> Rank(S, R, x) < Rank(S, R, y)
<1> DEFINE B(x) == {y \in S : <<y, x>> \in R}
<1>0. Cardinality(S) \in Nat
  BY FS_CardinalityType
<1>1. ASSUME NEW x \in S
      PROVE  IsFiniteSet(B(x)) /\ Cardinality(B(x)) \in Nat /\ Cardinality(B(x)) < Cardinality(S)
  <2>1. B(x) \in SUBSET S /\ x \notin B(x)
    BY DEF IsOrder
  <2>2. B(x) # S
    BY <2>1
  <2>3. IsFiniteSet(B(x)) /\ Cardinality(B(x)) <= Cardinality(S)
        /\ (Cardinality(S) = Cardinality(B(x)) => S = B(x))
    BY <2>1, FS_Subset
  <2>4. Cardinality(B(x)) \in Nat
    BY <2>3, FS_CardinalityType
  <2> QED
    BY <1>0, <2>2, <2>3, <2>4
<1>2. ASSUME NEW x \in S, NEW y \in S, <<x, y>> \in R
      PROVE  Cardinality(B(x)) < Cardinality(B(y))
  <2>1. B(x) \in SUBSET B(y) /\ x \in B(y) /\ x \notin B(x)
    BY <1>2 DEF IsOrder
  <2>2. B(x) # B(y)
    BY <2>1
  <2>3. Cardinality(B(x)) <= Cardinality(B(y))
        /\ (Cardinality(B(y)) = Cardinality(B(x)) => B(y) = B(x))
    BY <2>1, <1>1, FS_Subset
  <2>4. Cardinality(B(x)) \in Nat /\ Cardinality(B(y)) \in Nat
    BY <1>1
  <2> QED
    BY <2>2, <2>3, <2>4
<1>3. \A x \in S : Rank(S, R, x) = Cardinality(B(x))
  BY DEF Rank
<1> HIDE DEF B
<1>4. ASSUME NEW x \in S, NEW y \in S, Rank(S, R, x) < Rank(S, R, y)
      PROVE  <<x, y>> \in R
  <2>1. x # y
    BY <1>1, <1>3, <1>4
  <2>2. CASE <<y, x>> \in R
    <3>1. Cardinality(B(y)) < Cardinality(B(x))
      BY <2>2, <1>2
    <3> QED
      BY <3>1, <1>1, <1>3, <1>4
  <2> QED
    BY <2>1, <2>2 DEF IsOrder
<1> QED
  BY <1>0, <1>1, <1>2, <1>3, <1>4

\* A set in order: each of its members once, at its rank.
LEMMA InOrderFacts ==
  ASSUME NEW S, IsFiniteSet(S), NEW R, IsOrder(S, R),
         NEW n, n = Cardinality(S), NEW at, at = InOrder(S, R)
  PROVE  /\ n \in Nat /\ at \in [1..n -> S]
         /\ \A k \in 1..n : Rank(S, R, at[k]) = k - 1
         /\ \A x \in S : \E k \in 1..n : at[k] = x
         /\ \A k, l \in 1..n : k < l <=> <<at[k], at[l]>> \in R
         /\ \A k, l \in 1..n : at[k] = at[l] => k = l
<1> DEFINE r == [x \in S |-> Rank(S, R, x)]
           T == 0..(n - 1)
<1>1. n \in Nat
  BY FS_CardinalityType
<1>2. /\ \A x \in S : Rank(S, R, x) \in T
      /\ \A x, y \in S : <<x, y>> \in R <=> Rank(S, R, x) < Rank(S, R, y)
  BY RankFacts
<1>3. \A x, y \in S : r[x] = r[y] => x = y
  <2> SUFFICES ASSUME NEW x \in S, NEW y \in S, r[x] = r[y], x # y PROVE FALSE
    OBVIOUS
  <2>1. ~(r[x] < r[y]) /\ ~(r[y] < r[x])
    BY <1>1, <1>2
  <2> QED
    BY <1>2, <2>1 DEF IsOrder
<1>4. r \in Injection(S, T)
  <2>1. r \in [S -> T]
    BY <1>2
  <2> QED
    BY <2>1, <1>3 DEF Injection, IsInjective
<1>5. IsFiniteSet(T) /\ Cardinality(T) = n
  <2>1. PICK m \in Int : m = n - 1
    BY <1>1
  <2>2. /\ IsFiniteSet(0..m)
        /\ Cardinality(0..m) = IF 0 > m THEN 0 ELSE m - 0 + 1
    BY FS_Interval
  <2> QED
    BY <1>1, <2>1, <2>2
<1>6. r \in Surjection(S, T)
  BY <1>4, <1>5, FS_Injection
<1>7. \A t \in T : \E x \in S : r[x] = t
  BY <1>6 DEF Surjection
<1>8. at = [k \in 1..n |-> CHOOSE x \in S : Rank(S, R, x) = k - 1]
  BY DEF InOrder
<1>9. ASSUME NEW k \in 1..n
      PROVE  at[k] \in S /\ Rank(S, R, at[k]) = k - 1
  <2>1. k - 1 \in T
    BY <1>1
  <2>2. \E x \in S : Rank(S, R, x) = k - 1
    BY <2>1, <1>7
  <2> QED
    BY <2>2, <1>8
<1>10. at \in [1..n -> S]
  BY <1>8, <1>9
<1>11. \A x \in S : Rank(S, R, x) + 1 \in 1..n /\ at[Rank(S, R, x) + 1] = x
  <2> TAKE x \in S
  <2> DEFINE k == Rank(S, R, x) + 1
  <2>1. k \in 1..n /\ k - 1 = Rank(S, R, x)
    BY <1>1, <1>2
  <2>2. r[at[k]] = r[x]
    BY <2>1, <1>9
  <2> QED
    BY <2>1, <2>2, <1>3, <1>9
<1>12. \A k, l \in 1..n : k < l <=> <<at[k], at[l]>> \in R
  <2> TAKE k, l \in 1..n
  <2>1. <<at[k], at[l]>> \in R <=> k - 1 < l - 1
    BY <1>2, <1>9
  <2> QED
    BY <1>1, <2>1
<1>13. \A k, l \in 1..n : at[k] = at[l] => k = l
  <2> TAKE k, l \in 1..n
  <2>1. at[k] = at[l] => k - 1 = l - 1
    BY <1>9
  <2> QED
    BY <1>1, <2>1
<1> QED
  BY <1>1, <1>9, <1>10, <1>11, <1>12, <1>13

LEMMA AscendingOrders ==
  ASSUME NEW I \in SUBSET Int
  PROVE  IsOrder(I, Ascending(I)) /\ \A i, j \in I : <<i, j>> \in Ascending(I) <=> i < j
<1>1. \A i, j \in I : <<i, j>> \in Ascending(I) <=> i < j
  BY DEF Ascending
<1>2. \A i \in I : i \in Int
  OBVIOUS
<1> QED
  BY <1>1, <1>2 DEF IsOrder

LEMMA IntervalFacts ==
  ASSUME NEW n \in Nat
  PROVE  IsFiniteSet(1..n) /\ Cardinality(1..n) = n
<1>1. PICK a \in Int, b \in Int : a = 1 /\ b = n
  OBVIOUS
<1>2. IsFiniteSet(a..b) /\ Cardinality(a..b) = IF a > b THEN 0 ELSE b - a + 1
  BY FS_Interval
<1> QED
  BY <1>1, <1>2

\* e tells the m places of a filter of a list of n.
Sifts(n, I, m, e) ==
  n \in Nat /\ I \in SUBSET (1..n) /\ m = Cardinality(I) /\ e = InOrder(I, Ascending(I))

\* A filtered list: the members at these places, in their order.
LEMMA SiftedIs ==
  ASSUME NEW n, NEW I, NEW m, NEW e, Sifts(n, I, m, e)
  PROVE  /\ m \in Nat /\ e \in [1..m -> I]
         /\ \A i \in I : \E k \in 1..m : e[k] = i
         /\ \A k, l \in 1..m : k < l <=> e[k] < e[l]
         /\ \A k, l \in 1..m : e[k] = e[l] => k = l
         /\ \A s : /\ Sifted(s, I) = [k \in 1..m |-> s[e[k]]]
                   /\ Len(Sifted(s, I)) = m
<1>0. n \in Nat /\ I \in SUBSET (1..n) /\ m = Cardinality(I) /\ e = InOrder(I, Ascending(I))
  BY DEF Sifts
<1>1. IsFiniteSet(I)
  <2>1. IsFiniteSet(1..n)
    BY <1>0, IntervalFacts
  <2> QED
    BY <1>0, <2>1, FS_Subset
<1>2. I \in SUBSET Int
  BY <1>0
<1>3. IsOrder(I, Ascending(I)) /\ \A i, j \in I : <<i, j>> \in Ascending(I) <=> i < j
  BY <1>2, AscendingOrders
<1>4. /\ m \in Nat /\ e \in [1..m -> I]
      /\ \A i \in I : \E k \in 1..m : e[k] = i
      /\ \A k, l \in 1..m : k < l <=> <<e[k], e[l]>> \in Ascending(I)
      /\ \A k, l \in 1..m : e[k] = e[l] => k = l
  BY ONLY <1>0, <1>1, <1>3, InOrderFacts
<1>5. \A k, l \in 1..m : k < l <=> e[k] < e[l]
  BY <1>3, <1>4
<1>6. \A s : Sifted(s, I) = [k \in 1..m |-> s[e[k]]]
  BY <1>0 DEF Sifted, Arranged
<1>7. \A s : Len(Sifted(s, I)) = m
  BY <1>4, <1>6
<1> QED
  BY <1>4, <1>5, <1>6, <1>7

\* at tells the places of 1..n in order.
OrderedBy(at, n, R) ==
  /\ at \in [1..n -> 1..n]
  /\ \A i \in 1..n : \E k \in 1..n : at[k] = i
  /\ \A k, l \in 1..n : k < l <=> <<at[k], at[l]>> \in R
  /\ \A k, l \in 1..n : at[k] = at[l] => k = l

\* A list in order: each of its members once, what comes before first.
LEMMA ArrangedIs ==
  ASSUME NEW n \in Nat, NEW R, IsOrder(1..n, R), NEW at, at = InOrder(1..n, R)
  PROVE  /\ OrderedBy(at, n, R)
         /\ \A s : Arranged(s, 1..n, R) = [k \in 1..n |-> s[at[k]]]
<1>1. IsFiniteSet(1..n) /\ Cardinality(1..n) = n
  BY IntervalFacts
<1>2. PICK D : D = 1..n
  OBVIOUS
<1>3. IsFiniteSet(D) /\ n = Cardinality(D) /\ IsOrder(D, R) /\ at = InOrder(D, R)
  BY <1>1, <1>2
<1>4. /\ at \in [1..n -> D]
      /\ \A x \in D : \E k \in 1..n : at[k] = x
      /\ \A k, l \in 1..n : k < l <=> <<at[k], at[l]>> \in R
      /\ \A k, l \in 1..n : at[k] = at[l] => k = l
  BY ONLY <1>3, InOrderFacts
<1>5. \A s : Arranged(s, 1..n, R) = [k \in 1..n |-> s[at[k]]]
  BY <1>1 DEF Arranged
<1>6. OrderedBy(at, n, R)
  BY <1>2, <1>4 DEF OrderedBy
<1> QED
  BY <1>5, <1>6

\* A set of numbers that is not empty has a largest one.
LEMMA MaxIs ==
  ASSUME NEW S, S \subseteq Int, IsFiniteSet(S), S # {}
  PROVE  Max(S) \in S /\ \A x \in S : x <= Max(S)
<1>1. IsOrder(S, Ascending(S)) /\ \A i, j \in S : <<i, j>> \in Ascending(S) <=> i < j
  BY AscendingOrders
<1>2. PICK n, at : n = Cardinality(S) /\ at = InOrder(S, Ascending(S))
  OBVIOUS
<1>3. /\ n \in Nat /\ at \in [1..n -> S]
      /\ \A x \in S : \E k \in 1..n : at[k] = x
      /\ \A k, l \in 1..n : k < l <=> <<at[k], at[l]>> \in Ascending(S)
  BY <1>1, <1>2, InOrderFacts
<1>4. n \in 1..n
  <2>1. PICK x \in S : TRUE
    OBVIOUS
  <2>2. PICK k \in 1..n : at[k] = x
    BY <1>3
  <2> QED
    BY <1>3, <2>2
<1>5. ASSUME NEW x \in S PROVE x <= at[n]
  <2>1. PICK k \in 1..n : at[k] = x
    BY <1>3
  <2>2. at[n] \in S /\ ~(n < k)
    BY <1>3, <1>4
  <2>3. ~(at[n] < x)
    BY <1>1, <1>3, <1>4, <2>1, <2>2
  <2>4. at[n] \in Int /\ x \in Int
    BY <2>2
  <2> QED
    BY <2>3, <2>4
<1>6. \E m \in S : \A x \in S : m >= x
  BY <1>3, <1>4, <1>5
<1> QED
  BY <1>6 DEF Max

-----------------------------------------------------------------------------
(***************************************************************************)
(* The reports that are compared, and the peers.                           *)
(***************************************************************************)

LEMMA DescendingOrders ==
  ASSUME NEW n \in Nat, NEW value \in [1..n -> Int]
  PROVE  /\ IsOrder(1..n, Descending(value, 1..n))
         /\ \A i, j \in 1..n : <<i, j>> \in Descending(value, 1..n)
              <=> value[i] > value[j] \/ (value[i] = value[j] /\ i < j)
<1>1. \A i, j \in 1..n : <<i, j>> \in Descending(value, 1..n)
        <=> value[i] > value[j] \/ (value[i] = value[j] /\ i < j)
  BY DEF Descending
<1>2. \A i \in 1..n : i \in Int /\ value[i] \in Int
  OBVIOUS
<1>3. ASSUME NEW i \in 1..n, NEW j \in 1..n
      PROVE  /\ <<i, j>> \in Descending(value, 1..n) => <<j, i>> \notin Descending(value, 1..n)
             /\ i # j => <<i, j>> \in Descending(value, 1..n) \/ <<j, i>> \in Descending(value, 1..n)
  BY <1>1, <1>2
<1>4. ASSUME NEW i \in 1..n, NEW j \in 1..n, NEW k \in 1..n,
             <<i, j>> \in Descending(value, 1..n), <<j, k>> \in Descending(value, 1..n)
      PROVE  <<i, k>> \in Descending(value, 1..n)
  BY <1>1, <1>2, <1>4
<1> QED
  BY <1>1, <1>3, <1>4 DEF IsOrder

\* A list of n with its largest value first: at tells where what comes where was.
SortedDown(s, value, n, at) ==
  /\ at \in [1..n -> 1..n]
  /\ \A i \in 1..n : \E k \in 1..n : at[k] = i
  /\ \A k, l \in 1..n : at[k] = at[l] => k = l
  /\ \A k, l \in 1..n : k < l => value[at[k]] >= value[at[l]]
  /\ LargestFirst(s, value) = [k \in 1..n |-> s[at[k]]]

LEMMA LargestFirstIs ==
  ASSUME NEW n \in Nat, NEW s, Len(s) = n, NEW value \in [1..n -> Int]
  PROVE  \E at : SortedDown(s, value, n, at)
<1>1. PICK R : R = Descending(value, 1..n)
  OBVIOUS
<1>2. /\ IsOrder(1..n, R)
      /\ \A i, j \in 1..n : <<i, j>> \in R <=> value[i] > value[j] \/ (value[i] = value[j] /\ i < j)
  BY <1>1, DescendingOrders
<1>3. PICK at : at = InOrder(1..n, R)
  OBVIOUS
<1>4. OrderedBy(at, n, R) /\ Arranged(s, 1..n, R) = [k \in 1..n |-> s[at[k]]]
  BY <1>2, <1>3, ArrangedIs
<1>5. /\ at \in [1..n -> 1..n]
      /\ \A i \in 1..n : \E k \in 1..n : at[k] = i
      /\ \A k, l \in 1..n : k < l <=> <<at[k], at[l]>> \in R
      /\ \A k, l \in 1..n : at[k] = at[l] => k = l
  BY <1>4 DEF OrderedBy
<1>6. ASSUME NEW k \in 1..n, NEW l \in 1..n, k < l PROVE value[at[k]] >= value[at[l]]
  <2>1. PICK i \in 1..n, j \in 1..n : i = at[k] /\ j = at[l]
    BY <1>5
  <2>2. <<i, j>> \in R
    BY <1>5, <1>6, <2>1
  <2>3. value[i] > value[j] \/ value[i] = value[j]
    BY <1>2, <2>2
  <2>4. value[i] \in Int /\ value[j] \in Int
    BY <2>1
  <2> QED
    BY <2>1, <2>3, <2>4
<1>7. LargestFirst(s, value) = [k \in 1..n |-> s[at[k]]]
  BY <1>1, <1>4 DEF LargestFirst
<1> QED
  BY <1>5, <1>6, <1>7 DEF SortedDown

\* The first of a filtered list.
LEMMA FirstSifted ==
  ASSUME NEW n \in Nat, NEW J \in SUBSET (1..n), NEW s
  PROVE  /\ Len(Sifted(s, J)) \in Nat /\ (Len(Sifted(s, J)) > 0 <=> J # {})
         /\ J # {} => \E k \in J : Sifted(s, J)[1] = s[k] /\ \A j \in J : k <= j
<1>1. PICK m, e : m = Cardinality(J) /\ e = InOrder(J, Ascending(J))
  OBVIOUS
<1>2. Sifts(n, J, m, e)
  BY <1>1 DEF Sifts
<1>3. /\ m \in Nat /\ e \in [1..m -> J]
      /\ \A i \in J : \E k \in 1..m : e[k] = i
      /\ \A k, l \in 1..m : k < l <=> e[k] < e[l]
      /\ Sifted(s, J) = [k \in 1..m |-> s[e[k]]] /\ Len(Sifted(s, J)) = m
  BY ONLY <1>2, SiftedIs
<1>4. m > 0 <=> J # {}
  <2>1. ASSUME m > 0 PROVE J # {}
    <3>1. 1 \in 1..m
      BY <1>3, <2>1
    <3> QED
      BY <1>3, <3>1
  <2>2. ASSUME J # {} PROVE m > 0
    <3>1. PICK k \in 1..m : TRUE
      BY <1>3, <2>2
    <3> QED
      BY <1>3, <3>1
  <2> QED
    BY <2>1, <2>2
<1>5. ASSUME J # {} PROVE \E k \in J : Sifted(s, J)[1] = s[k] /\ \A j \in J : k <= j
  <2>1. 1 \in 1..m
    BY <1>3, <1>4, <1>5
  <2>2. e[1] \in J /\ Sifted(s, J)[1] = s[e[1]]
    BY <1>3, <2>1
  <2>3. ASSUME NEW j \in J PROVE e[1] <= j
    <3>1. PICK l \in 1..m : e[l] = j
      BY <1>3
    <3>2. l = 1 \/ 1 < l
      BY <1>3
    <3>3. e[1] = j \/ e[1] < j
      BY <1>3, <2>1, <3>1, <3>2
    <3> QED
      BY <2>2, <3>3
  <2> QED
    BY <2>2, <2>3
<1> QED
  BY <1>3, <1>4, <1>5

\* Whatever reports a source lists, and in whatever order, growth compares like with like:
\* with the report of the same quarter of the year before if there is one, or else with the
\* newest earlier one, and never with a later one (_previous_comparable_row).
THEOREM LikeIsAlwaysComparedWithLike ==
  ASSUME NEW rows \in Seq(Nat), NEW latest \in Nat \ {NoRow}
  PROVE  LikeWithLike(rows, latest)
<1>1. PICK n \in Nat : n = Len(rows)
  BY LenProperties
<1>2. rows \in [1..n -> Nat]
  BY <1>1, LenProperties
<1>3. PICK at : SortedDown(rows, rows, n, at)
  BY <1>1, <1>2, LargestFirstIs
<1>4. PICK sorted : sorted = NewestFirst(rows)
  OBVIOUS
<1>5. /\ at \in [1..n -> 1..n]
      /\ \A i \in 1..n : \E k \in 1..n : at[k] = i
      /\ \A k, l \in 1..n : k < l => rows[at[k]] >= rows[at[l]]
      /\ sorted = [k \in 1..n |-> rows[at[k]]]
  BY <1>3, <1>4 DEF SortedDown, NewestFirst
<1>6. PICK Quarter, Earlier : /\ Quarter = {k \in 1..n : sorted[k] = latest - 4}
                           /\ Earlier = {k \in 1..n : sorted[k] < latest}
  OBVIOUS
<1>7. PICK before : before = PreviousComparable(rows, latest)
  OBVIOUS
<1>8. before = IF rows = <<>> \/ latest = NoRow THEN NoRow
               ELSE IF Len(Sifted(sorted, Quarter)) > 0 THEN Sifted(sorted, Quarter)[1]
               ELSE IF Len(Sifted(sorted, Earlier)) > 0 THEN Sifted(sorted, Earlier)[1] ELSE NoRow
  BY <1>1, <1>4, <1>6, <1>7 DEF PreviousComparable
<1>9. PICK all : all = {rows[k] : k \in 1..n}
  OBVIOUS
<1>10. /\ all \subseteq Nat /\ \A k \in 1..n : sorted[k] \in all /\ sorted[k] \in Nat
       /\ \A r \in all : \E k \in 1..n : sorted[k] = r
  <2>1. \A r \in all : \E i \in 1..n : r = rows[i]
    BY <1>9
  <2>2. \A i \in 1..n : rows[i] \in all /\ rows[i] \in Nat
    BY <1>2, <1>9
  <2>3. \A k \in 1..n : at[k] \in 1..n /\ sorted[k] = rows[at[k]]
    BY <1>5
  <2>4. \A k \in 1..n : sorted[k] \in all /\ sorted[k] \in Nat
    BY ONLY <2>2, <2>3
  <2>5. ASSUME NEW r \in all PROVE \E k \in 1..n : sorted[k] = r
    <3>1. PICK i \in 1..n : r = rows[i]
      BY <2>1
    <3>2. PICK k \in 1..n : at[k] = i
      BY <1>5
    <3> QED
      BY <2>3, <3>1, <3>2
  <2>6. all \subseteq Nat
    BY <2>1, <2>2
  <2> QED
    BY <2>4, <2>5, <2>6
<1>11. /\ Quarter \in SUBSET (1..n) /\ Earlier \in SUBSET (1..n)
  BY <1>6
<1>12. CASE latest - 4 \in all
  <2>1. Quarter # {}
    BY <1>6, <1>10, <1>12
  <2>2. /\ Len(Sifted(sorted, Quarter)) > 0
        /\ \E k \in Quarter : Sifted(sorted, Quarter)[1] = sorted[k]
    BY <1>11, <2>1, FirstSifted
  <2>3. Sifted(sorted, Quarter)[1] = latest - 4
    BY <1>6, <2>2
  <2>4. rows # <<>>
    BY <1>1, <1>6, <2>1
  <2>5. before = latest - 4
    BY <1>8, <2>2, <2>3, <2>4
  <2> QED
    BY <1>1, <1>7, <1>9, <1>12, <2>5 DEF LikeWithLike
<1>13. CASE latest - 4 \notin all
  <2> DEFINE S == {r \in all : r < latest} \union {NoRow}
  <2>1. Len(Sifted(sorted, Quarter)) \in Nat /\ ~(Len(Sifted(sorted, Quarter)) > 0)
    <3>1. Quarter = {}
      BY <1>6, <1>10, <1>13
    <3> QED
      BY <1>11, <3>1, FirstSifted
  <2>2. before \in S /\ \A r \in S : r <= before
    <3>1. CASE Earlier = {}
      <4>1. ~(Len(Sifted(sorted, Earlier)) > 0)
        BY <1>11, <3>1, FirstSifted
      <4>2. before = NoRow
        BY <1>8, <2>1, <4>1
      <4>3. {r \in all : r < latest} = {}
        BY <1>6, <1>10, <3>1
      <4> QED
        BY <4>2, <4>3 DEF NoRow
    <3>2. CASE Earlier # {}
      <4>1. PICK k \in Earlier : /\ Len(Sifted(sorted, Earlier)) > 0
                                 /\ Sifted(sorted, Earlier)[1] = sorted[k]
                                 /\ \A j \in Earlier : k <= j
        BY <1>11, <3>2, FirstSifted
      <4>2. rows # <<>>
        BY <1>1, <1>6, <3>2
      <4>3. before = sorted[k] /\ k \in 1..n /\ sorted[k] < latest
        BY <1>6, <1>8, <2>1, <4>1, <4>2
      <4>4. before \in S /\ before \in Nat
        BY <1>10, <4>3
      <4>5. ASSUME NEW r \in all, r < latest PROVE r <= before
        <5>1. PICK j \in 1..n : sorted[j] = r
          BY <1>10
        <5>2. k = j \/ k < j
          BY <1>6, <4>1, <4>3, <4>5, <5>1
        <5>3. sorted[k] \in Nat /\ sorted[j] \in Nat
          BY <1>10, <4>3
        <5>4. k < j => sorted[k] >= sorted[j]
          <6>1. sorted[k] = rows[at[k]] /\ sorted[j] = rows[at[j]]
            BY <1>5, <4>3
          <6> QED
            BY <1>5, <4>3, <6>1
        <5> QED
          BY <4>3, <5>1, <5>2, <5>3, <5>4
      <4> QED
        BY <4>4, <4>5 DEF NoRow
    <3> QED
      BY <3>1, <3>2
  <2>3. \E m \in S : \A r \in S : m >= r
    <3>1. \A r \in S : r \in Nat
      BY <1>10 DEF NoRow
    <3> HIDE DEF S
    <3> QED
      BY <2>2, <3>1
  <2>4. Max(S) \in S /\ \A r \in S : Max(S) >= r
    <3> HIDE DEF S
    <3> QED
      BY <2>3 DEF Max
  <2>5. before = Max(S)
    <3>1. \A r \in S : r \in Nat
      BY <1>10 DEF NoRow
    <3> HIDE DEF S
    <3> QED
      BY <2>2, <2>4, <3>1
  <2> QED
    BY <1>1, <1>7, <1>9, <1>13, <2>5 DEF LikeWithLike
<1> QED
  BY <1>12, <1>13

\* b lists U, the members with the largest value first.
Ranks(value, U, m, b) ==
  /\ m \in Nat /\ b \in [1..m -> U]
  /\ \A i \in U : \E k \in 1..m : b[k] = i
  /\ \A k, l \in 1..m : b[k] = b[l] => k = l
  /\ \A i \in U : value[i] \in Int
  /\ \A k, l \in 1..m : k < l => value[b[k]] >= value[b[l]]

\* A list has as many members as it has places.
LEMMA PlacesCount ==
  ASSUME NEW c \in Nat, NEW Q, NEW b, \A k \in 1..c : b[k] \in Q,
         \A i \in Q : \E k \in 1..c : b[k] = i,
         \A k, l \in 1..c : b[k] = b[l] => k = l
  PROVE  IsFiniteSet(Q) /\ Cardinality(Q) = c
<1> DEFINE g == [k \in 1..c |-> b[k]]
<1>1. g \in [1..c -> Q]
  OBVIOUS
<1>2. g \in Bijection(1..c, Q)
  <2>1. \A i \in Q : \E k \in 1..c : g[k] = i
    OBVIOUS
  <2>2. \A k, l \in 1..c : g[k] = g[l] => k = l
    OBVIOUS
  <2> HIDE DEF g
  <2> QED
    BY <1>1, <2>1, <2>2 DEF Bijection, Injection, Surjection, IsInjective
<1>3. ExistsBijection(1..c, Q)
  BY <1>2 DEF ExistsBijection
<1>4. IsFiniteSet(1..c) /\ Cardinality(1..c) = c
  BY IntervalFacts
<1> QED
  BY <1>3, <1>4, FS_Bijection

\* What begins with the first and leaves no place out is an interval.
LEMMA BeginsAtOne ==
  ASSUME NEW m \in Nat, NEW D \in SUBSET (1..m),
         \A k, l \in 1..m : l \in D /\ k < l => k \in D
  PROVE  \E c \in 0..m : D = 1..c
<1>1. CASE D = {}
  <2>1. D = 1..0 /\ 0 \in 0..m
    BY <1>1
  <2> QED
    BY <2>1
<1>2. CASE D # {}
  <2>1. IsFiniteSet(D) /\ D \subseteq Int
    <3>1. IsFiniteSet(1..m) /\ D \subseteq 1..m
      BY IntervalFacts
    <3>2. IsFiniteSet(D)
      BY ONLY <3>1, FS_Subset
    <3>3. D \subseteq Int
      BY ONLY <3>1
    <3> QED
      BY ONLY <3>2, <3>3
  <2>2. PICK c \in D : \A x \in D : x <= c
    BY <1>2, <2>1, MaxIs
  <2>3. c \in 1..m
    BY <2>2
  <2>4. ASSUME NEW k \in 1..c PROVE k \in D
    <3>1. k \in 1..m /\ (k = c \/ k < c)
      BY <2>3
    <3> QED
      BY <2>2, <2>3, <3>1
  <2>5. \A x \in D : x \in 1..c
    BY <2>2, <2>3
  <2>6. D = 1..c
    BY ONLY <2>4, <2>5
  <2>7. c \in 0..m
    BY ONLY <2>3
  <2> QED
    BY <2>6, <2>7
<1> QED
  BY <1>1, <1>2

\* Of the first most of a ranked list, as many are large as can be.
LEMMA LargeOnes ==
  ASSUME NEW value, NEW U, NEW m, NEW b, Ranks(value, U, m, b),
         NEW most \in Nat, NEW L, L = IF most < m THEN most ELSE m, NEW x \in Int
  PROVE  Cardinality({k \in 1..L : value[b[k]] >= x})
           = Min({most, Cardinality({i \in U : value[i] >= x})})
<1>1. /\ m \in Nat /\ b \in [1..m -> U]
      /\ \A i \in U : \E k \in 1..m : b[k] = i
      /\ \A k, l \in 1..m : b[k] = b[l] => k = l
      /\ \A i \in U : value[i] \in Int
      /\ \A k, l \in 1..m : k < l => value[b[k]] >= value[b[l]]
  BY DEF Ranks
<1> DEFINE D == {k \in 1..m : value[b[k]] >= x}
           Q == {i \in U : value[i] >= x}
<1>2. PICK c \in 0..m : D = 1..c
  <2>1. ASSUME NEW k \in 1..m, NEW l \in 1..m, l \in D, k < l PROVE k \in D
    <3>1. value[b[k]] >= value[b[l]] /\ value[b[l]] >= x
      BY <1>1, <2>1
    <3>2. value[b[k]] \in Int /\ value[b[l]] \in Int
      BY <1>1
    <3> QED
      BY <3>1, <3>2
  <2>2. D \in SUBSET (1..m)
    OBVIOUS
  <2> HIDE DEF D
  <2> QED
    BY <1>1, <2>1, <2>2, BeginsAtOne
<1>3. \A k \in 1..m : k \in 1..c <=> value[b[k]] >= x
  BY <1>2
<1>4. c \in Nat /\ c <= m
  BY <1>1
<1>5. Cardinality(Q) = c
  <2>1. \A k \in 1..c : k \in 1..m /\ b[k] \in Q
    BY <1>1, <1>2, <1>4
  <2>2. \A i \in Q : \E k \in 1..c : b[k] = i
    BY <1>1, <1>3
  <2>3. \A k, l \in 1..c : b[k] = b[l] => k = l
    BY <1>1, <2>1
  <2> HIDE DEF Q
  <2> QED
    BY <1>4, <2>1, <2>2, <2>3, PlacesCount
<1>6. PICK d \in Nat : d = IF most < c THEN most ELSE c
  BY <1>4
<1>7. {k \in 1..L : value[b[k]] >= x} = 1..d
  <2>1. \A k : k \in 1..L => k \in 1..m
    BY <1>1
  <2>2. {k \in 1..L : value[b[k]] >= x} = {k \in 1..L : k \in 1..c}
    BY <1>3, <2>1
  <2>3. {k \in 1..L : k \in 1..c} = 1..d
    BY <1>1, <1>4, <1>6
  <2> QED
    BY <2>2, <2>3
<1>8. Cardinality(1..d) = d
  BY IntervalFacts
<1>9. Min({most, c}) = d
  BY <1>4, <1>6, LeastOf
<1> QED
  BY <1>5, <1>7, <1>8, <1>9

\* Whatever an industry lists, the peers of a company are others, as many as asked for if the
\* industry has them, and as many of any size as there can be: none that is left out is
\* larger than one that is shown.  Of a limit of 0 the code makes 1, since it looks at the
\* limit after it has added a peer (_build_peer_comparison).
THEOREM PeersAreAlwaysTheLargest ==
  ASSUME NEW rows, Len(rows) \in Nat, \A i \in 1..Len(rows) : OrZero(rows[i].cap) \in Int,
         NEW own, NEW most \in Nat, NEW caps \in SUBSET Int
  PROVE  LargestPeers(rows, own, most, caps)
<1>0. PICK shown \in Nat \ {0} : shown = IF most < 1 THEN 1 ELSE most
  OBVIOUS
<1>1. PICK n \in Nat : n = Len(rows)
  OBVIOUS
<1>2. PICK value : value = [i \in 1..n |-> OrZero(rows[i].cap)]
  OBVIOUS
<1>3. value \in [1..n -> Int] /\ \A i \in 1..n : value[i] = OrZero(rows[i].cap)
  BY <1>1, <1>2
<1>4. PICK at : SortedDown(rows, value, n, at)
  BY <1>1, <1>3, LargestFirstIs
<1>5. PICK sorted : sorted = LargestFirst(rows, value)
  OBVIOUS
<1>6. /\ at \in [1..n -> 1..n]
      /\ \A i \in 1..n : \E k \in 1..n : at[k] = i
      /\ \A k, l \in 1..n : at[k] = at[l] => k = l
      /\ \A k, l \in 1..n : k < l => value[at[k]] >= value[at[l]]
      /\ sorted = [k \in 1..n |-> rows[at[k]]]
  BY <1>4, <1>5 DEF SortedDown
<1> DEFINE Peer(r) == r.code \notin {own, Bad}
<1>7. PICK K, U : K = {k \in 1..n : Peer(sorted[k])} /\ U = {i \in 1..n : Peer(rows[i])}
  OBVIOUS
<1>8. PICK m, e : m = Cardinality(K) /\ e = InOrder(K, Ascending(K))
  OBVIOUS
<1>9. /\ m \in Nat /\ e \in [1..m -> K]
      /\ \A i \in K : \E k \in 1..m : e[k] = i
      /\ \A k, l \in 1..m : k < l <=> e[k] < e[l]
      /\ \A k, l \in 1..m : e[k] = e[l] => k = l
      /\ Sifted(sorted, K) = [k \in 1..m |-> sorted[e[k]]]
  <2>1. Sifts(n, K, m, e)
    BY <1>7, <1>8 DEF Sifts
  <2> QED
    BY ONLY <2>1, SiftedIs
<1>10. PICK b : b = [k \in 1..m |-> at[e[k]]]
  OBVIOUS
<1>11. \A k \in 1..m : e[k] \in 1..n /\ b[k] = at[e[k]] /\ at[e[k]] \in 1..n /\ sorted[e[k]] = rows[b[k]]
  <2>1. \A k \in 1..m : e[k] \in 1..n /\ b[k] = at[e[k]]
    BY <1>7, <1>9, <1>10
  <2> QED
    BY <1>6, <2>1
<1>12. Ranks(value, U, m, b)
  <2>1. ASSUME NEW k \in 1..m PROVE b[k] \in U
    <3>1. e[k] \in K
      BY <1>9
    <3>2. Peer(sorted[e[k]]) /\ sorted[e[k]] = rows[b[k]] /\ b[k] \in 1..n
      BY <1>7, <1>11, <3>1
    <3> QED
      BY <1>7, <3>2
  <2>2. ASSUME NEW i \in U PROVE \E k \in 1..m : b[k] = i
    <3>1. PICK j \in 1..n : at[j] = i
      BY <1>6, <1>7
    <3>2. j \in K
      BY <1>6, <1>7, <3>1
    <3>3. PICK k \in 1..m : e[k] = j
      BY <1>9, <3>2
    <3> QED
      BY <1>11, <3>1, <3>3
  <2>3. ASSUME NEW k \in 1..m, NEW l \in 1..m, b[k] = b[l] PROVE k = l
    <3>1. e[k] \in 1..n /\ e[l] \in 1..n /\ at[e[k]] = at[e[l]]
      BY <1>11, <2>3
    <3>2. e[k] = e[l]
      BY <1>6, <3>1
    <3> QED
      BY <1>9, <3>2
  <2>4. ASSUME NEW k \in 1..m, NEW l \in 1..m, k < l PROVE value[b[k]] >= value[b[l]]
    <3>1. e[k] \in 1..n /\ e[l] \in 1..n /\ b[k] = at[e[k]] /\ b[l] = at[e[l]]
      BY <1>11
    <3>2. e[k] < e[l]
      BY <1>9, <2>4
    <3>3. value[at[e[k]]] >= value[at[e[l]]]
      BY <1>6, <3>1, <3>2
    <3> QED
      BY <3>1, <3>3
  <2>5. \A i \in U : value[i] \in Int
    BY <1>3, <1>7
  <2>6. b \in [1..m -> U]
    BY <1>10, <2>1
  <2> QED
    BY <1>9, <2>2, <2>3, <2>4, <2>5, <2>6 DEF Ranks
<1>13. PICK L : L = IF shown < m THEN shown ELSE m
  OBVIOUS
<1>14. L \in Nat /\ L <= m
  BY <1>9, <1>13
<1>15. PICK peers : peers = Peers(rows, own, most)
  OBVIOUS
<1>16. peers = [k \in 1..L |-> rows[b[k]]]
  <2>1. Sifted(sorted, K) = [k \in 1..m |-> rows[b[k]]]
    BY <1>9, <1>11
  <2>2. Len(Sifted(sorted, K)) = m
    BY <1>9, <2>1
  <2>3. FirstOf(Sifted(sorted, K), shown) = [k \in 1..L |-> Sifted(sorted, K)[k]]
    BY <1>13, <2>2 DEF FirstOf
  <2>4. \A k \in 1..L : k \in 1..m
    BY <1>9, <1>14
  <2>5. FirstOf(Sifted(sorted, K), shown) = [k \in 1..L |-> rows[b[k]]]
    BY <2>1, <2>3, <2>4
  <2>6. peers = FirstOf(Sifted(sorted, K), shown)
    BY <1>1, <1>2, <1>5, <1>7, <1>0, <1>15 DEF Peers
  <2> QED
    BY <2>5, <2>6
<1>17. Len(peers) = L /\ \A k \in 1..L : k \in 1..m /\ peers[k] = rows[b[k]]
  BY <1>9, <1>14, <1>16
<1>18. \A k \in 1..L : b[k] \in U /\ b[k] \in 1..n
  BY <1>7, <1>12, <1>17 DEF Ranks
<1>19. \A k \in 1..Len(peers) : peers[k].code \notin {own, Bad}
  BY <1>7, <1>17, <1>18
<1>20. Len(peers) = Min({shown, Cardinality(U)})
  <2>1. Cardinality(U) = m
    BY <1>12, PlacesCount DEF Ranks
  <2> QED
    BY <1>9, <1>13, <1>17, <2>1, LeastOf
<1>21. ASSUME NEW cap \in caps
       PROVE  Cardinality({k \in 1..Len(peers) : OrZero(peers[k].cap) >= cap})
                = Min({shown, Cardinality({i \in U : OrZero(rows[i].cap) >= cap})})
  <2>1. cap \in Int
    OBVIOUS
  <2>2. Cardinality({k \in 1..L : value[b[k]] >= cap})
          = Min({shown, Cardinality({i \in U : value[i] >= cap})})
    <3>1. shown \in Nat
      OBVIOUS
    <3> QED
      BY ONLY <1>12, <1>13, <2>1, <3>1, LargeOnes
  <2>3. {k \in 1..Len(peers) : OrZero(peers[k].cap) >= cap} = {k \in 1..L : value[b[k]] >= cap}
    BY <1>3, <1>17, <1>18
  <2>4. {i \in U : OrZero(rows[i].cap) >= cap} = {i \in U : value[i] >= cap}
    BY <1>3, <1>7
  <2> QED
    BY <2>2, <2>3, <2>4
<1>22. U = {i \in 1..Len(rows) : rows[i].code \notin {own, Bad}}
  BY <1>1, <1>7
<1>23. shown = Max({1, most})
  <2>1. \E x \in {1, most} : \A y \in {1, most} : y <= x
    <3>1. CASE most < 1
      BY <3>1
    <3>2. CASE most >= 1
      BY <3>2
    <3> QED
      BY <3>1, <3>2
  <2>2. Max({1, most}) \in {1, most} /\ \A y \in {1, most} : y <= Max({1, most})
    BY <2>1 DEF Max
  <2> QED
    BY <1>0, <2>2
<1> QED
  BY <1>15, <1>19, <1>20, <1>21, <1>22, <1>23 DEF LargestPeers

\* The facts of the analysis, for the figures, reports and industries that the run takes.
LEMMA ComparesHold == ComparesLikeWithLike
<1>1. \A rows \in Dates : rows \in Seq(Nat) /\ \A i \in 1..Len(rows) : rows[i] \in Nat \ {NoRow}
  <2> SUFFICES ASSUME NEW n \in 0..3, NEW d \in [1..n -> 1..9]
               PROVE  d \in Seq(Nat) /\ \A i \in 1..Len(d) : d[i] \in Nat \ {NoRow}
    BY DEF Dates
  <2>1. n \in Nat /\ d \in [1..n -> Nat] /\ Len(d) = n
    OBVIOUS
  <2>2. \A i \in 1..n : d[i] \in Nat /\ d[i] # 0
    OBVIOUS
  <2> QED
    BY <2>1, <2>2 DEF NoRow
<1> QED
  BY <1>1, LikeIsAlwaysComparedWithLike DEF ComparesLikeWithLike

LEMMA PeersHold == PeersAreTheLargest
<1>1. \A rows \in Industry : Len(rows) \in Nat /\ \A i \in 1..Len(rows) : OrZero(rows[i].cap) \in Int
  <2> SUFFICES ASSUME NEW n \in 0..3,
                      NEW rows \in [1..n -> [code: {"own", "a", "b", Bad}, cap: Optional({1, 2})]]
               PROVE  Len(rows) \in Nat /\ \A i \in 1..Len(rows) : OrZero(rows[i].cap) \in Int
    BY DEF Industry
  <2>1. Len(rows) = n /\ n \in Nat
    OBVIOUS
  <2>2. ASSUME NEW i \in 1..n PROVE OrZero(rows[i].cap) \in Int
    <3>1. rows[i].cap \in Optional({1, 2})
      OBVIOUS
    <3> QED
      BY <3>1 DEF Optional, OrZero, Given
  <2> QED
    BY <2>1, <2>2
<1>2. \A most \in 0..2 : most \in Nat
  OBVIOUS
<1>3. 0..2 \in SUBSET Int
  OBVIOUS
<1> QED
  BY <1>1, <1>2, <1>3, PeersAreAlwaysTheLargest DEF PeersAreTheLargest

-----------------------------------------------------------------------------
(***************************************************************************)
(* The digest of the news.                                                 *)
(***************************************************************************)

\* The least of a set of numbers.
LEMMA LeastExists ==
  ASSUME NEW T, T \subseteq Nat, T # {}
  PROVE  \E x \in T : \A y \in T : x <= y
<1>1. IsWellFoundedOn(OpToRel(<, Nat), Nat)
  BY NatLessThanWellFounded
<1>2. PICK x \in T : \A y \in T : ~ (<<y, x>> \in OpToRel(<, Nat))
  BY <1>1, WFMin
<1>3. \A y \in T : ~ (y < x)
  BY <1>2 DEF OpToRel
<1> QED
  BY <1>3

\* The values of a loop that begins with base and makes n steps.
Follows(f, n, base, step) ==
  f = [i \in 0..n |-> IF i = 0 THEN base ELSE step[<<i, f[i - 1]>>]]

\* A loop has values.
LEMMA LoopHasValues ==
  ASSUME NEW n \in Nat, NEW V, NEW base \in V, NEW step \in [(1..n) \X V -> V]
  PROVE  \E f \in [0..n -> V] : Follows(f, n, base, step)
<1> DEFINE Good(k) == \E f \in [0..k -> V] : Follows(f, k, base, step)
           T == {k \in 0..n : ~Good(k)}
<1> SUFFICES ASSUME T # {} PROVE FALSE
  OBVIOUS
<1>1. PICK k \in T : \A j \in T : k <= j
  <2>1. T \subseteq Nat
    OBVIOUS
  <2> HIDE DEF T
  <2> QED
    BY <2>1, LeastExists
<1>2. k \in 0..n /\ ~Good(k)
  BY <1>1
<1>3. k # 0
  <2> SUFFICES ASSUME k = 0 PROVE FALSE
    OBVIOUS
  <2> DEFINE f == [i \in 0..0 |-> base]
  <2>1. f \in [0..k -> V]
    OBVIOUS
  <2>2. f = [i \in 0..k |-> IF i = 0 THEN base ELSE step[<<i, f[i - 1]>>]]
    <3>1. \A i \in 0..0 : i = 0
      OBVIOUS
    <3> QED
      BY <3>1
  <2>3. Good(k)
    <3> HIDE DEF f
    <3> QED
      BY <2>1, <2>2 DEF Follows
  <2> QED
    BY <1>2, <2>3
<1>4. PICK j \in 0..n : j = k - 1
  BY <1>2, <1>3
<1>5. Good(j)
  <2>1. ~(k <= j)
    BY <1>2, <1>4
  <2>2. j \notin T
    BY <1>1, <2>1
  <2> QED
    BY <2>2
<1>6. PICK g \in [0..j -> V] : Follows(g, j, base, step)
  BY <1>5
<1>7. g = [i \in 0..j |-> IF i = 0 THEN base ELSE step[<<i, g[i - 1]>>]]
  BY <1>6 DEF Follows
<1>8. \A i \in 0..j : g[i] = IF i = 0 THEN base ELSE step[<<i, g[i - 1]>>]
  BY <1>7
<1> DEFINE h == [i \in 0..k |-> IF i <= j THEN g[i] ELSE step[<<k, g[j]>>]]
<1>9. step[<<k, g[j]>>] \in V
  BY <1>2, <1>3, <1>4
<1>10. h \in [0..k -> V]
  <2>1. \A i \in 0..k : i <= j => g[i] \in V
    BY <1>2, <1>4
  <2> QED
    BY <1>9, <2>1
<1>11. \A i \in 0..k : h[i] = IF i = 0 THEN base ELSE step[<<i, h[i - 1]>>]
  <2> TAKE i \in 0..k
  <2>1. CASE i = 0
    <3>1. 0 \in 0..k /\ 0 \in 0..j /\ 0 <= j
      BY <1>2, <1>3, <1>4
    <3>2. h[0] = g[0]
      BY <3>1
    <3>3. g[0] = base
      BY <3>1, <1>8
    <3> QED
      BY <2>1, <3>2, <3>3
  <2>2. CASE i # 0 /\ i <= j
    <3>1. h[i] = g[i] /\ i - 1 \in 0..k /\ i - 1 <= j /\ h[i - 1] = g[i - 1]
      BY <2>2, <1>2, <1>4
    <3>2. i \in 0..j
      BY <2>2, <1>2, <1>4
    <3> QED
      BY <3>1, <3>2, <2>2, <1>8
  <2>3. CASE i > j
    <3>1. i = k /\ i - 1 = j /\ j \in 0..k
      BY <2>3, <1>2, <1>4
    <3>2. h[i] = step[<<k, g[j]>>] /\ h[i - 1] = g[j]
      BY <3>1, <2>3, <1>4
    <3> QED
      BY <3>1, <3>2, <1>3
  <2> QED
    BY <2>1, <2>2, <2>3, <1>2, <1>4
<1>12. Good(k)
  <2> HIDE DEF h
  <2>1. h = [i \in 0..k |-> IF i = 0 THEN base ELSE step[<<i, h[i - 1]>>]]
    BY <1>10, <1>11
  <2> QED
    BY <1>10, <2>1 DEF Follows
<1> QED
  BY <1>2, <1>12

\* Nothing fails from the start on.
LEMMA FromTheStart ==
  ASSUME NEW n \in Nat, NEW Good, 0 \in Good,
         \A i \in 1..n : i - 1 \in Good => i \in Good
  PROVE  \A i \in 0..n : i \in Good
<1> DEFINE T == {i \in 0..n : i \notin Good}
<1> SUFFICES ASSUME T # {} PROVE FALSE
  OBVIOUS
<1>1. PICK k \in T : \A j \in T : k <= j
  <2>1. T \subseteq Nat
    OBVIOUS
  <2> HIDE DEF T
  <2> QED
    BY <2>1, LeastExists
<1>2. k \in 1..n /\ k \notin Good
  BY <1>1
<1>3. k - 1 \in 0..n /\ ~(k <= k - 1)
  BY <1>2
<1>4. k - 1 \notin T
  BY <1>1, <1>3
<1> QED
  BY <1>2, <1>3, <1>4

\* The loop of the news: the recursive function is a function.
LEMMA NormalizedHas ==
  ASSUME NEW results,
         NEW f, f = [i \in 0..Len(results) |-> IF i = 0 THEN {} ELSE Normalize(f[i - 1], results, i)]
  PROVE  Normalized(results)
           = [i \in 0..Len(results) |->
                IF i = 0 THEN {} ELSE Normalize(Normalized(results)[i - 1], results, i)]
BY Zenon DEF Normalized

LEMMA NormalizedIs ==
  ASSUME NEW n \in Nat, NEW results, Len(results) = n
  PROVE  /\ Normalized(results)[0] = {}
         /\ \A i \in 1..n : Normalized(results)[i] = Normalize(Normalized(results)[i - 1], results, i)
<1> DEFINE V == SUBSET (1..n)
           step == [p \in (1..n) \X V |-> Normalize(p[2], results, p[1])]
<1>1. {} \in V /\ step \in [(1..n) \X V -> V]
  <2>1. \A i \in 1..n, B \in V : Normalize(B, results, i) \in V
    BY DEF Normalize
  <2> QED
    BY <2>1
<1>2. \A i \in 1..n, B \in V : step[<<i, B>>] = Normalize(B, results, i)
  OBVIOUS
<1>3. PICK f \in [0..n -> V] : Follows(f, n, {}, step)
  <2> HIDE DEF V, step
  <2> QED
    BY <1>1, LoopHasValues
<1> HIDE DEF step
<1>4. f = [i \in 0..n |-> IF i = 0 THEN {} ELSE step[<<i, f[i - 1]>>]]
  BY <1>3 DEF Follows
<1>5. \A i \in 0..n : f[i] = IF i = 0 THEN {} ELSE Normalize(f[i - 1], results, i)
  <2> TAKE i \in 0..n
  <2>1. f[i] = IF i = 0 THEN {} ELSE step[<<i, f[i - 1]>>]
    BY <1>4
  <2>2. i # 0 => i \in 1..n /\ f[i - 1] \in V
    BY <1>3
  <2> HIDE DEF V
  <2> QED
    BY <2>1, <2>2, <1>2
<1>6. f = [i \in 0..Len(results) |-> IF i = 0 THEN {} ELSE Normalize(f[i - 1], results, i)]
  <2> HIDE DEF V
  <2> QED
    BY <1>3, <1>5
<1>7. PICK g : g = Normalized(results)
  OBVIOUS
<1>8. g = [i \in 0..n |-> IF i = 0 THEN {} ELSE Normalize(g[i - 1], results, i)]
  <2>1. Normalized(results)
          = [i \in 0..Len(results) |->
               IF i = 0 THEN {} ELSE Normalize(Normalized(results)[i - 1], results, i)]
    BY ONLY <1>6, NormalizedHas
  <2> QED
    BY <1>7, <2>1
<1>9. /\ g[0] = {}
      /\ \A i \in 1..n : g[i] = Normalize(g[i - 1], results, i)
  <2>1. \A i \in 0..n : g[i] = IF i = 0 THEN {} ELSE Normalize(g[i - 1], results, i)
    BY ONLY <1>8, Zenon
  <2>2. 0 \in 0..n /\ \A i \in 1..n : i \in 0..n /\ i # 0
    OBVIOUS
  <2> QED
    BY ONLY <2>1, <2>2
<1> QED
  BY <1>7, <1>9

\* Of two results: they share a key.
Alike(results, i, j) == KeysOf(results[i]) \intersect KeysOf(results[j]) # {}

\* T are those of the first k results that are kept: the ones with a title that share no
\* key with one that is kept before.
KeptOnce(results, k, T) ==
  /\ T \in SUBSET (1..k)
  /\ \A i \in 1..k : i \in T <=> /\ results[i].title # Missing
                                 /\ \A j \in T : j < i => ~Alike(results, i, j)

LEMMA SeenIs ==
  ASSUME NEW results, NEW B, NEW i
  PROVE  KeysOf(results[i]) \intersect Seen(results, B) = {} <=> \A j \in B : ~Alike(results, i, j)
BY Zenon DEF Seen, Alike

LEMMA KeepsOneMore ==
  ASSUME NEW results, NEW k \in Nat, NEW l \in Nat, l = k + 1, NEW B, KeptOnce(results, k, B)
  PROVE  KeptOnce(results, l, Normalize(B, results, l))
<1>1. PICK T : T = Normalize(B, results, l)
  OBVIOUS
<1>2. /\ B \in SUBSET (1..k)
      /\ \A i \in 1..k : i \in B <=> /\ results[i].title # Missing
                                     /\ \A j \in B : j < i => ~Alike(results, i, j)
  BY DEF KeptOnce
<1>3. /\ l \notin B /\ \A i \in B : i < l
      /\ \A i : i \in 1..l <=> i \in 1..k \/ i = l
      /\ \A i \in 1..k : i < l /\ ~(l < i)
      /\ ~(l < l)
  BY <1>2
<1>4. T = IF results[l].title # Missing /\ \A j \in B : ~Alike(results, l, j) THEN B \union {l} ELSE B
  BY <1>1, SeenIs DEF Normalize
<1>5. T \in SUBSET (1..l) /\ \A j : j \in T => j \in B \/ j = l
  BY <1>2, <1>3, <1>4
<1>6. l \in T <=> results[l].title # Missing /\ \A j \in T : j < l => ~Alike(results, l, j)
  BY <1>3, <1>4, <1>5
<1>7. ASSUME NEW i \in 1..k
      PROVE  i \in T <=> results[i].title # Missing /\ \A j \in T : j < i => ~Alike(results, i, j)
  <2>1. i \in T <=> i \in B
    BY <1>3, <1>4
  <2>2. \A j : j < i => (j \in T <=> j \in B)
    BY <1>3, <1>4
  <2> QED
    BY <1>2, <2>1, <2>2
<1>8. KeptOnce(results, l, T)
  BY <1>3, <1>5, <1>6, <1>7 DEF KeptOnce
<1> QED
  BY <1>1, <1>8

LEMMA ItemsAre ==
  ASSUME NEW n \in Nat, NEW results, Len(results) = n
  PROVE  KeptOnce(results, n, Items(results))
<1>1. PICK g : g = Normalized(results)
  OBVIOUS
<1>2. g[0] = {} /\ \A i \in 1..n : g[i] = Normalize(g[i - 1], results, i)
  BY <1>1, NormalizedIs
<1> DEFINE Good == {i \in 0..n : KeptOnce(results, i, g[i])}
<1>3. 0 \in Good
  BY <1>2 DEF KeptOnce
<1>4. ASSUME NEW i \in 1..n, i - 1 \in Good PROVE i \in Good
  <2>1. i - 1 \in Nat /\ i \in Nat /\ i = (i - 1) + 1 /\ i \in 0..n
    OBVIOUS
  <2>2. KeptOnce(results, i - 1, g[i - 1])
    BY <1>4
  <2>3. KeptOnce(results, i, Normalize(g[i - 1], results, i))
    BY ONLY <2>1, <2>2, KeepsOneMore
  <2> QED
    BY <1>2, <2>1, <2>3
<1>5. \A i \in 0..n : i \in Good
  <2> HIDE DEF Good
  <2> QED
    BY <1>3, <1>4, FromTheStart
<1>6. KeptOnce(results, n, g[n])
  BY <1>5
<1> QED
  BY <1>1, <1>6 DEF Items

\* However many results a search finds, a story is shown once and none gets lost
\* (_normalize_tavily_results).
THEOREM StoriesAlwaysShownOnce ==
  ASSUME NEW results, Len(results) \in Nat
  PROVE  ShowsOnce(results)
<1>1. KeptOnce(results, Len(results), Items(results))
  BY ItemsAre
<1> QED
  BY <1>1 DEF KeptOnce, ShowsOnce, Alike

\* Lists that begin with the same results keep the same of them.
LEMMA KeptAlike ==
  ASSUME NEW n \in Nat, NEW r, NEW s, \A i \in 1..n : r[i] = s[i],
         NEW T, KeptOnce(r, n, T), NEW S, KeptOnce(s, n, S)
  PROVE  T = S
<1> DEFINE D == {i \in 1..n : ~(i \in T <=> i \in S)}
<1>1. T \in SUBSET (1..n) /\ S \in SUBSET (1..n)
  BY DEF KeptOnce
<1>2. D = {}
  <2> SUFFICES ASSUME D # {} PROVE FALSE
    OBVIOUS
  <2>1. PICK i \in D : \A j \in D : i <= j
    <3>1. D \subseteq Nat
      OBVIOUS
    <3> HIDE DEF D
    <3> QED
      BY <3>1, LeastExists
  <2>2. i \in 1..n
    OBVIOUS
  <2>3. \A j \in 1..n : j < i => (j \in T <=> j \in S)
    BY <2>1
  <2>4. \A j \in 1..n : Alike(r, i, j) <=> Alike(s, i, j)
    BY <2>2 DEF Alike
  <2>5. i \in T <=> r[i].title # Missing /\ \A j \in T : j < i => ~Alike(r, i, j)
    BY <2>2 DEF KeptOnce
  <2>6. i \in S <=> s[i].title # Missing /\ \A j \in S : j < i => ~Alike(s, i, j)
    BY <2>2 DEF KeptOnce
  <2>7. r[i] = s[i]
    BY <2>2
  <2>8. i \in T <=> i \in S
    BY <1>1, <2>3, <2>4, <2>5, <2>6, <2>7
  <2> QED
    BY <2>8
<1> QED
  BY <1>1, <1>2

\* A story that is found again does not change the temperature of the market, however many
\* stories there are: what is kept stays the same (_normalize_tavily_results,
\* _build_digest).
THEOREM RepeatsNeverHeat ==
  ASSUME NEW R, NEW results \in Seq(R), NEW i \in 1..Len(results)
  PROVE  Temperature(Append(results, results[i])) = Temperature(results)
<1>1. PICK n, s : n = Len(results) /\ s = Append(results, results[i])
  OBVIOUS
<1>2. n \in Nat /\ results[i] \in R
  BY <1>1, LenProperties, ElementOfSeq
<1>3. PICK l : l = n + 1
  OBVIOUS
<1>4. Len(s) = l /\ s[l] = results[i] /\ \A k \in 1..n : s[k] = results[k]
  BY <1>1, <1>2, <1>3, AppendProperties
<1>5. PICK T, S : T = Items(s) /\ S = Items(results)
  OBVIOUS
<1>6. KeptOnce(s, l, T) /\ KeptOnce(results, n, S)
  <2>1. l \in Nat /\ Len(s) = l
    BY <1>2, <1>3, <1>4
  <2>2. KeptOnce(s, l, Items(s))
    BY ONLY <2>1, ItemsAre
  <2>3. n \in Nat /\ Len(results) = n
    BY <1>1, <1>2
  <2>4. KeptOnce(results, n, Items(results))
    BY ONLY <2>3, ItemsAre
  <2> QED
    BY <1>5, <2>2, <2>4
<1>7. /\ i \in 1..n /\ i \in 1..l /\ l \in 1..l /\ i < l
      /\ \A k : k \in 1..l <=> k \in 1..n \/ k = l
      /\ \A k \in 1..n : k < l /\ ~(l < k)
  BY <1>1, <1>2, <1>3
<1>8. /\ T \in SUBSET (1..l)
      /\ \A k \in 1..l : k \in T <=> /\ s[k].title # Missing
                                     /\ \A j \in T : j < k => ~Alike(s, k, j)
  BY <1>6 DEF KeptOnce
<1>9. \A j : Alike(s, l, j) <=> Alike(s, i, j)
  BY <1>4, <1>7 DEF Alike
<1>10. Alike(s, i, i)
  BY DEF Alike, KeysOf
<1>11. l \notin T
  <2> SUFFICES ASSUME l \in T PROVE FALSE
    OBVIOUS
  <2>1. s[l].title # Missing /\ \A j \in T : j < l => ~Alike(s, l, j)
    BY <1>7, <1>8
  <2>2. i \notin T
    BY <1>7, <1>9, <1>10, <2>1
  <2>3. s[i].title # Missing
    BY <1>4, <1>7, <2>1
  <2>4. PICK j \in T : j < i /\ Alike(s, i, j)
    BY <1>7, <1>8, <2>2, <2>3
  <2>5. j < l
    BY <1>7, <1>8, <2>4
  <2> QED
    BY <1>9, <2>1, <2>4, <2>5
<1>12. KeptOnce(s, n, T)
  <2>1. T \in SUBSET (1..n)
    BY <1>7, <1>8, <1>11
  <2> QED
    BY <1>7, <1>8, <2>1 DEF KeptOnce
<1>13. T = S
  BY <1>2, <1>4, <1>6, <1>12, KeptAlike
<1>14. \A k \in T : s[k] = results[k]
  BY <1>4, <1>6, <1>13 DEF KeptOnce
<1>15. \A x : {k \in T : Sentiment(s[k]) = x} = {k \in S : Sentiment(results[k]) = x}
  BY <1>13, <1>14
<1>16. \A x : Count(s, x) = Count(results, x)
  BY <1>5, <1>15 DEF Count
<1> QED
  BY <1>1, <1>16 DEF Temperature

\* The facts of the news, for the lists that the run takes.
LEMMA NewsHold == RepeatsCountOnce
<1>1. ASSUME NEW n \in Nat, NEW results \in [1..n -> RawResults]
      PROVE  results \in Seq(RawResults) /\ Len(results) = n
  <2> HIDE DEF RawResults
  <2> QED
    OBVIOUS
<1>2. \A results \in Searches : results \in Seq(RawResults) /\ Len(results) \in Nat
  <2> SUFFICES ASSUME NEW n \in 0..3, NEW results \in [1..n -> RawResults]
               PROVE  results \in Seq(RawResults) /\ Len(results) \in Nat
    BY DEF Searches
  <2> QED
    BY <1>1
<1>3. StoriesAreShownOnce
  BY <1>2, StoriesAlwaysShownOnce DEF StoriesAreShownOnce
<1>4. RepeatsDoNotHeat
  BY <1>2, RepeatsNeverHeat DEF RepeatsDoNotHeat
<1> QED
  BY <1>3, <1>4 DEF RepeatsCountOnce

-----------------------------------------------------------------------------
(***************************************************************************)
(* What the tools report.                                                  *)
(***************************************************************************)

LEMMA FiguresAre == Figures \subseteq AllFigures
<1>1. Lacking \in AllFigures
  BY DEF Lacking, AllFigures, Figure
<1>2. \A S \in SUBSET Int : Optional(S) \subseteq Figure
  BY DEF Optional, Figure
<1>3. ASSUME NEW o \in Figure, NEW c \in Figure, NEW p \in Figure, NEW r \in Figure,
             NEW e \in Figure, NEW v \in Figure
      PROVE  Company(o, c, p, r, e, v) \in AllFigures
  <2>1. <<20>> \in Figure
    BY DEF Figure
  <2> HIDE DEF Figure
  <2> QED
    BY <1>1, <2>1 DEF AllFigures, Company
<1>4. \A x \in Figures :
        \E o \in Optional({-10, 0, 3, 10, 239}), c \in Optional({-5, 0}),
           p \in Optional({-10, 0, 10, 300}), r \in Optional({18, 21, 23}),
           e \in Optional({-1, 10, 20}), v \in Optional({-5, 41}) : x = Company(o, c, p, r, e, v)
  BY DEF Figures
<1>5. /\ Optional({-10, 0, 3, 10, 239}) \subseteq Figure /\ Optional({-5, 0}) \subseteq Figure
      /\ Optional({-10, 0, 10, 300}) \subseteq Figure /\ Optional({18, 21, 23}) \subseteq Figure
      /\ Optional({-1, 10, 20}) \subseteq Figure /\ Optional({-5, 41}) \subseteq Figure
  BY <1>2
<1>6. \A x \in Figures : \E o, c, p, r, e, v \in Figure : x = Company(o, c, p, r, e, v)
  BY ONLY <1>4, <1>5
<1> QED
  BY ONLY <1>3, <1>6

LEMMA MeritsHold == MissingFiguresAreNoMerit
<1> SUFFICES ASSUME NEW f \in Figures, NEW hidden \in SUBSET {k \in DOMAIN f : Given(f[k])}
             PROVE  MissingIsNoMerit([k \in DOMAIN f |-> IF k \in hidden THEN <<>> ELSE f[k]], f)
  BY DEF MissingFiguresAreNoMerit
<1>1. f \in AllFigures
  BY FiguresAre
<1>2. <<>> \in Figure
  BY DEF Figure
<1>3. [k \in DOMAIN f |-> IF k \in hidden THEN <<>> ELSE f[k]] \in AllFigures
  BY <1>1, <1>2 DEF AllFigures
<1> QED
  BY <1>1, <1>3, MissingIsNeverAMerit

LEMMA AnalysisHolds == AnalysisIsFair
<1>1. StrongLossIsWarnedOf
  BY FiguresAre, StrongLossIsAlwaysWarnedOf DEF StrongLossIsWarnedOf
<1>2. CashFlagMatchesScore
  BY FiguresAre, FlagAlwaysMatchesScore DEF CashFlagMatchesScore
<1> QED
  BY <1>1, <1>2, MeritsHold, ComparesHold, PeersHold DEF AnalysisIsFair

\* Whatever the streams do, the analyses and the digests they get are fair: a company that
\* loses money is called strong only where its cash flow is missing, and under a warning that
\* says so; what is missing is no merit; the score and the flag of the cash flow agree; like
\* is compared with like, the peers are the largest, and a story counts once
\* (fundamental_analysis.py, market_news.py).
THEOREM ReportsAreAlwaysFair == Spec => []ReportsAreFair
<1>1. ReportsAreFair
  BY AnalysisHolds, NewsHold DEF ReportsAreFair
<1> QED
  BY <1>1, PTL
=============================================================================
