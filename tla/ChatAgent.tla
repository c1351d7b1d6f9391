------------------------------ MODULE ChatAgent ------------------------------
(***************************************************************************)
(* The chat agent of chat/agent.py: streams that alternate between the     *)
(* model and its tools, and the thread pool that all of them share for     *)
(* fundamental analyses.  A stream is a generator: it runs up to the event *)
(* it yields, where the client may leave it.                               *)
(*                                                                         *)
(* An analysis waits in the pool's queue, runs and ends; its stream waits  *)
(* for it for a limited time, gives up and cancels it, which only works on *)
(* one that does not run yet.                                              *)
(***************************************************************************)
EXTENDS Naturals, Sequences, FiniteSets

CONSTANTS
  Streams,  \* requests that stream an answer
  Workers,  \* threads of _FUNDAMENTAL_ANALYSIS_EXECUTOR
  Rounds,   \* MAX_TOOL_ROUNDS
  Indexes,  \* indexes of the tool calls in a response of the model (bound)
  MaxCalls  \* stream -> tool calls the model makes in it (bound)

ASSUME AgentAssumption ==
  Rounds \in Nat \ {0} /\ Indexes \subseteq Nat /\ MaxCalls \in [Streams -> Nat]

VARIABLES
  stream,   \* stream -> where its generator is, see Streaming
  messages, \* stream -> what the model is sent after the user's history
  job,      \* analysis -> state of its future, and ghost: the call it is for
  queue,    \* the work queue of the executor
  worker    \* thread -> the analysis it runs, or none

vars == <<stream, messages, job, queue, worker>>

\* The k-th analysis of a stream.
Jobs == UNION {{s} \X (1..MaxCalls[s]) : s \in Streams}
NoJob == <<>>
Raised == <<"raised">>

\* Generators are suspended at the events they yield.
Yields == {"delta", "errorEvent", "callEvent"}
Calls == [round: 1..Rounds, index: Indexes]
Results == {NoJob, Raised} \union Jobs

\* todo: calls not yet executed; calls: made so far; jobs: analyses asked for;
\* result: of the call being executed
Streaming == [at: {"asking", "chunks", "call", "waiting", "expired", "ended"} \union Yields,
              round: 1..Rounds, todo: Seq(Indexes), calls: Nat, jobs: Nat,
              result: Results, outcome: {"none", "done", "error", "left"}]

Init ==
  /\ stream = [s \in Streams |->
       [at |-> "asking", round |-> 1, todo |-> <<>>, calls |-> 0, jobs |-> 0,
        result |-> NoJob, outcome |-> "none"]]
  /\ messages = [s \in Streams |-> <<>>]
  /\ job = [j \in Jobs |-> [state |-> "none", call |-> [round |-> 0, index |-> 0]]]
  /\ queue = <<>>
  /\ worker = [w \in Workers |-> NoJob]

At(s, at) == stream[s].at = at
Goto(s, at) == stream' = [stream EXCEPT ![s].at = at]

\* The generator is over, and its conversation with it.
End(s, outcome) ==
  /\ stream' = [stream EXCEPT ![s] = [at |-> "ended", round |-> 1, todo |-> <<>>,
                                     calls |-> 0, jobs |-> @.jobs, result |-> NoJob, outcome |-> outcome]]
  /\ messages' = [messages EXCEPT ![s] = <<>>]

pool == <<job, queue, worker>>

-----------------------------------------------------------------------------
(* _agent_node *)

\* The completion is requested.
Ask(s) ==
  /\ At(s, "asking")
  /\ Goto(s, "chunks")
  /\ UNCHANGED <<messages, pool>>

\* A chunk with text is passed on.
Delta(s) ==
  /\ At(s, "chunks")
  /\ Goto(s, "delta")
  /\ UNCHANGED <<messages, pool>>

\* The request or the response fails: an error event, and the stream is over.
Fail(s) ==
  /\ At(s, "asking") \/ At(s, "chunks")
  /\ End(s, "error")
  /\ UNCHANGED pool

\* The response is complete: an answer ends the stream; tool calls, put together
\* from fragments by their index, are kept in the conversation in the order of
\* their indexes, and executed.
Complete(s) ==
  /\ At(s, "chunks")
  /\ \E n \in 0..MaxCalls[s] : \E calls \in [1..n -> Indexes] :
       /\ \A k, l \in 1..n : k < l => calls[k] < calls[l]
       /\ stream[s].calls + n <= MaxCalls[s]
       /\ IF n = 0 THEN End(s, "done")
          ELSE /\ stream' = [stream EXCEPT ![s] = [@ EXCEPT !.at = "call", !.todo = calls,
                                                           !.calls = stream[s].calls + n]]
               /\ messages' = [messages EXCEPT ![s] =
                                 Append(@, [role |-> "assistant", round |-> stream[s].round,
                                            calls |-> calls])]
  /\ UNCHANGED pool

-----------------------------------------------------------------------------
(* _tool_node and _execute_tool *)

\* The stream as it is when its tool has returned or raised.
Reply(st, result) ==
  [st EXCEPT !.at = IF result = Raised THEN "errorEvent" ELSE "callEvent", !.result = result]

\* A tool that the stream's own thread executes: it returns, if only an error for
\* a tool that does not exist, or raises.
Execute(s) ==
  /\ At(s, "call")
  /\ \E result \in {NoJob, Raised} : stream' = [stream EXCEPT ![s] = Reply(@, result)]
  /\ UNCHANGED <<messages, pool>>

\* analyze_fundamentals
Submit(s) ==
  /\ At(s, "call")
  /\ LET j == <<s, stream[s].jobs + 1>> IN
       /\ job' = [job EXCEPT ![j] =
                    [state |-> "queued",
                     call |-> [round |-> stream[s].round, index |-> Head(stream[s].todo)]]]
       /\ queue' = Append(queue, j)
  /\ stream' = [stream EXCEPT ![s] = [@ EXCEPT !.at = "waiting", !.jobs = stream[s].jobs + 1]]
  /\ UNCHANGED <<messages, worker>>

\* The analysis the stream waits for.
Mine(s) == <<s, stream[s].jobs>>

\* future.result(): its report, or what it raised.
Answered(s) ==
  /\ At(s, "waiting")
  /\ job[Mine(s)].state \in {"done", "failed"}
  /\ stream' = [stream EXCEPT ![s] =
                  Reply(@, IF job[Mine(s)].state = "done" THEN Mine(s) ELSE Raised)]
  /\ UNCHANGED <<messages, pool>>

\* Mutant of Expire: result() without a timeout.
ExpireNever(s) == FALSE /\ UNCHANGED <<stream, messages, pool>>

\* future.result() raises a timeout.
Expire(s) ==
  /\ At(s, "waiting")
  /\ job[Mine(s)].state \in {"queued", "running"}
  /\ Goto(s, "expired")
  /\ UNCHANGED <<messages, pool>>

\* Mutant of Cancel: the future is not cancelled.
CancelNot(s) ==
  /\ At(s, "expired")
  /\ stream' = [stream EXCEPT ![s] = Reply(@, Raised)]
  /\ UNCHANGED <<messages, pool>>

\* future.cancel(): too late for an analysis that runs or has ended since.
Cancel(s) ==
  /\ At(s, "expired")
  /\ job' = [job EXCEPT ![Mine(s)].state = IF @ = "queued" THEN "cancelled" ELSE @]
  /\ stream' = [stream EXCEPT ![s] = Reply(@, Raised)]
  /\ UNCHANGED <<messages, queue, worker>>

\* The next call, the next round or, when the rounds are used up, the end.
Advance(s, answered) ==
  LET st == stream[s] IN
    IF Len(st.todo) = 1 /\ st.round = Rounds THEN End(s, "done")
    ELSE /\ messages' = [messages EXCEPT ![s] = @ \o answered]
         /\ stream' = [stream EXCEPT ![s] =
              IF Len(st.todo) > 1 THEN [st EXCEPT !.at = "call", !.todo = Tail(@), !.result = NoJob]
              ELSE [st EXCEPT !.at = "asking", !.todo = <<>>, !.round = @ + 1, !.result = NoJob]]

\* report: the analysis that it reports, if any.
ToolMessage(st) == [role |-> "tool", call |-> [round |-> st.round, index |-> Head(st.todo)],
                    report |-> IF st.result = Raised THEN NoJob ELSE st.result]

\* Mutant of Answer: a tool that raised leaves no message.
AnswerIfOk(s) ==
  Advance(s, IF stream[s].result = Raised THEN <<>> ELSE <<ToolMessage(stream[s])>>)

\* The tool message is appended, whatever the tool did.
Answer(s) == Advance(s, <<ToolMessage(stream[s])>>)

\* The client takes the event and the generator goes on.
Resume(s) ==
  /\ stream[s].at \in Yields
  /\ CASE At(s, "delta") -> Goto(s, "chunks") /\ UNCHANGED messages
       [] At(s, "errorEvent") -> Goto(s, "callEvent") /\ UNCHANGED messages
       [] At(s, "callEvent") -> Answer(s)
  /\ UNCHANGED pool

\* The client leaves and the generator is closed.
Leave(s) ==
  /\ stream[s].at \in Yields
  /\ End(s, "left")
  /\ UNCHANGED pool

-----------------------------------------------------------------------------
(* The executor: concurrent.futures.ThreadPoolExecutor *)

\* An idle thread takes the next analysis, and drops it if it was cancelled.
TakeUp(w) ==
  /\ worker[w] = NoJob /\ queue # <<>>
  /\ queue' = Tail(queue)
  /\ IF job[Head(queue)].state = "cancelled" THEN UNCHANGED <<job, worker>>
     ELSE /\ job' = [job EXCEPT ![Head(queue)].state = "running"]
          /\ worker' = [worker EXCEPT ![w] = Head(queue)]
  /\ UNCHANGED <<stream, messages>>

\* An analysis returns its report or raises.
Return(w) ==
  /\ worker[w] # NoJob
  /\ \E state \in {"done", "failed"} : job' = [job EXCEPT ![worker[w]].state = state]
  /\ worker' = [worker EXCEPT ![w] = NoJob]
  /\ UNCHANGED <<stream, messages, queue>>

StreamStep(s) ==
  \/ Ask(s) \/ Delta(s) \/ Fail(s) \/ Complete(s)
  \/ Execute(s) \/ Submit(s) \/ Answered(s) \/ Expire(s) \/ Cancel(s)
  \/ Resume(s) \/ Leave(s)

Next ==
  \/ \E s \in Streams : StreamStep(s)
  \/ \E w \in Workers : TakeUp(w) \/ Return(w)

Spec == Init /\ [][Next]_vars

\* A stream's thread runs, result() gives up in time, and a response of the model
\* is finite or fails.  Nothing is assumed of the analyses.
FairSpec == Spec /\ \A s \in Streams : /\ WF_vars(StreamStep(s))
                                      /\ SF_vars(Complete(s) \/ Fail(s))

-----------------------------------------------------------------------------
(***************************************************************************)
(* Properties.                                                             *)
(***************************************************************************)

\* Every stream, message and future has the shape the code gives it.
TypeOK ==
  /\ stream \in [Streams -> Streaming]
  /\ \A s \in Streams : \A i \in DOMAIN messages[s] : LET m == messages[s][i] IN
       \/ m.role = "assistant" /\ m.calls \in Seq(Indexes) /\ m.round \in 1..Rounds
       \/ m.role = "tool" /\ m.call \in Calls /\ m.report \in Jobs \union {NoJob}
  /\ \A j \in Jobs : job[j].state \in {"none", "queued", "running", "done", "failed", "cancelled"}
  /\ queue \in Seq(Jobs)
  /\ worker \in [Workers -> Jobs \union {NoJob}]

\* A report in the conversation answers the call it was made for: one that comes
\* after its stream has given up on it is not taken for the next one's.
ReportsAnswerTheirCall(s) ==
  \A i \in DOMAIN messages[s] : LET m == messages[s][i] IN
    m.role = "tool" /\ m.report # NoJob =>
      job[m.report].call = m.call /\ job[m.report].state = "done"

\* The model accepts a conversation only if each of its tool calls is answered
\* once, in order and before anything else: so is every conversation that is sent,
\* whatever tools raise or time out, and each answer is the one of that call.
ConversationWhole ==
  \A s \in Streams : At(s, "asking") =>
    /\ ReportsAnswerTheirCall(s)
    /\ \A i \in DOMAIN messages[s] : LET m == messages[s][i] IN
         /\ m.role = "assistant" =>
              \A k \in DOMAIN m.calls :
                /\ i + k \in DOMAIN messages[s]
                /\ messages[s][i + k].role = "tool"
                /\ messages[s][i + k].call = [round |-> m.round, index |-> m.calls[k]]
         /\ m.role = "tool" =>
              \E h \in 1..(i - 1) : /\ messages[s][h].role = "assistant"
                                    /\ i - h \in DOMAIN messages[s][h].calls

\* The pool works only for somebody who waits: an analysis in the queue has its
\* stream waiting for it, and one that is given up keeps a thread only if it ran
\* before.  So the queue is never longer than the streams and what they cancelled.
QueueIsAwaited ==
  /\ TypeOK
  /\ \A j \in Jobs : job[j].state = "queued" =>
       /\ j = Mine(j[1]) /\ stream[j[1]].at \in {"waiting", "expired"}
       /\ Cardinality({i \in DOMAIN queue : queue[i] = j}) = 1
  /\ \A w \in Workers : worker[w] # NoJob => job[worker[w]].state = "running"

\* Every stream ends although analyses may hang for ever and hold all threads.
EveryStreamEnds == \A s \in Streams : <>At(s, "ended")
=============================================================================
