------------------------------- MODULE ChatTurn -------------------------------
(***************************************************************************)
(* The message endpoint of chat/router.py over the store of ChatStore: a   *)
(* request thread stores the user's message, reads the history, runs the   *)
(* agent and streams its answer, and stores what it streamed when the      *)
(* stream ends, is left by the client or fails.  Other requests create and *)
(* delete sessions meanwhile, and others ask in the same session.          *)
(*                                                                         *)
(* The agent is whatever yields pieces of text and then stops: its loop    *)
(* keeps no state between requests.                                        *)
(***************************************************************************)
EXTENDS ChatStore

CONSTANTS
  Questions,  \* messages users send
  MaxPieces,  \* bound on the pieces of text an agent streams
  Askers      \* threads whose requests post questions; the others create and
              \* delete sessions (bound)

ASSUME TurnAssumption ==
  /\ MaxPieces \in Nat
  /\ Askers \subseteq Threads
  \* A message is a question or an answer, told apart by role and id.
  /\ Messages = [role: {"user"}, asked: Questions, size: {0}]
                \union [role: {"assistant"}, asked: Questions, size: 1..MaxPieces]
  /\ UserText \subseteq [role: {"user"}, asked: Questions, size: {0}]

VARIABLES
  turn,   \* thread -> its send_chat_message request, see Turns
  posted, \* questions sent so far
  shown   \* ghost: question -> [pieces: sent to the client, left: the client left]

vars == <<storeVars, turn, posted, shown>>

\* kept: length of content_parts
Turns == [at: {"none", "check", "adding", "history", "stream", "yielded", "saving"},
          asked: Questions \union {None}, seen: SUBSET Questions, kept: 0..MaxPieces]

NoTurn == [at |-> "none", asked |-> None, seen |-> {}, kept |-> 0]
Question(q) == [role |-> "user", asked |-> q, size |-> 0]
Answer(q, n) == [role |-> "assistant", asked |-> q, size |-> n]

Init ==
  /\ StoreInit
  /\ turn = [t \in Threads |-> NoTurn]
  /\ posted = {}
  /\ shown = [q \in Questions |-> [pieces |-> 0, left |-> FALSE]]

InTurn(t, at) == turn[t].at = at
Asked(t) == turn[t].asked

\* A question is sent to a session the client knows.
Post(t, s, q) ==
  /\ t \in Askers
  /\ InTurn(t, "none") /\ At(t, "idle")
  /\ Known(s)
  /\ q \notin posted
  /\ posted' = posted \union {q}
  /\ turn' = [turn EXCEPT ![t] = [NoTurn EXCEPT !.at = "check", !.asked = q]]
  /\ call' = [call EXCEPT ![t] = Free(s)]
  /\ UNCHANGED <<hash, messages, index, born, cut, shown>>

\* get_session: 404 if there is none or Redis fails, else add_message is called.
Check(t) ==
  /\ InTurn(t, "check")
  /\ UNCHANGED <<posted, shown>>
  /\ \/ /\ Live(Sid(t))
        /\ Begin(t, "verify", Sid(t), Question(Asked(t)))
        /\ turn' = [turn EXCEPT ![t].at = "adding"]
     \/ /\ turn' = [turn EXCEPT ![t] = NoTurn]
        /\ UNCHANGED storeVars

\* What add_message returned is read, and its thread goes on.
Read(t) ==
  /\ At(t, "idle")
  /\ call' = [call EXCEPT ![t] = Free(Sid(t))]
  /\ UNCHANGED <<hash, messages, index, born, cut, posted, shown>>

\* Mutant of Added: an error of add_message is only logged, as after the stream.
AddedAnyway(t) ==
  /\ InTurn(t, "adding")
  /\ turn' = [turn EXCEPT ![t].at = "history"]
  /\ Read(t)

\* add_message has returned: 503 or 404, or on to the history.
Added(t) ==
  /\ InTurn(t, "adding")
  /\ turn' = [turn EXCEPT ![t] = IF call[t].result = "ok" THEN [@ EXCEPT !.at = "history"]
                                 ELSE NoTurn]
  /\ Read(t)

\* The questions in a list of messages.
Asking(list) == {list[i].asked : i \in {j \in DOMAIN list : list[j].role = "user"}}

\* Mutant of History: the agent gets the latest message only.
HistoryLast(t) ==
  /\ InTurn(t, "history")
  /\ LET list == messages[Sid(t)] IN
       turn' = [turn EXCEPT ![t].at = "stream",
                  ![t].seen = Asking(IF list = <<>> THEN <<>> ELSE <<list[Len(list)]>>)]
  /\ UNCHANGED <<storeVars, posted, shown>>

\* get_messages, an empty list if Redis fails; the agent is started with it.
History(t) ==
  /\ InTurn(t, "history")
  /\ \E seen \in {Asking(messages[Sid(t)]), {}} :
       turn' = [turn EXCEPT ![t].at = "stream", ![t].seen = seen]
  /\ UNCHANGED <<storeVars, posted, shown>>

\* The agent yields a piece, which goes to the client.
Yield(t) ==
  /\ InTurn(t, "stream")
  /\ turn[t].kept < MaxPieces
  /\ turn' = [turn EXCEPT ![t].at = "yielded"]
  /\ shown' = [shown EXCEPT ![Asked(t)].pieces = @ + 1]
  /\ UNCHANGED <<storeVars, posted>>

\* The generator is resumed, and keeps the piece it has yielded.
Keep(t) ==
  /\ InTurn(t, "yielded")
  /\ turn' = [turn EXCEPT ![t].at = "stream", ![t].kept = @ + 1]
  /\ UNCHANGED <<storeVars, posted, shown>>

\* finally: add_message, or nothing if no text was kept.
Save(t) ==
  /\ IF turn[t].kept = 0
     THEN turn' = [turn EXCEPT ![t] = NoTurn] /\ UNCHANGED storeVars
     ELSE /\ Begin(t, "verify", Sid(t), Answer(Asked(t), turn[t].kept))
          /\ turn' = [turn EXCEPT ![t].at = "saving"]

\* The agent stops, after its done or error event.
End(t) ==
  /\ InTurn(t, "stream")
  /\ Save(t)
  /\ UNCHANGED <<posted, shown>>

\* Mutant of Leave: the piece is kept before it is yielded.
LeaveKept(t) ==
  /\ InTurn(t, "yielded")
  /\ shown' = [shown EXCEPT ![Asked(t)].left = TRUE]
  /\ Begin(t, "verify", Sid(t), Answer(Asked(t), turn[t].kept + 1))
  /\ turn' = [turn EXCEPT ![t].at = "saving"]
  /\ UNCHANGED posted

\* The client goes away: the generator is closed at the yield it is in.
Leave(t) ==
  /\ InTurn(t, "yielded")
  /\ shown' = [shown EXCEPT ![Asked(t)].left = TRUE]
  /\ Save(t)
  /\ UNCHANGED posted

\* Whatever add_message answers, the request is over.
Saved(t) ==
  /\ InTurn(t, "saving")
  /\ turn' = [turn EXCEPT ![t] = NoTurn]
  /\ Read(t)

\* Other requests: sessions are created and deleted.
Other(t) ==
  /\ t \notin Askers
  /\ \E s \in Sessions : BeginCreate(t, s) \/ BeginDelete(t, s)
  /\ UNCHANGED <<turn, posted, shown>>

Store(t) == Command(t) /\ UNCHANGED <<turn, posted, shown>>

\* The process of the thread dies, in a store method or outside.
Crash(t) ==
  /\ ~(InTurn(t, "none") /\ At(t, "idle"))
  /\ IF At(t, "idle") THEN UNCHANGED storeVars ELSE Die(t)
  /\ turn' = [turn EXCEPT ![t] = NoTurn]
  /\ UNCHANGED <<posted, shown>>

Next ==
  \E t \in Threads :
    \/ \E s \in Sessions, q \in Questions : Post(t, s, q)
    \/ Check(t) \/ Added(t) \/ History(t) \/ Yield(t) \/ Keep(t) \/ End(t) \/ Leave(t)
    \/ Saved(t) \/ Other(t) \/ Store(t) \/ Crash(t)

Spec == Init /\ [][Next]_vars

-----------------------------------------------------------------------------
(***************************************************************************)
(* Properties.                                                             *)
(***************************************************************************)

\* Every request and ghost has the shape the code gives it.
TypeOK ==
  /\ StoreTypeOK
  /\ turn \in [Threads -> Turns]
  /\ posted \in SUBSET Questions
  /\ shown \in [Questions -> [pieces: 0..MaxPieces, left: BOOLEAN]]

\* A session shows each question at most once and at most one answer to it, and
\* an answer only after its question, however turns, deletes and failures of
\* Redis interleave: the list is the history the agent gets.
AnswersFollowQuestions ==
  /\ TypeOK
  /\ \A s \in Sessions : Live(s) =>
    \A i \in DOMAIN messages[s] : LET m == messages[s][i] IN
      /\ \A j \in DOMAIN messages[s] :
           messages[s][j].role = m.role /\ messages[s][j].asked = m.asked => i = j
      /\ m.role = "assistant" => \E j \in 1..(i - 1) : messages[s][j] = Question(m.asked)

\* The agent is asked about a stored question: its history has that question and
\* all that were asked before it, unless Redis failed to give any.
AgentSeesQuestion ==
  \A t \in Threads : InTurn(t, "stream") /\ Live(Sid(t)) /\ turn[t].seen # {} =>
    /\ Asked(t) \in turn[t].seen
    /\ \E i \in DOMAIN messages[Sid(t)] :
         /\ messages[Sid(t)][i] = Question(Asked(t))
         /\ Asking(SubSeq(messages[Sid(t)], 1, i)) \subseteq turn[t].seen

\* A stored answer is what the client was sent, except for the piece it left at.
StoredIsShown ==
  \A s \in Sessions : Live(s) => \A i \in DOMAIN messages[s] :
    LET m == messages[s][i]  sent == shown[m.asked] IN
      m.role = "assistant" => m.size = sent.pieces - (IF sent.left THEN 1 ELSE 0)
=============================================================================
