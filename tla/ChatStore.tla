------------------------------ MODULE ChatStore ------------------------------
(***************************************************************************)
(* ChatSessionStore of chat/store.py: chat sessions in Redis, each a hash, *)
(* a list of messages and an entry of the user's sorted set.  A method is  *)
(* several commands without a transaction; request threads interleave at   *)
(* every command, a command may fail with or without having taken effect,  *)
(* and a thread may die between two of them.                               *)
(*                                                                         *)
(* call[t] is the method that thread t is in, at the command it is about   *)
(* to send.  There is one user; a list or sorted set command is atomic.    *)
(***************************************************************************)
EXTENDS Naturals, Sequences, FiniteSets

CONSTANTS
  Threads,   \* request threads, over all processes
  Sessions,  \* session ids uuid4 may draw
  Messages,  \* messages that may be added
  UserText,  \* those by the user with some text in them
  None       \* no message

ASSUME MessageAssumption == UserText \subseteq Messages /\ None \notin Messages
ASSUME SessionAssumption == IsFiniteSet(Sessions)

VARIABLES
  hash,      \* session -> the fields of its hash, see Hash
  messages,  \* session -> its list
  index,     \* the user's sorted set, most recent first
  call,      \* thread -> the method it is in, see Calls
  born,      \* ghost: sessions whose hash was ever created
  cut        \* ghost: sessions on which a create or delete was cut short, or
             \* deleted while somebody was writing to them

storeVars == <<hash, messages, index, call, born, cut>>

Titles == {"absent", "default", "summary", "custom"}
Hash == [title: Titles, created: BOOLEAN, updated: BOOLEAN,
         summary: UserText \union {None}]
NoHash == [title |-> "absent", created |-> FALSE, updated |-> FALSE, summary |-> None]
NewHash == [title |-> "default", created |-> TRUE, updated |-> TRUE, summary |-> None]

CreateSteps == {"create", "enlist"}
AddSteps == {"verify", "push", "reload", "scan", "summarise", "touch", "rank"}
RenameSteps == {"renVerify", "rename"}
DeleteSteps == {"delVerify", "delHash", "delList", "delIndex"}
Steps == {"idle"} \union CreateSteps \union AddSteps \union RenameSteps \union DeleteSteps

\* title, text: what _refresh_session_summary has read; result: of the last
\* method, "raised" for ChatStoreError, "unknown" for ValueError or False.
Calls == [at: Steps, sid: Sessions, msg: Messages \union {None}, title: Titles,
          text: UserText \union {None}, result: {"none", "ok", "raised", "unknown"}]

\* get_session: three fields make a session.
Live(s) == hash[s].title # "absent" /\ hash[s].created /\ hash[s].updated

\* _build_session_summary: the first message of the user with some text in it.
FirstText(list) ==
  LET found == {i \in 1..Len(list) : list[i] \in UserText}
  IN IF found = {} THEN None ELSE list[CHOOSE i \in found : \A j \in found : i <= j]

\* zrem: the id leaves the set.
Without(list, s) ==
  IF \A i \in 1..Len(list) : list[i] # s THEN list
  ELSE LET k == CHOOSE i \in 1..Len(list) : list[i] = s
       IN [i \in 1..(Len(list) - 1) |-> IF i < k THEN list[i] ELSE list[i + 1]]

\* Mutant of Promote: the rank of an id is only updated (zadd with XX).
PromoteKnown(s) == IF \E i \in 1..Len(index) : index[i] = s
                   THEN <<s>> \o Without(index, s) ELSE index

\* zadd: the id becomes, or stays, a member and the most recent one.
Promote(s) == <<s>> \o Without(index, s)

Free(s) == [at |-> "idle", sid |-> s, msg |-> None, title |-> "absent",
            text |-> None, result |-> "none"]

StoreInit ==
  /\ hash = [s \in Sessions |-> NoHash]
  /\ messages = [s \in Sessions |-> <<>>]
  /\ index = <<>>
  /\ \E s \in Sessions : call = [t \in Threads |-> Free(s)]
  /\ born = {}
  /\ cut = {}

-----------------------------------------------------------------------------
Sid(t) == call[t].sid
At(t, step) == call[t].at = step
Goto(t, step) == call' = [call EXCEPT ![t].at = step]
Return(t, result) == call' = [call EXCEPT ![t] = [Free(Sid(t)) EXCEPT !.result = result]]

\* A method is called.
Begin(t, step, s, m) ==
  /\ At(t, "idle")
  /\ call' = [call EXCEPT ![t] = [Free(s) EXCEPT !.at = step, !.msg = m]]
  /\ UNCHANGED <<hash, messages, index, born, cut>>

\* create_session draws an id nobody has.
BeginCreate(t, s) ==
  /\ s \notin born
  /\ \A u \in Threads : call[u].at # "idle" => Sid(u) # s
  /\ Begin(t, "create", s, None)

\* The other methods are for an id that a create has returned.
Known(s) == s \in born /\ \A u \in Threads : call[u].at \in CreateSteps => Sid(u) # s

BeginAdd(t, s, m) == Known(s) /\ Begin(t, "verify", s, m)
BeginRename(t, s) == Known(s) /\ Begin(t, "renVerify", s, None)
BeginDelete(t, s) == Known(s) /\ Begin(t, "delVerify", s, None)

\* Creates and deletes that stop after this command leave the rest undone.
Undone(t) ==
  cut' = IF call[t].at \in {"enlist", "delList", "delIndex"} THEN cut \union {Sid(t)} ELSE cut

\* The command raises RedisError and has not been carried out.
Raise(t) ==
  /\ call[t].at # "idle"
  /\ call[t].at # "scan"
  /\ Return(t, "raised")
  /\ Undone(t)
  /\ UNCHANGED <<hash, messages, index, born>>

\* What follows a write command: the next step, or, though it was carried out,
\* RedisError.  next = "idle" ends the method.
Then(t, next) ==
  \/ /\ IF next = "idle" THEN Return(t, "ok") ELSE Goto(t, next)
     /\ UNCHANGED cut
  \/ /\ Return(t, "raised")
     /\ cut' = IF next \in {"enlist", "delList", "delIndex"} THEN cut \union {Sid(t)} ELSE cut

-----------------------------------------------------------------------------
\* create_session
CreateHash(t) ==
  /\ At(t, "create")
  /\ hash' = [hash EXCEPT ![Sid(t)] = NewHash]
  /\ born' = born \union {Sid(t)}
  /\ Then(t, "enlist")
  /\ UNCHANGED <<messages, index>>

Enlist(t) ==
  /\ At(t, "enlist")
  /\ index' = Promote(Sid(t))
  /\ Then(t, "idle")
  /\ UNCHANGED <<hash, messages, born>>

\* The hgetall each method begins with: an empty hash is an unknown session.
Verify(t, step, next) ==
  /\ At(t, step)
  /\ IF hash[Sid(t)] = NoHash THEN Return(t, "unknown") ELSE Goto(t, next)
  /\ UNCHANGED <<hash, messages, index, born, cut>>

\* add_message
Push(t) ==
  /\ At(t, "push")
  /\ messages' = [messages EXCEPT ![Sid(t)] = Append(@, call[t].msg)]
  /\ Then(t, "reload")
  /\ UNCHANGED <<hash, index, born>>

\* _refresh_session_summary reads the hash, then the list (a failure of which
\* is an empty list), and writes what it made of them.
Reload(t) ==
  /\ At(t, "reload")
  /\ IF hash[Sid(t)] = NoHash
     THEN Return(t, "unknown")
     ELSE call' = [call EXCEPT ![t].at = "scan", ![t].title = hash[Sid(t)].title]
  /\ UNCHANGED <<hash, messages, index, born, cut>>

\* Mutant of Scan: the message just added is taken for the first.
ScanOwn(t) ==
  /\ At(t, "scan")
  /\ LET text == FirstText(<<call[t].msg>>) IN
       call' = [call EXCEPT ![t].at = IF text = None THEN "touch" ELSE "summarise",
                            ![t].text = text]
  /\ UNCHANGED <<hash, messages, index, born, cut>>

Scan(t) ==
  /\ At(t, "scan")
  /\ \E text \in UserText \union {None} :
       /\ text # None => text = FirstText(messages[Sid(t)])
       /\ call' = [call EXCEPT ![t].at = IF text = None THEN "touch" ELSE "summarise",
                               ![t].text = text]
  /\ UNCHANGED <<hash, messages, index, born, cut>>

Summarise(t) ==
  /\ At(t, "summarise")
  /\ hash' = [hash EXCEPT
       ![Sid(t)].summary = call[t].text,
       ![Sid(t)].title = IF call[t].title \in {"absent", "default"} THEN "summary" ELSE @]
  /\ Then(t, "touch")
  /\ UNCHANGED <<messages, index, born>>

\* Mutant of Touch: the whole hash is written, not its one field.
TouchWhole(t) ==
  /\ At(t, "touch")
  /\ hash' = [hash EXCEPT ![Sid(t)] = [NewHash EXCEPT !.summary = call[t].text]]
  /\ Then(t, "rank")
  /\ UNCHANGED <<messages, index, born>>

\* _touch_session
Touch(t) ==
  /\ At(t, "touch")
  /\ hash' = [hash EXCEPT ![Sid(t)].updated = TRUE]
  /\ Then(t, "rank")
  /\ UNCHANGED <<messages, index, born>>

Rank(t) ==
  /\ At(t, "rank")
  /\ index' = Promote(Sid(t))
  /\ Then(t, "idle")
  /\ UNCHANGED <<hash, messages, born>>

\* update_session_title, then _touch_session
Rename(t) ==
  /\ At(t, "rename")
  /\ hash' = [hash EXCEPT ![Sid(t)].title = "custom"]
  /\ Then(t, "touch")
  /\ UNCHANGED <<messages, index, born>>

\* delete_session.  Ghost: others in the middle of writing to the session.
Writing(s) == \E u \in Threads : Sid(u) = s /\ call[u].at \in
                {"push", "reload", "scan", "summarise", "touch", "rank", "rename"}

DelHash(t) ==
  /\ At(t, "delHash")
  /\ hash' = [hash EXCEPT ![Sid(t)] = NoHash]
  /\ \E failed \in BOOLEAN :
       /\ IF failed THEN Return(t, "raised") ELSE Goto(t, "delList")
       /\ cut' = IF failed \/ Writing(Sid(t)) THEN cut \union {Sid(t)} ELSE cut
  /\ UNCHANGED <<messages, index, born>>

\* Mutant of DelList: the list is forgotten.
DelListSkipped(t) ==
  /\ At(t, "delList")
  /\ Then(t, "delIndex")
  /\ UNCHANGED <<hash, messages, index, born>>

DelList(t) ==
  /\ At(t, "delList")
  /\ messages' = [messages EXCEPT ![Sid(t)] = <<>>]
  /\ Then(t, "delIndex")
  /\ UNCHANGED <<hash, index, born>>

DelIndex(t) ==
  /\ At(t, "delIndex")
  /\ index' = Without(index, Sid(t))
  /\ Then(t, "idle")
  /\ UNCHANGED <<hash, messages, born>>

\* The thread's process dies.
Die(t) ==
  /\ call[t].at # "idle"
  /\ Return(t, "none")
  /\ Undone(t)
  /\ UNCHANGED <<hash, messages, index, born>>

\* The command of the method that thread t is in.
Command(t) ==
  \/ CreateHash(t) \/ Enlist(t)
  \/ Verify(t, "verify", "push") \/ Push(t) \/ Reload(t) \/ Scan(t) \/ Summarise(t)
  \/ Touch(t) \/ Rank(t)
  \/ Verify(t, "renVerify", "rename") \/ Rename(t)
  \/ Verify(t, "delVerify", "delHash") \/ DelHash(t) \/ DelList(t) \/ DelIndex(t)
  \/ Raise(t)

\* Bound: a message is in one place at a time.
Placed(m) == \/ \E s \in Sessions, i \in 1..Cardinality(Messages) :
                  i \in DOMAIN messages[s] /\ messages[s][i] = m
             \/ \E t \in Threads : call[t].msg = m

Client(t) ==
  \E s \in Sessions :
    \/ BeginCreate(t, s) \/ BeginRename(t, s) \/ BeginDelete(t, s)
    \/ \E m \in Messages : ~Placed(m) /\ BeginAdd(t, s, m)

StoreNext == \E t \in Threads : Client(t) \/ Command(t) \/ Die(t)

StoreSpec == StoreInit /\ [][StoreNext]_storeVars

-----------------------------------------------------------------------------
(***************************************************************************)
(* Properties.                                                             *)
(***************************************************************************)

\* Redis and every thread have the shape the code gives them, and the index is
\* a set of ids.
StoreTypeOK ==
  /\ hash \in [Sessions -> Hash]
  /\ messages \in [Sessions -> Seq(Messages)]
  /\ index \in Seq(Sessions)
  /\ \A i, j \in DOMAIN index : index[i] = index[j] => i = j
  /\ call \in [Threads -> Calls]
  /\ born \in SUBSET Sessions
  /\ cut \in SUBSET Sessions

\* What callers see through get_session and get_messages is a chat log: no
\* interleaving, failure or crash brings a deleted session back, shows a message
\* out of order or loses one.
Status(s) == IF Live(s) THEN "live" ELSE IF s \in born THEN "deleted" ELSE "absent"
Log == INSTANCE ChatLog WITH status <- [s \in Sessions |-> Status(s)],
                             log <- [s \in Sessions |-> IF Live(s) THEN messages[s] ELSE <<>>]
ImplementsLog == Log!Spec

\* list_sessions, by rank: those of the first limit ids of the index that are sessions.
Listed(limit) == {i \in DOMAIN index : i <= limit /\ Live(index[i])}

\* A session is on its user's list as soon as it was created and until it is
\* deleted, once, unless its creation was cut short: it cannot be opened or
\* deleted from the page otherwise.
LiveIsListed ==
  \A s \in Sessions :
    Live(s) => \/ Cardinality({i \in Listed(Cardinality(Sessions)) : index[i] = s}) = 1
               \/ s \in cut
               \/ \E t \in Threads : At(t, "enlist") /\ Sid(t) = s

\* The summary that a session shows is the first text the user wrote in it, and
\* stays that, whichever of several messages summarised it last.
SummaryIsFirstText ==
  \A s \in Sessions :
    Live(s) /\ hash[s].summary # None => hash[s].summary = FirstText(messages[s])

\* A deleted session leaves nothing behind in Redis, unless the delete was cut
\* short or raced with somebody writing to the session.
DeletedLeavesNothing ==
  \A s \in born :
    ~Live(s) => \/ /\ hash[s] = NoHash
                   /\ messages[s] = <<>>
                   /\ \A i \in DOMAIN index : index[i] # s
                \/ s \in cut
                \/ \E t \in Threads : Sid(t) = s /\ call[t].at \in {"delList", "delIndex"}
=============================================================================
