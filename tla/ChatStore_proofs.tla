--------------------------- MODULE ChatStore_proofs ---------------------------
(***************************************************************************)
(* Proofs about ChatStore, for any number of threads, sessions and         *)
(* messages: its type invariant, what sessions in Redis look like, that    *)
(* callers see a chat log (ChatLog), that a summary is the first text,     *)
(* that a delete leaves nothing and that a session is on its user's list.  *)
(* Then proofs about ChatTurn, which uses it, for any number of questions  *)
(* and pieces of an answer as well: what a session shows of questions and  *)
(* answers, what the agent is asked about, and that a stored answer is     *)
(* what was streamed.  The proofs about ChatStore assume nothing of        *)
(* ChatTurn's constants.                                                   *)
(***************************************************************************)
EXTENDS ChatTurn, SequenceTheorems, FiniteSetTheorems, WellFoundedInduction, TLAPS

Distinct(list) == \A i, j \in DOMAIN list : list[i] = list[j] => i = j

\* zrem yields a set of ids again, without the one taken out.
LEMMA WithoutProperties ==
  ASSUME NEW list \in Seq(Sessions), NEW s, Distinct(list)
  PROVE  /\ Without(list, s) \in Seq(Sessions)
         /\ Distinct(Without(list, s))
         /\ \A i \in DOMAIN Without(list, s) : Without(list, s)[i] # s
<1>1. Len(list) \in Nat /\ DOMAIN list = 1..Len(list)
  BY LenProperties
<1>2. \A i \in 1..Len(list) : list[i] \in Sessions
  BY ElementOfSeq
<1>3. CASE \A i \in 1..Len(list) : list[i] # s
  <2>1. Without(list, s) = list
    BY <1>3 DEF Without
  <2> QED
    BY <1>1, <1>3, <2>1
<1>4. CASE ~ \A i \in 1..Len(list) : list[i] # s
  <2> DEFINE k == CHOOSE i \in 1..Len(list) : list[i] = s
             w == [i \in 1..(Len(list) - 1) |-> IF i < k THEN list[i] ELSE list[i + 1]]
  <2>1. Without(list, s) = w
    BY <1>4 DEF Without
  <2>2. k \in 1..Len(list) /\ list[k] = s
    BY <1>4
  <2> HIDE DEF k
  <2>3. \A i \in 1..(Len(list) - 1) : i \in 1..Len(list) /\ i + 1 \in 1..Len(list)
    BY <1>1
  <2>4. w \in [1..(Len(list) - 1) -> Sessions]
    BY <1>2, <2>3
  <2>5. w \in Seq(Sessions)
    <3>1. Len(list) - 1 \in Nat
      BY <1>1, <2>2
    <3> QED
      BY <2>4, <3>1, IsASeq
  <2>6. Distinct(w)
    <3>1. SUFFICES ASSUME NEW i \in 1..(Len(list) - 1), NEW j \in 1..(Len(list) - 1),
                          w[i] = w[j]
                   PROVE  i = j
      BY DEF Distinct
    <3>2. \A a, b \in 1..Len(list) : list[a] = list[b] => a = b
      BY <1>1 DEF Distinct
    <3>3. (IF i < k THEN i ELSE i + 1) = (IF j < k THEN j ELSE j + 1)
      BY <2>3, <3>1, <3>2
    <3> QED
      BY <1>1, <2>2, <3>3
  <2>7. \A i \in DOMAIN w : w[i] # s
    <3>1. SUFFICES ASSUME NEW i \in 1..(Len(list) - 1), w[i] = s
                   PROVE  FALSE
      OBVIOUS
    <3>2. \A a, b \in 1..Len(list) : list[a] = list[b] => a = b
      BY <1>1 DEF Distinct
    <3>3. k = IF i < k THEN i ELSE i + 1
      BY <2>2, <2>3, <3>1, <3>2
    <3> QED
      BY <1>1, <2>2, <3>3
  <2> QED
    BY <2>1, <2>5, <2>6, <2>7
<1> QED
  BY <1>3, <1>4

\* zadd yields a set of ids again.
LEMMA PromoteProperties ==
  ASSUME NEW s \in Sessions, index \in Seq(Sessions), Distinct(index)
  PROVE  Promote(s) \in Seq(Sessions) /\ Distinct(Promote(s))
<1> DEFINE w == Without(index, s)
<1>1. w \in Seq(Sessions) /\ Distinct(w) /\ \A i \in DOMAIN w : w[i] # s
  BY WithoutProperties
<1> HIDE DEF w
<1>2. Len(w) \in Nat /\ DOMAIN w = 1..Len(w)
  BY <1>1, LenProperties
<1>3. <<s>> \in Seq(Sessions) /\ Len(<<s>>) = 1 /\ <<s>>[1] = s
  OBVIOUS
<1>4. /\ <<s>> \o w \in Seq(Sessions)
      /\ Len(<<s>> \o w) = 1 + Len(w)
      /\ \A i \in 1..(1 + Len(w)) : (<<s>> \o w)[i] = IF i <= 1 THEN <<s>>[i] ELSE w[i - 1]
  BY <1>1, <1>3, ConcatProperties
<1>5. DOMAIN (<<s>> \o w) = 1..(1 + Len(w))
  BY <1>4, LenProperties
<1>6. Distinct(<<s>> \o w)
  <2>1. SUFFICES ASSUME NEW i \in 1..(1 + Len(w)), NEW j \in 1..(1 + Len(w)),
                        (<<s>> \o w)[i] = (<<s>> \o w)[j]
                 PROVE  i = j
    BY <1>5 DEF Distinct
  <2>2. \A a \in 1..(1 + Len(w)) : a > 1 => a - 1 \in DOMAIN w
    BY <1>2
  <2>3. \A a \in 1..(1 + Len(w)) : (<<s>> \o w)[a] = IF a <= 1 THEN s ELSE w[a - 1]
    BY <1>2, <1>3, <1>4
  <2>4. \A a, b \in DOMAIN w : w[a] = w[b] => a = b
    BY <1>1 DEF Distinct
  <2>5. CASE i <= 1 /\ j <= 1
    BY <1>2, <2>5
  <2>6. CASE i > 1 /\ j > 1
    <3>1. w[i - 1] = w[j - 1]
      BY <1>2, <2>1, <2>3, <2>6
    <3>2. i - 1 = j - 1
      BY <2>2, <2>4, <2>6, <3>1
    <3> QED
      BY <1>2, <3>2
  <2>7. CASE i <= 1 /\ j > 1
    BY <1>1, <1>2, <2>1, <2>2, <2>3, <2>7
  <2>8. CASE i > 1 /\ j <= 1
    BY <1>1, <1>2, <2>1, <2>2, <2>3, <2>8
  <2> QED
    BY <1>2, <2>5, <2>6, <2>7, <2>8
<1> QED
  BY <1>4, <1>6 DEF Promote, w

-----------------------------------------------------------------------------
\* What a session's hash and a method that is under way say about each other.
HashInv ==
  \A s \in Sessions :
    /\ s \notin born => hash[s] = NoHash /\ messages[s] = <<>>
    /\ hash[s].created => hash[s].title # "absent" /\ hash[s].updated

CallInv ==
  \A t \in Threads :
    /\ call[t].at \notin {"idle", "create"} => Sid(t) \in born
    /\ call[t].at = "create" =>
         /\ Sid(t) \notin born
         /\ \A u \in Threads : u # t /\ call[u].at # "idle" => Sid(u) # Sid(t)
    /\ call[t].at \in {"verify", "push"} => call[t].msg \in Messages
    /\ call[t].at = "delList" => ~hash[Sid(t)].created

Inv == StoreTypeOK /\ HashInv /\ CallInv

LEMMA InitInv == StoreInit => Inv
<1> SUFFICES ASSUME StoreInit PROVE Inv
  OBVIOUS
<1> USE DEF StoreInit
<1>1. PICK s \in Sessions : call = [t \in Threads |-> Free(s)]
  OBVIOUS
<1>2. Free(s) \in Calls
  BY DEF Free, Calls, Steps, Titles
<1>3. StoreTypeOK
  <2>1. hash \in [Sessions -> Hash]
    BY DEF NoHash, Hash, Titles
  <2>2. messages \in [Sessions -> Seq(Messages)]
    BY EmptySeq
  <2>3. index \in Seq(Sessions) /\ \A i, j \in DOMAIN index : index[i] = index[j] => i = j
    BY EmptySeq
  <2> QED
    BY <1>1, <1>2, <2>1, <2>2, <2>3 DEF StoreTypeOK
<1>4. HashInv
  BY DEF HashInv, NoHash
<1>5. CallInv
  BY <1>1 DEF CallInv, Free, Sid
<1> QED
  BY <1>3, <1>4, <1>5 DEF Inv

\* What Begin, Goto and Return put into call[t] is a call.
LEMMA CallTypes ==
  ASSUME StoreTypeOK, NEW t \in Threads
  PROVE  /\ call[t] \in Calls
         /\ Sid(t) \in Sessions
         /\ \A s \in Sessions, r \in {"none", "ok", "raised", "unknown"} :
              [Free(s) EXCEPT !.result = r] \in Calls
         /\ \A s \in Sessions, m \in Messages \union {None}, step \in Steps :
              [Free(s) EXCEPT !.at = step, !.msg = m] \in Calls
         /\ \A step \in Steps : [call[t] EXCEPT !.at = step] \in Calls
  BY DEF StoreTypeOK, Calls, Sid, Free, Titles, Steps, CreateSteps, AddSteps, RenameSteps, DeleteSteps

\* The ways call[t] changes.
Moves(t, step) ==
  /\ call' \in [Threads -> Calls]
  /\ \A u \in Threads : u # t => call'[u] = call[u]
  /\ call'[t].at = step
  /\ call'[t].sid = Sid(t)
  /\ call'[t].msg \in {call[t].msg, None}
  /\ step # "idle" => call'[t] = [call[t] EXCEPT !.at = step]

LEMMA GotoMoves ==
  ASSUME StoreTypeOK, NEW t \in Threads, NEW step \in Steps, Goto(t, step)
  PROVE  Moves(t, step)
<1>1. call \in [Threads -> Calls] /\ call[t] \in Calls
  BY DEF StoreTypeOK
<1>2. [call[t] EXCEPT !.at = step] \in Calls
  BY CallTypes
<1>3. call' = [call EXCEPT ![t] = [call[t] EXCEPT !.at = step]]
  BY <1>1 DEF Goto
<1>4. call'[t] = [call[t] EXCEPT !.at = step] /\ \A u \in Threads : u # t => call'[u] = call[u]
  BY <1>1, <1>3
<1>5. call' \in [Threads -> Calls]
  BY <1>1, <1>2, <1>3
<1> QED
  BY <1>1, <1>4, <1>5 DEF Moves, Sid, Calls

LEMMA ReturnMoves ==
  ASSUME StoreTypeOK, NEW t \in Threads,
         NEW r \in {"none", "ok", "raised", "unknown"}, Return(t, r)
  PROVE  Moves(t, "idle")
<1>1. call \in [Threads -> Calls] /\ call[t] \in Calls
  BY DEF StoreTypeOK
<1>2. [Free(Sid(t)) EXCEPT !.result = r] \in Calls
  BY CallTypes
<1>3. call' = [call EXCEPT ![t] = [Free(Sid(t)) EXCEPT !.result = r]]
  BY DEF Return
<1>4. /\ call'[t] = [Free(Sid(t)) EXCEPT !.result = r]
      /\ \A u \in Threads : u # t => call'[u] = call[u]
  BY <1>1, <1>3
<1>5. call' \in [Threads -> Calls]
  BY <1>1, <1>2, <1>3
<1> QED
  BY <1>4, <1>5 DEF Moves, Free

LEMMA ThenMoves ==
  ASSUME StoreTypeOK, NEW t \in Threads, NEW next \in Steps, Then(t, next)
  PROVE  (Moves(t, next) \/ Moves(t, "idle")) /\ cut' \in SUBSET Sessions
<1>1. Sid(t) \in Sessions /\ cut \in SUBSET Sessions
  BY CallTypes DEF StoreTypeOK
<1>2. cut' \in SUBSET Sessions
  BY <1>1 DEF Then
<1>3. (\E r \in {"none", "ok", "raised", "unknown"} : Return(t, r)) \/ Goto(t, next)
  BY DEF Then
<1> QED
  BY <1>2, <1>3, GotoMoves, ReturnMoves

\* A method that begins.
Begins(t, step, s, m) ==
  /\ call[t].at = "idle"
  /\ call' \in [Threads -> Calls]
  /\ \A u \in Threads : u # t => call'[u] = call[u]
  /\ call'[t].at = step /\ call'[t].sid = s /\ call'[t].msg = m

LEMMA BeginBegins ==
  ASSUME StoreTypeOK, NEW t \in Threads, NEW step \in Steps, NEW s \in Sessions,
         NEW m \in Messages \union {None}, Begin(t, step, s, m)
  PROVE  Begins(t, step, s, m)
<1> DEFINE c == [Free(s) EXCEPT !.at = step, !.msg = m]
<1>1. call \in [Threads -> Calls]
  BY DEF StoreTypeOK
<1>2. c \in Calls
  BY CallTypes
<1>3. c.at = step /\ c.sid = s /\ c.msg = m
  BY DEF Free
<1>4. call[t].at = "idle" /\ call' = [call EXCEPT ![t] = c]
  BY DEF Begin, At
<1> HIDE DEF c
<1>5. call' \in [Threads -> Calls]
  BY <1>1, <1>2, <1>4
<1>6. call'[t] = c /\ \A u \in Threads : u # t => call'[u] = call[u]
  BY <1>1, <1>4
<1> QED
  BY <1>3, <1>4, <1>5, <1>6 DEF Begins

\* Every step keeps the types.
LEMMA TypeStep ==
  ASSUME Inv, NEW t \in Threads, Client(t) \/ Command(t) \/ Die(t)
  PROVE  StoreTypeOK'
<1> DEFINE Goal == StoreTypeOK'
<1>0. StoreTypeOK /\ CallInv
  BY DEF Inv
<1> USE <1>0 DEF Steps, CreateSteps, AddSteps, RenameSteps, DeleteSteps
<1>a. /\ call[t] \in Calls /\ Sid(t) \in Sessions
      /\ hash \in [Sessions -> Hash] /\ messages \in [Sessions -> Seq(Messages)]
      /\ index \in Seq(Sessions) /\ Distinct(index)
      /\ born \in SUBSET Sessions /\ cut \in SUBSET Sessions
  BY CallTypes DEF StoreTypeOK, Distinct
<1>b. ASSUME hash' \in [Sessions -> Hash], messages' \in [Sessions -> Seq(Messages)],
             index' \in Seq(Sessions) /\ Distinct(index)', call' \in [Threads -> Calls],
             born' \in SUBSET Sessions, cut' \in SUBSET Sessions
      PROVE  Goal
  BY <1>b DEF StoreTypeOK, Distinct
<1>c. Promote(Sid(t)) \in Seq(Sessions) /\ Distinct(Promote(Sid(t)))
  BY <1>a, PromoteProperties
<1>d. Without(index, Sid(t)) \in Seq(Sessions) /\ Distinct(Without(index, Sid(t)))
  BY <1>a, WithoutProperties
<1>1. ASSUME Client(t)
      PROVE  Goal
  <2>1. PICK s \in Sessions : \/ BeginCreate(t, s) \/ BeginRename(t, s) \/ BeginDelete(t, s)
                              \/ \E m \in Messages : BeginAdd(t, s, m)
    BY <1>1 DEF Client
  <2>2. PICK next \in Steps, m \in Messages \union {None} : Begin(t, next, s, m)
    BY <2>1 DEF BeginCreate, BeginRename, BeginDelete, BeginAdd
  <2>3. Begins(t, next, s, m)
    BY <2>2, BeginBegins
  <2> QED
    BY <1>a, <1>b, <2>2, <2>3 DEF Begin, Begins, Distinct
<1>2. ASSUME CreateHash(t)
      PROVE  Goal
  <2>1. call' \in [Threads -> Calls] /\ cut' \in SUBSET Sessions
    BY <1>2, ThenMoves DEF CreateHash, Moves
  <2>2. hash' \in [Sessions -> Hash]
    BY <1>a, <1>2 DEF CreateHash, Hash, NewHash, NoHash, Titles, Calls
  <2> QED
    BY <1>a, <1>b, <1>2, <2>1, <2>2 DEF CreateHash, Distinct
<1>3. ASSUME Enlist(t)
      PROVE  Goal
  <2>1. call' \in [Threads -> Calls] /\ cut' \in SUBSET Sessions
    BY <1>3, ThenMoves DEF Enlist, Moves
  <2> QED
    BY <1>a, <1>b, <1>3, <2>1, <1>c DEF Enlist, Distinct
<1>4. ASSUME Verify(t, "verify", "push")
      PROVE  Goal
  <2>1. call' \in [Threads -> Calls]
    BY <1>4, GotoMoves, ReturnMoves DEF Verify, Moves
  <2> QED
    BY <1>a, <1>b, <1>4, <2>1 DEF Verify, Distinct
<1>5. ASSUME Verify(t, "renVerify", "rename")
      PROVE  Goal
  <2>1. call' \in [Threads -> Calls]
    BY <1>5, GotoMoves, ReturnMoves DEF Verify, Moves
  <2> QED
    BY <1>a, <1>b, <1>5, <2>1 DEF Verify, Distinct
<1>6. ASSUME Verify(t, "delVerify", "delHash")
      PROVE  Goal
  <2>1. call' \in [Threads -> Calls]
    BY <1>6, GotoMoves, ReturnMoves DEF Verify, Moves
  <2> QED
    BY <1>a, <1>b, <1>6, <2>1 DEF Verify, Distinct
<1>7. ASSUME Push(t)
      PROVE  Goal
  <2>1. call' \in [Threads -> Calls] /\ cut' \in SUBSET Sessions
    BY <1>7, ThenMoves DEF Push, Moves
  <2>2. messages' \in [Sessions -> Seq(Messages)]
    <3>0. call[t].msg \in Messages
      BY <1>7 DEF Push, At, CallInv
    <3>1. Append(messages[Sid(t)], call[t].msg) \in Seq(Messages)
      BY <1>a, <3>0, AppendProperties
    <3>2. messages' = [messages EXCEPT ![Sid(t)] = Append(messages[Sid(t)], call[t].msg)]
      BY <1>7 DEF Push
    <3> QED
      BY <1>a, <3>1, <3>2
  <2> QED
    BY <1>a, <1>b, <1>7, <2>1, <2>2 DEF Push, Distinct
<1>8. ASSUME Reload(t)
      PROVE  Goal
  <2>1. call' \in [Threads -> Calls]
    <3>1. CASE hash[Sid(t)] = NoHash
      BY <1>8, <3>1, ReturnMoves DEF Reload, Moves
    <3>2. CASE hash[Sid(t)] # NoHash
      <4>1. call' = [call EXCEPT ![t] = [call[t] EXCEPT !.at = "scan",
                                                        !.title = hash[Sid(t)].title]]
        BY <1>8, <3>2 DEF Reload, StoreTypeOK
      <4>2. [call[t] EXCEPT !.at = "scan", !.title = hash[Sid(t)].title] \in Calls
        BY <1>a DEF Calls, Hash
      <4> QED
        BY <4>1, <4>2 DEF StoreTypeOK
    <3> QED
      BY <3>1, <3>2
  <2> QED
    BY <1>a, <1>b, <1>8, <2>1 DEF Reload, Distinct
<1>9. ASSUME Scan(t)
      PROVE  Goal
  <2>1. PICK text \in UserText \union {None} :
          call' = [call EXCEPT ![t].at = IF text = None THEN "touch" ELSE "summarise",
                               ![t].text = text]
    BY <1>9 DEF Scan
  <2>2. call' = [call EXCEPT ![t] = [call[t] EXCEPT !.at = IF text = None THEN "touch"
                                                           ELSE "summarise",
                                                    !.text = text]]
    BY <2>1 DEF StoreTypeOK
  <2>3. [call[t] EXCEPT !.at = IF text = None THEN "touch" ELSE "summarise",
                        !.text = text] \in Calls
    BY <1>a DEF Calls
  <2>4. call' \in [Threads -> Calls]
    BY <2>2, <2>3 DEF StoreTypeOK
  <2> QED
    BY <1>a, <1>b, <1>9, <2>4 DEF Scan, Distinct
<1>10. ASSUME Summarise(t)
      PROVE  Goal
  <2>1. call' \in [Threads -> Calls] /\ cut' \in SUBSET Sessions
    BY <1>10, ThenMoves DEF Summarise, Moves
  <2>2. hash' \in [Sessions -> Hash]
    <3> DEFINE title == IF call[t].title \in {"absent", "default"} THEN "summary"
                        ELSE hash[Sid(t)].title
               new == [hash[Sid(t)] EXCEPT !.summary = call[t].text, !.title = title]
    <3>1. hash' = [hash EXCEPT ![Sid(t)] = new]
      BY <1>a, <1>10 DEF Summarise
    <3>2. hash[Sid(t)] \in Hash /\ call[t].text \in UserText \union {None}
      BY <1>a DEF Calls
    <3>3. new \in Hash
      BY <3>2 DEF Hash, Titles
    <3> QED
      BY <1>a, <3>1, <3>3
  <2> QED
    BY <1>a, <1>b, <1>10, <2>1, <2>2 DEF Summarise, Distinct
<1>11. ASSUME Touch(t)
      PROVE  Goal
  <2>1. call' \in [Threads -> Calls] /\ cut' \in SUBSET Sessions
    BY <1>11, ThenMoves DEF Touch, Moves
  <2>2. hash' \in [Sessions -> Hash]
    BY <1>a, <1>11 DEF Touch, Hash, NewHash, NoHash, Titles, Calls
  <2> QED
    BY <1>a, <1>b, <1>11, <2>1, <2>2 DEF Touch, Distinct
<1>12. ASSUME Rank(t)
      PROVE  Goal
  <2>1. call' \in [Threads -> Calls] /\ cut' \in SUBSET Sessions
    BY <1>12, ThenMoves DEF Rank, Moves
  <2> QED
    BY <1>a, <1>b, <1>12, <2>1, <1>c DEF Rank, Distinct
<1>13. ASSUME Rename(t)
      PROVE  Goal
  <2>1. call' \in [Threads -> Calls] /\ cut' \in SUBSET Sessions
    BY <1>13, ThenMoves DEF Rename, Moves
  <2>2. hash' \in [Sessions -> Hash]
    BY <1>a, <1>13 DEF Rename, Hash, NewHash, NoHash, Titles, Calls
  <2> QED
    BY <1>a, <1>b, <1>13, <2>1, <2>2 DEF Rename, Distinct
<1>14. ASSUME DelHash(t)
      PROVE  Goal
  <2>1. call' \in [Threads -> Calls] /\ cut' \in SUBSET Sessions
    BY <1>a, <1>14, GotoMoves, ReturnMoves DEF DelHash, Moves
  <2>2. hash' \in [Sessions -> Hash]
    BY <1>a, <1>14 DEF DelHash, Hash, NewHash, NoHash, Titles, Calls
  <2> QED
    BY <1>a, <1>b, <1>14, <2>1, <2>2 DEF DelHash, Distinct
<1>15. ASSUME DelList(t)
      PROVE  Goal
  <2>1. call' \in [Threads -> Calls] /\ cut' \in SUBSET Sessions
    BY <1>15, ThenMoves DEF DelList, Moves
  <2>2. messages' \in [Sessions -> Seq(Messages)]
    BY <1>a, <1>15, EmptySeq DEF DelList
  <2> QED
    BY <1>a, <1>b, <1>15, <2>1, <2>2 DEF DelList, Distinct
<1>16. ASSUME DelIndex(t)
      PROVE  Goal
  <2>1. call' \in [Threads -> Calls] /\ cut' \in SUBSET Sessions
    BY <1>16, ThenMoves DEF DelIndex, Moves
  <2> QED
    BY <1>a, <1>b, <1>16, <2>1, <1>d DEF DelIndex, Distinct
<1>17. ASSUME Raise(t) \/ Die(t)
      PROVE  Goal
  <2>1. call' \in [Threads -> Calls] /\ cut' \in SUBSET Sessions
    BY <1>a, <1>17, ReturnMoves DEF Raise, Die, Undone, Moves
  <2> QED
    BY <1>a, <1>b, <1>17, <2>1 DEF Raise, Die, Distinct
<1>18. QED
  BY <1>1, <1>2, <1>3, <1>4, <1>5, <1>6, <1>7, <1>8, <1>9, <1>10, <1>11, <1>12, <1>13, <1>14, <1>15, <1>16, <1>17 DEF Command

\* Every step keeps the hashes as create_session and delete_session left them.
LEMMA HashStep ==
  ASSUME Inv, NEW t \in Threads, Client(t) \/ Command(t) \/ Die(t)
  PROVE  HashInv'
<1>a. /\ Sid(t) \in Sessions /\ cut \in SUBSET Sessions
      /\ hash \in [Sessions -> Hash] /\ messages \in [Sessions -> Seq(Messages)]
      /\ hash[Sid(t)] \in Hash
      /\ call[t].at \notin {"idle", "create"} => Sid(t) \in born
  BY CallTypes DEF Inv, StoreTypeOK, CallInv
<1>b. /\ HashInv
      /\ \A s \in Sessions : /\ s \notin born => hash[s] = NoHash /\ messages[s] = <<>>
                             /\ hash[s].created => hash[s].title # "absent" /\ hash[s].updated
  BY DEF Inv, HashInv
<1>1. CASE UNCHANGED <<hash, messages, born>>
  BY <1>b, <1>1 DEF HashInv
<1>2. ASSUME CreateHash(t)
      PROVE  HashInv'
  BY <1>a, <1>b, <1>2 DEF CreateHash, HashInv, NewHash
<1>3. ASSUME Push(t)
      PROVE  HashInv'
  <2>1. Sid(t) \in born /\ UNCHANGED <<hash, born>>
    BY <1>a, <1>3 DEF Push, At
  <2>2. \A s \in Sessions : s # Sid(t) => messages'[s] = messages[s]
    BY <1>a, <1>3 DEF Push
  <2> QED
    BY <1>b, <2>1, <2>2 DEF HashInv
<1>4. ASSUME Summarise(t)
      PROVE  HashInv'
  <2> DEFINE title == IF call[t].title \in {"absent", "default"} THEN "summary"
                      ELSE hash[Sid(t)].title
             h == [hash[Sid(t)] EXCEPT !.summary = call[t].text, !.title = title]
  <2>1. Sid(t) \in born /\ UNCHANGED <<messages, born>>
    BY <1>a, <1>4 DEF Summarise, At
  <2>2. hash' = [hash EXCEPT ![Sid(t)] = h]
    BY <1>a, <1>4 DEF Summarise
  <2>3. h.created => h.title # "absent" /\ h.updated
    BY <1>a, <1>b DEF Hash
  <2>4. hash'[Sid(t)] = h /\ \A s \in Sessions : s # Sid(t) => hash'[s] = hash[s]
    BY <1>a, <2>2
  <2> HIDE DEF h
  <2> QED
    BY <1>b, <2>1, <2>3, <2>4 DEF HashInv
<1>5. ASSUME Touch(t)
      PROVE  HashInv'
  <2>1. Sid(t) \in born /\ UNCHANGED <<messages, born>>
    BY <1>a, <1>5 DEF Touch, At
  <2> QED
    BY <1>a, <1>b, <1>5, <2>1 DEF Touch, HashInv, Hash
<1>6. ASSUME Rename(t)
      PROVE  HashInv'
  <2>1. Sid(t) \in born /\ UNCHANGED <<messages, born>>
    BY <1>a, <1>6 DEF Rename, At
  <2> QED
    BY <1>a, <1>b, <1>6, <2>1 DEF Rename, HashInv, Hash
<1>7. ASSUME DelHash(t)
      PROVE  HashInv'
  BY <1>a, <1>b, <1>7 DEF DelHash, HashInv, NoHash
<1>8. ASSUME DelList(t)
      PROVE  HashInv'
  BY <1>a, <1>b, <1>8 DEF DelList, HashInv
<1>9. ASSUME Client(t)
      PROVE  UNCHANGED <<hash, messages, born>>
  BY <1>9 DEF Client, BeginCreate, BeginRename, BeginDelete, BeginAdd, Begin
<1>10. ASSUME \/ Enlist(t) \/ Verify(t, "verify", "push") \/ Reload(t) \/ Scan(t) \/ Rank(t)
              \/ Verify(t, "renVerify", "rename") \/ Verify(t, "delVerify", "delHash")
              \/ DelIndex(t) \/ Raise(t) \/ Die(t)
       PROVE  UNCHANGED <<hash, messages, born>>
  BY <1>10 DEF Enlist, Verify, Reload, Scan, Rank, DelIndex, Raise, Die
<1> QED
  BY <1>1, <1>2, <1>3, <1>4, <1>5, <1>6, <1>7, <1>8, <1>9, <1>10 DEF Command

\* A method that goes on to another step, or ends, leaves the calls consistent.
LEMMA MovesKeeps ==
  ASSUME Inv, NEW t \in Threads, NEW step \in Steps, Moves(t, step),
         call[t].at # "idle", step \notin {"create", "verify"},
         call[t].at = "create" /\ step # "idle" => Sid(t) \in born',
         born \subseteq born',
         \A s \in Sessions : s \in born' /\ s \notin born => s = Sid(t),
         \A s \in Sessions : hash'[s].created => hash[s].created \/ s \notin born,
         step = "push" => call[t].at = "verify",
         step = "delList" => ~hash'[Sid(t)].created
  PROVE  CallInv'
<1>a. CallInv /\ \A u \in Threads : Sid(u) \in Sessions
  BY CallTypes DEF Inv
<1>b. /\ \A u \in Threads : u # t => call'[u] = call[u]
      /\ call'[t].at = step /\ call'[t].sid = Sid(t)
      /\ step # "idle" => call'[t].msg = call[t].msg
  BY CallTypes DEF Moves, Calls, Inv
<1>c. \A u \in Threads : call'[u].sid = call[u].sid
  BY <1>b DEF Sid
<1> SUFFICES ASSUME NEW u \in Threads
             PROVE  /\ call'[u].at \notin {"idle", "create"} => call[u].sid \in born'
                    /\ call'[u].at = "create" =>
                         /\ call[u].sid \notin born'
                         /\ \A v \in Threads :
                              v # u /\ call'[v].at # "idle" => call[v].sid # call[u].sid
                    /\ call'[u].at \in {"verify", "push"} => call'[u].msg \in Messages
                    /\ call'[u].at = "delList" => ~hash'[call[u].sid].created
  BY <1>c DEF CallInv, Sid
<1>1. CASE u = t
  <2>1. call'[u].at \notin {"idle", "create"} => call[u].sid \in born'
    BY <1>a, <1>b, <1>1 DEF CallInv, Sid
  <2>2. call'[u].at # "create" /\ call'[u].at # "verify"
    BY <1>b, <1>1
  <2>3. call'[u].at = "push" => call'[u].msg \in Messages
    BY <1>a, <1>b, <1>1 DEF CallInv
  <2>4. call'[u].at = "delList" => ~hash'[call[u].sid].created
    BY <1>b, <1>1 DEF Sid
  <2> QED
    BY <2>1, <2>2, <2>3, <2>4
<1>2. CASE u # t
  <2>0. call'[u] = call[u]
    BY <1>b, <1>2
  <2>1. call'[u].at \notin {"idle", "create"} => call[u].sid \in born'
    BY <1>a, <2>0 DEF CallInv, Sid
  <2>2. ASSUME call'[u].at = "create"
        PROVE  /\ call[u].sid \notin born'
               /\ \A v \in Threads : v # u /\ call'[v].at # "idle" => call[v].sid # call[u].sid
    <3>1. /\ call[u].sid \notin born
          /\ \A v \in Threads : v # u /\ call[v].at # "idle" => call[v].sid # call[u].sid
      BY <1>a, <2>0, <2>2 DEF CallInv, Sid
    <3>2. call[u].sid # Sid(t)
      BY <1>2, <3>1 DEF Sid
    <3>3. call[u].sid \notin born'
      BY <1>a, <3>1, <3>2 DEF Sid
    <3>4. \A v \in Threads : v # u /\ call'[v].at # "idle" => call[v].at # "idle"
      BY <1>b
    <3> QED
      BY <3>1, <3>3, <3>4
  <2>3. call'[u].at \in {"verify", "push"} => call'[u].msg \in Messages
    BY <1>a, <2>0 DEF CallInv
  <2>4. ASSUME call'[u].at = "delList"
        PROVE  ~hash'[call[u].sid].created
    <3>1. call[u].sid \in born /\ ~hash[call[u].sid].created /\ call[u].sid \in Sessions
      BY <1>a, <2>0, <2>4 DEF CallInv, Sid
    <3> QED
      BY <3>1
  <2> QED
    BY <2>1, <2>2, <2>3, <2>4
<1> QED
  BY <1>1, <1>2

\* So does one that reads on in add_message.
LEMMA OnwardKeeps ==
  ASSUME Inv, NEW t \in Threads, call[t].at \notin {"idle", "create"},
         \A u \in Threads : u # t => call'[u] = call[u],
         call'[t].at \in {"scan", "summarise", "touch"}, call'[t].sid = call[t].sid,
         UNCHANGED <<hash, born>>
  PROVE  CallInv'
<1>1. CallInv
  BY DEF Inv
<1>2. \A u \in Threads : call'[u].sid = call[u].sid
  OBVIOUS
<1>3. \A u \in Threads : call'[u].at # "idle" => call[u].at # "idle"
  OBVIOUS
<1>4. \A u \in Threads : call'[u].at \in {"create", "verify", "push", "delList"} => u # t
  OBVIOUS
<1> QED
  BY <1>1, <1>2, <1>3, <1>4 DEF CallInv, Sid

\* Every step keeps the calls consistent with the hashes.
LEMMA CallStep ==
  ASSUME Inv, NEW t \in Threads, Client(t) \/ Command(t) \/ Die(t)
  PROVE  CallInv'
<1> USE DEF Steps, CreateSteps, AddSteps, RenameSteps, DeleteSteps
<1>a. /\ StoreTypeOK /\ HashInv /\ CallInv
      /\ Sid(t) \in Sessions /\ hash \in [Sessions -> Hash]
      /\ call \in [Threads -> Calls] /\ call[t] \in Calls
  BY CallTypes DEF Inv, StoreTypeOK
<1>1. ASSUME Client(t)
      PROVE  CallInv'
  <2>1. PICK s \in Sessions : \/ BeginCreate(t, s) \/ BeginRename(t, s) \/ BeginDelete(t, s)
                              \/ \E m \in Messages : BeginAdd(t, s, m)
    BY <1>1 DEF Client
  <2>2. PICK step \in {"create", "verify", "renVerify", "delVerify"},
             m \in Messages \union {None} :
          /\ Begin(t, step, s, m)
          /\ step = "verify" => m \in Messages
          /\ IF step = "create"
             THEN /\ s \notin born
                  /\ \A u \in Threads : call[u].at # "idle" => call[u].sid # s
             ELSE s \in born
    BY <2>1 DEF BeginCreate, BeginRename, BeginDelete, BeginAdd, Known, Sid
  <2>3. Begins(t, step, s, m) /\ UNCHANGED <<hash, born>>
    BY <1>a, <2>2, BeginBegins DEF Begin
  <2>4. \A u \in Threads : u # t => call'[u] = call[u]
    BY <2>3 DEF Begins
  <2>5. call'[t].at = step /\ call'[t].sid = s /\ call'[t].msg = m
    BY <2>3 DEF Begins
  <2>6. \A u \in Threads : u # t /\ call[u].at = "create" => call[u].sid \notin born
    BY <1>a DEF CallInv, Sid
  <2> SUFFICES ASSUME NEW u \in Threads
               PROVE  /\ call'[u].at \notin {"idle", "create"} => call'[u].sid \in born
                      /\ call'[u].at = "create" =>
                           /\ call'[u].sid \notin born
                           /\ \A v \in Threads :
                                v # u /\ call'[v].at # "idle" => call'[v].sid # call'[u].sid
                      /\ call'[u].at \in {"verify", "push"} => call'[u].msg \in Messages
                      /\ call'[u].at = "delList" => ~hash[call'[u].sid].created
    BY <2>3 DEF CallInv, Sid
  <2>7. CASE u = t
    BY <2>2, <2>4, <2>5, <2>7
  <2>8. CASE u # t
    <3>1. call'[u] = call[u]
      BY <2>4, <2>8
    <3>2. ASSUME call[u].at = "create"
          PROVE  \A v \in Threads : v # u /\ call'[v].at # "idle" => call'[v].sid # call[u].sid
      <4>1. SUFFICES ASSUME NEW v \in Threads, v # u, call'[v].at # "idle"
                     PROVE  call'[v].sid # call[u].sid
        OBVIOUS
      <4>2. CASE v = t
        BY <2>2, <2>5, <2>6, <2>8, <3>2, <4>2
      <4>3. CASE v # t
        BY <1>a, <2>4, <3>2, <4>1, <4>3 DEF CallInv, Sid
      <4> QED
        BY <4>2, <4>3
    <3> QED
      BY <1>a, <3>1, <3>2 DEF CallInv, Sid
  <2> QED
    BY <2>7, <2>8
<1>2. ASSUME CreateHash(t)
      PROVE  CallInv'
  <2>1. Moves(t, "enlist") \/ Moves(t, "idle")
    BY <1>a, <1>2, ThenMoves DEF CreateHash
  <2>2. /\ born' = born \union {Sid(t)}
        /\ \A s \in Sessions : s # Sid(t) => hash'[s].created = hash[s].created
    BY <1>a, <1>2 DEF CreateHash, Hash, NewHash
  <2>3. Sid(t) \notin born
    BY <1>a, <1>2 DEF CreateHash, At, CallInv
  <2> QED
    BY <1>2, <2>1, <2>2, <2>3, MovesKeeps DEF CreateHash, At
<1>3. ASSUME Enlist(t)
      PROVE  CallInv'
  <2>1. Moves(t, "idle")
    BY <1>a, <1>3, ThenMoves DEF Enlist
  <2>2. born' = born /\ \A s \in Sessions : hash'[s].created = hash[s].created
    BY <1>a, <1>3 DEF Enlist
  <2> QED
    BY <1>3, <2>1, <2>2, MovesKeeps DEF Enlist, At
<1>4. ASSUME Verify(t, "verify", "push")
      PROVE  CallInv'
  <2>1. Moves(t, "push") \/ Moves(t, "idle")
    BY <1>a, <1>4, GotoMoves, ReturnMoves DEF Verify
  <2> QED
    BY <1>4, <2>1, MovesKeeps DEF Verify, At
<1>5. ASSUME Verify(t, "renVerify", "rename")
      PROVE  CallInv'
  <2>1. Moves(t, "rename") \/ Moves(t, "idle")
    BY <1>a, <1>5, GotoMoves, ReturnMoves DEF Verify
  <2> QED
    BY <1>5, <2>1, MovesKeeps DEF Verify, At
<1>6. ASSUME Verify(t, "delVerify", "delHash")
      PROVE  CallInv'
  <2>1. Moves(t, "delHash") \/ Moves(t, "idle")
    BY <1>a, <1>6, GotoMoves, ReturnMoves DEF Verify
  <2> QED
    BY <1>6, <2>1, MovesKeeps DEF Verify, At
<1>7. ASSUME Push(t)
      PROVE  CallInv'
  <2>1. Moves(t, "reload") \/ Moves(t, "idle")
    BY <1>a, <1>7, ThenMoves DEF Push
  <2>2. born' = born /\ \A s \in Sessions : hash'[s].created = hash[s].created
    BY <1>a, <1>7 DEF Push
  <2> QED
    BY <1>7, <2>1, <2>2, MovesKeeps DEF Push, At
<1>8. ASSUME Reload(t)
      PROVE  CallInv'
  <2>0. call[t].at = "reload" /\ UNCHANGED <<hash, born>>
    BY <1>8 DEF Reload, At
  <2>1. CASE hash[Sid(t)] = NoHash
    <3>1. Moves(t, "idle")
      BY <1>a, <1>8, <2>1, ReturnMoves DEF Reload
    <3> QED
      BY <2>0, <3>1, MovesKeeps
  <2>2. CASE hash[Sid(t)] # NoHash
    <3>1. call' = [call EXCEPT ![t] = [call[t] EXCEPT !.at = "scan",
                                                      !.title = hash[Sid(t)].title]]
      BY <1>a, <1>8, <2>2 DEF Reload
    <3> QED
      BY <1>a, <2>0, <3>1, OnwardKeeps
  <2> QED
    BY <2>1, <2>2
<1>9. ASSUME Scan(t)
      PROVE  CallInv'
  <2>0. call[t].at = "scan" /\ UNCHANGED <<hash, born>>
    BY <1>9 DEF Scan, At
  <2>1. PICK text \in UserText \union {None} :
          call' = [call EXCEPT ![t].at = IF text = None THEN "touch" ELSE "summarise",
                               ![t].text = text]
    BY <1>9 DEF Scan
  <2>2. call' = [call EXCEPT ![t] = [call[t] EXCEPT !.at = IF text = None THEN "touch"
                                                           ELSE "summarise",
                                                    !.text = text]]
    BY <1>a, <2>1
  <2> QED
    BY <1>a, <2>0, <2>2, OnwardKeeps
<1>10. ASSUME Summarise(t)
      PROVE  CallInv'
  <2>1. Moves(t, "touch") \/ Moves(t, "idle")
    BY <1>a, <1>10, ThenMoves DEF Summarise
  <2>2. born' = born /\ \A s \in Sessions : hash'[s].created = hash[s].created
    BY <1>a, <1>10 DEF Summarise, Hash, NewHash
  <2> QED
    BY <1>10, <2>1, <2>2, MovesKeeps DEF Summarise, At
<1>11. ASSUME Touch(t)
      PROVE  CallInv'
  <2>1. Moves(t, "rank") \/ Moves(t, "idle")
    BY <1>a, <1>11, ThenMoves DEF Touch
  <2>2. born' = born /\ \A s \in Sessions : hash'[s].created = hash[s].created
    BY <1>a, <1>11 DEF Touch, Hash, NewHash
  <2> QED
    BY <1>11, <2>1, <2>2, MovesKeeps DEF Touch, At
<1>12. ASSUME Rank(t)
      PROVE  CallInv'
  <2>1. Moves(t, "idle")
    BY <1>a, <1>12, ThenMoves DEF Rank
  <2>2. born' = born /\ \A s \in Sessions : hash'[s].created = hash[s].created
    BY <1>a, <1>12 DEF Rank
  <2> QED
    BY <1>12, <2>1, <2>2, MovesKeeps DEF Rank, At
<1>13. ASSUME Rename(t)
      PROVE  CallInv'
  <2>1. Moves(t, "touch") \/ Moves(t, "idle")
    BY <1>a, <1>13, ThenMoves DEF Rename
  <2>2. born' = born /\ \A s \in Sessions : hash'[s].created = hash[s].created
    BY <1>a, <1>13 DEF Rename, Hash, NewHash
  <2> QED
    BY <1>13, <2>1, <2>2, MovesKeeps DEF Rename, At
<1>14. ASSUME DelHash(t)
      PROVE  CallInv'
  <2>1. Moves(t, "delList") \/ Moves(t, "idle")
    BY <1>a, <1>14, GotoMoves, ReturnMoves DEF DelHash
  <2>2. /\ born' = born /\ ~hash'[Sid(t)].created
        /\ \A s \in Sessions : s # Sid(t) => hash'[s] = hash[s]
    BY <1>a, <1>14 DEF DelHash, NoHash
  <2> QED
    BY <1>14, <2>1, <2>2, MovesKeeps DEF DelHash, At
<1>15. ASSUME DelList(t)
      PROVE  CallInv'
  <2>1. Moves(t, "delIndex") \/ Moves(t, "idle")
    BY <1>a, <1>15, ThenMoves DEF DelList
  <2>2. born' = born /\ \A s \in Sessions : hash'[s].created = hash[s].created
    BY <1>a, <1>15 DEF DelList
  <2> QED
    BY <1>15, <2>1, <2>2, MovesKeeps DEF DelList, At
<1>16. ASSUME DelIndex(t)
      PROVE  CallInv'
  <2>1. Moves(t, "idle")
    BY <1>a, <1>16, ThenMoves DEF DelIndex
  <2>2. born' = born /\ \A s \in Sessions : hash'[s].created = hash[s].created
    BY <1>a, <1>16 DEF DelIndex
  <2> QED
    BY <1>16, <2>1, <2>2, MovesKeeps DEF DelIndex, At
<1>17. ASSUME Raise(t) \/ Die(t)
      PROVE  CallInv'
  <2>1. Moves(t, "idle") /\ call[t].at # "idle" /\ UNCHANGED <<hash, born>>
    BY <1>a, <1>17, ReturnMoves DEF Raise, Die
  <2> QED
    BY <2>1, MovesKeeps
<1> QED
  BY <1>1, <1>2, <1>3, <1>4, <1>5, <1>6, <1>7, <1>8, <1>9, <1>10, <1>11, <1>12, <1>13, <1>14, <1>15, <1>16, <1>17 DEF Command

\* The inductive step, for every thread and for a step that changes nothing.
LEMMA InvStep == Inv /\ [StoreNext]_storeVars => Inv'
<1> SUFFICES ASSUME Inv, [StoreNext]_storeVars PROVE Inv'
  OBVIOUS
<1>1. CASE UNCHANGED storeVars
  BY <1>1 DEF storeVars, Inv, StoreTypeOK, HashInv, CallInv, Sid
<1>2. CASE StoreNext
  <2>1. PICK t \in Threads : Client(t) \/ Command(t) \/ Die(t)
    BY <1>2 DEF StoreNext
  <2>2. StoreTypeOK'
    BY <2>1, TypeStep
  <2>3. HashInv'
    BY <2>1, HashStep
  <2>4. CallInv'
    BY <2>1, CallStep
  <2> QED
    BY <2>2, <2>3, <2>4 DEF Inv
<1> QED
  BY <1>1, <1>2

\* A hash that says when it was created has a title, a reader of the list finds
\* it whole; the id of a create is nobody else's; and a delete that has got past
\* the hash finds it gone for good.
THEOREM StoreInvariant == StoreSpec => []Inv
<1>1. StoreInit => Inv
  BY InitInv
<1>2. Inv /\ [StoreNext]_storeVars => Inv'
  BY InvStep
<1> QED
  BY <1>1, <1>2, PTL DEF StoreSpec

\* Redis and every thread keep the shape the code gives them, however methods
\* interleave, fail or die, and the user's index never holds an id twice.
THEOREM StoreTypeCorrect == StoreSpec => []StoreTypeOK
<1>1. Inv => StoreTypeOK
  BY DEF Inv
<1> QED
  BY <1>1, StoreInvariant, PTL

-----------------------------------------------------------------------------
\* What callers see: the state of ChatLog under the refinement mapping.
Statuses == [s \in Sessions |-> Status(s)]
Contents == [s \in Sessions |-> IF Live(s) THEN messages[s] ELSE <<>>]

\* A session is live from its first hash to its delete.
LEMMA LiveCreated ==
  ASSUME Inv, Inv'
  PROVE  /\ \A s \in Sessions : Live(s) <=> hash[s].created
         /\ \A s \in Sessions : Live(s)' <=> hash'[s].created
  BY DEF Inv, HashInv, Live

\* A step that creates and deletes no session and changes no live list shows
\* nothing.
LEMMA Unseen ==
  ASSUME Inv, Inv', born' = born,
         \A s \in Sessions : hash'[s].created <=> hash[s].created,
         \A s \in Sessions : hash[s].created => messages'[s] = messages[s]
  PROVE  UNCHANGED <<Statuses, Contents>>
<1>1. \A s \in Sessions : Live(s)' <=> Live(s)
  BY LiveCreated
<1>2. \A s \in Sessions : Status(s)' = Status(s)
  BY <1>1 DEF Status
<1>3. \A s \in Sessions : Live(s) => messages'[s] = messages[s]
  BY LiveCreated
<1> QED
  BY <1>1, <1>2, <1>3 DEF Statuses, Contents

\* create_session: the session appears, empty.
LEMMA CreateShows ==
  ASSUME Inv, Inv', NEW t \in Threads, NEW s0 \in Sessions, s0 = Sid(t), CreateHash(t)
  PROVE  /\ Statuses[s0] = "absent"
         /\ Statuses' = [Statuses EXCEPT ![s0] = "live"] /\ Contents' = Contents
<1>1. hash \in [Sessions -> Hash]
  BY DEF Inv, StoreTypeOK
<1>2. s0 \notin born /\ hash[s0] = NoHash /\ messages[s0] = <<>>
  BY <1>1 DEF Inv, CallInv, HashInv, CreateHash, At
<1>3. /\ hash'[s0].created
      /\ \A s \in Sessions : s # s0 => hash'[s] = hash[s]
      /\ messages' = messages /\ born' = born \union {s0}
  BY <1>1 DEF CreateHash, NewHash
<1>4. ~Live(s0) /\ Live(s0)' /\ \A s \in Sessions : s # s0 => Live(s)' = Live(s)
  BY <1>1, <1>2, <1>3, LiveCreated DEF NoHash, Live
<1>5. Status(s0) = "absent" /\ Status(s0)' = "live"
  BY <1>2, <1>4 DEF Status
<1>6. \A s \in Sessions : s # s0 => Status(s)' = Status(s)
  BY <1>3, <1>4 DEF Status
<1>7. Statuses' = [Statuses EXCEPT ![s0] = "live"]
  BY <1>1, <1>5, <1>6 DEF Statuses
<1>8. Contents' = Contents
  BY <1>1, <1>2, <1>3, <1>4 DEF Contents
<1> QED
  BY <1>1, <1>5, <1>7, <1>8 DEF Statuses

\* delete_session: the session goes, with its messages, at its first write.
LEMMA DeleteShows ==
  ASSUME Inv, Inv', NEW t \in Threads, NEW s0 \in Sessions, s0 = Sid(t),
         DelHash(t), Live(s0)
  PROVE  /\ Statuses[s0] = "live"
         /\ Statuses' = [Statuses EXCEPT ![s0] = "deleted"]
         /\ Contents' = [Contents EXCEPT ![s0] = <<>>]
<1>1. hash \in [Sessions -> Hash]
  BY DEF Inv, StoreTypeOK
<1>2. s0 \in born
  BY <1>1 DEF Inv, CallInv, DelHash, At
<1>3. /\ ~hash'[s0].created
      /\ \A s \in Sessions : s # s0 => hash'[s] = hash[s]
      /\ messages' = messages /\ born' = born
  BY <1>1 DEF DelHash, NoHash
<1>4. ~Live(s0)' /\ \A s \in Sessions : s # s0 => Live(s)' = Live(s)
  BY <1>1, <1>3, LiveCreated DEF Live
<1>5. Status(s0) = "live" /\ Status(s0)' = "deleted"
  BY <1>2, <1>3, <1>4 DEF Status
<1>6. \A s \in Sessions : s # s0 => Status(s)' = Status(s)
  BY <1>3, <1>4 DEF Status
<1>7. Statuses' = [Statuses EXCEPT ![s0] = "deleted"]
  BY <1>1, <1>5, <1>6 DEF Statuses
<1>8. Contents' = [Contents EXCEPT ![s0] = <<>>]
  BY <1>1, <1>3, <1>4 DEF Contents
<1> QED
  BY <1>1, <1>5, <1>7, <1>8 DEF Statuses

\* add_message: the message appears at the end of its session.
LEMMA PushShows ==
  ASSUME Inv, Inv', NEW t \in Threads, NEW s0 \in Sessions, s0 = Sid(t), Push(t), Live(s0)
  PROVE  /\ Statuses[s0] = "live" /\ call[t].msg \in Messages
         /\ Contents' = [Contents EXCEPT ![s0] = Append(Contents[s0], call[t].msg)]
         /\ Statuses' = Statuses
<1>1. messages \in [Sessions -> Seq(Messages)]
  BY DEF Inv, StoreTypeOK
<1>2. call[t].msg \in Messages
  BY DEF Inv, CallInv, Push, At
<1>3. /\ hash' = hash /\ born' = born
      /\ messages'[s0] = Append(messages[s0], call[t].msg)
      /\ \A s \in Sessions : s # s0 => messages'[s] = messages[s]
  BY <1>1 DEF Push
<1>4. \A s \in Sessions : Live(s)' = Live(s) /\ Status(s)' = Status(s)
  BY <1>3 DEF Live, Status
<1>5. Statuses' = Statuses
  BY <1>4 DEF Statuses
<1>6. Contents' = [Contents EXCEPT ![s0] = Append(Contents[s0], call[t].msg)]
  BY <1>1, <1>3, <1>4 DEF Contents
<1> QED
  BY <1>1, <1>2, <1>5, <1>6 DEF Statuses, Status

\* Every other step shows nothing.
LEMMA RestUnseen ==
  ASSUME Inv, Inv', NEW t \in Threads, Client(t) \/ Command(t) \/ Die(t),
         ~CreateHash(t), Push(t) \/ DelHash(t) => ~Live(Sid(t))
  PROVE  UNCHANGED <<Statuses, Contents>>
<1>a. /\ Sid(t) \in Sessions /\ hash \in [Sessions -> Hash]
      /\ messages \in [Sessions -> Seq(Messages)]
      /\ \A s \in Sessions : Live(s) <=> hash[s].created
  BY CallTypes, LiveCreated DEF Inv, StoreTypeOK
<1>1. CASE UNCHANGED <<hash, messages, born>>
  BY <1>1, Unseen
<1>2. ASSUME Push(t) \/ DelList(t)
      PROVE  UNCHANGED <<Statuses, Contents>>
  <2>1. ~hash[Sid(t)].created
    BY <1>a, <1>2 DEF DelList, At, Inv, CallInv
  <2>2. /\ hash' = hash /\ born' = born
        /\ \A s \in Sessions : s # Sid(t) => messages'[s] = messages[s]
    BY <1>a, <1>2 DEF Push, DelList
  <2> QED
    BY <2>1, <2>2, Unseen
<1>3. ASSUME DelHash(t)
      PROVE  UNCHANGED <<Statuses, Contents>>
  <2>1. ~hash[Sid(t)].created
    BY <1>a, <1>3
  <2>2. /\ messages' = messages /\ born' = born /\ ~hash'[Sid(t)].created
        /\ \A s \in Sessions : s # Sid(t) => hash'[s] = hash[s]
    BY <1>a, <1>3 DEF DelHash, NoHash
  <2> QED
    BY <2>1, <2>2, Unseen
<1>4. ASSUME Summarise(t) \/ Touch(t) \/ Rename(t)
      PROVE  UNCHANGED <<Statuses, Contents>>
  <2>1. messages' = messages /\ born' = born
    BY <1>4 DEF Summarise, Touch, Rename
  <2>2. CASE Summarise(t)
    <3> DEFINE title == IF call[t].title \in {"absent", "default"} THEN "summary"
                        ELSE hash[Sid(t)].title
               h == [hash[Sid(t)] EXCEPT !.summary = call[t].text, !.title = title]
    <3>1. hash' = [hash EXCEPT ![Sid(t)] = h]
      BY <1>a, <2>2 DEF Summarise
    <3>2. h.created = hash[Sid(t)].created
      BY <1>a DEF Hash
    <3> HIDE DEF h
    <3>3. \A s \in Sessions : hash'[s].created = hash[s].created
      BY <1>a, <3>1, <3>2
    <3> QED
      BY <2>1, <3>3, Unseen
  <2>3. CASE Touch(t) \/ Rename(t)
    <3>1. \/ hash' = [hash EXCEPT ![Sid(t)] = [hash[Sid(t)] EXCEPT !.updated = TRUE]]
          \/ hash' = [hash EXCEPT ![Sid(t)] = [hash[Sid(t)] EXCEPT !.title = "custom"]]
      BY <1>a, <2>3 DEF Touch, Rename
    <3>2. /\ [hash[Sid(t)] EXCEPT !.updated = TRUE].created = hash[Sid(t)].created
          /\ [hash[Sid(t)] EXCEPT !.title = "custom"].created = hash[Sid(t)].created
      BY <1>a DEF Hash
    <3>3. \A s \in Sessions : hash'[s].created = hash[s].created
      BY <1>a, <3>1, <3>2
    <3> QED
      BY <2>1, <3>3, Unseen
  <2> QED
    BY <1>4, <2>2, <2>3
<1>5. ASSUME Client(t)
      PROVE  UNCHANGED <<hash, messages, born>>
  BY <1>5 DEF Client, BeginCreate, BeginRename, BeginDelete, BeginAdd, Begin
<1>6. ASSUME \/ Enlist(t) \/ Verify(t, "verify", "push") \/ Reload(t) \/ Scan(t) \/ Rank(t)
             \/ Verify(t, "renVerify", "rename") \/ Verify(t, "delVerify", "delHash")
             \/ DelIndex(t) \/ Raise(t) \/ Die(t)
      PROVE  UNCHANGED <<hash, messages, born>>
  BY <1>6 DEF Enlist, Verify, Reload, Scan, Rank, DelIndex, Raise, Die
<1> QED
  BY <1>1, <1>2, <1>3, <1>4, <1>5, <1>6 DEF Command

\* Every step of the store is a step of the log, or none.
LEMMA LogStep == Inv /\ Inv' /\ [StoreNext]_storeVars => [Log!Next]_(Log!vars)
<1> SUFFICES ASSUME Inv, Inv', [StoreNext]_storeVars
             PROVE  [Log!Next]_(Log!vars)
  OBVIOUS
<1>a. Log!vars = <<Statuses, Contents>> /\ Log!vars' = <<Statuses, Contents>>'
  BY DEF Log!vars, Statuses, Contents
<1>1. CASE UNCHANGED storeVars
  BY <1>1 DEF storeVars, Log!vars, Status, Live
<1>2. CASE StoreNext
  <2>1. PICK t \in Threads : Client(t) \/ Command(t) \/ Die(t)
    BY <1>2 DEF StoreNext
  <2>2. PICK s \in Sessions : s = Sid(t)
    BY CallTypes DEF Inv
  <2>3. CASE CreateHash(t)
    <3>1. Log!Create(s)
      BY <2>2, <2>3, CreateShows DEF Log!Create, Statuses, Contents
    <3>2. Log!Next
      BY <3>1 DEF Log!Next
    <3> QED
      BY <3>2
  <2>4. CASE DelHash(t) /\ Live(s)
    <3>1. Log!Delete(s)
      BY <2>2, <2>4, DeleteShows DEF Log!Delete, Statuses, Contents
    <3>2. Log!Next
      BY <3>1 DEF Log!Next
    <3> QED
      BY <3>2
  <2>5. CASE Push(t) /\ Live(s)
    <3>1. PICK m \in Messages : m = call[t].msg
      BY <2>2, <2>5, PushShows
    <3>2. Log!Add(s, m)
      BY <2>2, <2>5, <3>1, PushShows DEF Log!Add, Statuses, Contents
    <3>3. Log!Next
      BY <3>2 DEF Log!Next
    <3> QED
      BY <3>3
  <2>6. CASE ~CreateHash(t) /\ (Push(t) \/ DelHash(t) => ~Live(s))
    BY <1>a, <2>1, <2>2, <2>6, RestUnseen
  <2> QED
    BY <2>3, <2>4, <2>5, <2>6
<1> QED
  BY <1>1, <1>2

\* The store implements the chat log: through any interleaving, failure and
\* crash, callers see each session appear once, grow at its end only, go once
\* and never come back.
THEOREM StoreImplementsLog == StoreSpec => ImplementsLog
<1>1. StoreInit => Log!Init
  <2> SUFFICES ASSUME StoreInit PROVE Log!Init
    OBVIOUS
  <2>1. \A s \in Sessions : Status(s) = "absent" /\ ~Live(s)
    BY DEF StoreInit, Status, Live, NoHash
  <2> QED
    BY <2>1 DEF Log!Init
<1>2. Inv /\ Inv' /\ [StoreNext]_storeVars => [Log!Next]_(Log!vars)
  BY LogStep
<1> QED
  BY <1>1, <1>2, StoreInvariant, PTL DEF StoreSpec, ImplementsLog, Log!Spec

-----------------------------------------------------------------------------
\* The least of a set of numbers.
LEMMA LeastExists ==
  ASSUME NEW T, T \subseteq Nat, T # {}
  PROVE  \E x \in T : \A y \in T : x <= y
<1>1. IsWellFoundedOn(OpToRel(<, Nat), Nat)
  BY NatLessThanWellFounded
<1>2. PICK x \in T : \A y \in T : ~ (<<y, x>> \in OpToRel(<, Nat))
  BY <1>1, WFMin
<1>3. \A y \in T : ~ (y < x)
  BY <1>2 DEF OpToRel
<1> QED
  BY <1>3

Found(list) == {i \in 1..Len(list) : list[i] \in UserText}
Least(found, k) == k \in found /\ \A j \in found : k <= j

\* _build_session_summary returns the text at the least index that has one.
LEMMA FirstTextIsLeast ==
  ASSUME NEW list, Len(list) \in Nat
  PROVE  /\ Found(list) = {} => FirstText(list) = None
         /\ \A k \in Found(list) : Least(Found(list), k) => FirstText(list) = list[k]
         /\ Found(list) # {} => \E k \in Found(list) : Least(Found(list), k)
<1> DEFINE found == Found(list)
           first == CHOOSE i \in found : \A j \in found : i <= j
<1>1. FirstText(list) = IF found = {} THEN None ELSE list[first]
  BY DEF FirstText, Found
<1>2. found \subseteq Nat
  BY DEF Found
<1>3. \A i, j \in found : i \in Nat /\ j \in Nat
  BY <1>2
<1> HIDE DEF found
<1>4. \A k \in found : Least(found, k) => first = k
  <2>1. SUFFICES ASSUME NEW k \in found, \A j \in found : k <= j
                 PROVE  first = k
    BY DEF Least
  <2>2. first \in found /\ \A j \in found : first <= j
    BY <2>1
  <2> HIDE DEF first
  <2> QED
    BY <1>3, <2>1, <2>2
<1>5. found # {} => \E k \in found : Least(found, k)
  BY <1>2, LeastExists DEF Least
<1> HIDE DEF first
<1>6. \A k \in found : Least(found, k) => FirstText(list) = list[k]
  BY <1>1, <1>4
<1>7. found = {} => FirstText(list) = None
  BY <1>1
<1> QED
  BY <1>5, <1>6, <1>7 DEF found

\* Once there is a first text, messages that follow do not change it.
LEMMA FirstTextStays ==
  ASSUME NEW list \in Seq(Messages), NEW m \in Messages, FirstText(list) # None
  PROVE  FirstText(Append(list, m)) = FirstText(list)
<1> DEFINE more == Append(list, m)
<1>1. /\ Len(list) \in Nat /\ Len(more) = Len(list) + 1
      /\ \A i \in 1..Len(list) : more[i] = list[i]
  BY LenProperties, AppendProperties
<1>2. Found(list) # {}
  BY <1>1, FirstTextIsLeast
<1>3. PICK k \in Found(list) : Least(Found(list), k)
  BY <1>1, <1>2, FirstTextIsLeast
<1>4. FirstText(list) = list[k] /\ k \in 1..Len(list) /\ list[k] \in UserText
  BY <1>1, <1>3, FirstTextIsLeast DEF Found
<1> HIDE DEF more
<1>5. k \in Found(more)
  BY <1>1, <1>4 DEF Found
<1>6. \A j \in Found(more) : k <= j
  <2>1. SUFFICES ASSUME NEW j \in 1..Len(more), more[j] \in UserText
                 PROVE  k <= j
    BY DEF Found
  <2>2. CASE j \in 1..Len(list)
    BY <1>1, <1>3, <2>1, <2>2 DEF Found, Least
  <2>3. CASE j \notin 1..Len(list)
    BY <1>1, <1>4, <2>3
  <2> QED
    BY <2>2, <2>3
<1>7. Len(more) \in Nat
  BY <1>1
<1>8. FirstText(more) = more[k]
  BY <1>5, <1>6, <1>7, FirstTextIsLeast DEF Least
<1> QED
  BY <1>1, <1>4, <1>8 DEF more

\* The summaries that sessions have, and that threads are about to give them.
SummaryInv ==
  /\ \A s \in Sessions : hash[s].created /\ hash[s].summary # None =>
       hash[s].summary = FirstText(messages[s])
  /\ \A t \in Threads : call[t].at = "summarise" /\ hash[Sid(t)].created =>
       call[t].text # None /\ call[t].text = FirstText(messages[Sid(t)])

\* A step that writes no summary and no text that is first keeps them.
LEMMA SummaryKept ==
  ASSUME Inv, Inv', SummaryInv,
         \A s \in Sessions : hash'[s].created => hash[s].created,
         \A s \in Sessions : hash'[s].created => hash'[s].summary = hash[s].summary,
         \A s \in Sessions : hash'[s].created /\ FirstText(messages[s]) # None =>
                               FirstText(messages'[s]) = FirstText(messages[s]),
         \A u \in Threads : call'[u].at = "summarise" =>
                              /\ call[u].at = "summarise" /\ call'[u].text = call[u].text
                              /\ call'[u].sid = call[u].sid
  PROVE  SummaryInv'
<1>1. \A u \in Threads : Sid(u) \in Sessions
  BY CallTypes DEF Inv
<1>2. ASSUME NEW s \in Sessions, hash'[s].created, hash'[s].summary # None
      PROVE  hash'[s].summary = FirstText(messages'[s])
  BY <1>2 DEF SummaryInv
<1>3. ASSUME NEW u \in Threads, call'[u].at = "summarise", hash'[call'[u].sid].created
      PROVE  call'[u].text # None /\ call'[u].text = FirstText(messages'[call'[u].sid])
  BY <1>1, <1>3 DEF SummaryInv, Sid
<1> QED
  BY <1>2, <1>3 DEF SummaryInv, Sid

\* A thread that goes on to a step other than summarise leaves the texts found.
LEMMA TextsKept ==
  ASSUME NEW t \in Threads, NEW step, Moves(t, step), step # "summarise"
  PROVE  \A u \in Threads : call'[u].at = "summarise" =>
           /\ call[u].at = "summarise" /\ call'[u].text = call[u].text
           /\ call'[u].sid = call[u].sid
  BY DEF Moves

\* Every step keeps the summaries.
LEMMA SummaryStep ==
  ASSUME Inv, Inv', SummaryInv, NEW t \in Threads, Client(t) \/ Command(t) \/ Die(t)
  PROVE  SummaryInv'
<1> USE DEF Steps, CreateSteps, AddSteps, RenameSteps, DeleteSteps
<1>a. /\ StoreTypeOK
      /\ Sid(t) \in Sessions /\ hash \in [Sessions -> Hash] /\ hash[Sid(t)] \in Hash
      /\ messages \in [Sessions -> Seq(Messages)]
      /\ call \in [Threads -> Calls] /\ call[t] \in Calls
  BY CallTypes DEF Inv, StoreTypeOK
<1> DEFINE TextsSame == \A u \in Threads : call'[u].at = "summarise" =>
             /\ call[u].at = "summarise" /\ call'[u].text = call[u].text
             /\ call'[u].sid = call[u].sid
<1>1. ASSUME Client(t)
      PROVE  SummaryInv'
  <2>1. PICK s \in Sessions : \/ BeginCreate(t, s) \/ BeginRename(t, s) \/ BeginDelete(t, s)
                              \/ \E m \in Messages : BeginAdd(t, s, m)
    BY <1>1 DEF Client
  <2>2. PICK step \in Steps \ {"summarise"}, m \in Messages \union {None} : Begin(t, step, s, m)
    BY <2>1 DEF BeginCreate, BeginRename, BeginDelete, BeginAdd
  <2>3. Begins(t, step, s, m) /\ UNCHANGED <<hash, messages>>
    BY <1>a, <2>2, BeginBegins DEF Begin
  <2>4. TextsSame
    BY <2>2, <2>3 DEF Begins
  <2> QED
    BY <2>3, <2>4, SummaryKept
<1>2. ASSUME CreateHash(t)
      PROVE  SummaryInv'
  <2>1. Sid(t) \notin born
    BY <1>2 DEF Inv, CallInv, CreateHash, At
  <2>2. \A u \in Threads : call[u].at = "summarise" => Sid(u) # Sid(t)
    BY <2>1 DEF Inv, CallInv
  <2>3. TextsSame
    BY <1>a, <1>2, ThenMoves, TextsKept DEF CreateHash
  <2>4. /\ messages' = messages /\ hash'[Sid(t)].summary = None
        /\ \A s \in Sessions : s # Sid(t) => hash'[s] = hash[s]
    BY <1>a, <1>2 DEF CreateHash, NewHash
  <2>5. \A s \in Sessions : hash'[s].created /\ hash'[s].summary # None =>
          hash'[s].summary = FirstText(messages'[s])
    BY <2>4 DEF SummaryInv
  <2>6. ASSUME NEW u \in Threads, call'[u].at = "summarise", hash'[call'[u].sid].created
        PROVE  call'[u].text # None /\ call'[u].text = FirstText(messages'[call'[u].sid])
    <3>1. call'[u].sid \in Sessions /\ call'[u].sid # Sid(t)
      BY <2>2, <2>3, <2>6, CallTypes DEF Inv, Sid
    <3> QED
      BY <2>3, <2>4, <2>6, <3>1 DEF SummaryInv, Sid
  <2> QED
    BY <2>5, <2>6 DEF SummaryInv, Sid
<1>3. ASSUME Enlist(t) \/ Rank(t) \/ DelIndex(t)
      PROVE  SummaryInv'
  <2>1. TextsSame
    BY <1>a, <1>3, ThenMoves, TextsKept DEF Enlist, Rank, DelIndex
  <2>2. UNCHANGED <<hash, messages>>
    BY <1>3 DEF Enlist, Rank, DelIndex
  <2> QED
    BY <2>1, <2>2, SummaryKept
<1>4. ASSUME Raise(t) \/ Die(t)
      PROVE  SummaryInv'
  <2>1. TextsSame
    BY <1>a, <1>4, ReturnMoves, TextsKept DEF Raise, Die
  <2>2. UNCHANGED <<hash, messages>>
    BY <1>4 DEF Raise, Die
  <2> QED
    BY <2>1, <2>2, SummaryKept
<1>5. ASSUME \/ Verify(t, "verify", "push") \/ Verify(t, "renVerify", "rename")
             \/ Verify(t, "delVerify", "delHash")
      PROVE  SummaryInv'
  <2>1. PICK step \in {"push", "rename", "delHash"} : Verify(t, "verify", step)
             \/ Verify(t, "renVerify", step) \/ Verify(t, "delVerify", step)
    BY <1>5
  <2>2. Moves(t, step) \/ Moves(t, "idle")
    BY <1>a, <2>1, GotoMoves, ReturnMoves DEF Verify
  <2>3. TextsSame
    BY <2>2, TextsKept
  <2>4. UNCHANGED <<hash, messages>>
    BY <2>1 DEF Verify
  <2> QED
    BY <2>3, <2>4, SummaryKept
<1>6. ASSUME Push(t)
      PROVE  SummaryInv'
  <2>1. TextsSame
    BY <1>a, <1>6, ThenMoves, TextsKept DEF Push
  <2>2. hash' = hash /\ call[t].msg \in Messages
    BY <1>6 DEF Push, At, Inv, CallInv
  <2>3. /\ messages'[Sid(t)] = Append(messages[Sid(t)], call[t].msg)
        /\ \A s \in Sessions : s # Sid(t) => messages'[s] = messages[s]
    BY <1>a, <1>6 DEF Push
  <2>4. FirstText(messages[Sid(t)]) # None =>
          FirstText(Append(messages[Sid(t)], call[t].msg)) = FirstText(messages[Sid(t)])
    BY <1>a, <2>2, FirstTextStays
  <2>5. \A s \in Sessions : FirstText(messages[s]) # None =>
          FirstText(messages'[s]) = FirstText(messages[s])
    BY <2>3, <2>4
  <2> QED
    BY <2>1, <2>2, <2>5, SummaryKept
<1>7. ASSUME Reload(t)
      PROVE  SummaryInv'
  <2>1. UNCHANGED <<hash, messages>>
    BY <1>7 DEF Reload
  <2>2. CASE hash[Sid(t)] = NoHash
    <3>1. TextsSame
      BY <1>a, <1>7, <2>2, ReturnMoves, TextsKept DEF Reload
    <3> QED
      BY <2>1, <3>1, SummaryKept
  <2>3. CASE hash[Sid(t)] # NoHash
    <3>1. call' = [call EXCEPT ![t] = [call[t] EXCEPT !.at = "scan",
                                                      !.title = hash[Sid(t)].title]]
      BY <1>a, <1>7, <2>3 DEF Reload
    <3>2. TextsSame
      BY <1>a, <3>1
    <3> QED
      BY <2>1, <3>2, SummaryKept
  <2> QED
    BY <2>2, <2>3
<1>8. ASSUME Scan(t)
      PROVE  SummaryInv'
  <2>1. PICK text \in UserText \union {None} :
          /\ text # None => text = FirstText(messages[Sid(t)])
          /\ call' = [call EXCEPT ![t].at = IF text = None THEN "touch" ELSE "summarise",
                                  ![t].text = text]
    BY <1>8 DEF Scan
  <2>2. call' = [call EXCEPT ![t] = [call[t] EXCEPT !.at = IF text = None THEN "touch"
                                                           ELSE "summarise",
                                                    !.text = text]]
    BY <1>a, <2>1
  <2>3. UNCHANGED <<hash, messages>>
    BY <1>8 DEF Scan
  <2>4. /\ call'[t].at = (IF text = None THEN "touch" ELSE "summarise")
        /\ call'[t].text = text /\ call'[t].sid = call[t].sid
        /\ \A u \in Threads : u # t => call'[u] = call[u]
    BY <1>a, <2>2 DEF Calls
  <2>5. ASSUME NEW u \in Threads, call'[u].at = "summarise", hash'[call'[u].sid].created
        PROVE  call'[u].text # None /\ call'[u].text = FirstText(messages'[call'[u].sid])
    <3>1. CASE u = t
      BY <2>1, <2>3, <2>4, <2>5, <3>1 DEF Sid
    <3>2. CASE u # t
      BY <2>3, <2>4, <2>5, <3>2 DEF SummaryInv, Sid
    <3> QED
      BY <3>1, <3>2
  <2> QED
    BY <2>3, <2>5 DEF SummaryInv, Sid
<1>9. ASSUME Summarise(t)
      PROVE  SummaryInv'
  <2> DEFINE title == IF call[t].title \in {"absent", "default"} THEN "summary"
                      ELSE hash[Sid(t)].title
             h == [hash[Sid(t)] EXCEPT !.summary = call[t].text, !.title = title]
  <2>1. hash' = [hash EXCEPT ![Sid(t)] = h] /\ messages' = messages
    BY <1>a, <1>9 DEF Summarise
  <2>2. h.created = hash[Sid(t)].created /\ h.summary = call[t].text
    BY <1>a DEF Hash
  <2> HIDE DEF h
  <2>3. hash'[Sid(t)] = h /\ \A s \in Sessions : s # Sid(t) => hash'[s] = hash[s]
    BY <1>a, <2>1
  <2>4. TextsSame
    BY <1>a, <1>9, ThenMoves, TextsKept DEF Summarise
  <2>5. hash[Sid(t)].created => call[t].text = FirstText(messages[Sid(t)])
    BY <1>9 DEF Summarise, At, SummaryInv
  <2>6. \A s \in Sessions : hash'[s].created /\ hash'[s].summary # None =>
          hash'[s].summary = FirstText(messages'[s])
    BY <2>1, <2>2, <2>3, <2>5 DEF SummaryInv
  <2>7. \A s \in Sessions : hash'[s].created = hash[s].created
    BY <2>2, <2>3
  <2>8. ASSUME NEW u \in Threads, call'[u].at = "summarise", hash'[call'[u].sid].created
        PROVE  call'[u].text # None /\ call'[u].text = FirstText(messages'[call'[u].sid])
    <3>1. call'[u].sid \in Sessions
      BY <2>4, <2>8, CallTypes DEF Inv, Sid
    <3> QED
      BY <2>1, <2>4, <2>7, <2>8, <3>1 DEF SummaryInv, Sid
  <2> QED
    BY <2>6, <2>8 DEF SummaryInv, Sid
<1>10. ASSUME Touch(t) \/ Rename(t)
       PROVE  SummaryInv'
  <2>1. \/ hash' = [hash EXCEPT ![Sid(t)] = [hash[Sid(t)] EXCEPT !.updated = TRUE]]
        \/ hash' = [hash EXCEPT ![Sid(t)] = [hash[Sid(t)] EXCEPT !.title = "custom"]]
    BY <1>a, <1>10 DEF Touch, Rename
  <2>2. /\ [hash[Sid(t)] EXCEPT !.updated = TRUE].created = hash[Sid(t)].created
        /\ [hash[Sid(t)] EXCEPT !.updated = TRUE].summary = hash[Sid(t)].summary
        /\ [hash[Sid(t)] EXCEPT !.title = "custom"].created = hash[Sid(t)].created
        /\ [hash[Sid(t)] EXCEPT !.title = "custom"].summary = hash[Sid(t)].summary
    BY <1>a DEF Hash
  <2>3. \A s \in Sessions : /\ hash'[s].created = hash[s].created
                            /\ hash'[s].summary = hash[s].summary
    BY <1>a, <2>1, <2>2
  <2>4. messages' = messages /\ TextsSame
    BY <1>a, <1>10, ThenMoves, TextsKept DEF Touch, Rename
  <2> QED
    BY <2>3, <2>4, SummaryKept
<1>11. ASSUME DelHash(t)
       PROVE  SummaryInv'
  <2>1. TextsSame
    BY <1>a, <1>11, GotoMoves, ReturnMoves, TextsKept DEF DelHash
  <2>2. /\ ~hash'[Sid(t)].created /\ messages' = messages
        /\ \A s \in Sessions : s # Sid(t) => hash'[s] = hash[s]
    BY <1>a, <1>11 DEF DelHash, NoHash
  <2> QED
    BY <2>1, <2>2, SummaryKept
<1>12. ASSUME DelList(t)
       PROVE  SummaryInv'
  <2>1. TextsSame
    BY <1>a, <1>12, ThenMoves, TextsKept DEF DelList
  <2>2. ~hash[Sid(t)].created /\ hash' = hash
    BY <1>12 DEF DelList, At, Inv, CallInv
  <2>3. \A s \in Sessions : s # Sid(t) => messages'[s] = messages[s]
    BY <1>a, <1>12 DEF DelList
  <2> QED
    BY <2>1, <2>2, <2>3, SummaryKept
<1> QED
  BY <1>1, <1>2, <1>3, <1>4, <1>5, <1>6, <1>7, <1>8, <1>9, <1>10, <1>11, <1>12 DEF Command

\* A session's summary is the first text its user wrote in it, and stays that,
\* whichever of the messages that are being added summarises it last.
THEOREM SummaryCorrect == StoreSpec => []SummaryIsFirstText
<1>1. StoreInit => SummaryInv
  <2> SUFFICES ASSUME StoreInit PROVE SummaryInv
    OBVIOUS
  <2>1. PICK s \in Sessions : call = [t \in Threads |-> Free(s)]
    BY DEF StoreInit
  <2> QED
    BY <2>1 DEF StoreInit, SummaryInv, NoHash, Free, Sid
<1>2. Inv /\ Inv' /\ SummaryInv /\ [StoreNext]_storeVars => SummaryInv'
  <2> SUFFICES ASSUME Inv, Inv', SummaryInv, [StoreNext]_storeVars PROVE SummaryInv'
    OBVIOUS
  <2>1. CASE UNCHANGED storeVars
    BY <2>1 DEF storeVars, SummaryInv, Sid
  <2>2. CASE StoreNext
    BY <2>2, SummaryStep DEF StoreNext
  <2> QED
    BY <2>1, <2>2
<1>3. Inv /\ SummaryInv => SummaryIsFirstText
  BY DEF SummaryIsFirstText, SummaryInv, Live
<1> QED
  BY <1>1, <1>2, <1>3, StoreInvariant, PTL DEF StoreSpec

-----------------------------------------------------------------------------
\* The index, as the set it is.
Holds(list, s) == \E i \in DOMAIN list : list[i] = s
InIndex(s) == Holds(index, s)

\* A session that is being enlisted was created and is its thread's alone; one that
\* is taken off the index was deleted.
EnlistInv ==
  \A t \in Threads :
    /\ call[t].at = "enlist" =>
         /\ hash[Sid(t)].created
         /\ \A u \in Threads : u # t /\ call[u].at # "idle" => Sid(u) # Sid(t)
    /\ call[t].at = "delIndex" => ~hash[Sid(t)].created

\* A session there is, is on the index or about to be; of a deleted one, nobody is
\* writing to it and what is left is about to go.
Tidy(s) ==
  \/ s \in cut
  \/ /\ hash[s].created => InIndex(s) \/ \E t \in Threads : call[t].at = "enlist" /\ Sid(t) = s
     /\ s \in born /\ ~hash[s].created =>
          /\ hash[s] = NoHash
          /\ ~Writing(s)
          /\ messages[s] = <<>> \/ \E t \in Threads : call[t].at = "delList" /\ Sid(t) = s
          /\ \/ ~InIndex(s)
             \/ \E t \in Threads : call[t].at \in {"delList", "delIndex"} /\ Sid(t) = s

TidyInv == EnlistInv /\ \A s \in Sessions : Tidy(s)

\* zrem takes no other id out, and zadd puts no other in.
LEMMA OthersStay ==
  ASSUME NEW list \in Seq(Sessions), NEW s, NEW x, x # s
  PROVE  Holds(Without(list, s), x) <=> Holds(list, x)
<1>1. Len(list) \in Nat /\ DOMAIN list = 1..Len(list)
  BY LenProperties
<1>3. CASE \A i \in 1..Len(list) : list[i] # s
  BY <1>3 DEF Without
<1>4. CASE ~ \A i \in 1..Len(list) : list[i] # s
  <2> DEFINE n == Len(list)
             k == CHOOSE i \in 1..n : list[i] = s
             w == [i \in 1..(n - 1) |-> IF i < k THEN list[i] ELSE list[i + 1]]
  <2>1. Without(list, s) = w
    BY <1>4 DEF Without
  <2>2. k \in 1..n /\ list[k] = s
    BY <1>4
  <2>3. n \in Nat /\ DOMAIN list = 1..n
    BY <1>1
  <2> HIDE DEF k, n
  <2>4. DOMAIN w = 1..(n - 1)
    OBVIOUS
  <2>5. \A i \in 1..(n - 1) : w[i] = list[IF i < k THEN i ELSE i + 1]
    OBVIOUS
  <2> HIDE DEF w
  <2>6. ASSUME NEW i \in 1..(n - 1), w[i] = x
        PROVE  \E j \in 1..n : list[j] = x
    <3>1. (IF i < k THEN i ELSE i + 1) \in 1..n
      BY <2>2, <2>3
    <3> QED
      BY <2>5, <2>6, <3>1
  <2>7. ASSUME NEW j \in 1..n, list[j] = x
        PROVE  \E i \in 1..(n - 1) : w[i] = x
    <3>1. j # k
      BY <2>2, <2>7
    <3>2. CASE j < k
      <4>1. j \in 1..(n - 1)
        BY <2>2, <2>3, <3>2
      <4> QED
        BY <2>5, <2>7, <3>2, <4>1
    <3>3. CASE j > k
      <4>1. j - 1 \in 1..(n - 1) /\ ~(j - 1 < k) /\ (j - 1) + 1 = j
        BY <2>2, <2>3, <3>3
      <4> QED
        BY <2>5, <2>7, <4>1
    <3> QED
      BY <2>2, <2>3, <3>1, <3>2, <3>3
  <2> QED
    BY <2>1, <2>3, <2>4, <2>6, <2>7 DEF Holds
<1> QED
  BY <1>3, <1>4

LEMMA IndexMoves ==
  ASSUME StoreTypeOK, NEW s \in Sessions
  PROVE  /\ index' = Promote(s) =>
              Holds(index', s) /\ \A x \in Sessions : x # s => (Holds(index', x) <=> InIndex(x))
         /\ index' = Without(index, s) =>
              ~Holds(index', s) /\ \A x \in Sessions : x # s => (Holds(index', x) <=> InIndex(x))
<1> DEFINE w == Without(index, s)
<1>0. index \in Seq(Sessions) /\ Distinct(index)
  BY DEF StoreTypeOK, Distinct
<1>1. w \in Seq(Sessions) /\ \A i \in DOMAIN w : w[i] # s
  BY <1>0, WithoutProperties
<1>2. \A x \in Sessions : x # s => (Holds(w, x) <=> InIndex(x))
  BY <1>0, OthersStay DEF InIndex
<1> HIDE DEF w
<1>3. ASSUME index' = w
      PROVE  ~Holds(index', s) /\ \A x \in Sessions : x # s => (Holds(index', x) <=> InIndex(x))
  BY <1>1, <1>2, <1>3 DEF InIndex, Holds
<1>4. ASSUME index' = <<s>> \o w
      PROVE  Holds(index', s) /\ \A x \in Sessions : x # s => (Holds(index', x) <=> InIndex(x))
  <2> DEFINE v == <<s>> \o w
             n == Len(w)
  <2>1. <<s>> \in Seq(Sessions) /\ Len(<<s>>) = 1 /\ <<s>>[1] = s
    OBVIOUS
  <2>2. n \in Nat /\ DOMAIN w = 1..n
    BY <1>1, LenProperties
  <2>3. /\ v \in Seq(Sessions) /\ Len(v) = 1 + n
        /\ \A i \in 1..(1 + n) : v[i] = IF i <= 1 THEN <<s>>[i] ELSE w[i - 1]
    BY <1>1, <2>1, ConcatProperties
  <2>4. DOMAIN v = 1..(1 + n)
    BY <2>3, LenProperties
  <2> HIDE DEF v, n
  <2>5. v[1] = s /\ 1 \in DOMAIN v
    BY <2>1, <2>2, <2>3, <2>4
  <2>6. \A i \in 1..n : i + 1 \in DOMAIN v /\ v[i + 1] = w[i]
    <3>1. \A i \in 1..n : i + 1 \in 1..(1 + n) /\ ~(i + 1 <= 1) /\ (i + 1) - 1 = i
      BY <2>2
    <3> QED
      BY <2>3, <2>4, <3>1
  <2>7. \A i \in DOMAIN v : v[i] = s \/ (i - 1 \in 1..n /\ v[i] = w[i - 1])
    <3>1. SUFFICES ASSUME NEW i \in 1..(1 + n)
                   PROVE  v[i] = s \/ (i - 1 \in 1..n /\ v[i] = w[i - 1])
      BY <2>4
    <3>2. CASE i <= 1
      BY <2>1, <2>2, <2>3, <3>2
    <3>3. CASE i > 1
      BY <2>2, <2>3, <3>3
    <3> QED
      BY <2>2, <3>2, <3>3
  <2>8. index' = v
    BY <1>4 DEF v
  <2>9. \A x \in Sessions : x # s => (Holds(v, x) <=> Holds(w, x))
    BY <2>2, <2>6, <2>7 DEF Holds
  <2> QED
    BY <1>2, <2>5, <2>8, <2>9 DEF InIndex, Holds
<1> QED
  BY <1>3, <1>4 DEF Promote, w

\* What every command, and a death, leaves alone: other threads and other sessions.
Local(t) ==
  /\ call[t].at # "idle" /\ call'[t].sid = Sid(t)
  /\ \A u \in Threads : u # t => call'[u] = call[u]
  /\ cut \subseteq cut'
  /\ \A s \in Sessions : s # Sid(t) =>
       /\ hash'[s] = hash[s] /\ messages'[s] = messages[s]
       /\ Holds(index', s) <=> InIndex(s)
       /\ s \in born' <=> s \in born

\* A write that ends early leaves its session cut short, if more was to come.
LEMMA ThenCuts ==
  ASSUME StoreTypeOK, NEW t \in Threads, NEW next \in Steps, Then(t, next)
  PROVE  /\ Moves(t, next) \/ Moves(t, "idle")
         /\ cut \subseteq cut'
         /\ next \in {"enlist", "delList", "delIndex"} /\ Sid(t) \notin cut' => Moves(t, next)
<1>1. CASE Return(t, "raised") /\
           cut' = IF next \in {"enlist", "delList", "delIndex"} THEN cut \union {Sid(t)} ELSE cut
  <2>1. Moves(t, "idle")
    BY <1>1, ReturnMoves
  <2>2. cut \subseteq cut' /\ (next \in {"enlist", "delList", "delIndex"} => Sid(t) \in cut')
    BY <1>1
  <2> QED
    BY <2>1, <2>2
<1>2. CASE next = "idle" /\ Return(t, "ok") /\ UNCHANGED cut
  BY <1>2, ReturnMoves
<1>3. CASE Goto(t, next) /\ UNCHANGED cut
  BY <1>3, GotoMoves
<1> QED
  BY <1>1, <1>2, <1>3 DEF Then

LEMMA UndoneCuts ==
  ASSUME NEW t \in Threads, Undone(t)
  PROVE  /\ cut \subseteq cut'
         /\ call[t].at \in {"enlist", "delList", "delIndex"} => Sid(t) \in cut'
  BY DEF Undone

\* Reading on in add_message.
LEMMA ReadsOn ==
  ASSUME StoreTypeOK, NEW t \in Threads, Reload(t) \/ Scan(t)
  PROVE  /\ call'[t].at \in {"scan", "summarise", "touch", "idle"} /\ call'[t].sid = Sid(t)
         /\ \A u \in Threads : u # t => call'[u] = call[u]
         /\ UNCHANGED <<hash, messages, index, born, cut>>
<1>0. call \in [Threads -> Calls] /\ call[t] \in Calls
  BY DEF StoreTypeOK
<1>1. ASSUME Reload(t), hash[Sid(t)] = NoHash
      PROVE  Moves(t, "idle")
  BY <1>1, ReturnMoves DEF Reload
<1>2. ASSUME Reload(t), hash[Sid(t)] # NoHash
      PROVE  /\ call'[t].at = "scan" /\ call'[t].sid = Sid(t)
             /\ \A u \in Threads : u # t => call'[u] = call[u]
  <2>1. call' = [call EXCEPT ![t] = [call[t] EXCEPT !.at = "scan", !.title = hash[Sid(t)].title]]
    BY <1>0, <1>2 DEF Reload
  <2> QED
    BY <1>0, <2>1 DEF Calls, Sid
<1>3. ASSUME Scan(t)
      PROVE  /\ call'[t].at \in {"summarise", "touch"} /\ call'[t].sid = Sid(t)
             /\ \A u \in Threads : u # t => call'[u] = call[u]
  <2>1. PICK text \in UserText \union {None} :
          call' = [call EXCEPT ![t].at = IF text = None THEN "touch" ELSE "summarise",
                               ![t].text = text]
    BY <1>3 DEF Scan
  <2>2. call' = [call EXCEPT ![t] = [call[t] EXCEPT !.at = IF text = None THEN "touch"
                                                           ELSE "summarise",
                                                    !.text = text]]
    BY <1>0, <2>1
  <2> QED
    BY <1>0, <2>2 DEF Calls, Sid
<1> QED
  BY <1>1, <1>2, <1>3 DEF Reload, Scan, Moves

\* Commands of a method that is writing to the session, as opposed to making it,
\* looking it up or deleting it.
Writes(t) == \/ Push(t) \/ Reload(t) \/ Scan(t) \/ Summarise(t) \/ Touch(t) \/ Rank(t) \/ Rename(t)

LEMMA WritesDo ==
  ASSUME Inv, NEW t \in Threads, Writes(t)
  PROVE  /\ call[t].at \in {"push", "reload", "scan", "summarise", "touch", "rank", "rename"}
         /\ Local(t)
         /\ call'[t].at \notin {"enlist", "delList", "delIndex"}
         /\ hash'[Sid(t)].created = hash[Sid(t)].created
         /\ InIndex(Sid(t)) => Holds(index', Sid(t))
         /\ UNCHANGED born
<1> USE DEF Steps, CreateSteps, AddSteps, RenameSteps, DeleteSteps
<1>a. /\ StoreTypeOK /\ Sid(t) \in Sessions /\ hash \in [Sessions -> Hash]
      /\ hash[Sid(t)] \in Hash /\ messages \in [Sessions -> Seq(Messages)]
  BY CallTypes DEF Inv, StoreTypeOK
<1>b. ASSUME NEW step \in Steps \ {"enlist", "delList", "delIndex"},
             call[t].at \in {"push", "reload", "scan", "summarise", "touch", "rank", "rename"},
             Then(t, step), UNCHANGED born,
             \A s \in Sessions : s # Sid(t) =>
               hash'[s] = hash[s] /\ messages'[s] = messages[s] /\ (Holds(index', s) <=> InIndex(s))
      PROVE  Local(t) /\ call'[t].at \notin {"enlist", "delList", "delIndex"}
  <2>1. (Moves(t, step) \/ Moves(t, "idle")) /\ cut \subseteq cut'
    BY <1>a, <1>b, ThenCuts
  <2> QED
    BY <1>b, <2>1 DEF Local, Moves
<1>1. CASE Push(t)
  <2>1. /\ UNCHANGED <<hash, index, born>> /\ call[t].at = "push" /\ Then(t, "reload")
        /\ \A s \in Sessions : s # Sid(t) => messages'[s] = messages[s]
    BY <1>a, <1>1 DEF Push, At
  <2> QED
    BY <1>b, <2>1 DEF InIndex
<1>2. CASE Reload(t) \/ Scan(t)
  <2>1. call[t].at \in {"reload", "scan"}
    BY <1>2 DEF Reload, Scan, At
  <2>2. Local(t)
    BY <1>a, <1>2, <2>1, ReadsOn DEF Local, InIndex
  <2> QED
    BY <1>a, <1>2, <2>1, <2>2, ReadsOn DEF InIndex
<1>3. CASE Summarise(t)
  <2> DEFINE title == IF call[t].title \in {"absent", "default"} THEN "summary"
                      ELSE hash[Sid(t)].title
             h == [hash[Sid(t)] EXCEPT !.summary = call[t].text, !.title = title]
  <2>1. /\ UNCHANGED <<messages, index, born>> /\ call[t].at = "summarise" /\ Then(t, "touch")
        /\ hash' = [hash EXCEPT ![Sid(t)] = h]
    BY <1>a, <1>3 DEF Summarise, At
  <2>2. h.created = hash[Sid(t)].created
    BY <1>a DEF Hash
  <2> HIDE DEF h
  <2>3. hash'[Sid(t)] = h /\ \A s \in Sessions : s # Sid(t) => hash'[s] = hash[s]
    BY <1>a, <2>1
  <2> QED
    BY <1>b, <2>1, <2>2, <2>3 DEF InIndex
<1>4. CASE Touch(t) \/ Rename(t)
  <2> DEFINE h == [hash[Sid(t)] EXCEPT !.updated = TRUE]
             g == [hash[Sid(t)] EXCEPT !.title = "custom"]
  <2>1. \/ hash' = [hash EXCEPT ![Sid(t)] = h]
        \/ hash' = [hash EXCEPT ![Sid(t)] = g]
    BY <1>a, <1>4 DEF Touch, Rename
  <2>2. h.created = hash[Sid(t)].created /\ g.created = hash[Sid(t)].created
    BY <1>a DEF Hash
  <2> HIDE DEF h, g
  <2>3. /\ hash'[Sid(t)].created = hash[Sid(t)].created
        /\ \A s \in Sessions : s # Sid(t) => hash'[s] = hash[s]
    BY <1>a, <2>1, <2>2
  <2>4. /\ UNCHANGED <<messages, index, born>> /\ call[t].at \in {"touch", "rename"}
        /\ Then(t, "rank") \/ Then(t, "touch")
    BY <1>4 DEF Touch, Rename, At
  <2> QED
    BY <1>b, <2>3, <2>4 DEF InIndex
<1>5. CASE Rank(t)
  <2>1. /\ UNCHANGED <<hash, messages, born>> /\ call[t].at = "rank" /\ Then(t, "idle")
        /\ index' = Promote(Sid(t))
    BY <1>5 DEF Rank, At
  <2>2. Holds(index', Sid(t)) /\ \A s \in Sessions : s # Sid(t) => (Holds(index', s) <=> InIndex(s))
    BY <1>a, <2>1, IndexMoves
  <2> QED
    BY <1>b, <2>1, <2>2
<1> QED
  BY <1>1, <1>2, <1>3, <1>4, <1>5 DEF Writes

\* The reads that methods begin with, commands that fail, and deaths.
Looks(t) == \/ Verify(t, "verify", "push") \/ Verify(t, "renVerify", "rename")
            \/ Verify(t, "delVerify", "delHash") \/ Raise(t) \/ Die(t)

LEMMA LooksDo ==
  ASSUME Inv, NEW t \in Threads, Looks(t)
  PROVE  /\ Local(t) /\ UNCHANGED <<hash, messages, index, born>>
         /\ call'[t].at \in {"idle", "push", "rename", "delHash"}
         /\ call'[t].at # "idle" => hash[Sid(t)] # NoHash
         /\ call[t].at \in {"enlist", "delList", "delIndex"} => Sid(t) \in cut'
<1> USE DEF Steps, CreateSteps, AddSteps, RenameSteps, DeleteSteps
<1>a. StoreTypeOK
  BY DEF Inv
<1>1. ASSUME NEW step \in {"push", "rename", "delHash"},
             \E from \in {"verify", "renVerify", "delVerify"} : Verify(t, from, step)
      PROVE  /\ (Moves(t, step) /\ hash[Sid(t)] # NoHash) \/ Moves(t, "idle")
             /\ UNCHANGED <<hash, messages, index, born, cut>>
             /\ call[t].at \in {"verify", "renVerify", "delVerify"}
  BY <1>a, <1>1, GotoMoves, ReturnMoves DEF Verify, At
<1>2. ASSUME Raise(t) \/ Die(t)
      PROVE  /\ Moves(t, "idle") /\ UNCHANGED <<hash, messages, index, born>>
             /\ call[t].at # "idle" /\ Undone(t)
  BY <1>a, <1>2, ReturnMoves DEF Raise, Die
<1>3. UNCHANGED <<hash, messages, index, born>>
  BY <1>1, <1>2 DEF Looks
<1>4. CASE Raise(t) \/ Die(t)
  BY <1>2, <1>4, UndoneCuts DEF Local, Moves, InIndex
<1>5. CASE ~(Raise(t) \/ Die(t))
  <2>1. PICK step \in {"push", "rename", "delHash"} :
          \E from \in {"verify", "renVerify", "delVerify"} : Verify(t, from, step)
    BY <1>5 DEF Looks
  <2> QED
    BY <1>1, <2>1 DEF Local, Moves, InIndex
<1> QED
  BY <1>3, <1>4, <1>5

\* Every command and death is local, and goes on along its method.
LEMMA CommandLocal ==
  ASSUME Inv, NEW t \in Threads, Command(t) \/ Die(t)
  PROVE  /\ Local(t)
         /\ call'[t].at = "enlist" => call[t].at = "create" /\ hash'[Sid(t)].created
         /\ call'[t].at = "delIndex" => call[t].at = "delList"
         /\ call[t].at # "create" => (hash'[Sid(t)].created => hash[Sid(t)].created)
<1> USE DEF Steps, CreateSteps, AddSteps, RenameSteps, DeleteSteps
<1>a. /\ StoreTypeOK /\ Sid(t) \in Sessions /\ hash \in [Sessions -> Hash]
      /\ messages \in [Sessions -> Seq(Messages)]
  BY CallTypes DEF Inv, StoreTypeOK
<1>1. CASE Writes(t)
  BY <1>1, WritesDo
<1>2. CASE Looks(t)
  BY <1>2, LooksDo
<1>3. CASE CreateHash(t)
  <2>1. /\ call[t].at = "create" /\ Then(t, "enlist") /\ UNCHANGED <<messages, index>>
        /\ born' = born \union {Sid(t)} /\ hash' = [hash EXCEPT ![Sid(t)] = NewHash]
    BY <1>3 DEF CreateHash, At
  <2>2. hash'[Sid(t)].created /\ \A s \in Sessions : s # Sid(t) => hash'[s] = hash[s]
    BY <1>a, <2>1 DEF NewHash
  <2>3. (Moves(t, "enlist") \/ Moves(t, "idle")) /\ cut \subseteq cut'
    BY <1>a, <2>1, ThenCuts
  <2> QED
    BY <2>1, <2>2, <2>3 DEF Local, Moves, InIndex
<1>4. CASE Enlist(t) \/ DelIndex(t)
  <2>1. /\ call[t].at \in {"enlist", "delIndex"} /\ Then(t, "idle")
        /\ UNCHANGED <<hash, messages, born>>
        /\ index' = Promote(Sid(t)) \/ index' = Without(index, Sid(t))
    BY <1>4 DEF Enlist, DelIndex, At
  <2>2. \A s \in Sessions : s # Sid(t) => (Holds(index', s) <=> InIndex(s))
    BY <1>a, <2>1, IndexMoves
  <2>3. Moves(t, "idle") /\ cut \subseteq cut'
    BY <1>a, <2>1, ThenCuts
  <2> QED
    BY <2>1, <2>2, <2>3 DEF Local, Moves
<1>5. CASE DelHash(t)
  <2>1. /\ call[t].at = "delHash" /\ UNCHANGED <<messages, index, born>> /\ cut \subseteq cut'
        /\ hash' = [hash EXCEPT ![Sid(t)] = NoHash]
        /\ Return(t, "raised") \/ Goto(t, "delList")
    BY <1>5 DEF DelHash, At
  <2>2. ~hash'[Sid(t)].created /\ \A s \in Sessions : s # Sid(t) => hash'[s] = hash[s]
    BY <1>a, <2>1 DEF NoHash
  <2>3. Moves(t, "idle") \/ Moves(t, "delList")
    BY <1>a, <2>1, ReturnMoves, GotoMoves
  <2> QED
    BY <2>1, <2>2, <2>3 DEF Local, Moves, InIndex
<1>6. CASE DelList(t)
  <2>1. /\ call[t].at = "delList" /\ UNCHANGED <<hash, index, born>> /\ Then(t, "delIndex")
        /\ \A s \in Sessions : s # Sid(t) => messages'[s] = messages[s]
    BY <1>a, <1>6 DEF DelList, At
  <2>2. (Moves(t, "delIndex") \/ Moves(t, "idle")) /\ cut \subseteq cut'
    BY <1>a, <2>1, ThenCuts
  <2> QED
    BY <2>1, <2>2 DEF Local, Moves, InIndex
<1> QED
  BY <1>1, <1>2, <1>3, <1>4, <1>5, <1>6 DEF Command, Writes, Looks

\* A method that begins is for a session that nobody makes, or makes one nobody has.
LEMMA ClientDoes ==
  ASSUME Inv, NEW t \in Threads, Client(t)
  PROVE  \E s \in Sessions : \E step \in {"create", "verify", "renVerify", "delVerify"} :
           /\ call[t].at = "idle" /\ call'[t].at = step /\ call'[t].sid = s
           /\ \A u \in Threads : u # t => call'[u] = call[u]
           /\ UNCHANGED <<hash, messages, index, born, cut>>
           /\ \A u \in Threads : call[u].at = "enlist" => Sid(u) # s
<1> USE DEF Steps, CreateSteps, AddSteps, RenameSteps, DeleteSteps
<1>1. PICK s \in Sessions : \/ BeginCreate(t, s) \/ BeginRename(t, s) \/ BeginDelete(t, s)
                            \/ \E m \in Messages : BeginAdd(t, s, m)
  BY DEF Client
<1>2. PICK step \in {"create", "verify", "renVerify", "delVerify"},
           m \in Messages \union {None} :
        /\ Begin(t, step, s, m)
        /\ \A u \in Threads : call[u].at = "enlist" => Sid(u) # s
  BY <1>1 DEF BeginCreate, BeginRename, BeginDelete, BeginAdd, Known
<1>3. Begins(t, step, s, m) /\ UNCHANGED <<hash, messages, index, born, cut>>
  BY <1>2, BeginBegins DEF Begin, Inv
<1> QED
  BY <1>2, <1>3 DEF Begins

LEMMA EnlistStep ==
  ASSUME Inv, EnlistInv, NEW t \in Threads, Client(t) \/ Command(t) \/ Die(t)
  PROVE  EnlistInv'
<1>a. CallInv /\ \A u \in Threads : Sid(u) \in Sessions
  BY CallTypes DEF Inv
<1>1. CASE Client(t)
  <2>1. PICK s \in Sessions :
           /\ call[t].at = "idle" /\ call'[t].at \notin {"enlist", "delIndex"}
           /\ call'[t].sid = s
           /\ \A u \in Threads : u # t => call'[u] = call[u]
           /\ UNCHANGED hash
           /\ \A u \in Threads : call[u].at = "enlist" => Sid(u) # s
    BY <1>1, ClientDoes
  <2> QED
    BY <2>1 DEF EnlistInv, Sid
<1>2. CASE Command(t) \/ Die(t)
  <2>1. /\ call[t].at # "idle" /\ call'[t].sid = Sid(t)
        /\ \A u \in Threads : u # t => call'[u] = call[u]
        /\ \A s \in Sessions : s # Sid(t) => hash'[s] = hash[s]
        /\ call'[t].at = "enlist" => call[t].at = "create" /\ hash'[Sid(t)].created
        /\ call'[t].at = "delIndex" => call[t].at = "delList"
        /\ call[t].at # "create" => (hash'[Sid(t)].created => hash[Sid(t)].created)
    BY <1>2, CommandLocal DEF Local
  <2>2. /\ \A u \in Threads : call'[u].sid = call[u].sid
        /\ \A u \in Threads : call'[u].at # "idle" => call[u].at # "idle"
    BY <2>1 DEF Sid
  <2>3. ASSUME NEW u \in Threads, call'[u].at = "enlist"
        PROVE  /\ hash'[Sid(u)].created
               /\ \A v \in Threads : v # u /\ call'[v].at # "idle" => Sid(v) # Sid(u)
    <3>1. CASE u = t
      BY <1>a, <2>1, <2>2, <2>3, <3>1 DEF CallInv
    <3>2. CASE u # t
      BY <1>a, <2>1, <2>2, <2>3, <3>2 DEF EnlistInv
    <3> QED
      BY <3>1, <3>2
  <2>4. ASSUME NEW u \in Threads, call'[u].at = "delIndex"
        PROVE  ~hash'[Sid(u)].created
    <3>1. CASE u = t
      BY <1>a, <2>1, <2>4, <3>1 DEF CallInv
    <3>2. CASE u # t
      <4>1. call[u].at = "delIndex" /\ ~hash[Sid(u)].created
        BY <2>1, <2>4, <3>2 DEF EnlistInv
      <4>2. call[t].at = "create" => Sid(u) # Sid(t)
        BY <1>a, <3>2, <4>1 DEF CallInv
      <4> QED
        BY <1>a, <2>1, <4>1, <4>2
    <3> QED
      BY <3>1, <3>2
  <2> QED
    BY <2>2, <2>3, <2>4 DEF EnlistInv, Sid
<1> QED
  BY <1>1, <1>2

\* A session that a step is not about stays tidy.
LEMMA OthersTidy ==
  ASSUME Inv, Inv', NEW t \in Threads, Local(t), NEW s \in Sessions, s # Sid(t), Tidy(s)
  PROVE  Tidy(s)'
<1>1. \A u \in Threads : call'[u].sid = call[u].sid
  BY DEF Local, Sid
<1>2. \A u \in Threads : call[u].sid = s => u # t /\ call'[u] = call[u]
  BY DEF Local, Sid
<1>3. /\ s \in cut => s \in cut'
      /\ hash'[s] = hash[s] /\ messages'[s] = messages[s] /\ (Holds(index', s) <=> InIndex(s))
      /\ s \in born' <=> s \in born
  BY DEF Local
<1>4. /\ \A step : (\E u \in Threads : call[u].at = step /\ call[u].sid = s)
                    => \E u \in Threads : call'[u].at = step /\ call'[u].sid = s
      /\ Writing(s)' => Writing(s)
  BY <1>1, <1>2 DEF Writing, Sid
<1> QED
  BY <1>3, <1>4 DEF Tidy, InIndex, Sid

\* And the one it is about stays or becomes tidy.
LEMMA OwnTidy ==
  ASSUME Inv, Inv', EnlistInv, NEW t \in Threads, Command(t) \/ Die(t),
         NEW s \in Sessions, s = Sid(t), Tidy(s)
  PROVE  Tidy(s)'
<1> USE DEF Steps, CreateSteps, AddSteps, RenameSteps, DeleteSteps
<1>a. /\ StoreTypeOK /\ hash \in [Sessions -> Hash] /\ messages \in [Sessions -> Seq(Messages)]
      /\ call[t].at \notin {"idle", "create"} => s \in born
      /\ call[t].at = "delList" => ~hash[s].created
      /\ call[t].at = "delIndex" => ~hash[s].created
      /\ call[t].at = "enlist" => hash[s].created
  BY DEF Inv, StoreTypeOK, CallInv, EnlistInv
<1>b. /\ call[t].at # "idle" /\ call'[t].sid = s /\ cut \subseteq cut'
      /\ \A u \in Threads : u # t => call'[u] = call[u]
      /\ \A u \in Threads : call'[u].sid = call[u].sid
  BY CommandLocal DEF Local, Sid
<1>c. call[t].at # "enlist" => ~ \E u \in Threads : call[u].at = "enlist" /\ Sid(u) = s
  BY <1>b DEF EnlistInv
<1>d. Writing(s)' <=> \E u \in Threads : call[u].sid = s /\ call'[u].at \in
                {"push", "reload", "scan", "summarise", "touch", "rank", "rename"}
  BY <1>b DEF Writing, Sid
<1>e. CASE s \in cut'
  BY <1>e DEF Tidy
<1> SUFFICES ASSUME s \notin cut'
             PROVE  Tidy(s)'
  BY <1>e
<1>f. s \notin cut
  BY <1>b
<1>1. CASE Writes(t)
  <2>1. /\ call[t].at \in {"push", "reload", "scan", "summarise", "touch", "rank", "rename"}
        /\ hash'[s].created = hash[s].created
        /\ InIndex(s) => Holds(index', s)
    BY <1>1, WritesDo
  <2>2. Writing(s)
    BY <2>1 DEF Writing
  <2>3. hash[s].created /\ InIndex(s)
    BY <1>a, <1>c, <1>f, <2>1, <2>2 DEF Tidy
  <2> QED
    BY <2>1, <2>3 DEF Tidy, InIndex
<1>2. CASE Looks(t)
  <2>1. /\ UNCHANGED <<hash, messages, index, born>>
        /\ call'[t].at \in {"idle", "push", "rename", "delHash"}
        /\ call'[t].at # "idle" => hash[s] # NoHash
        /\ call[t].at \notin {"enlist", "delList", "delIndex"}
    BY <1>2, LooksDo
  <2>2. ~Writing(s) /\ hash[s] = NoHash => ~Writing(s)'
    BY <1>b, <1>d, <2>1 DEF Writing, Sid
  <2>3. \A step \in {"delList", "delIndex"} :
          (\E u \in Threads : call[u].at = step /\ call[u].sid = s)
            => \E u \in Threads : call'[u].at = step /\ call'[u].sid = s
    BY <1>b, <2>1 DEF Sid
  <2>4. hash[s].created => InIndex(s)
    BY <1>c, <1>f, <2>1 DEF Tidy
  <2> QED
    BY <1>f, <2>1, <2>2, <2>3, <2>4 DEF Tidy, InIndex, Sid
<1>3. CASE CreateHash(t)
  <2>1. call[t].at = "create" /\ Then(t, "enlist") /\ hash' = [hash EXCEPT ![s] = NewHash]
    BY <1>3 DEF CreateHash, At
  <2>2. hash'[s].created
    BY <1>a, <2>1 DEF NewHash
  <2>3. call'[t].at = "enlist"
    BY <1>a, <2>1, ThenCuts DEF Moves
  <2> QED
    BY <1>b, <2>2, <2>3 DEF Tidy, Sid
<1>4. CASE Enlist(t)
  <2>1. call[t].at = "enlist" /\ hash' = hash /\ index' = Promote(s)
    BY <1>4 DEF Enlist, At
  <2>2. Holds(index', s)
    BY <1>a, <2>1, IndexMoves
  <2> QED
    BY <1>a, <2>1, <2>2 DEF Tidy, InIndex
<1>5. CASE DelHash(t)
  <2>1. PICK failed \in BOOLEAN :
          /\ IF failed THEN Return(t, "raised") ELSE Goto(t, "delList")
          /\ cut' = IF failed \/ Writing(s) THEN cut \union {s} ELSE cut
    BY <1>5 DEF DelHash
  <2>2. ~failed /\ ~Writing(s) /\ Goto(t, "delList")
    BY <2>1
  <2>3. call'[t].at = "delList"
    BY <1>a, <2>2, GotoMoves DEF Moves
  <2>4. ~Writing(s)'
    BY <1>b, <1>d, <2>2, <2>3 DEF Writing, Sid
  <2>5. hash'[s] = NoHash /\ ~hash'[s].created
    BY <1>a, <1>5 DEF DelHash, NoHash
  <2> QED
    BY <1>b, <2>3, <2>4, <2>5 DEF Tidy, Sid
<1>6. CASE DelList(t)
  <2>1. /\ call[t].at = "delList" /\ UNCHANGED <<hash, index, born>> /\ Then(t, "delIndex")
        /\ messages'[s] = <<>>
    BY <1>a, <1>6 DEF DelList, At
  <2>2. call'[t].at = "delIndex"
    BY <1>a, <2>1, ThenCuts DEF Moves
  <2>3. hash[s] = NoHash /\ ~Writing(s)
    BY <1>a, <1>f, <2>1 DEF Tidy
  <2>4. ~Writing(s)'
    BY <1>b, <1>d, <2>2, <2>3 DEF Writing, Sid
  <2> QED
    BY <1>a, <1>b, <2>1, <2>2, <2>3, <2>4 DEF Tidy, Sid
<1>7. CASE DelIndex(t)
  <2>1. /\ call[t].at = "delIndex" /\ UNCHANGED <<hash, messages, born>> /\ Then(t, "idle")
        /\ index' = Without(index, s)
    BY <1>7 DEF DelIndex, At
  <2>2. ~Holds(index', s)
    BY <1>a, <2>1, IndexMoves
  <2>3. call'[t].at = "idle"
    BY <1>a, <2>1, ThenCuts DEF Moves
  <2>4. /\ hash[s] = NoHash /\ ~Writing(s)
        /\ messages[s] = <<>> \/ \E u \in Threads : call[u].at = "delList" /\ Sid(u) = s
    BY <1>a, <1>f, <2>1 DEF Tidy
  <2>5. ~Writing(s)'
    BY <1>b, <1>d, <2>3, <2>4 DEF Writing, Sid
  <2>6. messages[s] = <<>> \/ \E u \in Threads : call'[u].at = "delList" /\ call'[u].sid = s
    BY <1>b, <2>1, <2>4 DEF Sid
  <2> QED
    BY <1>a, <2>1, <2>2, <2>4, <2>5, <2>6 DEF Tidy, InIndex, Sid
<1> QED
  BY <1>1, <1>2, <1>3, <1>4, <1>5, <1>6, <1>7 DEF Command, Writes, Looks

LEMMA TidyStep ==
  ASSUME Inv, Inv', TidyInv, NEW t \in Threads, Client(t) \/ Command(t) \/ Die(t)
  PROVE  TidyInv'
<1>1. EnlistInv /\ EnlistInv'
  BY EnlistStep DEF TidyInv
<1>2. SUFFICES ASSUME NEW s \in Sessions
               PROVE  Tidy(s)'
  BY <1>1 DEF TidyInv
<1>3. Tidy(s)
  BY DEF TidyInv
<1>4. CASE Client(t)
  <2>1. /\ call[t].at = "idle" /\ call'[t].at \in {"create", "verify", "renVerify", "delVerify"}
        /\ \A u \in Threads : u # t => call'[u] = call[u]
        /\ UNCHANGED <<hash, messages, index, born, cut>>
    BY <1>4, ClientDoes
  <2>2. \A u \in Threads : call[u].at # "idle" => call'[u] = call[u]
    BY <2>1
  <2>3. Writing(s)' => Writing(s)
    BY <2>1 DEF Writing, Sid
  <2> QED
    BY <1>3, <2>1, <2>2, <2>3 DEF Tidy, InIndex, Sid
<1>5. CASE Command(t) \/ Die(t)
  <2>1. CASE s = Sid(t)
    BY <1>1, <1>3, <1>5, <2>1, OwnTidy
  <2>2. CASE s # Sid(t)
    BY <1>3, <1>5, <2>2, CommandLocal, OthersTidy
  <2> QED
    BY <2>1, <2>2
<1> QED
  BY <1>4, <1>5

LEMMA TidyAlways == StoreSpec => []TidyInv
<1>1. StoreInit => TidyInv
  <2> SUFFICES ASSUME StoreInit PROVE TidyInv
    OBVIOUS
  <2>1. PICK s \in Sessions : call = [t \in Threads |-> Free(s)]
    BY DEF StoreInit
  <2> QED
    BY <2>1 DEF StoreInit, TidyInv, EnlistInv, Tidy, NoHash, Free
<1>2. Inv /\ Inv' /\ TidyInv /\ [StoreNext]_storeVars => TidyInv'
  <2> SUFFICES ASSUME Inv, Inv', TidyInv, [StoreNext]_storeVars PROVE TidyInv'
    OBVIOUS
  <2>1. CASE UNCHANGED storeVars
    BY <2>1 DEF storeVars, TidyInv, EnlistInv, Tidy, InIndex, Writing, Sid
  <2>2. CASE StoreNext
    BY <2>2, TidyStep DEF StoreNext
  <2> QED
    BY <2>1, <2>2
<1> QED
  BY <1>1, <1>2, StoreInvariant, PTL DEF StoreSpec

\* A deleted session leaves no hash, no message and no entry of the index behind,
\* unless its delete was cut short or raced with a writer.
THEOREM DeleteIsClean == StoreSpec => []DeletedLeavesNothing
<1>1. Inv /\ TidyInv => DeletedLeavesNothing
  <2> SUFFICES ASSUME Inv, TidyInv, NEW s \in born, ~Live(s)
               PROVE  \/ /\ hash[s] = NoHash
                         /\ messages[s] = <<>>
                         /\ \A i \in DOMAIN index : index[i] # s
                      \/ s \in cut
                      \/ \E t \in Threads : Sid(t) = s /\ call[t].at \in {"delList", "delIndex"}
    BY DEF DeletedLeavesNothing
  <2>1. s \in Sessions /\ Tidy(s)
    BY DEF Inv, StoreTypeOK, TidyInv
  <2>2. ~hash[s].created
    BY <2>1 DEF Inv, HashInv, Live
  <2> QED
    BY <2>1, <2>2 DEF Tidy, InIndex, Holds
<1> QED
  BY <1>1, StoreInvariant, TidyAlways, PTL

\* A set of ids is no longer than there are ids.
LEMMA IndexFits ==
  ASSUME NEW list \in Seq(Sessions), Distinct(list)
  PROVE  \A i \in DOMAIN list : i <= Cardinality(Sessions)
<1> DEFINE n == Len(list)
<1>1. n \in Nat /\ DOMAIN list = 1..n /\ list \in [1..n -> Sessions]
  BY LenProperties
<1> HIDE DEF n
<1>2. list \in Injection(1..n, Sessions)
  BY <1>1 DEF Distinct, Injection, IsInjective
<1>3. Cardinality(1..n) <= Cardinality(Sessions)
  BY <1>2, FS_Injection, SessionAssumption
<1>4. Cardinality(1..n) = n
  BY <1>1, FS_Interval
<1>5. Cardinality(Sessions) \in Nat
  BY FS_CardinalityType, SessionAssumption
<1> QED
  BY <1>1, <1>3, <1>4, <1>5

\* A session is on its user's list, once, from its creation to its deletion.
THEOREM SessionsAreListed == StoreSpec => []LiveIsListed
<1>1. Inv /\ TidyInv => LiveIsListed
  <2> SUFFICES ASSUME Inv, TidyInv, NEW s \in Sessions, Live(s), s \notin cut,
                      ~ \E t \in Threads : At(t, "enlist") /\ Sid(t) = s
               PROVE  Cardinality({i \in Listed(Cardinality(Sessions)) : index[i] = s}) = 1
    BY DEF LiveIsListed
  <2>1. InIndex(s)
    BY DEF TidyInv, Tidy, Live, At
  <2>2. PICK k \in DOMAIN index : index[k] = s
    BY <2>1 DEF InIndex, Holds
  <2>3. index \in Seq(Sessions) /\ Distinct(index)
    BY DEF Inv, StoreTypeOK, Distinct
  <2>4. k <= Cardinality(Sessions)
    BY <2>2, <2>3, IndexFits
  <2>5. {i \in Listed(Cardinality(Sessions)) : index[i] = s} = {k}
    BY <2>2, <2>3, <2>4 DEF Listed, Distinct
  <2> QED
    BY <2>5, FS_Singleton
<1> QED
  BY <1>1, StoreInvariant, TidyAlways, PTL
-----------------------------------------------------------------------------
(***************************************************************************)
(* ChatTurn: what the requests are about.                                  *)
(***************************************************************************)

\* Steps of add_message after the message is in the list.
Pushed == {"reload", "scan", "summarise", "touch", "rank"}
Working == {"check", "adding", "history", "stream", "yielded", "saving"}

NothingShown == [pieces |-> 0, left |-> FALSE]

\* A request and the store method it is in; a thread without a request adds nothing.
Coupled(t) ==
  /\ turn[t].at = "none" => call[t].at \in {"idle"} \union CreateSteps \union DeleteSteps
  /\ turn[t].at \in {"check", "history", "stream", "yielded"} => call[t].at = "idle"
  /\ turn[t].at = "adding" =>
       call[t].at = "idle" \/ (call[t].at \in AddSteps /\ call[t].msg = Question(Asked(t)))
  /\ turn[t].at = "saving" =>
       call[t].at = "idle" \/ (call[t].at \in AddSteps /\ call[t].msg = Answer(Asked(t), turn[t].kept))
  /\ turn[t].at # "none" => t \in Askers /\ Asked(t) \in posted /\ Sid(t) \in born

\* No two requests are about one question.
Alone == \A t, u \in Threads : turn[t].at # "none" /\ turn[u].at # "none" /\ Asked(t) = Asked(u) => t = u

\* What a request has kept of the pieces the client was sent.
Told(t) ==
  LET sent == shown[Asked(t)] IN
    /\ turn[t].at \in {"check", "adding", "history"} => turn[t].kept = 0 /\ sent = NothingShown
    /\ turn[t].at = "stream" => turn[t].kept = sent.pieces /\ ~sent.left
    /\ turn[t].at = "yielded" => turn[t].kept + 1 = sent.pieces /\ ~sent.left
    /\ turn[t].at = "saving" => /\ turn[t].kept \in 1..MaxPieces
                                /\ turn[t].kept = sent.pieces - (IF sent.left THEN 1 ELSE 0)

\* The request has yet to add its question, or the answer.
Pending(t, role) ==
  IF role = "user"
  THEN turn[t].at = "check" \/ (turn[t].at = "adding" /\ call[t].at \in {"verify", "push"})
  ELSE \/ turn[t].at \in {"check", "adding", "history", "stream", "yielded"}
       \/ turn[t].at = "saving" /\ call[t].at \in {"verify", "push"}

\* The question was added, and is there as long as the session is.
HasAsked(t) ==
  \/ turn[t].at \in {"history", "stream", "yielded", "saving"}
  \/ turn[t].at = "adding" /\ (call[t].at \in Pushed \/ (call[t].at = "idle" /\ call[t].result = "ok"))

Stored(t) ==
  HasAsked(t) /\ hash[Sid(t)].created =>
    \E i \in DOMAIN messages[Sid(t)] : messages[Sid(t)][i] = Question(Asked(t))

\* The agent's history has the question and those before it.
Informed(t) ==
  turn[t].at \in {"stream", "yielded"} /\ hash[Sid(t)].created /\ turn[t].seen # {} =>
    \E i \in DOMAIN messages[Sid(t)] :
      /\ messages[Sid(t)][i] = Question(Asked(t))
      /\ \A j \in 1..i : messages[Sid(t)][j].role = "user" => messages[Sid(t)][j].asked \in turn[t].seen

\* What is in a list: nothing that is yet to be added, nothing twice, answers after
\* their questions and as they were shown.
Listing(s) ==
  \A i \in DOMAIN messages[s] : LET m == messages[s][i]  sent == shown[m.asked] IN
    /\ m.asked \in posted
    /\ \A t \in Threads : turn[t].at # "none" /\ Asked(t) = m.asked => ~Pending(t, m.role)
    /\ \A j \in DOMAIN messages[s] :
         messages[s][j].role = m.role /\ messages[s][j].asked = m.asked => i = j
    /\ m.role = "assistant" => m.size = sent.pieces - (IF sent.left THEN 1 ELSE 0)
    /\ m.role = "assistant" /\ hash[s].created =>
         \E j \in 1..(i - 1) : messages[s][j] = Question(m.asked)

TurnType ==
  /\ turn \in [Threads -> Turns]
  /\ posted \in SUBSET Questions
  /\ shown \in [Questions -> [pieces: 0..MaxPieces, left: BOOLEAN]]

TurnInv ==
  /\ TurnType
  /\ Alone
  /\ \A q \in Questions \ posted : shown[q] = NothingShown
  /\ \A t \in Threads : Coupled(t) /\ (turn[t].at # "none" => Told(t)) /\ Stored(t) /\ Informed(t)
  /\ \A s \in Sessions : Listing(s)

-----------------------------------------------------------------------------
(***************************************************************************)
(* What a step of the store does for the request whose thread takes it.    *)
(***************************************************************************)

\* How a command moves its thread on.
Follows(t) ==
  /\ call'[t].at \in {"verify", "push"} => call[t].at = "verify"
  /\ call'[t].at \in Pushed => call[t].at \in {"push"} \union Pushed
  /\ call[t].at \in AddSteps =>
       /\ call'[t].at \in {"idle"} \union AddSteps
       /\ call'[t].at # "idle" => call'[t].msg = call[t].msg
  /\ call[t].at \in CreateSteps \union DeleteSteps =>
       call'[t].at \in {"idle"} \union CreateSteps \union DeleteSteps
  /\ call'[t].at = "idle" /\ call'[t].result = "ok" => call[t].at \in {"rank", "enlist", "delIndex"}

\* A list stays, gets the message that is pushed, or goes with its session.
Lists(t) ==
  /\ \A s \in Sessions :
       \/ messages'[s] = messages[s]
       \/ /\ s = Sid(t) /\ call[t].at = "push"
          /\ messages'[s] = Append(messages[s], call[t].msg)
       \/ messages'[s] = <<>> /\ ~hash'[s].created
  /\ \A s \in Sessions : hash'[s].created => hash[s].created \/ s \notin born

\* A method that ends.
LEMMA ReturnGives ==
  ASSUME StoreTypeOK, NEW t \in Threads,
         NEW r \in {"none", "ok", "raised", "unknown"}, Return(t, r)
  PROVE  call'[t].at = "idle" /\ call'[t].result = r
<1>1. call \in [Threads -> Calls]
  BY DEF StoreTypeOK
<1>2. call' = [call EXCEPT ![t] = [Free(Sid(t)) EXCEPT !.result = r]]
  BY DEF Return
<1> QED
  BY <1>1, <1>2 DEF Free

LEMMA GotoGives ==
  ASSUME StoreTypeOK, NEW t \in Threads, NEW step \in Steps, Goto(t, step)
  PROVE  call'[t].at = step /\ call'[t].msg = call[t].msg
<1>1. call \in [Threads -> Calls] /\ call[t] \in Calls
  BY DEF StoreTypeOK
<1>2. call' = [call EXCEPT ![t] = [call[t] EXCEPT !.at = step]]
  BY <1>1 DEF Goto
<1> QED
  BY <1>1, <1>2 DEF Calls

LEMMA ThenGives ==
  ASSUME StoreTypeOK, NEW t \in Threads, NEW next \in Steps, Then(t, next)
  PROVE  \/ call'[t].at = "idle" /\ (call'[t].result = "ok" => next = "idle")
         \/ next # "idle" /\ call'[t].at = next /\ call'[t].msg = call[t].msg
<1>1. CASE Return(t, "raised")
  BY <1>1, ReturnGives
<1>2. CASE next = "idle" /\ Return(t, "ok")
  BY <1>2, ReturnGives
<1>3. CASE next # "idle" /\ Goto(t, next)
  BY <1>3, GotoGives
<1> QED
  BY <1>1, <1>2, <1>3 DEF Then

LEMMA CommandFollows ==
  ASSUME Inv, NEW t \in Threads, Command(t) \/ Die(t), call[t].at \notin RenameSteps
  PROVE  Follows(t)
<1> USE DEF Steps, CreateSteps, AddSteps, RenameSteps, DeleteSteps, Pushed
<1>0. StoreTypeOK /\ call \in [Threads -> Calls] /\ call[t] \in Calls
  BY DEF Inv, StoreTypeOK
<1>1. ASSUME NEW from, NEW next \in Steps, call[t].at = from, Then(t, next),
             <<from, next>> \in {<<"create", "enlist">>, <<"enlist", "idle">>,
               <<"push", "reload">>, <<"summarise", "touch">>, <<"touch", "rank">>,
               <<"rank", "idle">>, <<"delList", "delIndex">>, <<"delIndex", "idle">>}
      PROVE  Follows(t)
  BY <1>0, <1>1, ThenGives DEF Follows
<1>2. CASE CreateHash(t)
  BY <1>1, <1>2 DEF CreateHash, At
<1>3. CASE Enlist(t)
  BY <1>1, <1>3 DEF Enlist, At
<1>4. CASE Push(t)
  BY <1>1, <1>4 DEF Push, At
<1>5. CASE Summarise(t)
  BY <1>1, <1>5 DEF Summarise, At
<1>6. CASE Touch(t)
  BY <1>1, <1>6 DEF Touch, At
<1>7. CASE Rank(t)
  BY <1>1, <1>7 DEF Rank, At
<1>8. CASE DelList(t)
  BY <1>1, <1>8 DEF DelList, At
<1>9. CASE DelIndex(t)
  BY <1>1, <1>9 DEF DelIndex, At
<1>10. CASE DelHash(t)
  <2>1. call[t].at = "delHash" /\ (Return(t, "raised") \/ Goto(t, "delList"))
    BY <1>10 DEF DelHash, At
  <2> QED
    BY <1>0, <2>1, ReturnGives, GotoGives DEF Follows
<1>11. CASE Verify(t, "verify", "push")
  <2>1. call[t].at = "verify" /\ (Return(t, "unknown") \/ Goto(t, "push"))
    BY <1>11 DEF Verify, At
  <2> QED
    BY <1>0, <2>1, ReturnGives, GotoGives DEF Follows
<1>12. CASE Verify(t, "delVerify", "delHash")
  <2>1. call[t].at = "delVerify" /\ (Return(t, "unknown") \/ Goto(t, "delHash"))
    BY <1>12 DEF Verify, At
  <2> QED
    BY <1>0, <2>1, ReturnGives, GotoGives DEF Follows
<1>13. CASE Raise(t) \/ Die(t)
  <2>1. call[t].at # "idle" /\ (Return(t, "raised") \/ Return(t, "none"))
    BY <1>13 DEF Raise, Die
  <2> QED
    BY <1>0, <2>1, ReturnGives DEF Follows
<1>14. CASE Reload(t)
  <2>1. CASE hash[Sid(t)] = NoHash
    BY <1>0, <1>14, <2>1, ReturnGives DEF Reload, At, Follows
  <2>2. CASE hash[Sid(t)] # NoHash
    <3>1. call' = [call EXCEPT ![t] = [call[t] EXCEPT !.at = "scan", !.title = hash[Sid(t)].title]]
      BY <1>0, <1>14, <2>2 DEF Reload
    <3>2. call'[t].at = "scan" /\ call'[t].msg = call[t].msg /\ call[t].at = "reload"
      BY <1>0, <1>14, <3>1 DEF Calls, Reload, At
    <3> QED
      BY <3>2 DEF Follows
  <2> QED
    BY <2>1, <2>2
<1>15. CASE Scan(t)
  <2>1. PICK text \in UserText \union {None} :
          call' = [call EXCEPT ![t].at = IF text = None THEN "touch" ELSE "summarise",
                               ![t].text = text]
    BY <1>15 DEF Scan
  <2>2. call' = [call EXCEPT ![t] = [call[t] EXCEPT !.at = IF text = None THEN "touch"
                                                           ELSE "summarise",
                                                    !.text = text]]
    BY <1>0, <2>1
  <2>3. /\ call'[t].at \in {"touch", "summarise"} /\ call'[t].msg = call[t].msg
        /\ call[t].at = "scan"
    BY <1>0, <1>15, <2>2 DEF Calls, Scan, At
  <2> QED
    BY <2>3 DEF Follows
<1>16. ~(Verify(t, "renVerify", "rename") \/ Rename(t))
  BY DEF Verify, Rename, At
<1> QED
  BY <1>2, <1>3, <1>4, <1>5, <1>6, <1>7, <1>8, <1>9, <1>10, <1>11, <1>12, <1>13, <1>14, <1>15,
     <1>16 DEF Command

LEMMA CommandLists ==
  ASSUME Inv, NEW t \in Threads, Command(t) \/ Die(t)
  PROVE  Lists(t)
<1>a. /\ Sid(t) \in Sessions /\ hash \in [Sessions -> Hash]
      /\ messages \in [Sessions -> Seq(Messages)]
  BY CallTypes DEF Inv, StoreTypeOK
<1>b. \A s \in Sessions : s # Sid(t) => hash'[s] = hash[s] /\ messages'[s] = messages[s]
  BY CommandLocal DEF Local
<1>c. \A s \in Sessions : hash'[s].created => hash[s].created \/ s \notin born
  <2>1. call[t].at = "create" => Sid(t) \notin born
    BY DEF Inv, CallInv
  <2> QED
    BY <1>b, <2>1, CommandLocal
<1>1. CASE Push(t)
  BY <1>a, <1>b, <1>c, <1>1 DEF Push, At, Lists
<1>2. CASE DelList(t)
  <2>1. ~hash'[Sid(t)].created /\ messages'[Sid(t)] = <<>>
    BY <1>a, <1>2 DEF DelList, At, Inv, CallInv
  <2> QED
    BY <1>b, <1>c, <2>1 DEF Lists
<1>3. CASE UNCHANGED messages
  BY <1>c, <1>3 DEF Lists
<1> QED
  BY <1>1, <1>2, <1>3 DEF Command, CreateHash, Enlist, Verify, Reload, Scan, Summarise, Touch,
     Rank, Rename, DelHash, DelIndex, Raise, Die

-----------------------------------------------------------------------------
(***************************************************************************)
(* The store keeps its invariant: a request calls add_message for an id it *)
(* knows, and reads what it returned.                                      *)
(***************************************************************************)

LEMMA IdleKeeps ==
  ASSUME Inv, NEW t \in Threads, call[t].at = "idle", call' \in [Threads -> Calls],
         \A u \in Threads : u # t => call'[u] = call[u],
         call'[t].at \in {"idle", "verify"},
         call'[t].at = "verify" => call'[t].msg \in Messages /\ call'[t].sid \in born,
         UNCHANGED <<hash, messages, index, born, cut>>
  PROVE  Inv'
<1>1. StoreTypeOK'
  BY DEF Inv, StoreTypeOK
<1>2. HashInv'
  BY DEF Inv, HashInv
<1>3. ASSUME NEW u \in Threads
      PROVE  /\ call'[u].at \notin {"idle", "create"} => call'[u].sid \in born
             /\ call'[u].at = "create" =>
                  /\ call'[u].sid \notin born
                  /\ \A v \in Threads : v # u /\ call'[v].at # "idle" => call'[v].sid # call'[u].sid
             /\ call'[u].at \in {"verify", "push"} => call'[u].msg \in Messages
             /\ call'[u].at = "delList" => ~hash[call'[u].sid].created
  <2>1. CASE u = t
    BY <2>1
  <2>2. CASE u # t
    BY <2>2 DEF Inv, CallInv, Sid
  <2> QED
    BY <2>1, <2>2
<1>4. CallInv'
  BY <1>3 DEF CallInv, Sid
<1> QED
  BY <1>1, <1>2, <1>4 DEF Inv

\* A thread whose method has returned is made ready for the next one.
LEMMA FreshKeeps ==
  ASSUME Inv, NEW t \in Threads, NEW s \in Sessions, call[t].at = "idle",
         call' = [call EXCEPT ![t] = Free(s)],
         UNCHANGED <<hash, messages, index, born, cut>>
  PROVE  /\ Inv' /\ call'[t].at = "idle" /\ call'[t].sid = s /\ call'[t].result = "none"
         /\ \A u \in Threads : u # t => call'[u] = call[u]
<1>1. call \in [Threads -> Calls]
  BY DEF Inv, StoreTypeOK
<1>2. Free(s) \in Calls /\ Free(s).at = "idle" /\ Free(s).sid = s /\ Free(s).result = "none"
  BY DEF Free, Calls, Steps, Titles
<1>3. /\ call' \in [Threads -> Calls] /\ call'[t] = Free(s)
      /\ \A u \in Threads : u # t => call'[u] = call[u]
  BY <1>1, <1>2
<1>4. Inv'
  BY <1>2, <1>3, IdleKeeps
<1> QED
  BY <1>2, <1>3, <1>4

\* add_message is called.
LEMMA AddKeeps ==
  ASSUME Inv, NEW t \in Threads, NEW s \in born, NEW m \in Messages, Begin(t, "verify", s, m)
  PROVE  /\ Inv' /\ call[t].at = "idle" /\ call'[t].at = "verify" /\ call'[t].sid = s
         /\ call'[t].msg = m
         /\ \A u \in Threads : u # t => call'[u] = call[u]
         /\ UNCHANGED <<hash, messages, index, born, cut>>
<1>1. StoreTypeOK /\ s \in Sessions
  BY DEF Inv, StoreTypeOK
<1>2. Begins(t, "verify", s, m) /\ UNCHANGED <<hash, messages, index, born, cut>>
  BY <1>1, BeginBegins DEF Begin, Steps, AddSteps
<1>3. Inv'
  BY <1>2, IdleKeeps DEF Begins
<1> QED
  BY <1>2, <1>3 DEF Begins

-----------------------------------------------------------------------------
(***************************************************************************)
(* The requests.                                                           *)
(***************************************************************************)

\* What a step by t leaves alone of the other requests, and of what they have shown.
Frame(t) ==
  /\ \A u \in Threads : u # t => turn'[u] = turn[u] /\ call'[u] = call[u]
  /\ posted \subseteq posted' /\ born \subseteq born'
  /\ \A q \in Questions : \/ shown'[q] = shown[q]
                          \/ turn[t].at \in {"stream", "yielded"} /\ q = Asked(t)

\* Its own request goes on with its question, or is a new one, and nothing that was
\* added is yet to be added again.
Onward(t) ==
  turn'[t].at # "none" =>
    \/ turn'[t].asked \notin posted
    \/ /\ turn[t].at # "none" /\ turn'[t].asked = turn[t].asked
       /\ Pending(t, "user")' => Pending(t, "user")
       /\ Pending(t, "assistant")' => Pending(t, "assistant")

\* Messages are questions and answers.
LEMMA MessageFields ==
  ASSUME NEW m \in Messages
  PROVE  /\ m.role \in {"user", "assistant"} /\ m.asked \in Questions
         /\ m.role = "user" => m = Question(m.asked)
BY TurnAssumption DEF Question

LEMMA ListFields ==
  ASSUME StoreTypeOK, NEW s \in Sessions
  PROVE  /\ Len(messages[s]) \in Nat /\ DOMAIN messages[s] = 1..Len(messages[s])
         /\ \A i \in DOMAIN messages[s] :
              /\ messages[s][i] \in Messages
              /\ messages[s][i].role \in {"user", "assistant"}
              /\ messages[s][i].asked \in Questions
<1>1. messages[s] \in Seq(Messages)
  BY DEF StoreTypeOK
<1>2. Len(messages[s]) \in Nat /\ DOMAIN messages[s] = 1..Len(messages[s])
  BY <1>1, LenProperties
<1>3. \A i \in DOMAIN messages[s] : messages[s][i] \in Messages
  BY <1>1, <1>2, ElementOfSeq
<1> QED
  BY <1>2, <1>3, MessageFields

\* A message appended, by its fields.
LEMMA Appended ==
  ASSUME NEW list \in Seq(Messages), NEW m \in Messages
  PROVE  /\ Len(list) \in Nat /\ DOMAIN list = 1..Len(list)
         /\ DOMAIN Append(list, m) = 1..(Len(list) + 1)
         /\ \A i \in 1..Len(list) : Append(list, m)[i] = list[i]
         /\ Append(list, m)[Len(list) + 1] = m
BY LenProperties, AppendProperties

\* A question in a list stays there as long as the session does.
LEMMA FoundStays ==
  ASSUME Inv, NEW t \in Threads, Lists(t), NEW s \in Sessions, s \in born, hash'[s].created
  PROVE  /\ hash[s].created
         /\ \A i \in DOMAIN messages[s] :
              /\ i \in DOMAIN messages'[s]
              /\ \A j \in 1..i : messages'[s][j] = messages[s][j]
              /\ messages'[s][i] = messages[s][i]
<1>0. messages[s] \in Seq(Messages)
  BY DEF Inv, StoreTypeOK
<1>1. hash[s].created
  BY DEF Lists
<1>2. CASE messages'[s] = messages[s]
  BY <1>1, <1>2
<1>3. CASE call[t].at = "push" /\ messages'[s] = Append(messages[s], call[t].msg)
  <2>1. call[t].msg \in Messages
    BY <1>3 DEF Inv, CallInv
  <2> DEFINE n == Len(messages[s])
  <2>2. /\ n \in Nat /\ DOMAIN messages[s] = 1..n /\ DOMAIN messages'[s] = 1..(n + 1)
        /\ \A i \in 1..n : messages'[s][i] = messages[s][i]
    BY <1>0, <1>3, <2>1, Appended
  <2> HIDE DEF n
  <2> QED
    BY <1>1, <2>2
<1> QED
  BY <1>2, <1>3 DEF Lists

LEMMA OthersKeep ==
  ASSUME Inv, TurnInv, NEW t \in Threads, Frame(t), Lists(t), NEW u \in Threads, u # t
  PROVE  /\ Coupled(u)' /\ (turn'[u].at # "none" => Told(u)')
         /\ Stored(u)' /\ Informed(u)'
<1>0. /\ turn'[u] = turn[u] /\ call'[u] = call[u] /\ Sid(u) \in Sessions
      /\ turn \in [Threads -> Turns] /\ turn[u] \in Turns
      /\ Coupled(u) /\ (turn[u].at # "none" => Told(u)) /\ Stored(u) /\ Informed(u)
  BY CallTypes DEF Frame, TurnInv, TurnType, Inv
<1>1. Coupled(u)'
  BY <1>0 DEF Coupled, Frame, Asked, Sid
<1>2. ASSUME turn[u].at # "none"
      PROVE  /\ Sid(u) \in born /\ Asked(u) \in Questions /\ shown'[Asked(u)] = shown[Asked(u)]
  BY <1>0, <1>2 DEF Coupled, TurnInv, TurnType, Frame, Alone
<1>3. turn'[u].at # "none" => Told(u)'
  BY <1>0, <1>2 DEF Told, Asked
<1>4. Stored(u)'
  <2>1. SUFFICES ASSUME HasAsked(u), hash'[Sid(u)].created
                 PROVE  \E i \in DOMAIN messages'[Sid(u)] : messages'[Sid(u)][i] = Question(Asked(u))
    BY <1>0 DEF Stored, HasAsked, Sid, Asked
  <2>2. Sid(u) \in born
    BY <1>2, <2>1 DEF HasAsked
  <2>3. PICK i \in DOMAIN messages[Sid(u)] : messages[Sid(u)][i] = Question(Asked(u))
    BY <1>0, <2>1, <2>2, FoundStays DEF Stored
  <2> QED
    BY <1>0, <2>1, <2>2, <2>3, FoundStays
<1>5. Informed(u)'
  <2>1. SUFFICES ASSUME turn[u].at \in {"stream", "yielded"}, hash'[Sid(u)].created,
                        turn[u].seen # {}
                 PROVE  \E i \in DOMAIN messages'[Sid(u)] :
                          /\ messages'[Sid(u)][i] = Question(Asked(u))
                          /\ \A j \in 1..i : messages'[Sid(u)][j].role = "user" =>
                               messages'[Sid(u)][j].asked \in turn[u].seen
    BY <1>0 DEF Informed, Sid, Asked
  <2>2. Sid(u) \in born
    BY <1>2, <2>1
  <2>3. PICK i \in DOMAIN messages[Sid(u)] :
          /\ messages[Sid(u)][i] = Question(Asked(u))
          /\ \A j \in 1..i : messages[Sid(u)][j].role = "user" =>
               messages[Sid(u)][j].asked \in turn[u].seen
    BY <1>0, <2>1, <2>2, FoundStays DEF Informed
  <2> QED
    BY <1>0, <2>1, <2>2, <2>3, FoundStays
<1> QED
  BY <1>1, <1>3, <1>4, <1>5

LEMMA AloneKept ==
  ASSUME TurnInv, NEW t \in Threads, Frame(t), Onward(t)
  PROVE  Alone'
<1>1. SUFFICES ASSUME NEW u \in Threads, NEW v \in Threads, u # v,
                      turn'[u].at # "none", turn'[v].at # "none", turn'[u].asked = turn'[v].asked
               PROVE  FALSE
  BY DEF Alone, Asked
<1>2. \A w \in Threads : w # t => turn'[w] = turn[w]
  BY DEF Frame
<1>3. \A w \in Threads : turn[w].at # "none" => turn[w].asked \in posted
  BY DEF TurnInv, Coupled, Asked
<1>4. \A w, x \in Threads : turn[w].at # "none" /\ turn[x].at # "none"
                             /\ turn[w].asked = turn[x].asked => w = x
  BY DEF TurnInv, Alone, Asked
<1> QED
  BY <1>1, <1>2, <1>3, <1>4 DEF Onward

\* What a list holds stays as it is when nothing is added.
LEMMA ListingKept ==
  ASSUME Inv, TurnInv, NEW t \in Threads, Frame(t), Onward(t), NEW s \in Sessions,
         messages'[s] \in {messages[s], <<>>},
         hash'[s].created => hash[s].created \/ messages[s] = <<>>
  PROVE  Listing(s)'
<1>1. CASE messages'[s] = <<>>
  BY <1>1 DEF Listing
<1>2. CASE messages'[s] = messages[s]
  <2>1. SUFFICES ASSUME NEW i \in DOMAIN messages[s]
                 PROVE  LET m == messages[s][i]  sent == shown'[m.asked] IN
                        /\ m.asked \in posted'
                        /\ \A u \in Threads : turn'[u].at # "none" /\ turn'[u].asked = m.asked =>
                             \A role \in {"user", "assistant"} : m.role = role => ~Pending(u, role)'
                        /\ \A j \in DOMAIN messages[s] :
                             messages[s][j].role = m.role /\ messages[s][j].asked = m.asked => i = j
                        /\ m.role = "assistant" =>
                             m.size = sent.pieces - (IF sent.left THEN 1 ELSE 0)
                        /\ m.role = "assistant" /\ hash'[s].created =>
                             \E j \in 1..(i - 1) : messages[s][j] = Question(m.asked)
    <3>1. \A i \in DOMAIN messages[s] : messages[s][i].role \in {"user", "assistant"}
      BY ListFields DEF Inv
    <3> QED
      BY <1>2, <3>1 DEF Listing, Asked, Pending
  <2> DEFINE m == messages[s][i]
  <2>2. /\ m.asked \in posted
        /\ \A u \in Threads : turn[u].at # "none" /\ turn[u].asked = m.asked => ~Pending(u, m.role)
        /\ \A j \in DOMAIN messages[s] :
             messages[s][j].role = m.role /\ messages[s][j].asked = m.asked => i = j
        /\ m.role = "assistant" =>
             m.size = shown[m.asked].pieces - (IF shown[m.asked].left THEN 1 ELSE 0)
        /\ m.role = "assistant" /\ hash[s].created =>
             \E j \in 1..(i - 1) : messages[s][j] = Question(m.asked)
    BY DEF TurnInv, Listing, Asked
  <2>3. m.role \in {"user", "assistant"} /\ m.asked \in Questions /\ messages[s] # <<>>
    BY ListFields DEF Inv
  <2> HIDE DEF m
  <2>4. m.role = "assistant" => shown'[m.asked] = shown[m.asked]
    <3>1. turn[t].at \in {"stream", "yielded"} => Pending(t, "assistant")
      BY DEF Pending
    <3> QED
      BY <2>2, <2>3, <3>1 DEF Frame, Asked
  <2>5. ASSUME NEW u \in Threads, turn'[u].at # "none", turn'[u].asked = m.asked,
               NEW role \in {"user", "assistant"}, m.role = role
        PROVE  ~Pending(u, role)'
    <3>1. CASE u = t
      BY <2>2, <2>3, <2>5, <3>1 DEF Onward
    <3>2. CASE u # t
      BY <2>2, <2>3, <2>5, <3>2 DEF Frame, Pending
    <3> QED
      BY <3>1, <3>2
  <2>6. m.asked \in posted' /\ (hash'[s].created => hash[s].created)
    BY <2>2, <2>3 DEF Frame
  <2> QED
    BY <2>2, <2>4, <2>5, <2>6 DEF m
<1> QED
  BY <1>1, <1>2

\* What add_message pushes was not in the list yet, and is a question, or the answer
\* to a question that is there, as it was shown.
LEMMA ListingPushed ==
  ASSUME Inv, TurnInv, NEW t \in Threads, Frame(t), Onward(t), NEW s \in Sessions, s = Sid(t),
         call[t].at = "push", call'[t].at \notin {"verify", "push"},
         messages'[s] = Append(messages[s], call[t].msg),
         hash'[s].created => hash[s].created,
         turn'[t].at # "none" => turn'[t] = turn[t]
  PROVE  Listing(s)'
<1> DEFINE list == messages[s]
           d == messages'[s]
           n == Len(list)
           new == call[t].msg
           Sent(q) == shown[q].pieces - (IF shown[q].left THEN 1 ELSE 0)
<1>1. list \in Seq(Messages) /\ new \in Messages
  BY DEF Inv, StoreTypeOK, CallInv
<1>2. /\ n \in Nat /\ DOMAIN list = 1..n /\ DOMAIN d = 1..(n + 1)
      /\ \A i \in 1..n : d[i] = list[i]
      /\ d[n + 1] = new
  BY <1>1, Appended
<1>3. /\ turn[t].at \in {"adding", "saving"} /\ Asked(t) \in posted /\ s \in born
      /\ turn[t].at = "adding" => new = Question(Asked(t))
      /\ turn[t].at = "saving" => new = Answer(Asked(t), turn[t].kept)
      /\ Told(t) /\ Stored(t)
  BY DEF TurnInv, Coupled, TurnType, Turns, CreateSteps, DeleteSteps
<1>4. /\ new.asked = Asked(t) /\ new.role \in {"user", "assistant"} /\ Pending(t, new.role)
      /\ new.role = "assistant" => new.size = Sent(Asked(t)) /\ turn[t].at = "saving"
  BY <1>3 DEF Question, Answer, Pending, Told
<1>5. shown' = shown \/ \A q \in Questions : shown'[q] = shown[q]
  BY <1>3 DEF Frame
<1>6. posted \subseteq posted' /\ posted \subseteq Questions
  BY DEF Frame, TurnInv, TurnType
<1>7. \A i \in 1..n :
        /\ list[i].asked \in posted /\ list[i].role \in {"user", "assistant"}
        /\ \A u \in Threads : turn[u].at # "none" /\ turn[u].asked = list[i].asked
                                => ~Pending(u, list[i].role)
        /\ \A j \in 1..n : list[j].role = list[i].role /\ list[j].asked = list[i].asked => i = j
        /\ list[i].role = "assistant" => list[i].size = Sent(list[i].asked)
        /\ list[i].role = "assistant" /\ hash[s].created =>
             \E j \in 1..(i - 1) : list[j] = Question(list[i].asked)
  BY <1>2, ListFields DEF TurnInv, Listing, Asked, Inv
<1>8. \A i \in 1..n : ~(list[i].role = new.role /\ list[i].asked = new.asked)
  BY <1>3, <1>4, <1>7 DEF Asked
<1>9. new.role = "assistant" /\ hash[s].created =>
        \E j \in 1..n : list[j] = Question(new.asked)
  BY <1>2, <1>3, <1>4 DEF Stored, HasAsked
<1>10. ASSUME NEW u \in Threads, turn'[u].at # "none", turn'[u].asked = new.asked,
              NEW role \in {"user", "assistant"}, new.role = role
       PROVE  ~Pending(u, role)'
  <2>1. u = t
    BY <1>3, <1>4, <1>10 DEF Frame, TurnInv, Alone, Asked
  <2>2. turn'[t].at = turn[t].at /\ call'[t].at \notin {"verify", "push"}
    BY <1>10, <2>1
  <2>3. role = "user" => turn[t].at = "adding"
    BY <1>3, <1>4, <1>10 DEF Answer
  <2>4. role = "assistant" => turn[t].at = "saving"
    BY <1>4, <1>10
  <2> QED
    BY <1>3, <2>1, <2>2, <2>3, <2>4 DEF Pending
<1>11. ASSUME NEW i \in 1..n, NEW u \in Threads, turn'[u].at # "none",
              turn'[u].asked = list[i].asked,
              NEW role \in {"user", "assistant"}, list[i].role = role
       PROVE  ~Pending(u, role)'
  <2>1. CASE u = t
    BY <1>7, <1>11, <2>1 DEF Onward
  <2>2. CASE u # t
    BY <1>7, <1>11, <2>2 DEF Frame, Pending
  <2> QED
    BY <2>1, <2>2
<1> HIDE DEF list, d, n, new, Sent
<1>12. \A i \in 1..(n + 1) : i \in 1..n \/ i = n + 1
  BY <1>2
<1>13. \A i \in 1..(n + 1) : d[i].role \in {"user", "assistant"} /\ d[i].asked \in posted
  BY <1>2, <1>3, <1>4, <1>7, <1>12
<1>14. ASSUME NEW i \in 1..(n + 1), NEW j \in 1..(n + 1),
              d[j].role = d[i].role, d[j].asked = d[i].asked
       PROVE  i = j
  BY <1>2, <1>7, <1>8, <1>12, <1>14
<1>15. ASSUME NEW i \in 1..(n + 1), d[i].role = "assistant", hash[s].created
       PROVE  \E j \in 1..(i - 1) : d[j] = Question(d[i].asked)
  <2>1. CASE i \in 1..n
    <3>1. PICK j \in 1..(i - 1) : list[j] = Question(list[i].asked)
      BY <1>2, <1>7, <1>15, <2>1
    <3>2. j \in 1..n
      BY <1>2, <2>1
    <3> QED
      BY <1>2, <2>1, <3>1, <3>2
  <2>2. CASE i = n + 1
    <3>1. PICK j \in 1..n : list[j] = Question(new.asked)
      BY <1>2, <1>9, <1>15, <2>2
    <3>2. j \in 1..(i - 1)
      BY <1>2, <2>2
    <3> QED
      BY <1>2, <2>2, <3>1, <3>2
  <2> QED
    BY <1>12, <2>1, <2>2
<1>16. ASSUME NEW i \in 1..(n + 1), d[i].role = "assistant"
       PROVE  d[i].size = shown'[d[i].asked].pieces - (IF shown'[d[i].asked].left THEN 1 ELSE 0)
  <2>1. d[i].size = Sent(d[i].asked)
    BY <1>2, <1>4, <1>7, <1>12, <1>16
  <2>2. shown'[d[i].asked] = shown[d[i].asked]
    BY <1>5, <1>6, <1>13
  <2> QED
    BY <2>1, <2>2 DEF Sent
<1>17. ASSUME NEW i \in 1..(n + 1), NEW u \in Threads, turn'[u].at # "none",
              turn'[u].asked = d[i].asked,
              NEW role \in {"user", "assistant"}, d[i].role = role
       PROVE  ~Pending(u, role)'
  BY <1>2, <1>10, <1>11, <1>12, <1>17
<1>18. SUFFICES ASSUME NEW i \in 1..(n + 1)
                PROVE  /\ d[i].asked \in posted'
                       /\ \A u \in Threads : turn'[u].at # "none" /\ turn'[u].asked = d[i].asked =>
                            \A role \in {"user", "assistant"} : d[i].role = role => ~Pending(u, role)'
                       /\ \A j \in 1..(n + 1) :
                            d[j].role = d[i].role /\ d[j].asked = d[i].asked => i = j
                       /\ d[i].role = "assistant" => d[i].size = shown'[d[i].asked].pieces
                                                   - (IF shown'[d[i].asked].left THEN 1 ELSE 0)
                       /\ d[i].role = "assistant" /\ hash'[s].created =>
                            \E j \in 1..(i - 1) : d[j] = Question(d[i].asked)
  BY <1>2, <1>13 DEF Listing, Asked, Pending, d
<1> QED
  BY <1>6, <1>13, <1>14, <1>15, <1>16, <1>17

-----------------------------------------------------------------------------
\* What a step has to keep, of its own request.
Own(t) == Coupled(t) /\ (turn[t].at # "none" => Told(t)) /\ Stored(t) /\ Informed(t)

LEMMA StepKeeps ==
  ASSUME Inv, TurnInv, TurnType', NEW t \in Threads,
         Frame(t), Lists(t), Onward(t), Own(t)',
         \A q \in Questions \ posted' : shown'[q] = NothingShown,
         call[t].at = "push" => /\ call'[t].at \notin {"verify", "push"}
                                /\ turn'[t].at # "none" => turn'[t] = turn[t]
  PROVE  TurnInv'
<1>1. Alone'
  BY AloneKept
<1>2. \A u \in Threads : Own(u)'
  BY OthersKeep DEF Own
<1>3. ASSUME NEW s \in Sessions
      PROVE  Listing(s)'
  <2>1. hash'[s].created => hash[s].created \/ messages[s] = <<>>
    BY DEF Lists, Inv, HashInv
  <2>2. CASE messages'[s] \in {messages[s], <<>>}
    BY <2>1, <2>2, ListingKept
  <2>3. CASE s = Sid(t) /\ call[t].at = "push" /\ messages'[s] = Append(messages[s], call[t].msg)
    <3>1. s \in born
      BY <2>3 DEF Inv, CallInv
    <3>2. hash'[s].created => hash[s].created
      BY <3>1 DEF Lists
    <3> QED
      BY <2>3, <3>2, ListingPushed
  <2> QED
    BY <2>2, <2>3 DEF Lists
<1> QED
  BY <1>1, <1>2, <1>3 DEF TurnInv, Own

\* A request that is over, or a thread that had none.
LEMMA NoneKeeps ==
  ASSUME NEW t \in Threads, turn'[t].at = "none",
         call'[t].at \in {"idle"} \union CreateSteps \union DeleteSteps
  PROVE  Own(t)' /\ Onward(t)
BY DEF Own, Coupled, Stored, Informed, HasAsked, Onward

\* Between two methods nothing happens in the store.
LEMMA StoreStays ==
  ASSUME Inv, NEW t \in Threads, UNCHANGED <<hash, messages, born>>
  PROVE  Lists(t)
BY DEF Lists

-----------------------------------------------------------------------------
(***************************************************************************)
(* Each step of a request keeps the invariant.                             *)
(***************************************************************************)

Both == Inv /\ TurnInv

LEMMA Turned ==
  ASSUME TurnType, NEW t \in Threads, NEW r \in Turns, turn' = [turn EXCEPT ![t] = r]
  PROVE  /\ turn' \in [Threads -> Turns] /\ turn'[t] = r
         /\ \A u \in Threads : u # t => turn'[u] = turn[u]
BY DEF TurnType

LEMMA NoTurnTurn == NoTurn \in Turns /\ NoTurn.at = "none" /\ 0 \in 0..MaxPieces
<1>1. 0 \in 0..MaxPieces
  BY TurnAssumption
<1> QED
  BY <1>1 DEF NoTurn, Turns

\* A request ends, its thread in no method.
LEMMA OverKeeps ==
  ASSUME Both, NEW t \in Threads, turn' = [turn EXCEPT ![t] = NoTurn], call'[t].at = "idle",
         Inv', Lists(t), \A u \in Threads : u # t => call'[u] = call[u], born \subseteq born',
         posted' = posted, shown' \in [Questions -> [pieces: 0..MaxPieces, left: BOOLEAN]],
         \A q \in Questions : \/ shown'[q] = shown[q]
                              \/ turn[t].at \in {"stream", "yielded"} /\ q = Asked(t)
  PROVE  Both'
<1>1. /\ turn' \in [Threads -> Turns] /\ turn'[t] = NoTurn
      /\ \A u \in Threads : u # t => turn'[u] = turn[u]
  BY Turned, NoTurnTurn DEF Both, TurnInv
<1>2. TurnType'
  BY <1>1 DEF TurnType, Both, TurnInv
<1>3. Own(t)' /\ Onward(t)
  BY <1>1, NoTurnTurn, NoneKeeps
<1>4. Frame(t)
  BY <1>1 DEF Frame
<1>5. \A q \in Questions \ posted' : shown'[q] = NothingShown
  BY DEF Both, TurnInv, Coupled
<1> QED
  BY <1>1, <1>2, <1>3, <1>4, <1>5, StepKeeps, NoTurnTurn DEF Both

LEMMA PostKeeps ==
  ASSUME Both, NEW t \in Threads, NEW s \in Sessions, NEW q \in Questions, Post(t, s, q)
  PROVE  Both'
<1> DEFINE r == [NoTurn EXCEPT !.at = "check", !.asked = q]
<1>1. /\ t \in Askers /\ turn[t].at = "none" /\ call[t].at = "idle" /\ s \in born
      /\ q \notin posted /\ posted' = posted \union {q}
      /\ turn' = [turn EXCEPT ![t] = r]
      /\ call' = [call EXCEPT ![t] = Free(s)]
      /\ UNCHANGED <<hash, messages, index, born, cut, shown>>
  BY DEF Post, InTurn, At, Known
<1>2. r \in Turns /\ r.at = "check" /\ r.asked = q /\ r.kept = 0
  BY NoTurnTurn DEF NoTurn, Turns
<1> HIDE DEF r
<1>3. /\ turn' \in [Threads -> Turns] /\ turn'[t] = r
      /\ \A u \in Threads : u # t => turn'[u] = turn[u]
  BY <1>1, <1>2, Turned DEF Both, TurnInv
<1>4. /\ Inv' /\ call'[t].at = "idle" /\ call'[t].sid = s
      /\ \A u \in Threads : u # t => call'[u] = call[u]
  BY <1>1, FreshKeeps DEF Both
<1>5. TurnType'
  BY <1>1, <1>3 DEF TurnType, Both, TurnInv
<1>6. Frame(t) /\ Lists(t) /\ Onward(t)
  BY <1>1, <1>2, <1>3, <1>4, StoreStays DEF Frame, Onward, Both
<1>7. \A p \in Questions \ posted : shown[p] = NothingShown
  BY DEF Both, TurnInv
<1>8. Own(t)'
  BY <1>1, <1>2, <1>3, <1>4, <1>7 DEF Own, Coupled, Told, Stored, HasAsked, Informed, Asked, Sid
<1> QED
  BY <1>1, <1>4, <1>5, <1>6, <1>7, <1>8, StepKeeps DEF Both

LEMMA CheckKeeps ==
  ASSUME Both, NEW t \in Threads, Check(t)
  PROVE  Both'
<1>1. turn[t].at = "check" /\ UNCHANGED <<posted, shown>>
  BY DEF Check, InTurn
<1>2. /\ call[t].at = "idle" /\ t \in Askers /\ Asked(t) \in posted /\ Sid(t) \in born
      /\ turn[t].kept = 0 /\ shown[Asked(t)] = NothingShown
      /\ turn[t] \in Turns /\ TurnType
  BY <1>1 DEF Both, TurnInv, TurnType, Coupled, Told
<1>3. CASE turn' = [turn EXCEPT ![t] = NoTurn] /\ UNCHANGED storeVars
  <2>1. Inv' /\ Lists(t)
    BY <1>3, StoreStays, InvStep DEF Both, storeVars
  <2> QED
    BY <1>1, <1>2, <1>3, <2>1, OverKeeps DEF storeVars, TurnType
<1>4. CASE /\ Begin(t, "verify", Sid(t), Question(Asked(t)))
           /\ turn' = [turn EXCEPT ![t].at = "adding"]
  <2> DEFINE r == [turn[t] EXCEPT !.at = "adding"]
  <2>1. r \in Turns /\ r.at = "adding" /\ r.asked = Asked(t) /\ r.kept = 0
    BY <1>2 DEF Turns, Asked
  <2>2. turn' = [turn EXCEPT ![t] = r]
    BY <1>2, <1>4 DEF TurnType
  <2> HIDE DEF r
  <2>3. /\ turn' \in [Threads -> Turns] /\ turn'[t] = r
        /\ \A u \in Threads : u # t => turn'[u] = turn[u]
    BY <1>2, <2>1, <2>2, Turned
  <2>4. Question(Asked(t)) \in Messages
    BY <1>2, TurnAssumption DEF Question, TurnType
  <2>5. /\ Inv' /\ call'[t].at = "verify" /\ call'[t].sid = Sid(t)
        /\ call'[t].msg = Question(Asked(t))
        /\ \A u \in Threads : u # t => call'[u] = call[u]
        /\ UNCHANGED <<hash, messages, index, born, cut>>
    BY <1>2, <1>4, <2>4, AddKeeps DEF Both
  <2>6. TurnType'
    BY <1>1, <1>2, <2>3 DEF TurnType
  <2>7. Lists(t) /\ Frame(t)
    BY <1>1, <2>3, <2>5, StoreStays DEF Both, Frame
  <2>8. Onward(t)
    BY <1>1, <2>1, <2>3 DEF Onward, Pending, Asked
  <2>9. Own(t)'
    BY <1>1, <1>2, <2>1, <2>3, <2>5
       DEF Own, Coupled, Told, Stored, HasAsked, Informed, Asked, Sid, AddSteps, Pushed
  <2> QED
    BY <1>1, <1>2, <2>5, <2>6, <2>7, <2>8, <2>9, StepKeeps DEF Both, TurnInv
<1> QED
  BY <1>3, <1>4 DEF Check

LEMMA ReadFresh ==
  ASSUME Both, NEW t \in Threads, Read(t)
  PROVE  /\ call[t].at = "idle" /\ Inv' /\ call'[t].at = "idle" /\ call'[t].sid = Sid(t)
         /\ \A u \in Threads : u # t => call'[u] = call[u]
         /\ UNCHANGED <<hash, messages, index, born, cut, posted, shown>>
<1>1. Sid(t) \in Sessions
  BY CallTypes DEF Both, Inv
<1> QED
  BY <1>1, FreshKeeps DEF Both, Read, At

LEMMA AddedKeeps ==
  ASSUME Both, NEW t \in Threads, Added(t)
  PROVE  Both'
<1>1. turn[t].at = "adding" /\ Read(t)
  BY DEF Added, InTurn
<1>2. /\ call[t].at = "idle" /\ Inv' /\ call'[t].at = "idle" /\ call'[t].sid = Sid(t)
      /\ \A u \in Threads : u # t => call'[u] = call[u]
      /\ UNCHANGED <<hash, messages, index, born, cut, posted, shown>>
  BY <1>1, ReadFresh
<1>3. /\ t \in Askers /\ Asked(t) \in posted /\ Sid(t) \in born
      /\ turn[t].kept = 0 /\ shown[Asked(t)] = NothingShown /\ Stored(t)
      /\ turn[t] \in Turns /\ TurnType
  BY <1>1 DEF Both, TurnInv, TurnType, Coupled, Told
<1>4. Lists(t)
  BY <1>2, StoreStays DEF Both
<1>5. CASE call[t].result # "ok"
  <2>1. turn' = [turn EXCEPT ![t] = NoTurn]
    BY <1>5 DEF Added
  <2> QED
    BY <1>2, <1>3, <1>4, <2>1, OverKeeps DEF TurnType
<1>6. CASE call[t].result = "ok"
  <2> DEFINE r == [turn[t] EXCEPT !.at = "history"]
  <2>1. r \in Turns /\ r.at = "history" /\ r.asked = Asked(t) /\ r.kept = 0
    BY <1>3 DEF Turns, Asked
  <2>2. turn' = [turn EXCEPT ![t] = r]
    BY <1>3, <1>6 DEF TurnType, Added
  <2> HIDE DEF r
  <2>3. /\ turn' \in [Threads -> Turns] /\ turn'[t] = r
        /\ \A u \in Threads : u # t => turn'[u] = turn[u]
    BY <1>3, <2>1, <2>2, Turned
  <2>4. TurnType' /\ Frame(t)
    BY <1>2, <1>3, <2>3 DEF TurnType, Frame
  <2>5. Onward(t)
    BY <1>1, <2>1, <2>3 DEF Onward, Pending, Asked
  <2>6. HasAsked(t)
    BY <1>1, <1>2, <1>6 DEF HasAsked
  <2>7. Own(t)'
    BY <1>2, <1>3, <2>1, <2>3, <2>6 DEF Own, Coupled, Told, Stored, Informed, Asked, Sid
  <2> QED
    BY <1>2, <1>4, <2>4, <2>5, <2>7, StepKeeps DEF Both, TurnInv
<1> QED
  BY <1>5, <1>6

LEMMA SavedKeeps ==
  ASSUME Both, NEW t \in Threads, Saved(t)
  PROVE  Both'
<1>1. Read(t) /\ turn' = [turn EXCEPT ![t] = NoTurn]
  BY DEF Saved
<1>2. Lists(t)
  BY <1>1, ReadFresh, StoreStays DEF Both
<1> QED
  BY <1>1, <1>2, ReadFresh, OverKeeps DEF Both, TurnInv, TurnType

\* A step from one point to the next outside the store.
LEMMA PassKeeps ==
  ASSUME Both, NEW t \in Threads, UNCHANGED <<storeVars, posted>>,
         NEW r \in Turns, turn' = [turn EXCEPT ![t] = r], r.asked = Asked(t),
         turn[t].at \in {"history", "stream", "yielded"}, r.at \in {"stream", "yielded"},
         shown' \in [Questions -> [pieces: 0..MaxPieces, left: BOOLEAN]],
         \A q \in Questions : \/ shown'[q] = shown[q]
                              \/ turn[t].at \in {"stream", "yielded"} /\ q = Asked(t),
         Told(t)', Informed(t)'
  PROVE  Both'
<1>1. /\ call[t].at = "idle" /\ t \in Askers /\ Asked(t) \in posted /\ Sid(t) \in born
      /\ Stored(t) /\ TurnType
  BY DEF Both, TurnInv, Coupled
<1>2. /\ turn' \in [Threads -> Turns] /\ turn'[t] = r
      /\ \A u \in Threads : u # t => turn'[u] = turn[u]
  BY <1>1, Turned
<1>3. Inv' /\ Lists(t)
  BY StoreStays, InvStep DEF Both, storeVars
<1>4. TurnType' /\ Frame(t)
  BY <1>1, <1>2 DEF TurnType, Frame, storeVars
<1>5. Onward(t)
  BY <1>2 DEF Onward, Pending, Asked
<1>6. Own(t)'
  BY <1>1, <1>2 DEF Own, Coupled, Stored, HasAsked, Asked, Sid, storeVars
<1>7. \A q \in Questions \ posted' : shown'[q] = NothingShown
  BY <1>1 DEF Both, TurnInv
<1> QED
  BY <1>1, <1>3, <1>4, <1>5, <1>6, <1>7, StepKeeps DEF Both

LEMMA HistoryKeeps ==
  ASSUME Both, NEW t \in Threads, History(t)
  PROVE  Both'
<1>1. PICK seen \in {Asking(messages[Sid(t)]), {}} :
        turn' = [turn EXCEPT ![t].at = "stream", ![t].seen = seen]
  BY DEF History
<1> DEFINE r == [turn[t] EXCEPT !.at = "stream", !.seen = seen]
<1>2. /\ turn[t].at = "history" /\ UNCHANGED <<storeVars, posted, shown>>
      /\ TurnType /\ turn[t] \in Turns /\ Sid(t) \in Sessions
      /\ turn[t].kept = 0 /\ shown[Asked(t)] = NothingShown /\ Stored(t)
  BY CallTypes DEF History, InTurn, Both, Inv, TurnInv, TurnType, Told
<1>3. seen \subseteq Questions
  <2>1. \A i \in DOMAIN messages[Sid(t)] : messages[Sid(t)][i].asked \in Questions
    BY <1>2, ListFields DEF Both, Inv
  <2> QED
    BY <1>1, <2>1 DEF Asking
<1>4. r \in Turns /\ r.at = "stream" /\ r.asked = Asked(t) /\ r.kept = 0 /\ r.seen = seen
  BY <1>2, <1>3 DEF Turns, Asked
<1>5. turn' = [turn EXCEPT ![t] = r]
  BY <1>1, <1>2 DEF TurnType
<1> HIDE DEF r
<1>6. turn'[t] = r
  BY <1>2, <1>4, <1>5, Turned
<1>7. Told(t)'
  BY <1>2, <1>4, <1>6 DEF Told, Asked, NothingShown
<1>8. Informed(t)'
  <2>1. SUFFICES ASSUME hash[Sid(t)].created, seen # {}
                 PROVE  \E i \in DOMAIN messages[Sid(t)] :
                          /\ messages[Sid(t)][i] = Question(Asked(t))
                          /\ \A j \in 1..i : messages[Sid(t)][j].role = "user" =>
                               messages[Sid(t)][j].asked \in seen
    BY <1>2, <1>4, <1>6 DEF Informed, Sid, Asked, storeVars
  <2>2. PICK i \in DOMAIN messages[Sid(t)] : messages[Sid(t)][i] = Question(Asked(t))
    BY <1>2, <2>1 DEF Stored, HasAsked
  <2>3. \A j \in 1..i : j \in DOMAIN messages[Sid(t)]
    BY <1>2, ListFields DEF Both, Inv
  <2>4. \A j \in 1..i : messages[Sid(t)][j].role = "user" => messages[Sid(t)][j].asked \in seen
    BY <1>1, <2>1, <2>3 DEF Asking
  <2> QED
    BY <2>2, <2>4
<1> QED
  BY <1>2, <1>4, <1>5, <1>7, <1>8, PassKeeps DEF TurnType, Asked

\* A stream that goes on has the history it began with.
LEMMA InformedOn ==
  ASSUME Both, NEW t \in Threads, UNCHANGED storeVars, turn[t].at \in {"stream", "yielded"},
         turn'[t].asked = turn[t].asked, turn'[t].seen = turn[t].seen
  PROVE  Informed(t)'
<1>1. Informed(t)
  BY DEF Both, TurnInv
<1> QED
  BY <1>1 DEF Informed, Sid, Asked, storeVars

LEMMA YieldKeeps ==
  ASSUME Both, NEW t \in Threads, Yield(t)
  PROVE  Both'
<1> DEFINE r == [turn[t] EXCEPT !.at = "yielded"]
           q == Asked(t)
<1>1. /\ turn[t].at = "stream" /\ turn[t].kept < MaxPieces /\ UNCHANGED <<storeVars, posted>>
      /\ turn' = [turn EXCEPT ![t].at = "yielded"]
      /\ shown' = [shown EXCEPT ![q].pieces = @ + 1]
  BY DEF Yield, InTurn
<1>2. /\ TurnType /\ turn[t] \in Turns /\ q \in Questions
      /\ turn[t].kept = shown[q].pieces /\ ~shown[q].left
  BY <1>1 DEF Both, TurnInv, TurnType, Coupled, Told
<1>3. /\ r \in Turns /\ r.at = "yielded" /\ r.asked = q
      /\ r.kept = turn[t].kept /\ r.seen = turn[t].seen
  BY <1>2 DEF Turns, Asked
<1>4. turn' = [turn EXCEPT ![t] = r]
  BY <1>1, <1>2 DEF TurnType
<1> HIDE DEF r, q
<1>5. turn'[t] = r
  BY <1>2, <1>3, <1>4, Turned
<1>6. /\ shown' = [shown EXCEPT ![q] = [shown[q] EXCEPT !.pieces = shown[q].pieces + 1]]
      /\ shown[q].pieces + 1 \in 0..MaxPieces
  BY <1>1, <1>2, TurnAssumption DEF TurnType
<1>7. /\ shown' \in [Questions -> [pieces: 0..MaxPieces, left: BOOLEAN]]
      /\ \A p \in Questions : p # q => shown'[p] = shown[p]
      /\ shown'[q].pieces = shown[q].pieces + 1 /\ ~shown'[q].left
  BY <1>2, <1>6 DEF TurnType
<1>8. Told(t)'
  BY <1>2, <1>3, <1>5, <1>7 DEF Told, Asked
<1>9. Informed(t)'
  BY <1>1, <1>3, <1>5, InformedOn DEF q, Asked
<1> QED
  BY <1>1, <1>3, <1>4, <1>7, <1>8, <1>9, PassKeeps DEF q

LEMMA KeepKeeps ==
  ASSUME Both, NEW t \in Threads, Keep(t)
  PROVE  Both'
<1> DEFINE r == [turn[t] EXCEPT !.at = "stream", !.kept = turn[t].kept + 1]
           q == Asked(t)
<1>1. /\ turn[t].at = "yielded" /\ UNCHANGED <<storeVars, posted, shown>>
      /\ turn' = [turn EXCEPT ![t].at = "stream", ![t].kept = @ + 1]
  BY DEF Keep, InTurn
<1>2. /\ TurnType /\ turn[t] \in Turns /\ q \in Questions
      /\ turn[t].kept + 1 = shown[q].pieces /\ ~shown[q].left
      /\ shown[q].pieces \in 0..MaxPieces
  BY <1>1 DEF Both, TurnInv, TurnType, Coupled, Told
<1>3. /\ r \in Turns /\ r.at = "stream" /\ r.asked = q
      /\ r.kept = turn[t].kept + 1 /\ r.seen = turn[t].seen
  BY <1>2 DEF Turns, Asked
<1>4. turn' = [turn EXCEPT ![t] = r]
  BY <1>1, <1>2 DEF TurnType
<1> HIDE DEF r, q
<1>5. turn'[t] = r
  BY <1>2, <1>3, <1>4, Turned
<1>6. Told(t)'
  BY <1>1, <1>2, <1>3, <1>5 DEF Told, Asked
<1>7. Informed(t)'
  BY <1>1, <1>3, <1>5, InformedOn DEF q, Asked
<1> QED
  BY <1>1, <1>2, <1>3, <1>4, <1>6, <1>7, PassKeeps DEF q, TurnType

\* The end of a stream: what was kept is what was shown, but for a piece it left at.
LEMMA SaveKeeps ==
  ASSUME Both, NEW t \in Threads, turn[t].at \in {"stream", "yielded"}, Save(t),
         posted' = posted,
         shown' \in [Questions -> [pieces: 0..MaxPieces, left: BOOLEAN]],
         \A q \in Questions : shown'[q] = shown[q] \/ q = Asked(t),
         turn[t].kept = shown'[Asked(t)].pieces - (IF shown'[Asked(t)].left THEN 1 ELSE 0)
  PROVE  Both'
<1>1. /\ call[t].at = "idle" /\ t \in Askers /\ Asked(t) \in posted /\ Sid(t) \in born
      /\ Asked(t) \in Questions /\ Stored(t) /\ TurnType /\ turn[t] \in Turns
  BY DEF Both, TurnInv, TurnType, Coupled
<1>2. CASE turn[t].kept = 0
  <2>1. turn' = [turn EXCEPT ![t] = NoTurn] /\ UNCHANGED storeVars
    BY <1>2 DEF Save
  <2>2. Inv' /\ Lists(t)
    BY <2>1, StoreStays, InvStep DEF Both, storeVars
  <2> QED
    BY <1>1, <2>1, <2>2, OverKeeps DEF storeVars
<1>3. CASE turn[t].kept # 0
  <2> DEFINE r == [turn[t] EXCEPT !.at = "saving"]
             m == Answer(Asked(t), turn[t].kept)
  <2>1. /\ r \in Turns /\ r.at = "saving" /\ r.asked = Asked(t) /\ r.kept = turn[t].kept
        /\ turn[t].kept \in 1..MaxPieces
    BY <1>1, <1>3, TurnAssumption DEF Turns, Asked
  <2>2. turn' = [turn EXCEPT ![t] = r] /\ Begin(t, "verify", Sid(t), m)
    BY <1>1, <1>3 DEF TurnType, Save
  <2>3. m \in Messages
    BY <1>1, <2>1, TurnAssumption DEF Answer
  <2>4. m = Answer(r.asked, r.kept)
    BY <2>1
  <2> HIDE DEF r, m
  <2>5. /\ turn' \in [Threads -> Turns] /\ turn'[t] = r
        /\ \A u \in Threads : u # t => turn'[u] = turn[u]
    BY <1>1, <2>1, <2>2, Turned
  <2>6. /\ Inv' /\ call'[t].at = "verify" /\ call'[t].sid = Sid(t) /\ call'[t].msg = m
        /\ \A u \in Threads : u # t => call'[u] = call[u]
        /\ UNCHANGED <<hash, messages, index, born, cut>>
    BY <1>1, <2>2, <2>3, AddKeeps DEF Both
  <2>7. TurnType' /\ Lists(t) /\ Frame(t)
    BY <1>1, <2>5, <2>6, StoreStays DEF Both, Frame, TurnType
  <2>8. Onward(t)
    BY <2>1, <2>5 DEF Onward, Pending, Asked
  <2>9. Coupled(t)'
    BY <1>1, <2>1, <2>4, <2>5, <2>6 DEF Coupled, Asked, Sid, AddSteps
  <2>10. Told(t)'
    BY <2>1, <2>5 DEF Told, Asked
  <2>11. Stored(t)' /\ Informed(t)'
    BY <1>1, <2>1, <2>5, <2>6 DEF Stored, HasAsked, Informed, Asked, Sid
  <2>12. \A q \in Questions \ posted' : shown'[q] = NothingShown
    BY <1>1 DEF Both, TurnInv
  <2> QED
    BY <1>1, <2>6, <2>7, <2>8, <2>9, <2>10, <2>11, <2>12, StepKeeps DEF Both, Own
<1> QED
  BY <1>2, <1>3

LEMMA EndKeeps ==
  ASSUME Both, NEW t \in Threads, End(t)
  PROVE  Both'
<1>1. /\ turn[t].at = "stream" /\ Save(t) /\ UNCHANGED <<posted, shown>>
  BY DEF End, InTurn
<1>2. /\ turn[t].kept = shown[Asked(t)].pieces /\ ~shown[Asked(t)].left /\ TurnType
      /\ turn[t] \in Turns
  BY <1>1 DEF Both, TurnInv, TurnType, Told
<1>3. turn[t].kept = shown'[Asked(t)].pieces - (IF shown'[Asked(t)].left THEN 1 ELSE 0)
  BY <1>1, <1>2, TurnAssumption DEF Turns
<1> QED
  BY <1>1, <1>2, <1>3, SaveKeeps DEF TurnType

LEMMA LeaveKeeps ==
  ASSUME Both, NEW t \in Threads, Leave(t)
  PROVE  Both'
<1> DEFINE q == Asked(t)
<1>1. /\ turn[t].at = "yielded" /\ Save(t) /\ UNCHANGED posted
      /\ shown' = [shown EXCEPT ![q].left = TRUE]
  BY DEF Leave, InTurn
<1>2. /\ turn[t].kept + 1 = shown[q].pieces /\ TurnType /\ q \in Questions /\ turn[t] \in Turns
  BY <1>1 DEF Both, TurnInv, TurnType, Told, Coupled
<1> HIDE DEF q
<1>3. shown' = [shown EXCEPT ![q] = [shown[q] EXCEPT !.left = TRUE]]
  BY <1>1, <1>2 DEF TurnType
<1>4. /\ shown' \in [Questions -> [pieces: 0..MaxPieces, left: BOOLEAN]]
      /\ \A p \in Questions : p # q => shown'[p] = shown[p]
      /\ shown'[q].pieces = shown[q].pieces /\ shown'[q].left
  BY <1>2, <1>3 DEF TurnType
<1>5. turn[t].kept = shown'[q].pieces - 1
  BY <1>2, <1>4, TurnAssumption DEF Turns
<1> QED
  BY <1>1, <1>4, <1>5, SaveKeeps DEF q

\* A thread that creates or deletes sessions asks nothing.
LEMMA OtherKeeps ==
  ASSUME Both, NEW t \in Threads, Other(t)
  PROVE  Both'
<1> USE DEF Steps, CreateSteps, DeleteSteps
<1>1. PICK s \in Sessions : BeginCreate(t, s) \/ BeginDelete(t, s)
  BY DEF Other
<1>2. t \notin Askers /\ UNCHANGED <<turn, posted, shown>>
  BY DEF Other
<1>3. PICK step \in {"create", "delVerify"} : Begin(t, step, s, None)
  BY <1>1 DEF BeginCreate, BeginDelete
<1>4. /\ call[t].at = "idle" /\ call'[t].at = step
      /\ \A u \in Threads : u # t => call'[u] = call[u]
      /\ UNCHANGED <<hash, messages, index, born, cut>>
  BY <1>3, BeginBegins DEF Begins, Begin, Both, Inv
<1>5. Inv'
  BY <1>1, InvStep DEF Both, StoreNext, Client
<1>6. turn'[t].at = "none"
  BY <1>2 DEF Both, TurnInv, Coupled
<1>7. Own(t)' /\ Onward(t)
  BY <1>4, <1>6, NoneKeeps
<1>8. TurnType' /\ Frame(t) /\ Lists(t)
  BY <1>2, <1>4, StoreStays DEF Both, TurnInv, TurnType, Frame
<1> QED
  BY <1>2, <1>4, <1>5, <1>7, <1>8, StepKeeps DEF Both, TurnInv

\* What is pushed is in the list when the next command is sent.
LEMMA PushAppends ==
  ASSUME StoreTypeOK, NEW t \in Threads, Command(t), call[t].at = "push", call'[t].at # "idle"
  PROVE  messages'[Sid(t)] = Append(messages[Sid(t)], call[t].msg)
<1>1. Sid(t) \in Sessions /\ messages \in [Sessions -> Seq(Messages)]
  BY CallTypes DEF StoreTypeOK
<1>2. CASE Push(t)
  BY <1>1, <1>2 DEF Push
<1>3. ~Raise(t)
  BY ReturnGives DEF Raise
<1> QED
  BY <1>2, <1>3 DEF Command, CreateHash, Enlist, Verify, Reload, Scan, Summarise, Touch, Rank,
     Rename, DelHash, DelList, DelIndex, At

LEMMA StoreKeeps ==
  ASSUME Both, NEW t \in Threads, Store(t)
  PROVE  Both'
<1> USE DEF CreateSteps, AddSteps, RenameSteps, DeleteSteps, Pushed
<1>1. Command(t) /\ UNCHANGED <<turn, posted, shown>>
  BY DEF Store
<1>2. Local(t) /\ Lists(t)
  BY <1>1, CommandLocal, CommandLists DEF Both
<1>3. /\ Coupled(t) /\ Stored(t) /\ (turn[t].at # "none" => Told(t)) /\ turn[t] \in Turns
      /\ TurnType /\ Sid(t) \in Sessions
  BY CallTypes DEF Both, Inv, TurnInv, TurnType
<1>4. /\ call[t].at # "idle" /\ call'[t].sid = Sid(t) /\ born \subseteq born'
  <2>1. born \subseteq born'
    BY <1>1 DEF Command, CreateHash, Enlist, Verify, Push, Reload, Scan, Summarise, Touch, Rank,
       Rename, DelHash, DelList, DelIndex, Raise
  <2> QED
    BY <1>2, <2>1 DEF Local
<1>5. turn[t].at \in {"none", "adding", "saving"} /\ call[t].at \notin RenameSteps
  BY <1>3, <1>4 DEF Coupled, Turns
<1>6. Follows(t)
  BY <1>1, <1>5, CommandFollows DEF Both
<1>7. Inv'
  BY <1>1, InvStep DEF Both, StoreNext
<1>8. TurnType' /\ Frame(t)
  BY <1>1, <1>2, <1>3, <1>4 DEF TurnType, Frame, Local
<1>9. Onward(t)
  BY <1>1, <1>6 DEF Onward, Pending, Follows, Asked
<1>10. Coupled(t)'
  <2>1. CASE turn[t].at = "none"
    BY <1>1, <1>3, <1>4, <1>6, <2>1 DEF Coupled, Follows
  <2>2. CASE turn[t].at \in {"adding", "saving"}
    BY <1>1, <1>3, <1>4, <1>6, <2>2 DEF Coupled, Follows, Asked, Sid
  <2> QED
    BY <1>5, <2>1, <2>2
<1>11. turn'[t].at # "none" => Told(t)'
  BY <1>1, <1>3 DEF Told, Asked
<1>12. Informed(t)'
  BY <1>1, <1>5 DEF Informed
<1>13. Stored(t)'
  <2> DEFINE s == Sid(t)
  <2>1. SUFFICES ASSUME turn[t].at # "none", HasAsked(t)', hash'[s].created
                 PROVE  \E i \in DOMAIN messages'[s] : messages'[s][i] = Question(Asked(t))
    BY <1>1, <1>4 DEF Stored, HasAsked, Sid, Asked
  <2>2. s \in born
    BY <1>3, <2>1 DEF Coupled
  <2>3. CASE HasAsked(t)
    <3>1. hash[s].created
      BY <2>1, <2>2, <1>2, <1>3 DEF Lists
    <3>2. PICK i \in DOMAIN messages[s] : messages[s][i] = Question(Asked(t))
      BY <1>3, <2>3, <3>1 DEF Stored
    <3> QED
      BY <1>2, <1>3, <2>1, <2>2, <3>2, FoundStays DEF Both
  <2>4. CASE turn[t].at = "adding" /\ call[t].at = "push" /\ call'[t].at # "idle"
    <3>1. messages'[s] = Append(messages[s], call[t].msg)
      BY <1>1, <2>4, PushAppends DEF Both, Inv
    <3>2. call[t].msg = Question(Asked(t)) /\ call[t].msg \in Messages
      BY <1>3, <2>4 DEF Coupled, Both, Inv, CallInv
    <3>3. messages[s] \in Seq(Messages)
      BY <1>3 DEF Both, Inv, StoreTypeOK
    <3>4. /\ Len(messages[s]) + 1 \in DOMAIN messages'[s]
          /\ messages'[s][Len(messages[s]) + 1] = Question(Asked(t))
      <4> DEFINE n == Len(messages[s])
      <4>1. /\ n \in Nat /\ DOMAIN messages'[s] = 1..(n + 1)
            /\ messages'[s][n + 1] = call[t].msg
        BY <3>1, <3>2, <3>3, Appended
      <4> HIDE DEF n
      <4>2. n + 1 \in 1..(n + 1)
        BY <4>1
      <4>3. n + 1 \in DOMAIN messages'[s] /\ messages'[s][n + 1] = Question(Asked(t))
        BY <3>2, <4>1, <4>2
      <4> QED
        BY <4>3 DEF n
    <3> QED
      BY <3>4
  <2>5. HasAsked(t) \/ (turn[t].at = "adding" /\ call[t].at = "push" /\ call'[t].at # "idle")
    <3>1. CASE turn[t].at = "saving"
      BY <3>1 DEF HasAsked
    <3>2. CASE turn[t].at = "adding"
      <4>1. call[t].at \in AddSteps
        BY <1>3, <1>4, <3>2 DEF Coupled
      <4> QED
        BY <1>1, <1>6, <2>1, <3>2, <4>1 DEF HasAsked, Follows
    <3> QED
      BY <1>5, <2>1, <3>1, <3>2
  <2> QED
    BY <2>3, <2>4, <2>5
<1>14. call[t].at = "push" => call'[t].at \notin {"verify", "push"}
  BY <1>6 DEF Follows
<1> QED
  BY <1>1, <1>2, <1>7, <1>8, <1>9, <1>10, <1>11, <1>12, <1>13, <1>14, StepKeeps
     DEF Both, TurnInv, Own

LEMMA CrashKeeps ==
  ASSUME Both, NEW t \in Threads, Crash(t)
  PROVE  Both'
<1>1. turn' = [turn EXCEPT ![t] = NoTurn] /\ UNCHANGED <<posted, shown>>
  BY DEF Crash
<1>2. shown' \in [Questions -> [pieces: 0..MaxPieces, left: BOOLEAN]]
  BY <1>1 DEF Both, TurnInv, TurnType
<1>3. CASE call[t].at = "idle"
  <2>1. UNCHANGED storeVars
    BY <1>3 DEF Crash, At
  <2>2. Inv' /\ Lists(t)
    BY <2>1, StoreStays, InvStep DEF Both, storeVars
  <2> QED
    BY <1>1, <1>2, <1>3, <2>1, <2>2, OverKeeps DEF storeVars
<1>4. CASE call[t].at # "idle"
  <2>1. Die(t)
    BY <1>4 DEF Crash, At
  <2>2. Inv' /\ Lists(t) /\ Local(t)
    BY <2>1, CommandLocal, CommandLists, InvStep DEF Both, StoreNext
  <2>3. call'[t].at = "idle" /\ born' = born
    BY <2>1, ReturnGives DEF Die, Both, Inv
  <2> QED
    BY <1>1, <1>2, <2>2, <2>3, OverKeeps DEF Local
<1> QED
  BY <1>3, <1>4

-----------------------------------------------------------------------------
(***************************************************************************)
(* The invariant of the whole router, and what follows from it.            *)
(***************************************************************************)

LEMMA BothInit == Init => Both
<1> SUFFICES ASSUME Init PROVE Both
  OBVIOUS
<1>1. StoreInit /\ turn = [t \in Threads |-> NoTurn] /\ posted = {}
      /\ shown = [q \in Questions |-> NothingShown]
  BY DEF Init, NothingShown
<1>2. Inv
  BY <1>1, InitInv
<1>3. \A t \in Threads : turn[t].at = "none" /\ call[t].at = "idle"
  <2>1. PICK s \in Sessions : call = [t \in Threads |-> Free(s)]
    BY <1>1 DEF StoreInit
  <2> QED
    BY <1>1, <2>1, NoTurnTurn DEF Free
<1>4. TurnType
  <2>1. NothingShown \in [pieces: 0..MaxPieces, left: BOOLEAN]
    BY NoTurnTurn DEF NothingShown
  <2>2. turn \in [Threads -> Turns]
    BY <1>1, NoTurnTurn
  <2>3. shown \in [Questions -> [pieces: 0..MaxPieces, left: BOOLEAN]]
    BY <1>1, <2>1
  <2> QED
    BY <1>1, <2>2, <2>3 DEF TurnType
<1>5. \A t \in Threads : Coupled(t) /\ Stored(t) /\ Informed(t)
  BY <1>3 DEF Coupled, Stored, HasAsked, Informed
<1>6. \A s \in Sessions : Listing(s)
  BY <1>1 DEF StoreInit, Listing
<1> QED
  BY <1>1, <1>2, <1>3, <1>4, <1>5, <1>6 DEF Both, TurnInv, Alone

LEMMA BothStep == Both /\ [Next]_vars => Both'
<1> SUFFICES ASSUME Both, [Next]_vars PROVE Both'
  OBVIOUS
<1>1. CASE UNCHANGED vars
  <2>1. Inv'
    BY <1>1, InvStep DEF Both, vars
  <2>2. TurnType' /\ Alone'
    BY <1>1 DEF vars, Both, TurnInv, TurnType, Alone, Asked
  <2>3. \A t \in Threads : Coupled(t)' /\ (turn'[t].at # "none" => Told(t)')
                           /\ Stored(t)' /\ Informed(t)'
    BY <1>1 DEF vars, storeVars, Both, TurnInv, Coupled, Told, Stored, HasAsked, Informed,
       Asked, Sid
  <2>4. \A s \in Sessions : Listing(s)'
    BY <1>1 DEF vars, storeVars, Both, TurnInv, Listing, Pending, Asked
  <2> QED
    BY <1>1, <2>1, <2>2, <2>3, <2>4 DEF Both, TurnInv, vars
<1>2. CASE Next
  BY <1>2, PostKeeps, CheckKeeps, AddedKeeps, HistoryKeeps, YieldKeeps, KeepKeeps, EndKeeps,
     LeaveKeeps, SavedKeeps, OtherKeeps, StoreKeeps, CrashKeeps DEF Next
<1> QED
  BY <1>1, <1>2

LEMMA TurnInvariant == Spec => []Both
BY BothInit, BothStep, PTL DEF Spec

LEMMA LiveMeansCreated ==
  ASSUME NEW s, Live(s)
  PROVE  hash[s].created
BY DEF Live

\* A session shows each question and each answer once, the answer after its question.
THEOREM HistoryInOrder == Spec => []AnswersFollowQuestions
<1>1. Both => AnswersFollowQuestions
  <2> SUFFICES ASSUME Both PROVE AnswersFollowQuestions
    OBVIOUS
  <2>1. TypeOK
    BY DEF Both, Inv, TurnInv, TurnType, TypeOK
  <2> QED
    BY <2>1, LiveMeansCreated DEF Both, TurnInv, Listing, AnswersFollowQuestions
<1> QED
  BY <1>1, TurnInvariant, PTL

\* The agent is asked with its question and all that came before it in its history.
THEOREM AgentIsInformed == Spec => []AgentSeesQuestion
<1>1. Both => AgentSeesQuestion
  <2> SUFFICES ASSUME Both, NEW t \in Threads, turn[t].at = "stream", Live(Sid(t)),
                      turn[t].seen # {}
               PROVE  /\ Asked(t) \in turn[t].seen
                      /\ \E i \in DOMAIN messages[Sid(t)] :
                           /\ messages[Sid(t)][i] = Question(Asked(t))
                           /\ Asking(SubSeq(messages[Sid(t)], 1, i)) \subseteq turn[t].seen
    BY DEF AgentSeesQuestion, InTurn
  <2> DEFINE list == messages[Sid(t)]
             n == Len(list)
  <2>1. PICK i \in DOMAIN list :
          /\ list[i] = Question(Asked(t))
          /\ \A j \in 1..i : list[j].role = "user" => list[j].asked \in turn[t].seen
    BY LiveMeansCreated DEF Both, TurnInv, Informed
  <2>2. list \in Seq(Messages) /\ n \in Nat /\ DOMAIN list = 1..n
    BY CallTypes, ListFields DEF Both, Inv, StoreTypeOK
  <2> HIDE DEF list, n
  <2>3. i \in 1..n /\ i \in 1..i /\ i \in Nat
    BY <2>1, <2>2
  <2>4. Asked(t) \in turn[t].seen
    BY <2>1, <2>3 DEF Question
  <2>5. DOMAIN SubSeq(list, 1, i) = 1..i /\ \A j \in 1..i : SubSeq(list, 1, i)[j] = list[j]
    <3>1. SubSeq(list, 1, i) = [j \in 1..i |-> list[j]]
      BY <2>2, <2>3 DEF n
    <3> QED
      BY <3>1
  <2>6. Asking(SubSeq(list, 1, i)) \subseteq turn[t].seen
    BY <2>1, <2>5 DEF Asking
  <2> QED
    BY <2>1, <2>4, <2>6 DEF list
<1> QED
  BY <1>1, TurnInvariant, PTL

\* An answer in a session is what the client was sent, but for a piece it left at.
THEOREM AnswersAreShown == Spec => []StoredIsShown
<1>1. Both => StoredIsShown
  BY LiveMeansCreated DEF Both, TurnInv, Listing, StoredIsShown
<1> QED
  BY <1>1, TurnInvariant, PTL

\* The log changes in a command of the store only: what a request does in between, and
\* the state it keeps, is nothing a session shows.
LEMMA TurnLogStep == Both /\ Both' /\ [Next]_vars => [Log!Next]_(Log!vars)
<1> SUFFICES ASSUME Both, Both', [Next]_vars
             PROVE  [Log!Next]_(Log!vars)
  OBVIOUS
<1>1. ASSUME UNCHANGED <<hash, messages, born>>
      PROVE  UNCHANGED Log!vars
  BY <1>1 DEF Log!vars, Status, Live
<1>2. ASSUME NEW t \in Threads, Command(t) \/ Die(t)
      PROVE  [Log!Next]_(Log!vars)
  BY <1>2, LogStep DEF StoreNext, Both
<1>3. CASE UNCHANGED vars
  BY <1>1, <1>3 DEF vars, storeVars
<1>4. ASSUME NEW t \in Threads, Store(t) \/ Crash(t)
      PROVE  [Log!Next]_(Log!vars)
  BY <1>1, <1>2, <1>4 DEF Store, Crash, storeVars
<1>5. ASSUME NEW t \in Threads,
             \/ \E s \in Sessions, q \in Questions : Post(t, s, q)
             \/ Check(t) \/ Added(t) \/ History(t) \/ Yield(t) \/ Keep(t) \/ End(t) \/ Leave(t)
             \/ Saved(t) \/ Other(t)
      PROVE  UNCHANGED <<hash, messages, born>>
  BY <1>5 DEF Post, Check, Added, History, Yield, Keep, End, Leave, Saved, Other, Save, Read,
     Begin, BeginCreate, BeginDelete, storeVars
<1> QED
  BY <1>1, <1>3, <1>4, <1>5 DEF Next

\* The router keeps the promise of the store: with requests that stream, fail and die
\* on top of it, callers still see a chat log.
THEOREM TurnsImplementLog == Spec => ImplementsLog
<1>1. Init => Log!Init
  <2> SUFFICES ASSUME Init PROVE Log!Init
    OBVIOUS
  <2>1. \A s \in Sessions : Status(s) = "absent" /\ ~Live(s)
    BY DEF Init, StoreInit, Status, Live, NoHash
  <2> QED
    BY <2>1 DEF Log!Init
<1> QED
  BY <1>1, TurnLogStep, TurnInvariant, PTL DEF Spec, ImplementsLog, Log!Spec
=============================================================================
