-------------------------- MODULE AgentToolLoop_proofs --------------------------
(***************************************************************************)
(* Proofs about AgentToolLoop for every value of its limits: the bound on  *)
(* rounds is never what ends a run, every request holds a whole            *)
(* conversation, and the trace of a run tells what the model was given.    *)
(***************************************************************************)
EXTENDS AgentToolLoop, SequenceTheorems, FiniteSetTheorems, TLAPS

-----------------------------------------------------------------------------
(***************************************************************************)
(* The limits.  Each call that lets the loop go on adds a record or a      *)
(* refused submission, so the rounds that are over never outnumber them.   *)
(***************************************************************************)

Progress == phase \in {"ask", "act"} => round <= Len(records) + rejected

LimitsInv == TypeOK /\ Progress /\ RoundsSuffice

\* A function on 1..2 is a sequence of two.
LEMMA PairIsSeq ==
  ASSUME NEW S, NEW q \in [1..2 -> S]
  PROVE  q \in Seq(S) /\ Len(q) = 2
  <1>1. q \in Seq(S)
    BY SeqDef
  <1>2. DOMAIN q = 1..2
    OBVIOUS
  <1> QED
    BY <1>1, <1>2, LenProperties

\* An agent begins with nothing, or with one prefilled call and its result.
LEMMA PrefillShape ==
  ASSUME NEW a \in Agents
  PROVE  /\ Prefill(a.prefilled) \in Seq(Messages)
         /\ \/ Len(Prefill(a.prefilled)) = 0
            \/ /\ Len(Prefill(a.prefilled)) = 2
               /\ Prefill(a.prefilled)[1] = [role |-> "assistant", calls |-> <<a.prefilled[1]>>]
               /\ Prefill(a.prefilled)[2] = [role |-> "tool", of |-> <<1, 1>>, what |-> "result"]
  <1> DEFINE one == "list_candidate_products"
  <1>1. a.prefilled = <<>> \/ a.prefilled = <<one>>
    BY DEF Agents, UserProfileAnalyst, MarketIntelligence, ProductMatchExpert,
           ComplianceRiskOfficer, ManagerCoordinator
  <1>2. CASE a.prefilled = <<>>
    <2>1. Len(a.prefilled) = 0
      BY <1>2
    <2>2. 1..(2 * Len(a.prefilled)) = {}
      BY <2>1
    <2>3. Prefill(a.prefilled) \in Seq(Messages) /\ Len(Prefill(a.prefilled)) = 0
      BY <2>1, <2>2 DEF Prefill
    <2> QED
      BY <2>3
  <1>3. CASE a.prefilled = <<one>>
    <2> DEFINE p == Prefill(a.prefilled)
    <2>1. Len(a.prefilled) = 1 /\ a.prefilled[1] = one
      BY <1>3
    <2>2. p = [j \in 1..2 |->
                IF j % 2 = 1 THEN [role |-> "assistant", calls |-> <<a.prefilled[(j + 1) \div 2]>>]
                ELSE [role |-> "tool", of |-> <<j - 1, 1>>, what |-> "result"]]
      BY <2>1 DEF Prefill
    <2>3. /\ p[1] = [role |-> "assistant", calls |-> <<a.prefilled[1]>>]
          /\ p[2] = [role |-> "tool", of |-> <<1, 1>>, what |-> "result"]
      BY <2>2
    <2>4. one \in Prefillable
      BY <2>1, <1>3 DEF Prefillable, Range
    <2>5. p[1] \in Messages
      <3>1. <<one>> \in Seq(Names \union Prefillable)
        BY <2>4
      <3>2. p[1] = [role |-> "assistant", calls |-> <<one>>]
        BY <2>1, <2>3
      <3> HIDE DEF p
      <3> QED
        BY <3>1, <3>2 DEF Messages
    <2>6. p[2] \in Messages
      BY <2>3 DEF Messages
    <2>7. p \in Seq(Messages) /\ Len(p) = 2
      <3>1. DOMAIN p = 1..2
        BY <2>2
      <3>2. \A j \in 1..2 : p[j] \in Messages
        BY <2>5, <2>6
      <3>3. p \in [1..2 -> Messages]
        BY <2>2, <3>1, <3>2
      <3> HIDE DEF p
      <3> QED
        BY <3>3, PairIsSeq
    <2> QED
      BY <2>3, <2>7
  <1> QED
    BY <1>1, <1>2, <1>3

\* What a model calls is a sequence of names.
LEMMA AnswerIsMessage ==
  ASSUME NEW calls \in SeqOf(Names, MaxCalls)
  PROVE  /\ calls \in Seq(Names \union Prefillable)
         /\ [role |-> "assistant", calls |-> calls] \in Messages
  <1>1. PICK m \in 0..MaxCalls : calls \in [1..m -> Names]
    BY DEF SeqOf
  <1>2. calls \in Seq(Names \union Prefillable)
    BY <1>1, LimitsAssumption
  <1> QED
    BY <1>2 DEF Messages

\* The answer of a tool is a message.
LEMMA SaidIsMessage ==
  ASSUME TypeOK, NEW what \in {"result", "invalid"}
  PROVE  Said(what) \in Seq(Messages)
  <1>1. [role |-> "tool", of |-> current, what |-> what] \in Messages
    BY DEF TypeOK, Messages
  <1> QED
    BY <1>1 DEF Said, TypeOK

\* The initial state is within the limits: the loop has not begun.
LEMMA LimitsInit == Init => LimitsInv
  <1> SUFFICES ASSUME Init PROVE LimitsInv
    OBVIOUS
  <1> USE LimitsAssumption
  <1>1. Len(records) = 0 /\ records \in Seq(Nat \X Nat)
    BY DEF Init
  <1>2. current \in Nat \X Nat
    BY DEF Init
  <1>3. Rounds \in Nat
    BY DEF Rounds
  <1>p. conversation \in Seq(Messages)
    BY PrefillShape DEF Init
  <1>4. TypeOK
    BY <1>1, <1>2, <1>3, <1>p DEF Init, TypeOK, Phases, Errors
  <1>5. Progress /\ RoundsSuffice
    BY <1>1 DEF Init, Progress, RoundsSuffice
  <1> QED
    BY <1>4, <1>5 DEF LimitsInv

\* No step of the loop leaves the limits, whatever the model answers.
LEMMA LimitsNext == LimitsInv /\ [Next]_vars => LimitsInv'
  <1> SUFFICES ASSUME LimitsInv, [Next]_vars PROVE LimitsInv'
    OBVIOUS
  <1> USE LimitsAssumption
  <1> USE DEF LimitsInv
  <1>r. Rounds \in Nat /\ Rounds = MaxToolCalls + MaxValidationRetries + 1
    BY DEF Rounds
  <1>1. CASE UNCHANGED vars
    BY <1>1 DEF vars, TypeOK, Progress, RoundsSuffice
  <1>2. CASE AttemptFails
    BY <1>2 DEF AttemptFails, Fail, TypeOK, Progress, RoundsSuffice, Phases, Errors
  <1>3. ASSUME NEW calls \in SeqOf(Names, MaxCalls), Answer(calls) PROVE LimitsInv'
    <2>1. conversation' \in Seq(Messages)
      <3>1. [role |-> "assistant", calls |-> calls] \in Messages
        BY <1>3, AnswerIsMessage
      <3> DEFINE m == [role |-> "assistant", calls |-> calls]
      <3>2. conversation' = conversation \/ conversation' = Append(conversation, m)
        BY <1>3 DEF Answer
      <3>3. conversation \in Seq(Messages)
        BY DEF TypeOK
      <3> HIDE DEF m
      <3> QED
        BY <3>1, <3>2, <3>3 DEF m
    <2>2. current' \in Nat \X Nat
      BY <1>3 DEF Answer, TypeOK
    <2> QED
      BY <1>3, <2>1, <2>2 DEF Answer, Fail, TypeOK, Progress, RoundsSuffice, Phases, Errors
  <1>4. CASE Accept
    BY <1>4 DEF Accept, TypeOK, Progress, RoundsSuffice, Phases, Errors
  <1>5. CASE Reject
    <2>1. conversation' \in Seq(Messages)
      BY <1>5, SaidIsMessage DEF Reject, TypeOK
    <2>2. CASE rejected < MaxValidationRetries
      BY <1>5, <2>1, <2>2, <1>r
      DEF Reject, NextRound, Fail, TypeOK, Progress, RoundsSuffice, Phases, Errors
    <2>3. CASE ~(rejected < MaxValidationRetries)
      BY <1>5, <2>1, <2>3 DEF Reject, Fail, TypeOK, Progress, RoundsSuffice, Phases, Errors
    <2> QED
      BY <2>2, <2>3
  <1>6. CASE Refuse
    BY <1>6 DEF Refuse, Fail, TypeOK, Progress, RoundsSuffice, Phases, Errors
  <1>7. CASE RunTool
    <2>1. conversation' \in Seq(Messages)
      BY <1>7, SaidIsMessage DEF RunTool, TypeOK
    <2>2. records' \in Seq(Nat \X Nat) /\ Len(records') = Len(records) + 1
      BY <1>7 DEF RunTool, TypeOK
    <2>3. Len(records') <= MaxToolCalls
      BY <1>7, <2>2 DEF RunTool, TypeOK
    <2>4. CASE current[2] < Len(conversation[current[1]].calls)
      <3>1. current' \in Nat \X Nat
        BY <1>7, <2>4 DEF RunTool, NextCall, TypeOK
      <3>2. UNCHANGED <<agent, phase, rejected, round, attempt, error>>
        BY <1>7, <2>4 DEF RunTool, NextCall
      <3> QED
        BY <1>7, <2>1, <2>2, <2>3, <3>1, <3>2 DEF RunTool, TypeOK, Progress, RoundsSuffice
    <2>5. CASE ~(current[2] < Len(conversation[current[1]].calls))
      <3>1. NextRound
        BY <1>7, <2>5 DEF RunTool, NextCall
      <3>2. round + 1 <= Len(records') + rejected'
        BY <1>7, <2>2 DEF RunTool, TypeOK, Progress
      <3>3. round + 1 < Rounds
        BY <1>7, <1>r, <2>2, <2>3, <3>2 DEF RunTool, TypeOK
      <3>4. /\ round' = round + 1 /\ phase' = "ask"
            /\ UNCHANGED <<agent, current, rejected, attempt, error>>
        BY <1>7, <1>r, <3>1, <3>3 DEF RunTool, NextRound, TypeOK
      <3>5. round' \in 0..Rounds
        BY <1>r, <3>3, <3>4 DEF TypeOK
      <3>6. phase' \in Phases /\ error' = "none"
        BY <1>7, <3>4 DEF RunTool, TypeOK, Phases
      <3>7. TypeOK'
        BY <2>1, <2>2, <2>3, <3>4, <3>5, <3>6 DEF TypeOK
      <3>8. Progress' /\ RoundsSuffice'
        BY <3>2, <3>4 DEF Progress, RoundsSuffice
      <3> QED
        BY <3>7, <3>8
    <2> QED
      BY <2>4, <2>5
  <1> QED
    BY <1>1, <1>2, <1>3, <1>4, <1>5, <1>6, <1>7 DEF Next

\* The limits of the loop, for any limits on tools, retries and attempts: messages
\* and counters are what TypeOK says.
THEOREM TypeCorrect == Spec => []TypeOK
  <1>1. LimitsInv => TypeOK
    BY DEF LimitsInv
  <1> QED
    BY <1>1, LimitsInit, LimitsNext, PTL DEF Spec

\* One round per tool call, per refused submission and for the last submission is
\* enough, whatever the limits are: the loop never runs out of rounds.
THEOREM RoundsAlwaysSuffice == Spec => []RoundsSuffice
  <1>1. LimitsInv => RoundsSuffice
    BY DEF LimitsInv
  <1> QED
    BY <1>1, LimitsInit, LimitsNext, PTL DEF Spec

-----------------------------------------------------------------------------
(***************************************************************************)
(* The conversation.  A tool message sits as far behind the answer it      *)
(* belongs to as its call stands in it, so the answers of finished rounds  *)
(* are whole for good and the current one is answered up to its call.      *)
(***************************************************************************)

Placed(c) ==
  \A j \in DOMAIN c : c[j].role = "tool" =>
    c[j].of[1] \in 1..(j - 1) /\ c[j].of[1] + c[j].of[2] = j

\* The answer at k is the last one, and its calls before n have their results.
AnsweredUpTo(c, k, n) ==
  /\ k \in DOMAIN c /\ c[k].role = "assistant"
  /\ n \in 1..Len(c[k].calls)
  /\ Len(c) = k + n - 1
  /\ \A i \in 1..(n - 1) : Answers(c, k, i) = {k + i} /\ c[k + i].what = "result"

WholeBut(c, skip) ==
  \A k \in DOMAIN c \ {skip} : c[k].role = "assistant" => Whole(c, k)

ConversationInv ==
  /\ Placed(conversation)
  /\ phase = "ask" => WholeBut(conversation, 0)
  /\ phase = "act" => /\ AnsweredUpTo(conversation, current[1], current[2])
                      /\ WholeBut(conversation, current[1])

\* What an appended message adds to the answers of a call.
LEMMA AnswersAppend ==
  ASSUME NEW c \in Seq(Messages), NEW m \in Messages, NEW k \in Nat, NEW i \in Nat
  PROVE  Answers(Append(c, m), k, i) =
           Answers(c, k, i) \union (IF m.role = "tool" /\ m.of = <<k, i>> THEN {Len(c) + 1} ELSE {})
  <1>1. /\ DOMAIN Append(c, m) = 1..(Len(c) + 1) /\ DOMAIN c = 1..Len(c)
        /\ \A j \in 1..Len(c) : Append(c, m)[j] = c[j]
        /\ Append(c, m)[Len(c) + 1] = m
        /\ Len(c) \in Nat
    BY AppendProperties
  <1> DEFINE d == Append(c, m)
  <1> HIDE DEF d
  <1>2. \A j : j \in Answers(d, k, i) <=>
                 \/ j \in Answers(c, k, i)
                 \/ j = Len(c) + 1 /\ m.role = "tool" /\ m.of = <<k, i>>
    BY <1>1 DEF Answers, d
  <1> QED
    BY <1>2 DEF d

\* An answer that is whole stays whole when a message that is not for it is appended.
LEMMA WholeAppend ==
  ASSUME NEW c \in Seq(Messages), NEW m \in Messages, NEW k \in DOMAIN c,
         c[k].role = "assistant", Whole(c, k),
         m.role = "tool" => m.of[1] # k
  PROVE  Whole(Append(c, m), k)
  <1> DEFINE d == Append(c, m)
  <1>1. k \in Nat /\ d[k] = c[k] /\ c[k] \in Messages /\ Len(c) \in Nat
    BY AppendProperties
  <1>2. c[k].calls \in Seq(Names \union Prefillable)
    BY <1>1 DEF Messages
  <1>3. ASSUME NEW i \in Nat PROVE Answers(d, k, i) = Answers(c, k, i)
    <2>1. ~(m.role = "tool" /\ m.of = <<k, i>>)
      OBVIOUS
    <2>2. Answers(Append(c, m), k, i) =
            Answers(c, k, i) \union (IF m.role = "tool" /\ m.of = <<k, i>> THEN {Len(c) + 1} ELSE {})
      BY <1>1, AnswersAppend
    <2> QED
      BY <2>1, <2>2
  <1>4. ASSUME NEW i \in Nat PROVE Refused(d, k, i) <=> Refused(c, k, i)
    <2>1. \A h \in 1..(i - 1) : Answers(d, k, h) = Answers(c, k, h)
      BY <1>3
    <2>2. \A h : \A j \in Answers(c, k, h) : d[j] = c[j]
      BY AppendProperties DEF Answers
    <2> HIDE DEF d
    <2> QED
      BY <2>1, <2>2 DEF Refused
  <1>5. ASSUME NEW i \in DOMAIN c[k].calls
        PROVE  Answers(d, k, i) = IF Refused(d, k, i) THEN {} ELSE {k + i}
    <2>1. i \in Nat
      BY <1>2
    <2>2. Answers(c, k, i) = IF Refused(c, k, i) THEN {} ELSE {k + i}
      BY DEF Whole
    <2> HIDE DEF d
    <2> QED
      BY <1>3, <1>4, <2>1, <2>2
  <1> HIDE DEF d
  <1>6. Whole(d, k)
    BY <1>1, <1>5 DEF Whole
  <1> QED
    BY <1>6 DEF d

\* A new answer of the model: the others stay whole, none of its calls is answered.
LEMMA AppendAnswer ==
  ASSUME NEW c \in Seq(Messages), NEW calls \in Seq(Names \union Prefillable), calls # <<>>,
         Placed(c), WholeBut(c, 0)
  PROVE  LET d == Append(c, [role |-> "assistant", calls |-> calls]) IN
           /\ Placed(d)
           /\ AnsweredUpTo(d, Len(c) + 1, 1)
           /\ WholeBut(d, Len(c) + 1)
  <1> DEFINE m == [role |-> "assistant", calls |-> calls]
             d == Append(c, m)
  <1>1. m \in Messages /\ m.role = "assistant" /\ m.calls = calls /\ m.role # "tool"
    BY DEF Messages
  <1>2. Len(calls) \in Nat /\ Len(calls) # 0
    OBVIOUS
  <1> HIDE DEF m
  <1>3. /\ DOMAIN d = 1..(Len(c) + 1) /\ DOMAIN c = 1..Len(c) /\ Len(c) \in Nat
        /\ \A j \in 1..Len(c) : d[j] = c[j]
        /\ d[Len(c) + 1] = m /\ Len(d) = Len(c) + 1
    BY <1>1, AppendProperties
  <1>4. Placed(d)
    <2> HIDE DEF d
    <2> QED
      BY <1>1, <1>3 DEF Placed
  <1>5. AnsweredUpTo(d, Len(c) + 1, 1)
    <2> HIDE DEF d
    <2> QED
      BY <1>1, <1>2, <1>3 DEF AnsweredUpTo
  <1>6. ASSUME NEW k \in DOMAIN d \ {Len(c) + 1}, d[k].role = "assistant" PROVE Whole(d, k)
    <2>1. k \in DOMAIN c /\ c[k].role = "assistant" /\ k # 0
      BY <1>3, <1>6
    <2>2. Whole(c, k)
      BY <2>1 DEF WholeBut
    <2> QED
      BY <1>1, <2>1, <2>2, WholeAppend
  <1>7. WholeBut(d, Len(c) + 1)
    BY <1>6 DEF WholeBut
  <1> QED
    BY <1>4, <1>5, <1>7 DEF m

\* A tool message for the current call: the rest stays as it was, and its answer is
\* answered one call further, or whole.
LEMMA AppendTool ==
  ASSUME NEW c \in Seq(Messages), NEW k \in Nat, NEW n \in Nat, NEW what \in {"result", "invalid"},
         Placed(c), AnsweredUpTo(c, k, n), WholeBut(c, k)
  PROVE  LET d == Append(c, [role |-> "tool", of |-> <<k, n>>, what |-> what]) IN
           /\ Placed(d)
           /\ WholeBut(d, k)
           /\ what = "result" /\ n < Len(c[k].calls) => AnsweredUpTo(d, k, n + 1)
           /\ what = "invalid" \/ n = Len(c[k].calls) => Whole(d, k)
           /\ d[k] = c[k] /\ 0 \notin DOMAIN d
  <1> DEFINE m == [role |-> "tool", of |-> <<k, n>>, what |-> what]
             d == Append(c, m)
             last == Len(c[k].calls)
  <1>1. /\ m \in Messages /\ m.role = "tool" /\ m.of = <<k, n>> /\ m.what = what
        /\ m.of[1] = k /\ m.of[2] = n
    BY DEF Messages
  <1> HIDE DEF m
  <1>2. /\ DOMAIN d = 1..(Len(c) + 1) /\ DOMAIN c = 1..Len(c) /\ Len(c) \in Nat
        /\ \A j \in 1..Len(c) : d[j] = c[j]
        /\ d[Len(c) + 1] = m /\ Len(d) = Len(c) + 1
    BY <1>1, AppendProperties
  <1>3. /\ k \in 1..Len(c) /\ c[k].role = "assistant" /\ n \in 1..last /\ Len(c) + 1 = k + n
        /\ d[k] = c[k]
        /\ \A i \in 1..(n - 1) : Answers(c, k, i) = {k + i} /\ c[k + i].what = "result"
    BY <1>2 DEF AnsweredUpTo
  <1>4. last \in Nat /\ DOMAIN c[k].calls = 1..last
    <2>1. c[k] \in Messages
      BY <1>2, <1>3
    <2>2. c[k].calls \in Seq(Names \union Prefillable)
      BY <2>1, <1>3 DEF Messages
    <2> QED
      BY <2>2
  <1> HIDE DEF last
  <1>5. Placed(d)
    <2> HIDE DEF d
    <2>1. ASSUME NEW j \in 1..Len(c), d[j].role = "tool"
          PROVE  d[j].of[1] \in 1..(j - 1) /\ d[j].of[1] + d[j].of[2] = j
      BY <1>2, <2>1 DEF Placed
    <2>2. m.of[1] \in 1..(Len(c) + 1 - 1) /\ m.of[1] + m.of[2] = Len(c) + 1
      BY <1>1, <1>2, <1>3
    <2> QED
      BY <1>2, <2>1, <2>2 DEF Placed
  <1>6. ASSUME NEW h \in DOMAIN d \ {k}, d[h].role = "assistant" PROVE Whole(d, h)
    <2>1. h \in DOMAIN c /\ c[h].role = "assistant"
      BY <1>1, <1>2, <1>6
    <2>2. Whole(c, h) /\ h # k
      BY <2>1 DEF WholeBut
    <2> QED
      BY <1>1, <2>1, <2>2, WholeAppend
  <1>7. WholeBut(d, k)
    BY <1>6 DEF WholeBut
  <1>8. ASSUME NEW i \in Nat
        PROVE  Answers(d, k, i) = Answers(c, k, i) \union (IF i = n THEN {Len(c) + 1} ELSE {})
    <2>1. Answers(Append(c, m), k, i) =
            Answers(c, k, i) \union (IF m.role = "tool" /\ m.of = <<k, i>> THEN {Len(c) + 1} ELSE {})
      BY <1>1, AnswersAppend
    <2>2. m.of = <<k, i>> <=> i = n
      BY <1>1
    <2> QED
      BY <1>1, <2>1, <2>2
  \* A message sits behind its answer by its call's place, so later calls have none.
  <1>9. ASSUME NEW i \in Nat, i >= n PROVE Answers(c, k, i) = {}
    <2>1. ASSUME NEW j \in Answers(c, k, i) PROVE FALSE
      <3>1. j \in 1..Len(c) /\ c[j].role = "tool" /\ c[j].of = <<k, i>>
        BY <1>2, <2>1 DEF Answers
      <3>2. c[j].of[1] = k /\ c[j].of[2] = i
        BY <3>1
      <3>3. c[j].of[1] + c[j].of[2] = j
        BY <1>2, <3>1 DEF Placed
      <3> QED
        BY <1>2, <1>3, <1>9, <3>1, <3>2, <3>3
    <2> QED
      BY <2>1
  <1>10. \A i \in 1..(n - 1) : Answers(d, k, i) = {k + i} /\ d[k + i].what = "result"
    <2>1. ASSUME NEW i \in 1..(n - 1) PROVE Answers(d, k, i) = {k + i} /\ d[k + i].what = "result"
      <3>1. i \in Nat /\ i # n /\ k + i \in 1..Len(c)
        BY <1>2, <1>3
      <3>2. d[k + i] = c[k + i]
        BY <1>2, <3>1
      <3>3. Answers(d, k, i) = Answers(c, k, i)
        BY <1>8, <3>1
      <3> HIDE DEF d
      <3> QED
        BY <1>3, <3>2, <3>3
    <2> QED
      BY <2>1
  <1>11. Answers(d, k, n) = {k + n} /\ d[k + n].what = what
    <2>1. Answers(c, k, n) = {}
      BY <1>9
    <2>2. Answers(d, k, n) = Answers(c, k, n) \union {Len(c) + 1}
      BY <1>8
    <2> HIDE DEF d
    <2> QED
      BY <1>1, <1>2, <1>3, <2>1, <2>2
  <1>12. \A i \in (n + 1)..last : Answers(d, k, i) = {}
    <2>1. ASSUME NEW i \in (n + 1)..last PROVE Answers(d, k, i) = {}
      <3>1. i \in Nat /\ i >= n /\ i # n
        BY <1>4
      <3>2. Answers(d, k, i) = Answers(c, k, i)
        BY <1>8, <3>1
      <3> QED
        BY <1>9, <3>1, <3>2
    <2> QED
      BY <2>1
  <1> HIDE DEF d
  <1>13. ASSUME what = "result", n < last PROVE AnsweredUpTo(d, k, n + 1)
    <2>1. \A i \in 1..n : Answers(d, k, i) = {k + i} /\ d[k + i].what = "result"
      BY <1>10, <1>11, <1>13
    <2>2. n + 1 \in 1..last /\ Len(d) = k + (n + 1) - 1 /\ k \in DOMAIN d
      BY <1>2, <1>3, <1>4, <1>13
    <2>3. (n + 1) - 1 = n
      OBVIOUS
    <2> QED
      BY <1>3, <2>1, <2>2, <2>3 DEF AnsweredUpTo, last
  <1>14. \A i \in 1..n : ~Refused(d, k, i)
    <2>1. ASSUME NEW i \in 1..n, Refused(d, k, i) PROVE FALSE
      <3>1. PICK h \in 1..(i - 1) : \E j \in Answers(d, k, h) : d[j].what = "invalid"
        BY <2>1 DEF Refused
      <3>2. h \in 1..(n - 1)
        BY <3>1
      <3> QED
        BY <1>10, <3>1, <3>2
    <2> QED
      BY <2>1
  <1>15. ASSUME what = "invalid" \/ n = last PROVE Whole(d, k)
    <2>1. ASSUME NEW i \in 1..last
          PROVE  Answers(d, k, i) = IF Refused(d, k, i) THEN {} ELSE {k + i}
      <3>1. CASE i \in 1..(n - 1)
        BY <1>10, <1>14, <3>1
      <3>2. CASE i = n
        BY <1>11, <1>14, <3>2
      <3>3. CASE i \in (n + 1)..last
        <4>1. what = "invalid"
          BY <1>15, <3>3
        <4>2. n \in 1..(i - 1)
          BY <1>3, <1>4, <3>3
        <4>3. Refused(d, k, i)
          BY <1>11, <4>1, <4>2 DEF Refused
        <4> QED
          BY <1>12, <3>3, <4>3
      <3> QED
        BY <1>3, <1>4, <3>1, <3>2, <3>3
    <2>2. DOMAIN d[k].calls = 1..last
      BY <1>3, <1>4
    <2> QED
      BY <2>1, <2>2 DEF Whole
  <1>16. d[k] = c[k] /\ 0 \notin DOMAIN d
    BY <1>2, <1>3
  <1> QED
    BY <1>5, <1>7, <1>13, <1>15, <1>16 DEF d, m, last

\* The prefilled call has its result.
LEMMA ConversationInit == Init => ConversationInv
  <1> SUFFICES ASSUME Init PROVE ConversationInv
    OBVIOUS
  <1> DEFINE c == conversation
  <1>1. PICK a \in Agents : c = Prefill(a.prefilled)
    BY DEF Init
  <1>2. phase = "ask"
    BY DEF Init
  <1>3. CASE Len(c) = 0
    <2>1. c \in Seq(Messages)
      BY <1>1, PrefillShape
    <2>2. DOMAIN c = {}
      BY <1>3, <2>1
    <2> QED
      BY <1>2, <2>2 DEF ConversationInv, Placed, WholeBut
  <1>4. CASE Len(c) # 0
    <2>1. /\ c \in Seq(Messages) /\ Len(c) = 2
          /\ c[1] = [role |-> "assistant", calls |-> <<a.prefilled[1]>>]
          /\ c[2] = [role |-> "tool", of |-> <<1, 1>>, what |-> "result"]
      BY <1>1, <1>4, PrefillShape
    <2>2. /\ DOMAIN c = {1, 2}
          /\ c[1].role = "assistant" /\ DOMAIN c[1].calls = {1}
          /\ c[2].role = "tool" /\ c[2].of = <<1, 1>> /\ c[2].of[1] = 1 /\ c[2].of[2] = 1
      BY <2>1
    <2> HIDE DEF c
    <2>3. Placed(c)
      BY <2>2 DEF Placed
    <2>4. Answers(c, 1, 1) = {2}
      BY <2>2 DEF Answers
    <2>5. ~Refused(c, 1, 1)
      BY DEF Refused
    <2>6. Whole(c, 1)
      BY <2>2, <2>4, <2>5 DEF Whole
    <2> QED
      BY <1>2, <2>2, <2>3, <2>6 DEF ConversationInv, WholeBut, c
  <1> QED
    BY <1>3, <1>4

\* Every step keeps it, whatever the model answers.
LEMMA ConversationNext == LimitsInv /\ ConversationInv /\ [Next]_vars => ConversationInv'
  <1> SUFFICES ASSUME LimitsInv, ConversationInv, [Next]_vars PROVE ConversationInv'
    OBVIOUS
  <1> DEFINE c == conversation
             k == current[1]
             n == current[2]
             Tool(what) == Append(c, [role |-> "tool", of |-> <<k, n>>, what |-> what])
  <1>t. /\ c \in Seq(Messages) /\ k \in Nat /\ n \in Nat /\ current = <<k, n>>
        /\ Placed(c) /\ TypeOK
    BY DEF LimitsInv, TypeOK, ConversationInv
  <1>s. \A what : Said(what) = Tool(what)
    BY <1>t DEF Said
  <1>1. CASE UNCHANGED vars
    BY <1>1 DEF vars, ConversationInv
  <1>2. CASE AttemptFails
    BY <1>2 DEF AttemptFails, Fail, ConversationInv
  <1>3. ASSUME NEW calls \in SeqOf(Names, MaxCalls), Answer(calls) PROVE ConversationInv'
    <2>1. CASE calls = <<>>
      BY <1>3, <2>1 DEF Answer, Fail, ConversationInv
    <2>2. CASE calls # <<>>
      <3> DEFINE d == Append(c, [role |-> "assistant", calls |-> calls])
      <3>1. calls \in Seq(Names \union Prefillable)
        BY AnswerIsMessage
      <3>2. WholeBut(c, 0)
        BY <1>3 DEF Answer, ConversationInv
      <3>3. Placed(d) /\ AnsweredUpTo(d, Len(c) + 1, 1) /\ WholeBut(d, Len(c) + 1)
        BY <1>t, <2>2, <3>1, <3>2, AppendAnswer
      <3>4. conversation' = d /\ phase' = "act" /\ current' = <<Len(c) + 1, 1>>
        BY <1>3, <2>2 DEF Answer
      <3> HIDE DEF d
      <3>5. current'[1] = Len(c) + 1 /\ current'[2] = 1
        BY <3>4
      <3> QED
        BY <3>3, <3>4, <3>5 DEF ConversationInv
    <2> QED
      BY <2>1, <2>2
  <1>4. CASE Accept
    BY <1>4 DEF Accept, ConversationInv
  <1>5. CASE Reject
    <2>1. CASE rejected < MaxValidationRetries
      <3> DEFINE d == Tool("invalid")
      <3>1. AnsweredUpTo(c, k, n) /\ WholeBut(c, k)
        BY <1>5 DEF Reject, ConversationInv
      <3>2. Placed(d) /\ WholeBut(d, k) /\ Whole(d, k)
        BY <1>t, <3>1, AppendTool
      <3>3. conversation' = d /\ phase' \in {"ask", "failed"}
        BY <1>5, <1>s, <2>1 DEF Reject, NextRound, Fail
      <3> HIDE DEF d
      <3>4. WholeBut(d, 0)
        BY <3>2 DEF WholeBut
      <3> QED
        BY <3>2, <3>3, <3>4 DEF ConversationInv
    <2>2. CASE ~(rejected < MaxValidationRetries)
      BY <1>5, <2>2 DEF Reject, Fail, ConversationInv
    <2> QED
      BY <2>1, <2>2
  <1>6. CASE Refuse
    BY <1>6 DEF Refuse, Fail, ConversationInv
  <1>7. CASE RunTool
    <2> DEFINE d == Tool("result")
    <2>1. AnsweredUpTo(c, k, n) /\ WholeBut(c, k)
      BY <1>7 DEF RunTool, ConversationInv
    <2>2. /\ Placed(d) /\ WholeBut(d, k)
          /\ n < Len(c[k].calls) => AnsweredUpTo(d, k, n + 1)
          /\ n = Len(c[k].calls) => Whole(d, k)
          /\ d[k] = c[k]
      BY <1>t, <2>1, AppendTool
    <2>3. n \in 1..Len(c[k].calls)
      BY <2>1 DEF AnsweredUpTo
    <2>4. conversation' = d
      BY <1>7, <1>s DEF RunTool
    <2> HIDE DEF d
    <2>5. CASE n < Len(c[k].calls)
      <3>1. phase' = "act" /\ current'[1] = k /\ current'[2] = n + 1
        BY <1>7, <1>t, <2>5 DEF RunTool, NextCall
      <3> QED
        BY <2>2, <2>4, <2>5, <3>1 DEF ConversationInv
    <2>6. CASE ~(n < Len(c[k].calls))
      <3>1. n = Len(c[k].calls)
        BY <1>t, <2>3, <2>6
      <3>2. phase' \in {"ask", "failed"}
        BY <1>7, <2>6 DEF RunTool, NextCall, NextRound, Fail
      <3>3. WholeBut(d, 0)
        BY <2>2, <3>1 DEF WholeBut
      <3> QED
        BY <2>2, <2>4, <3>2, <3>3 DEF ConversationInv
    <2> QED
      BY <2>5, <2>6
  <1> QED
    BY <1>1, <1>2, <1>3, <1>4, <1>5, <1>6, <1>7 DEF Next

\* A request never holds a half-answered conversation: for every agent, every
\* limit and every sequence of answers of the model.
THEOREM ConversationAlwaysWhole == Spec => []ConversationWhole
  <1>1. LimitsInv /\ ConversationInv => ConversationWhole
    <2> SUFFICES ASSUME LimitsInv, ConversationInv, phase = "ask",
                        NEW k \in DOMAIN conversation, conversation[k].role = "assistant"
                 PROVE  Whole(conversation, k)
      BY DEF ConversationWhole
    <2>1. k # 0
      BY DEF LimitsInv, TypeOK
    <2> QED
      BY <2>1 DEF ConversationInv, WholeBut
  <1> QED
    BY <1>1, LimitsInit, LimitsNext, ConversationInit, ConversationNext, PTL DEF Spec

-----------------------------------------------------------------------------
(***************************************************************************)
(* The trace.  A result is appended to the conversation and to the records *)
(* at once, so the records follow the results by rank.                     *)
(***************************************************************************)

Rank(R, j) == Cardinality({h \in R : h <= j})

TraceInv ==
  /\ 2 * Len(agent.prefilled) <= Len(conversation)
  /\ Len(records) = Cardinality(Results)
  /\ \A j \in Results : records[Rank(Results, j)] = conversation[j].of
  /\ error = "exhausted" => Len(records) = MaxToolCalls

\* The number of messages an agent's conversation starts with.
LEMMA PrefilledLength ==
  ASSUME NEW a \in Agents
  PROVE  Len(a.prefilled) \in Nat /\ Len(Prefill(a.prefilled)) = 2 * Len(a.prefilled)
  <1> DEFINE one == "list_candidate_products"
  <1>1. a.prefilled = <<>> \/ a.prefilled = <<one>>
    BY DEF Agents, UserProfileAnalyst, MarketIntelligence, ProductMatchExpert,
           ComplianceRiskOfficer, ManagerCoordinator
  <1>2. Len(a.prefilled) \in Nat
    BY <1>1
  <1> DEFINE n == Len(a.prefilled)
             p == Prefill(a.prefilled)
  <1>3. DOMAIN p = 1..(2 * n)
    BY DEF Prefill
  <1>4. p \in Seq(Messages)
    BY PrefillShape
  <1> HIDE DEF n, p
  <1>5. n \in Nat
    BY <1>2 DEF n
  <1>6. Len(p) \in Nat /\ DOMAIN p = 1..Len(p)
    BY <1>4, LenProperties
  <1>7. Len(p) = 2 * n
    BY <1>3, <1>5, <1>6
  <1> QED
    BY <1>2, <1>7 DEF n, p

\* The positions of results are positions of the conversation, and finitely many.
LEMMA ResultsFinite ==
  ASSUME TypeOK
  PROVE  /\ Results \subseteq 1..Len(conversation) /\ Len(conversation) \in Nat
         /\ IsFiniteSet(Results)
         /\ Cardinality(Results) \in Nat
  <1>1. conversation \in Seq(Messages)
    BY DEF TypeOK
  <1>2. Len(conversation) \in Nat /\ DOMAIN conversation = 1..Len(conversation)
    BY <1>1, LenProperties
  <1>3. IsFiniteSet(1..Len(conversation))
    BY <1>2, FS_Interval
  <1>4. Results \subseteq 1..Len(conversation)
    BY <1>2 DEF Results
  <1> QED
    BY <1>2, <1>3, <1>4, FS_Subset, FS_CardinalityType

\* A message that is no result leaves the results, a result is the last of them.
LEMMA ResultsAppend ==
  ASSUME TypeOK, TraceInv, NEW m \in Messages,
         conversation' = Append(conversation, m), agent' = agent
  PROVE  /\ Results' = Results \union
                (IF m.role = "tool" /\ m.what = "result" THEN {Len(conversation) + 1} ELSE {})
         /\ \A j \in Results : conversation'[j] = conversation[j]
         /\ conversation'[Len(conversation) + 1] = m
         /\ Len(conversation') = Len(conversation) + 1
  <1> DEFINE n == Len(conversation)
             k == Len(agent.prefilled)
  <1>1. conversation \in Seq(Messages) /\ agent \in Agents
    BY DEF TypeOK
  <1>2. /\ n \in Nat /\ DOMAIN conversation = 1..n
        /\ Len(conversation') = n + 1 /\ DOMAIN conversation' = 1..(n + 1)
        /\ conversation'[n + 1] = m
        /\ \A j \in 1..n : conversation'[j] = conversation[j]
    BY <1>1, AppendProperties, LenProperties
  <1>3. k \in Nat /\ 2 * k <= n
    BY <1>1, PrefilledLength DEF TraceInv
  <1> HIDE DEF n, k
  <1>4. n + 1 > 2 * k /\ n + 1 \notin 1..n /\ 1..(n + 1) = 1..n \union {n + 1}
    BY <1>2, <1>3
  <1>5. Results' = {j \in 1..(n + 1) : /\ j > 2 * k /\ conversation'[j].role = "tool"
                                      /\ conversation'[j].what = "result"}
    BY <1>2 DEF Results, k
  <1>6. Results = {j \in 1..n : /\ j > 2 * k /\ conversation[j].role = "tool"
                                /\ conversation[j].what = "result"}
    BY <1>2 DEF Results, k
  <1>7. Results' = Results \union (IF m.role = "tool" /\ m.what = "result" THEN {n + 1} ELSE {})
    BY <1>2, <1>4, <1>5, <1>6
  <1> QED
    BY <1>2, <1>6, <1>7 DEF n

\* A step that gives no result keeps the trace.
LEMMA NoResultKeeps ==
  ASSUME TypeOK, TraceInv, NEW m \in Messages, ~(m.role = "tool" /\ m.what = "result"),
         conversation' = Append(conversation, m), UNCHANGED <<agent, records>>,
         error' = "exhausted" => Len(records) = MaxToolCalls
  PROVE  TraceInv'
  <1>1. /\ Results' = Results /\ \A j \in Results : conversation'[j] = conversation[j]
        /\ Len(conversation') = Len(conversation) + 1
    BY ResultsAppend
  <1>2. Len(conversation) \in Nat /\ Len(agent.prefilled) \in Nat
    BY ResultsFinite, PrefilledLength DEF TypeOK
  <1>3. 2 * Len(agent'.prefilled) <= Len(conversation')
    BY <1>1, <1>2 DEF TraceInv
  <1> QED
    BY <1>1, <1>3 DEF TraceInv, Rank

\* A result adds itself to both.
LEMMA ResultKeeps ==
  ASSUME TypeOK, TraceInv, RunTool, error' # "exhausted"
  PROVE  TraceInv'
  <1> DEFINE n == Len(conversation)
             l == Len(records)
             m == [role |-> "tool", of |-> current, what |-> "result"]
             R == Results
  <1>1. m \in Messages /\ m.role = "tool" /\ m.what = "result" /\ m.of = current
    BY DEF Messages, TypeOK
  <1>2. conversation' = Append(conversation, m) /\ records' = Append(records, current)
        /\ agent' = agent
    BY DEF RunTool, Said
  <1> HIDE DEF m
  <1>3. /\ Results' = R \union {n + 1} /\ \A j \in R : conversation'[j] = conversation[j]
        /\ conversation'[n + 1] = m /\ Len(conversation') = n + 1
    BY <1>1, <1>2, ResultsAppend
  <1>4. /\ R \subseteq 1..n /\ n \in Nat /\ IsFiniteSet(R) /\ Cardinality(R) \in Nat
        /\ Len(agent.prefilled) \in Nat
    BY ResultsFinite, PrefilledLength DEF TypeOK
  <1>5. /\ l \in Nat /\ Len(records') = l + 1 /\ records'[l + 1] = current
        /\ \A i \in 1..l : records'[i] = records[i]
    <2>1. records \in Seq(Nat \X Nat) /\ current \in Nat \X Nat
      BY DEF TypeOK
    <2> QED
      BY <1>2, <2>1, AppendProperties, LenProperties
  <1>6. /\ 2 * Len(agent.prefilled) <= n /\ l = Cardinality(R)
        /\ \A j \in R : records[Rank(R, j)] = conversation[j].of
    BY DEF TraceInv
  <1> HIDE DEF n, l, R
  <1>7. n + 1 \notin R
    BY <1>4
  <1>8. Cardinality(R \union {n + 1}) = l + 1
    BY <1>4, <1>6, <1>7, FS_AddElement
  <1>9. ASSUME NEW j \in R
        PROVE  Rank(R \union {n + 1}, j) = Rank(R, j) /\ Rank(R, j) \in 1..l
    <2> DEFINE U == {h \in R : h <= j}
    <2>1. {h \in R \union {n + 1} : h <= j} = U
      BY <1>4
    <2>2. IsFiniteSet(U) /\ Cardinality(U) <= l /\ Cardinality(U) \in Nat
      BY <1>4, <1>6, FS_Subset, FS_CardinalityType
    <2>3. j \in U
      BY <1>4
    <2>4. Cardinality(U) # 0
      BY <2>2, <2>3, FS_EmptySet
    <2>5. Rank(R \union {n + 1}, j) = Cardinality(U) /\ Rank(R, j) = Cardinality(U)
      BY <2>1 DEF Rank
    <2> HIDE DEF U
    <2> QED
      BY <1>5, <2>2, <2>4, <2>5
  <1>10. Rank(R \union {n + 1}, n + 1) = l + 1
    <2>0. \A h \in R \union {n + 1} : h <= n + 1
      BY <1>4
    <2>1. {h \in R \union {n + 1} : h <= n + 1} = R \union {n + 1}
      BY <2>0
    <2> QED
      BY <1>8, <2>1 DEF Rank
  <1>11. \A j \in Results' : records'[Rank(Results', j)] = conversation'[j].of
    <2>1. SUFFICES ASSUME NEW j \in R \union {n + 1}
                   PROVE  records'[Rank(R \union {n + 1}, j)] = conversation'[j].of
      BY <1>3
    <2>2. CASE j \in R
      BY <1>3, <1>5, <1>6, <1>9, <2>2
    <2>3. CASE j = n + 1
      BY <1>1, <1>3, <1>5, <1>10, <2>3
    <2> QED
      BY <2>2, <2>3
  <1>12. Len(records') = Cardinality(Results') /\ 2 * Len(agent'.prefilled) <= Len(conversation')
    BY <1>2, <1>3, <1>4, <1>5, <1>6, <1>8
  <1> QED
    BY <1>11, <1>12 DEF TraceInv

LEMMA TraceInit == Init => TraceInv
  <1> SUFFICES ASSUME Init PROVE TraceInv
    OBVIOUS
  <1> DEFINE n == Len(conversation)
             k == Len(agent.prefilled)
  <1>1. n = 2 * k /\ k \in Nat
    BY PrefilledLength DEF Init
  <1>2. n \in Nat /\ DOMAIN conversation = 1..n
    BY LimitsInit, LenProperties DEF LimitsInv, TypeOK
  <1> HIDE DEF n, k
  <1>3. Results = {}
    BY <1>1, <1>2 DEF Results, k
  <1>4. Len(records) = 0 /\ error = "none"
    BY DEF Init
  <1>5. 2 * k <= n
    BY <1>1, <1>2
  <1> QED
    BY <1>3, <1>4, <1>5, FS_EmptySet DEF TraceInv, n, k

LEMMA TraceNext == LimitsInv /\ TraceInv /\ [Next]_vars => TraceInv'
  <1> SUFFICES ASSUME LimitsInv, TraceInv, [Next]_vars PROVE TraceInv'
    OBVIOUS
  <1>0. TypeOK
    BY DEF LimitsInv
  <1>1. CASE UNCHANGED vars
    BY <1>1 DEF vars, TraceInv, Results
  <1>2. ASSUME UNCHANGED <<agent, conversation, records>>,
               error' = "exhausted" => error = "exhausted" \/ Len(records) = MaxToolCalls
        PROVE  TraceInv'
    BY <1>2 DEF TraceInv, Results
  <1>3. CASE AttemptFails \/ Accept
    BY <1>2, <1>3 DEF AttemptFails, Accept, Fail
  <1>4. ASSUME NEW calls \in SeqOf(Names, MaxCalls), Answer(calls) PROVE TraceInv'
    <2>1. CASE calls = <<>>
      BY <1>2, <1>4, <2>1 DEF Answer, Fail
    <2>2. CASE calls # <<>>
      <3> DEFINE m == [role |-> "assistant", calls |-> calls]
      <3>1. m \in Messages /\ m.role # "tool"
        BY AnswerIsMessage
      <3>2. /\ conversation' = Append(conversation, m) /\ UNCHANGED <<agent, records, error>>
        BY <1>4, <2>2 DEF Answer
      <3> HIDE DEF m
      <3> QED
        BY <1>0, <3>1, <3>2, NoResultKeeps DEF TraceInv
    <2> QED
      BY <2>1, <2>2
  <1>5. CASE Reject
    <2>1. CASE rejected < MaxValidationRetries
      <3> DEFINE m == [role |-> "tool", of |-> current, what |-> "invalid"]
      <3>1. m \in Messages /\ m.what # "result"
        BY <1>0 DEF Messages, TypeOK
      <3>2. /\ conversation' = Append(conversation, m) /\ UNCHANGED <<agent, records>>
            /\ error' = "exhausted" => error = "exhausted"
        BY <1>5, <2>1 DEF Reject, NextRound, Fail, Said
      <3> HIDE DEF m
      <3> QED
        BY <1>0, <3>1, <3>2, NoResultKeeps DEF TraceInv
    <2>2. CASE ~(rejected < MaxValidationRetries)
      BY <1>2, <1>5, <2>2 DEF Reject, Fail
    <2> QED
      BY <2>1, <2>2
  <1>6. CASE Refuse
    <2>1. Len(records) >= MaxToolCalls => Len(records) = MaxToolCalls
      BY <1>0, LenProperties, LimitsAssumption DEF TypeOK
    <2> QED
      BY <1>2, <1>6, <2>1 DEF Refuse, Fail
  <1>7. CASE RunTool
    <2>1. error = "none"
      BY <1>0, <1>7 DEF RunTool, TypeOK
    <2>2. error' # "exhausted"
      BY <1>7, <2>1 DEF RunTool, NextCall, NextRound, Fail
    <2> QED
      BY <1>0, <1>7, <2>2, ResultKeeps
  <1> QED
    BY <1>1, <1>3, <1>4, <1>5, <1>6, <1>7 DEF Next

\* The records of a submitted answer are the results the model was given, in order
\* and each once, and a run called exhausted had asked for more tools than the limit:
\* for every agent, every limit and every sequence of answers of the model.
THEOREM TraceAlwaysTellsTheRun == Spec => []TraceTellsTheRun
  <1>1. TraceInv => TraceTellsTheRun
    BY DEF TraceInv, Rank, TraceTellsTheRun, RecordsAreResults, ExhaustedMeansOverBudget
  <1> QED
    BY <1>1, LimitsInit, LimitsNext, TraceInit, TraceNext, PTL DEF Spec
=============================================================================
