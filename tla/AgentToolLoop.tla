----------------------------- MODULE AgentToolLoop -----------------------------
(***************************************************************************)
(* One call of an agent of the recommendation pipeline                     *)
(* (recommendation/agents/runtime_agents.py, provider.py,                  *)
(* live_runtime.py): a bounded loop that asks a model, runs the tools it   *)
(* calls, hands it the results, and ends with a valid submission or an     *)
(* exception.  RecommendationGraph sees only the end.                      *)
(*                                                                         *)
(* A message is what the limits and the protocol of tool calls tell apart: *)
(* an answer of the model is the names of the tools it calls, a tool       *)
(* message the call it answers and whether it holds a result or a          *)
(* validation error.                                                       *)
(***************************************************************************)
EXTENDS Integers, Sequences, SequencesExt, FiniteSets

CONSTANTS
  MaxToolCalls,          \* _MAX_TOOL_CALLS
  MaxValidationRetries,  \* _MAX_VALIDATION_RETRIES
  MaxAttempts,           \* OPENAI_MAX_ATTEMPTS of one request
  Names,                 \* what a model may call (bound)
  MaxCalls               \* bound on the calls of one answer

ASSUME LimitsAssumption ==
  /\ MaxToolCalls \in Nat /\ MaxValidationRetries \in Nat
  /\ MaxAttempts \in Nat \ {0} /\ MaxCalls \in Nat

Submit == "submit_result"

\* An agent is its tools and the calls its conversation starts with.
UserProfileAnalyst == [tools |-> {"get_user_profile_context"}, prefilled |-> <<>>]
MarketIntelligence ==
  [tools |-> {"get_user_profile_context", "get_market_facts"}, prefilled |-> <<>>]
ProductMatchExpert ==
  [tools |-> {"list_candidate_products", "get_candidate_detail"},
   prefilled |-> <<"list_candidate_products">>]
ComplianceRiskOfficer ==
  [tools |-> {"get_selected_candidates", "get_candidate_detail", "get_compliance_facts"},
   prefilled |-> <<>>]
ManagerCoordinator == [tools |-> {"get_decision_context"}, prefilled |-> <<>>]

Agents == {UserProfileAnalyst, MarketIntelligence, ProductMatchExpert,
           ComplianceRiskOfficer, ManagerCoordinator}

VARIABLES
  agent,         \* the agent that runs
  phase,         \* "ask": a request is under way; "act": calls are handled; or the end
  conversation,  \* messages after the prompts
  current,       \* the call being handled: <<its answer in conversation, its place there>>
  records,       \* tool_call_records: the calls answered with a result
  rejected,      \* validation_retries
  round,         \* rounds of the loop that are over
  attempt,       \* attempts of the request that failed
  error          \* why the run failed, or "none"

vars == <<agent, phase, conversation, current, records, rejected, round, attempt, error>>

Phases == {"ask", "act", "submitted", "failed"}
Errors == {"none", "request", "silent", "unknown", "exhausted", "arguments", "output", "rounds"}

\* Mutant of Rounds: no round for the submission after the last tool call.
RoundsOneLess == MaxToolCalls + MaxValidationRetries

Rounds == MaxToolCalls + MaxValidationRetries + 1

\* What a conversation is made of after its prompts.
Prefillable == UNION {Range(a.prefilled) : a \in Agents}
Messages == [role: {"assistant"}, calls: Seq(Names \union Prefillable)]
              \union [role: {"tool"}, of: Nat \X Nat, what: {"result", "invalid"}]

Call == conversation[current[1]].calls[current[2]]
Said(what) == Append(conversation, [role |-> "tool", of |-> current, what |-> what])

\* Each prefilled call is an answer of one call and its result.
Prefill(names) ==
  [j \in 1..(2 * Len(names)) |->
     IF j % 2 = 1 THEN [role |-> "assistant", calls |-> <<names[(j + 1) \div 2]>>]
     ELSE [role |-> "tool", of |-> <<j - 1, 1>>, what |-> "result"]]

Init ==
  /\ agent \in Agents
  /\ phase = "ask"
  /\ conversation = Prefill(agent.prefilled)
  /\ current = <<0, 0>>
  /\ records = <<>>
  /\ rejected = 0 /\ round = 0 /\ attempt = 0
  /\ error = "none"

Fail(why) == phase' = "failed" /\ error' = why

\* A request fails, or its answer cannot be captured: it is sent again, or given up.
AttemptFails ==
  /\ phase = "ask"
  /\ IF attempt + 1 >= MaxAttempts
     THEN Fail("request") /\ UNCHANGED attempt
     ELSE attempt' = attempt + 1 /\ UNCHANGED <<phase, error>>
  /\ UNCHANGED <<agent, conversation, current, records, rejected, round>>

\* The model answers; an answer that calls nothing ends the run.
Answer(calls) ==
  /\ phase = "ask"
  /\ attempt' = 0
  /\ IF calls = <<>>
     THEN Fail("silent") /\ UNCHANGED <<conversation, current>>
     ELSE /\ phase' = "act"
          /\ conversation' = Append(conversation, [role |-> "assistant", calls |-> calls])
          /\ current' = <<Len(conversation) + 1, 1>>
          /\ UNCHANGED error
  /\ UNCHANGED <<agent, records, rejected, round>>

\* The loop goes round, or is exhausted.
NextRound ==
  /\ round' = round + 1
  /\ UNCHANGED current
  /\ IF round + 1 = Rounds THEN Fail("rounds") ELSE phase' = "ask" /\ UNCHANGED error

\* A call has been answered: the next one of the same answer, or the next round.
NextCall ==
  IF current[2] < Len(conversation[current[1]].calls)
  THEN current' = [current EXCEPT ![2] = @ + 1] /\ UNCHANGED <<round, phase, error>>
  ELSE NextRound

\* submit_result with an output the validator takes.
Accept ==
  /\ phase = "act" /\ Call = Submit
  /\ phase' = "submitted"
  /\ UNCHANGED <<agent, conversation, current, records, rejected, round, attempt, error>>

\* Mutant of Reject: the error is not handed to the model.
RejectMutely ==
  /\ phase = "act" /\ Call = Submit
  /\ IF rejected < MaxValidationRetries
     THEN rejected' = rejected + 1 /\ NextRound
     ELSE Fail("output") /\ UNCHANGED <<current, round, rejected>>
  /\ UNCHANGED <<agent, conversation, records, attempt>>

\* Mutant of Reject: the records start again with the retry.
RejectForgets ==
  /\ phase = "act" /\ Call = Submit
  /\ IF rejected < MaxValidationRetries
     THEN /\ rejected' = rejected + 1 /\ records' = <<>>
          /\ conversation' = Said("invalid") /\ NextRound
     ELSE Fail("output") /\ UNCHANGED <<conversation, current, round, rejected, records>>
  /\ UNCHANGED <<agent, attempt>>

\* submit_result with an output it refuses: the error is the tool's answer, the
\* rest of the calls is skipped; after the last retry the run fails.
Reject ==
  /\ phase = "act" /\ Call = Submit
  /\ IF rejected < MaxValidationRetries
     THEN /\ rejected' = rejected + 1
          /\ conversation' = Said("invalid")
          /\ NextRound
     ELSE Fail("output") /\ UNCHANGED <<conversation, current, round, rejected>>
  /\ UNCHANGED <<agent, records, attempt>>

\* A call of a tool that the agent does not have, one too many, or one whose
\* arguments are refused or raise, of submit_result too.
Refuse ==
  /\ phase = "act"
  /\ \/ Call \notin agent.tools \union {Submit} /\ Fail("unknown")
     \/ Call \in agent.tools /\ Len(records) >= MaxToolCalls /\ Fail("exhausted")
     \/ Fail("arguments")
  /\ UNCHANGED <<agent, conversation, current, records, rejected, round, attempt>>

\* A tool gives its result.
RunTool ==
  /\ phase = "act" /\ Call \in agent.tools
  /\ Len(records) < MaxToolCalls
  /\ records' = Append(records, current)
  /\ conversation' = Said("result")
  /\ NextCall
  /\ UNCHANGED <<agent, rejected, attempt>>

Next ==
  \/ AttemptFails
  \/ \E calls \in SeqOf(Names, MaxCalls) : Answer(calls)
  \/ Accept \/ Reject \/ Refuse \/ RunTool

Spec == Init /\ [][Next]_vars

-----------------------------------------------------------------------------
(***************************************************************************)
(* Properties.                                                             *)
(***************************************************************************)

\* Messages have the shape the code gives them, counters stay within their limits.
TypeOK ==
  /\ agent \in Agents
  /\ phase \in Phases
  /\ conversation \in Seq(Messages)
  /\ current \in Nat \X Nat
  /\ records \in Seq(Nat \X Nat) /\ Len(records) <= MaxToolCalls
  /\ rejected \in 0..MaxValidationRetries
  /\ round \in 0..Rounds
  /\ attempt \in 0..(MaxAttempts - 1)
  /\ error \in Errors
  /\ (phase = "failed") = (error # "none")

\* The bound on the rounds never ends a run: whatever mix of tool calls and refused
\* submissions a model chooses, one of the other limits ends it first, so a model
\* that keeps to them always gets to submit.
RoundsSuffice == error # "rounds"

\* The positions in conversation c of the answers to call i of the answer at k, and
\* whether a submission before that call was refused.
Answers(c, k, i) == {j \in DOMAIN c : c[j].role = "tool" /\ c[j].of = <<k, i>>}
Refused(c, k, i) == \E h \in 1..(i - 1) : \E j \in Answers(c, k, h) : c[j].what = "invalid"

Whole(c, k) ==
  \A i \in DOMAIN c[k].calls :
    Answers(c, k, i) = IF Refused(c, k, i) THEN {} ELSE {k + i}

\* Every request holds a whole conversation: each call is answered exactly once,
\* right after the answer that made it and in order, except the calls that follow a
\* refused submission, which have no answer at all.
ConversationWhole ==
  phase = "ask" =>
    \A k \in DOMAIN conversation : conversation[k].role = "assistant" => Whole(conversation, k)

\* The positions of the results the model has asked for.
Results == {j \in DOMAIN conversation : /\ j > 2 * Len(agent.prefilled)
                                        /\ conversation[j].role = "tool"
                                        /\ conversation[j].what = "result"}

\* The record of tool calls that goes into the trace of a recommendation is what
\* the model was given before it submitted: every result, in order, once.
RecordsAreResults ==
  phase = "submitted" =>
    /\ Len(records) = Cardinality(Results)
    /\ \A j \in Results : records[Cardinality({h \in Results : h <= j})] = conversation[j].of

\* A run is called exhausted only if the model asked for more tools than the limit,
\* those it was given before it asked not counted.
ExhaustedMeansOverBudget == error = "exhausted" => MaxToolCalls = Cardinality(Results)

\* What a run reports of itself is what happened in it: the records of a submitted
\* answer, and the limit of an exhausted run.
TraceTellsTheRun == RecordsAreResults /\ ExhaustedMeansOverBudget
=============================================================================
