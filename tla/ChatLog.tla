------------------------------- MODULE ChatLog -------------------------------
(***************************************************************************)
(* What a chat session store promises to the callers of chat/store.py: a   *)
(* session is created once and deleted at most once, messages are only     *)
(* ever appended to it in between, and it never comes back.                *)
(***************************************************************************)
EXTENDS Sequences

CONSTANTS Sessions, Messages

VARIABLES
  status,  \* session -> "absent", "live" or "deleted"
  log      \* session -> its messages, oldest first

vars == <<status, log>>

Init ==
  /\ status = [s \in Sessions |-> "absent"]
  /\ log = [s \in Sessions |-> <<>>]

Create(s) ==
  /\ status[s] = "absent"
  /\ status' = [status EXCEPT ![s] = "live"]
  /\ UNCHANGED log

Add(s, m) ==
  /\ status[s] = "live"
  /\ log' = [log EXCEPT ![s] = Append(@, m)]
  /\ UNCHANGED status

Delete(s) ==
  /\ status[s] = "live"
  /\ status' = [status EXCEPT ![s] = "deleted"]
  /\ log' = [log EXCEPT ![s] = <<>>]

Next == \E s \in Sessions : Create(s) \/ Delete(s) \/ \E m \in Messages : Add(s, m)

Spec == Init /\ [][Next]_vars
=============================================================================
