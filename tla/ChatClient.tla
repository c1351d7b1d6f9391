------------------------------ MODULE ChatClient ------------------------------
(***************************************************************************)
(* The chat panel in one browser tab (features/chat/ChatStateProvider.tsx  *)
(* with ChatInput.tsx, ChatSessionDrawer.tsx and services/chatApi.ts) and  *)
(* the answers of the server it talks to.                                  *)
(*                                                                         *)
(* An action of the client is what runs without giving way: a handler of   *)
(* the user up to its first await, a continuation after one, a render, an  *)
(* effect.  State set in a continuation is rendered later; what a handler  *)
(* of the user sets is rendered, and its effects run, before anything      *)
(* else.  seen is what was rendered last: what refs and handlers read.     *)
(*                                                                         *)
(* Left out, as nothing here reads them: the text of errors, titles and    *)
(* summaries, loading flags, and the order of the session list.  Signing   *)
(* out is left out too: ChatWidget.tsx hides the panel then but keeps this *)
(* state, so that the next user of the tab finds the sessions and messages *)
(* of the one before, until they are loaded again.                         *)
(***************************************************************************)
EXTENDS Naturals, Sequences, SequencesExt, FiniteSets

CONSTANTS
  Sessions,   \* ids the server may draw
  Questions,  \* messages the user sends
  MaxPieces,  \* bound on the pieces of a reply
  MaxSpent,   \* bound on uses of the drawer and failures, together (a deletion that
              \* fails counts once)
  ToolsFail,  \* whether a tool of an agent may fail
  None

ASSUME ClientAssumption ==
  /\ MaxPieces \in Nat /\ MaxSpent \in Nat /\ ToolsFail \in BOOLEAN
  /\ None \notin Sessions

VARIABLES
  \* React state, as of the updates made so far
  sessions, active, messages, streaming,
  seen,      \* what was rendered last
  effected,  \* the active session the effects last ran for
  \* requests in flight
  opening,   \* openPanel's first load, see NotOpened
  load,      \* the load of messages that was not cancelled
  making,    \* creations of sessions, each for the drawer or for a question
  deleting,  \* session -> "no", "asked" or "gone"
  stream,    \* question -> its sendMessage call
  \* the server
  log,       \* session -> its stored messages, or None
  drawn,     \* ids drawn so far
  server,    \* question -> the reply the server has yet to store
  wire,      \* question -> events of its reply the page has yet to take
  \* ghosts
  tidy,      \* nothing has failed or overlapped since the page was last in order
  spent      \* uses of the drawer and failures so far

client == <<sessions, active, messages, streaming, seen, effected, opening, load, making,
            deleting, stream>>
service == <<log, drawn, server, wire>>
vars == <<client, service, tidy, spent>>

Question(q) == [role |-> "user", asked |-> q, size |-> 1]
Answer(q, n) == [role |-> "assistant", asked |-> q, size |-> n]

\* done: initialOpenLoadCompletedRef; got: the list that has come
NotOpened == [at |-> "no", got |-> {}, done |-> FALSE]
NoLoad == [at |-> "none", of |-> None, got |-> <<>>, clean |-> FALSE]
\* kept: length of accumulated; calm: ghost, begun from the input in a session whose
\* effects had run, and since then no effect has run and no other reply been in flight
NoStream == [at |-> "none", of |-> None, kept |-> 0, calm |-> FALSE]

\* of: the session; said: pieces of the reply
NoTurn == [at |-> "off", of |-> None, said |-> 0]

\* What a stream may carry: the pieces and the agent's last event.  One that fails
\* says an error there, or breaks off; or a tool's failure comes between.
Whole(n) == [i \in 1..n |-> "delta"] \o <<"done">>
Failing(n) ==
  {Front(Whole(n)), Front(Whole(n)) \o <<"error">>}
    \union IF ToolsFail THEN {InsertAt(Whole(n), i, "error") : i \in 1..n + 1} ELSE {}

InFlight(q) == stream[q].at \in {"posted", "open"}
Spend == spent < MaxSpent /\ spent' = spent + 1

Rendered == [sessions |-> sessions, active |-> active, streaming |-> streaming]

Init ==
  /\ sessions = {} /\ active = None /\ messages = <<>> /\ streaming = FALSE
  /\ seen = Rendered /\ effected = None
  /\ opening = NotOpened /\ load = NoLoad /\ making = {}
  /\ deleting = [s \in Sessions |-> "no"]
  /\ stream = [q \in Questions |-> NoStream]
  /\ drawn \in SUBSET Sessions
  /\ log = [s \in Sessions |-> IF s \in drawn THEN <<>> ELSE None]
  /\ server = [q \in Questions |-> NoTurn]
  /\ wire = [q \in Questions |-> <<>>]
  /\ tidy = TRUE /\ spent = 0

-----------------------------------------------------------------------------
(***************************************************************************)
(* Rendering and effects.                                                  *)
(***************************************************************************)

\* Mutant of RunEffects: a load under way is not cancelled and goes on.
RunEffectsUncancelled(now) ==
  /\ effected' = now
  /\ streaming' = FALSE
  /\ IF now = None
     THEN messages' = <<>> /\ load' = NoLoad
     ELSE /\ load' = IF load.at # "none" THEN load
                     ELSE [NoLoad EXCEPT !.at = "asked", !.of = now]
          /\ UNCHANGED messages
  /\ stream' = [q \in Questions |-> [stream[q] EXCEPT !.calm = FALSE]]
  /\ tidy' = (tidy /\ \A q \in Questions : ~InFlight(q))

\* The effects of a new active session: a reply no longer counts as streaming, the
\* load under way is cancelled and the messages are loaded.
RunEffects(now) ==
  /\ effected' = now
  /\ streaming' = FALSE
  /\ IF now = None
     THEN messages' = <<>> /\ load' = NoLoad
     ELSE load' = [NoLoad EXCEPT !.at = "asked", !.of = now] /\ UNCHANGED messages
  /\ stream' = [q \in Questions |-> [stream[q] EXCEPT !.calm = FALSE]]
  /\ tidy' = (tidy /\ \A q \in Questions : ~InFlight(q))

\* A render of what continuations have set; the effects of the last one have run.
Render ==
  /\ seen # Rendered /\ seen.active = effected
  /\ seen' = Rendered
  /\ UNCHANGED <<sessions, active, messages, streaming, effected, opening, load, making,
                 deleting, stream, service, tidy, spent>>

Effects ==
  /\ seen.active # effected
  /\ RunEffects(seen.active)
  /\ UNCHANGED <<sessions, active, seen, opening, making, deleting, service, spent>>

-----------------------------------------------------------------------------
(***************************************************************************)
(* Sessions: the first load, the drawer.                                   *)
(***************************************************************************)

\* openPanel, unless the list was loaded or is being loaded.
OpenPanel ==
  /\ opening.at = "no" /\ ~opening.done
  /\ opening' = [opening EXCEPT !.at = "list"]
  /\ UNCHANGED <<sessions, active, messages, streaming, seen, effected, load, making,
                 deleting, stream, service, tidy, spent>>

\* The list has come: it replaces the one of the page, and a session of it is
\* chosen unless one is active.
ListCame ==
  /\ opening.at = "came"
  /\ sessions' = opening.got
  /\ IF active = None THEN active' \in opening.got ELSE UNCHANGED active
  /\ opening' = [NotOpened EXCEPT !.done = TRUE]
  /\ UNCHANGED <<messages, streaming, seen, effected, load, making, deleting, stream,
                 service, tidy, spent>>

\* switchSession, from the drawer.
SwitchSession(s) ==
  /\ Spend
  /\ s \in seen.sessions /\ s # seen.active
  /\ seen.active = effected
  /\ active' = s
  /\ seen' = [Rendered EXCEPT !.active = s]
  /\ RunEffects(s)
  /\ UNCHANGED <<sessions, opening, making, deleting, service>>

\* createSession, from the drawer; at most one of these has no answer yet.
CreateSession ==
  /\ Spend
  /\ making' = making \union {[of |-> None, for |-> None]}
  /\ making' # making
  /\ UNCHANGED <<sessions, active, messages, streaming, seen, effected, opening, load,
                 deleting, stream, service, tidy>>

\* What sendMessage does before its request: the question is shown at once.
StartReply(q, s, calm) ==
  /\ streaming' = TRUE
  /\ messages' = Append(messages, Question(q))
  /\ stream' = [p \in Questions |->
                  IF p = q THEN [at |-> "posted", of |-> s, kept |-> 0,
                                 calm |-> calm /\ \A r \in Questions : ~InFlight(r)]
                  ELSE [stream[p] EXCEPT !.calm = FALSE]]
  /\ load' = [load EXCEPT !.clean = FALSE]
  /\ tidy' = /\ tidy /\ load.at = "none" /\ s = effected /\ active' = effected
             /\ \A p \in Questions : ~InFlight(p) /\ server[p].at = "off"

\* The new session is listed and made active; a question waiting for it is sent.
Created(m) ==
  /\ m \in making /\ m.of # None
  /\ sessions' = sessions \union {m.of}
  /\ active' = m.of
  /\ making' = making \ {m}
  /\ opening' = [opening EXCEPT !.done = TRUE]
  /\ IF m.for = None
     THEN UNCHANGED <<messages, streaming, stream, load, tidy>>
     ELSE StartReply(m.for, m.of, FALSE)
  /\ UNCHANGED <<seen, effected, deleting, service, spent>>

CreateFails(m) ==
  /\ Spend
  /\ m \in making
  /\ making' = making \ {m}
  /\ IF m.for = None THEN UNCHANGED stream
     ELSE stream' = [stream EXCEPT ![m.for].at = "over"]
  /\ UNCHANGED <<sessions, active, messages, streaming, seen, effected, opening, load,
                 deleting, service, tidy>>

\* deleteSession, from the drawer.
DeleteSession(s) ==
  /\ Spend
  /\ s \in seen.sessions /\ deleting[s] = "no"
  /\ deleting' = [deleting EXCEPT ![s] = "asked"]
  /\ UNCHANGED <<sessions, active, messages, streaming, seen, effected, opening, load,
                 making, stream, service, tidy>>

\* The server has deleted it: it leaves the list last rendered, and another one of
\* that list is made active in its place.
Deleted(s) ==
  /\ deleting[s] = "gone"
  /\ deleting' = [deleting EXCEPT ![s] = "no"]
  /\ LET next == seen.sessions \ {s} IN
       /\ sessions' = next
       /\ IF active # s THEN UNCHANGED active
          ELSE IF next = {} THEN active' = None ELSE active' \in next
  /\ UNCHANGED <<messages, streaming, seen, effected, opening, load, making, stream,
                 service, tidy, spent>>

DeleteFails(s) ==
  /\ deleting[s] # "no"
  /\ deleting' = [deleting EXCEPT ![s] = "no"]
  /\ UNCHANGED <<sessions, active, messages, streaming, seen, effected, opening, load,
                 making, stream, service, tidy, spent>>

-----------------------------------------------------------------------------
(***************************************************************************)
(* Messages: loading them, and the stream of a reply.                      *)
(***************************************************************************)

\* Mutant of Loaded: what was loaded is shown, a reply in flight or not.
LoadedAlways ==
  /\ load.at = "answered"
  /\ load' = NoLoad
  /\ messages' = load.got /\ tidy' = load.clean
  /\ UNCHANGED <<sessions, active, streaming, seen, effected, opening, making, deleting,
                 stream, service, spent>>

\* The messages have come; they are dropped while a reply is streaming.
Loaded ==
  /\ load.at = "answered"
  /\ load' = NoLoad
  /\ tidy' = (load.clean /\ ~seen.streaming)
  /\ IF seen.streaming THEN UNCHANGED messages ELSE messages' = load.got
  /\ UNCHANGED <<sessions, active, streaming, seen, effected, opening, making, deleting,
                 stream, service, spent>>

LoadFails ==
  /\ Spend
  /\ load.at = "asked"
  /\ load' = NoLoad
  /\ tidy' = FALSE
  /\ UNCHANGED <<sessions, active, messages, streaming, seen, effected, opening, making,
                 deleting, stream, service>>

\* sendMessage, from the input: it is closed while a reply is streaming.
SendMessage(q) ==
  /\ stream[q].at = "none" /\ ~seen.streaming
  /\ IF seen.active = None
     THEN /\ making' = making \union {[of |-> None, for |-> q]}
          /\ stream' = [stream EXCEPT ![q].at = "creating"]
          /\ UNCHANGED <<active, messages, streaming, seen, load, tidy>>
     ELSE /\ UNCHANGED active
          /\ StartReply(q, seen.active, seen.active = effected)
          /\ seen' = [Rendered EXCEPT !.streaming = TRUE]
          /\ UNCHANGED making
  /\ UNCHANGED <<sessions, effected, opening, deleting, service, spent>>

Over(q) == stream' = [stream EXCEPT ![q] = [NoStream EXCEPT !.at = "over"]]

\* The next event of a reply: a piece is kept, done shows the reply, an error of
\* the agent or of one of its tools ends the reply here.
Receive(q) ==
  /\ stream[q].at = "open" /\ wire[q] # <<>>
  /\ wire' = [wire EXCEPT ![q] = Tail(@)]
  /\ LET event == Head(wire[q]) IN
       \/ /\ event = "delta"
          /\ stream' = [stream EXCEPT ![q].kept = @ + 1]
          /\ UNCHANGED <<messages, streaming, tidy>>
       \/ /\ event = "done"
          /\ Over(q) /\ streaming' = FALSE
          /\ messages' = Append(messages, Answer(q, stream[q].kept))
          /\ UNCHANGED tidy
       \/ /\ event = "error"
          /\ Over(q) /\ streaming' = FALSE
          /\ tidy' = FALSE
          /\ UNCHANGED messages
  /\ UNCHANGED <<sessions, active, seen, effected, opening, load, making, deleting,
                 log, drawn, server, spent>>

\* Mutant of ReplyFails: the input stays closed.
ReplyFailsBusy(q) ==
  /\ Spend
  /\ InFlight(q)
  /\ Over(q)
  /\ tidy' = FALSE
  /\ wire' = [wire EXCEPT ![q] = <<>>]
  /\ UNCHANGED <<sessions, active, messages, streaming, seen, effected, opening, load,
                 making, deleting, log, drawn, server>>

\* The request is refused or the connection is lost: the reply is given up.
ReplyFails(q) ==
  /\ Spend
  /\ InFlight(q)
  /\ Over(q) /\ streaming' = FALSE
  /\ tidy' = FALSE
  /\ wire' = [wire EXCEPT ![q] = <<>>]
  /\ UNCHANGED <<sessions, active, messages, seen, effected, opening, load, making,
                 deleting, log, drawn, server>>

\* The stream ends without done: what there is is the reply.
ReplyStops(q) ==
  /\ stream[q].at = "open" /\ wire[q] = <<>>
  /\ Over(q) /\ streaming' = FALSE
  /\ tidy' = FALSE
  /\ messages' = IF stream[q].kept = 0 THEN messages
                 ELSE Append(messages, Answer(q, stream[q].kept))
  /\ UNCHANGED <<sessions, active, seen, effected, opening, load, making, deleting,
                 service, spent>>

-----------------------------------------------------------------------------
(***************************************************************************)
(* The server.                                                             *)
(***************************************************************************)

Live(s) == log[s] # None
Store(s, m) == log' = IF Live(s) THEN [log EXCEPT ![s] = Append(@, m)] ELSE log

\* A session is drawn for a creation in flight, or for the first load if there is none.
ServeCreate(s) ==
  /\ s \notin drawn
  /\ drawn' = drawn \union {s}
  /\ log' = [log EXCEPT ![s] = <<>>]
  /\ \/ /\ opening.at = "create"
        /\ opening' = [opening EXCEPT !.at = "came", !.got = {s}]
        /\ UNCHANGED making
     \/ \E m \in making :
          /\ m.of = None
          /\ making' = (making \ {m}) \union {[m EXCEPT !.of = s]}
          /\ UNCHANGED opening
  /\ UNCHANGED <<sessions, active, messages, streaming, seen, effected, load, deleting,
                 stream, server, wire, tidy, spent>>

\* listChatSessions: the sessions there are, or an error; an empty list asks for one.
ServeList ==
  /\ opening.at \in {"list", "create"}
  /\ LET live == {s \in Sessions : Live(s)} IN
       \/ /\ opening.at = "list"
          /\ opening' = [opening EXCEPT !.at = IF live = {} THEN "create" ELSE "came",
                           !.got = live]
          /\ UNCHANGED spent
       \/ opening' = [opening EXCEPT !.at = "no"] /\ Spend
  /\ UNCHANGED <<sessions, active, messages, streaming, seen, effected, load, making,
                 deleting, stream, service, tidy>>

ServeLoad ==
  /\ load.at = "asked" /\ Live(load.of)
  /\ load' = [load EXCEPT !.at = "answered", !.got = log[load.of],
                !.clean = \A q \in Questions : ~InFlight(q) /\ server[q].at = "off"]
  /\ UNCHANGED <<sessions, active, messages, streaming, seen, effected, opening, making,
                 deleting, stream, service, tidy, spent>>

ServeDelete(s) ==
  /\ deleting[s] = "asked" /\ Live(s)
  /\ log' = [log EXCEPT ![s] = None]
  /\ deleting' = [deleting EXCEPT ![s] = "gone"]
  /\ UNCHANGED <<sessions, active, messages, streaming, seen, effected, opening, load,
                 making, stream, drawn, server, wire, tidy, spent>>

\* The question is stored and its agent starts.  What the agent will say is settled
\* here: it reads nothing of the page, and the page takes it event by event.
ServePost(q) ==
  /\ stream[q].at = "posted" /\ Live(stream[q].of)
  /\ Store(stream[q].of, Question(q))
  /\ stream' = [stream EXCEPT ![q].at = "open"]
  /\ \E n \in 0..MaxPieces :
       /\ server' = [server EXCEPT ![q] = [at |-> "on", of |-> stream[q].of, said |-> n]]
       /\ \/ wire' = [wire EXCEPT ![q] = Whole(n)] /\ UNCHANGED spent
          \/ Spend /\ \E w \in Failing(n) : wire' = [wire EXCEPT ![q] = w]
  /\ UNCHANGED <<sessions, active, messages, streaming, seen, effected, opening, load,
                 making, deleting, drawn, tidy>>

\* The reply is stored when the stream is over, if it has any text.
ServeSave(q) ==
  /\ server[q].at = "on"
  /\ IF server[q].said = 0 THEN UNCHANGED log
     ELSE Store(server[q].of, Answer(q, server[q].said))
  /\ server' = [server EXCEPT ![q] = NoTurn]
  /\ UNCHANGED <<client, drawn, wire, tidy, spent>>

-----------------------------------------------------------------------------
Next ==
  \/ Render \/ Effects \/ OpenPanel \/ ListCame \/ CreateSession \/ Loaded \/ LoadFails
  \/ \E s \in Sessions :
       SwitchSession(s) \/ DeleteSession(s) \/ Deleted(s) \/ DeleteFails(s)
  \/ \E m \in making : Created(m) \/ CreateFails(m)
  \/ \E q \in Questions : SendMessage(q) \/ Receive(q) \/ ReplyFails(q) \/ ReplyStops(q)
  \/ ServeList \/ ServeLoad
  \/ \E s \in Sessions : ServeCreate(s) \/ ServeDelete(s)
  \/ \E q \in Questions : ServePost(q) \/ ServeSave(q)

Spec == Init /\ [][Next]_vars

-----------------------------------------------------------------------------
(***************************************************************************)
(* Properties.                                                             *)
(***************************************************************************)

MessagesOf(qs) == [role: {"user"}, asked: qs, size: {1}]
                    \union [role: {"assistant"}, asked: qs, size: 0..MaxPieces]

\* Every variable has the shape the code gives it.
TypeOK ==
  /\ sessions \subseteq Sessions /\ active \in Sessions \union {None}
  /\ messages \in Seq(MessagesOf(Questions)) /\ streaming \in BOOLEAN
  /\ seen \in [sessions: SUBSET Sessions, active: Sessions \union {None},
               streaming: BOOLEAN]
  /\ effected \in Sessions \union {None}
  /\ opening.at \in {"no", "list", "create", "came"} /\ opening.got \subseteq Sessions
  /\ load.at \in {"none", "asked", "answered"} /\ load.of \in Sessions \union {None}
  /\ making \subseteq [of: Sessions \union {None}, for: Questions \union {None}]
  /\ deleting \in [Sessions -> {"no", "asked", "gone"}]
  /\ stream \in [Questions -> [at: {"none", "creating", "posted", "open", "over"},
                               of: Sessions \union {None}, kept: 0..MaxPieces,
                               calm: BOOLEAN]]
  /\ server \in [Questions -> [at: {"off", "on"}, of: Sessions \union {None},
                               said: 0..MaxPieces]]

\* The input is closed only while a reply is on its way: whatever ends a reply, and
\* whichever of several it is, the user can write again.
BusyMeansReplyComing ==
  TypeOK /\ (streaming => \E q \in Questions : InFlight(q))

\* A question asked in the active session stays on the page while its reply is in
\* flight, as long as the active session has not changed and no other reply has been in
\* flight since: a load that was under way does not remove it.  (One that waited for
\* its session to be created can be removed: the load of that session, or of the one
\* before it, may be shown after.)
QuestionStaysShown ==
  \A q \in Questions : InFlight(q) /\ stream[q].calm => Contains(messages, Question(q))

\* A page that shows what is stored, an empty reply aside: at tells where.
Shows(page, stored) ==
  \E at \in [DOMAIN stored -> DOMAIN page] :
    /\ \A i, j \in DOMAIN stored : i < j => at[i] < at[j]
    /\ \A i \in DOMAIN stored : page[at[i]] = stored[i]
    /\ {at[i] : i \in DOMAIN stored} = {j \in DOMAIN page : page[j].size # 0}

Quiet ==
  /\ seen = Rendered /\ effected = active /\ load.at = "none"
  /\ \A q \in Questions : ~InFlight(q) /\ server[q].at = "off"

\* Once everything is quiet the page shows what is stored: the messages of the active
\* session, an empty reply aside, and none if there is no session.  This holds from a
\* clean load on, through questions sent one at a time, switches and deletions; a
\* request that failed, a reply that was cut short and a switch away from a reply in
\* flight can leave the page different until the next load.
SettledPageIsLog ==
  Quiet /\ tidy =>
    IF active = None THEN messages = <<>> ELSE Live(active) => Shows(messages, log[active])

\* README: reasoning continues after a tool's result and the final answer streams
\* back.  When the page has ended a reply that the agent finished, no piece of it was
\* still to come.
FullReplyReceived ==
  \A q \in Questions :
    stream[q].at = "over" /\ wire[q] # <<>> /\ Last(wire[q]) = "done"
      => ~Contains(wire[q], "delta")
=============================================================================
