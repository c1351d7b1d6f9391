---------------------------- MODULE ClientSession ----------------------------
(***************************************************************************)
(* A user signing in and out of one browser page, and the market data the  *)
(* page keeps: LoginPage, AppStateProvider, MarketDataProvider and their   *)
(* use of localStorage, against the register and login endpoints and the   *)
(* token check of the market endpoints.                                    *)
(*                                                                         *)
(* A submission of the login form is numbered and its token has its number *)
(* (0: no token).  The requests for a resource are numbered too, and the   *)
(* data of a resource is the number of the request that brought it (0: no  *)
(* data): requestVersionRef starts again with the page, but so do the      *)
(* requests it is compared with.                                           *)
(***************************************************************************)
EXTENDS Integers, RiskScoring

CONSTANTS Resources,     \* the keys of MarketDataState
          Emails,
          MaxSubmits,    \* bounds the submissions of the login form
          MaxRequests,   \* bounds the requests for each resource
          MaxReloads,    \* bounds the reloads of the page
          WritesFail,    \* whether localStorage may refuse to store
          None

Submits == 1..MaxSubmits
Requests == 1..MaxRequests
Accounts == [id: Submits, email: Emails]   \* id: the submission that made it

ASSUME SessionAssumption ==
  /\ MaxSubmits \in Nat /\ MaxRequests \in Nat /\ WritesFail \in BOOLEAN
  /\ None \notin Accounts /\ None \notin Emails

VARIABLES
  accounts,   \* the table users
  submit,     \* per submission: mode, email, where it is, and its account
  expired,    \* the tokens whose time is over
  page,       \* session, the submission the form waits for, refreshedSessionEmailRef
  storage,    \* localStorage: the session and the token
  data,       \* MarketDataState, per resource
  version,    \* requestVersionRef
  request,    \* per resource and number: where it is, its token and its answer
  saved,      \* localStorage: the snapshot of each resource
  reloads,
  failed      \* history: localStorage has refused to store

server == <<accounts, submit, expired>>
market == <<data, version, request, saved>>
vars == <<accounts, submit, expired, page, storage, data, version, request, saved,
          reloads, failed>>

Submission == [mode: {"login", "register"}, email: Emails, account: Accounts \union {None},
               at: {"none", "sent", "checked", "granted", "refused", "over"}, heard: BOOLEAN]
\* MarketResourceState
Resource == [of: 0..MaxRequests, load: {"idle", "loading", "ready", "error"},
             refresh: {"idle", "refreshing", "failed"}, source: {"none", "storage", "network"}]
Empty == [of |-> 0, load |-> "idle", refresh |-> "idle", source |-> "none"]
\* A stored envelope; one that is too old or malformed is not usable.
Envelope == [of: 0..MaxRequests, usable: BOOLEAN]

Request == [at: {"none", "sent", "served", "over"}, token: 0..MaxSubmits,
            answer: {"none", "ok", "invalid", "error", "401"}]

Init ==
  /\ accounts = {}
  /\ \E e \in Emails : submit = [n \in Submits |->
       [mode |-> "login", email |-> e, account |-> None, at |-> "none", heard |-> FALSE]]
  /\ expired = {}
  /\ page = [session |-> None, waits |-> 0, refreshed |-> None]
  /\ storage = [session |-> None, token |-> 0]
  /\ data = [r \in Resources |-> Empty]
  /\ version = [r \in Resources |-> 0]
  /\ request = [r \in Resources |-> [n \in Requests |-> [at |-> "none", token |-> 0, answer |-> "none"]]]
  /\ saved = [r \in Resources |-> [of |-> 0, usable |-> FALSE]]
  /\ reloads = 0
  /\ failed = FALSE

-----------------------------------------------------------------------------
(***************************************************************************)
(* The login form and the two endpoints behind it.                         *)
(***************************************************************************)

\* handleSubmit, until the answer comes; the button is disabled while it waits.
Submit(n, mode, email) ==
  /\ page.session = None /\ page.waits = 0
  /\ submit[n].at = "none" /\ \A k \in Submits : k < n => submit[k].at # "none"
  /\ submit' = [submit EXCEPT ![n] = [mode |-> mode, email |-> email, account |-> None,
                                      at |-> "sent", heard |-> TRUE]]
  /\ page' = [page EXCEPT !.waits = n]
  /\ UNCHANGED <<accounts, expired, storage, market, reloads, failed>>

\* The user leaves the login page and is led back to a new one: its form is not
\* waiting, and the answer to the old one still signs in.
Revisit ==
  /\ page.session = None /\ page.waits # 0
  /\ page' = [page EXCEPT !.waits = 0]
  /\ UNCHANGED <<server, storage, market, reloads, failed>>

Grant(n, account) ==
  submit' = [submit EXCEPT ![n].at = "granted", ![n].account = account]
Refuse(n) == submit' = [submit EXCEPT ![n].at = "refused"]

\* login: the account of the email and a right password, or 401.
ServeLogin(n) ==
  /\ submit[n].at = "sent" /\ submit[n].mode = "login"
  /\ \/ \E a \in accounts : a.email = submit[n].email /\ Grant(n, a)
     \/ Refuse(n)
  /\ UNCHANGED <<accounts, expired, page, storage, market, reloads, failed>>

\* register, up to the query for an account of that email.
ServeLookup(n) ==
  /\ submit[n].at = "sent" /\ submit[n].mode = "register"
  /\ IF \E a \in accounts : a.email = submit[n].email THEN Refuse(n)
     ELSE submit' = [submit EXCEPT ![n].at = "checked"]
  /\ UNCHANGED <<accounts, expired, page, storage, market, reloads, failed>>

Inserted(n) == accounts \union {[id |-> n, email |-> submit[n].email]}

\* Mutant of ServeCommit: an email that is taken meanwhile is not noticed.
ServeCommitAnyway(n) ==
  /\ submit[n].at = "checked"
  /\ accounts' = Inserted(n)
  /\ Grant(n, [id |-> n, email |-> submit[n].email])
  /\ UNCHANGED <<expired, page, storage, market, reloads, failed>>

\* register, the commit: the unique index on the email refuses a second account
\* (IntegrityError, 409), and the database may fail (OperationalError, 503).
ServeCommit(n) ==
  /\ submit[n].at = "checked"
  /\ \/ /\ ~\E a \in accounts : a.email = submit[n].email
        /\ accounts' = Inserted(n)
        /\ Grant(n, [id |-> n, email |-> submit[n].email])
     \/ Refuse(n) /\ UNCHANGED accounts
  /\ UNCHANGED <<expired, page, storage, market, reloads, failed>>

Written(ok) == /\ ok \/ WritesFail
               /\ failed' = (failed \/ ~ok)

\* login and register store the token, then signIn takes the session into the page
\* and stores it; each of the two writes may fail unnoticed.
SignIn(n) ==
  /\ submit[n].at = "granted" /\ submit[n].heard
  /\ submit' = [submit EXCEPT ![n].at = "over"]
  /\ \E tokenOk, sessionOk \in BOOLEAN :
       /\ Written(tokenOk /\ sessionOk)
       /\ storage' = [token   |-> IF tokenOk THEN n ELSE storage.token,
                      session |-> IF sessionOk THEN submit[n].account ELSE storage.session]
  /\ page' = [page EXCEPT !.session = submit[n].account,
                          !.waits = IF @ = n THEN 0 ELSE @]
  /\ UNCHANGED <<accounts, expired, market, reloads>>

\* Nobody waits for the answer any more; the endpoint goes on.
Unheard(sub) == [sub EXCEPT !.heard = FALSE, !.at = IF @ \in {"granted", "refused"} THEN "over" ELSE @]

\* The form shows the error of the endpoint or of the network.
SubmitFails(n) ==
  /\ submit[n].at # "over" /\ submit[n].heard
  /\ submit' = [submit EXCEPT ![n] = Unheard(@)]
  /\ page' = [page EXCEPT !.waits = IF @ = n THEN 0 ELSE @]
  /\ UNCHANGED <<accounts, expired, storage, market, reloads, failed>>

\* The expiry of a token is fixed when it is made.
Expire(n) ==
  /\ submit[n].account # None
  /\ expired' = expired \union {n}
  /\ UNCHANGED <<accounts, submit, page, storage, market, reloads, failed>>

\* signOut; the effect of MarketDataProvider runs with the click.
SignOut ==
  /\ page.session # None
  /\ page' = [page EXCEPT !.session = None, !.refreshed = None]
  /\ storage' = [session |-> None, token |-> 0]
  /\ UNCHANGED <<server, market, reloads, failed>>

-----------------------------------------------------------------------------
(***************************************************************************)
(* Market data.                                                            *)
(***************************************************************************)

InFlight(r, n) == n \in Requests /\ request[r][n].at \in {"sent", "served"}

\* refreshResource up to the answer, for every resource: authFetch takes the stored
\* token along.
Ask ==
  /\ version' = [r \in Resources |-> version[r] + 1]
  /\ request' = [r \in Resources |->
       [request[r] EXCEPT ![version[r] + 1] = [at |-> "sent", token |-> storage.token, answer |-> "none"]]]
  /\ data' = [r \in Resources |->
       [data[r] EXCEPT !.load = IF data[r].of # 0 THEN "ready" ELSE "loading", !.refresh = "refreshing"]]

\* The effect on session.email: one refresh for each sign-in and each load of the page.
Refresh ==
  /\ page.session # None /\ page.refreshed # page.session.email
  /\ \A r \in Resources : version[r] < MaxRequests
  /\ page' = [page EXCEPT !.refreshed = page.session.email]
  /\ Ask
  /\ UNCHANGED <<server, storage, saved, reloads, failed>>

\* get_current_user and the endpoint: no token or one whose time is over is a 401,
\* a payload can be invalid for the page, and anything else can fail.
Serve(r, n) ==
  /\ request[r][n].at = "sent"
  /\ \E answer \in {"ok", "invalid", "error", "401"} :
       /\ answer # "error" =>
            (answer = "401" <=> request[r][n].token = 0 \/ request[r][n].token \in expired)
       /\ request' = [request EXCEPT ![r][n].at = "served", ![r][n].answer = answer]
  /\ UNCHANGED <<server, page, storage, data, version, saved, reloads, failed>>

\* authFetch, before its caller sees the answer: whichever token was refused, the
\* stored one is removed.
Cleared(answer) ==
  storage' = IF answer = "401" THEN [storage EXCEPT !.token = 0] ELSE storage

Over(r, n) == request' = [request EXCEPT ![r][n].at = "over"]

\* An answer that a later request has overtaken changes nothing.
ReceiveOld(r, n) ==
  /\ request[r][n].at = "served" /\ version[r] # n
  /\ Over(r, n) /\ Cleared(request[r][n].answer)
  /\ UNCHANGED <<server, page, data, version, saved, reloads, failed>>

\* A valid payload is stored, unless localStorage refuses, and shown.
Stored(r, n) ==
  /\ \E ok \in BOOLEAN :
       /\ Written(ok)
       /\ saved' = IF ok THEN [saved EXCEPT ![r] = [of |-> n, usable |-> TRUE]] ELSE saved
  /\ data' = [data EXCEPT ![r] = [of |-> n, load |-> "ready", refresh |-> "idle", source |-> "network"]]

\* Mutant of ReceiveOk: the version of the request is not compared.
ReceiveOkAny(r, n) ==
  /\ request[r][n].at = "served" /\ request[r][n].answer = "ok"
  /\ Over(r, n) /\ Stored(r, n)
  /\ UNCHANGED <<server, page, storage, version, reloads>>

ReceiveOk(r, n) ==
  /\ request[r][n].at = "served" /\ version[r] = n /\ request[r][n].answer = "ok"
  /\ Over(r, n) /\ Stored(r, n)
  /\ UNCHANGED <<server, page, storage, version, reloads>>

\* Mutant of ReceiveBad: an invalid payload is ignored.
ReceiveBadMute(r, n) ==
  /\ request[r][n].at = "served" /\ version[r] = n /\ request[r][n].answer # "ok"
  /\ Over(r, n) /\ Cleared(request[r][n].answer)
  /\ data' = IF request[r][n].answer = "invalid" THEN data
             ELSE [data EXCEPT ![r].refresh = "failed",
                               ![r].load = IF data[r].of # 0 THEN "ready" ELSE "error"]
  /\ UNCHANGED <<server, page, version, saved, reloads, failed>>

\* An error, or a payload that is not valid: what is shown stays.
ReceiveBad(r, n) ==
  /\ request[r][n].at = "served" /\ version[r] = n /\ request[r][n].answer # "ok"
  /\ Over(r, n) /\ Cleared(request[r][n].answer)
  /\ data' = [data EXCEPT ![r].refresh = "failed",
                          ![r].load = IF data[r].of # 0 THEN "ready" ELSE "error"]
  /\ UNCHANGED <<server, page, version, saved, reloads, failed>>

\* A stored snapshot passes CACHE_RETENTION_MS.
Age(r) ==
  /\ saved[r].usable
  /\ saved' = [saved EXCEPT ![r].usable = FALSE]
  /\ UNCHANGED <<server, page, storage, data, version, request, reloads, failed>>

-----------------------------------------------------------------------------
\* hydrateResourceState
Hydrated(r) ==
  IF saved[r].usable
  THEN [of |-> saved[r].of, load |-> "ready", refresh |-> "idle", source |-> "storage"]
  ELSE Empty

\* The page is loaded again: readInitialSessionState and its cleanup, and the stored
\* snapshots, of which those that are not usable are removed.
Reload ==
  /\ reloads < MaxReloads
  /\ reloads' = reloads + 1
  /\ IF storage.session # None /\ storage.token # 0
     THEN page' = [session |-> storage.session, waits |-> 0, refreshed |-> None] /\ UNCHANGED storage
     ELSE /\ page' = [session |-> None, waits |-> 0, refreshed |-> None]
          /\ storage' = IF storage.session # None THEN [session |-> None, token |-> 0] ELSE storage
  /\ submit' = [n \in Submits |-> Unheard(submit[n])]
  /\ request' = [r \in Resources |-> [n \in Requests |->
       IF InFlight(r, n) THEN [request[r][n] EXCEPT !.at = "over"] ELSE request[r][n]]]
  /\ data' = [r \in Resources |-> Hydrated(r)]
  /\ saved' = [r \in Resources |-> IF saved[r].usable THEN saved[r] ELSE [of |-> 0, usable |-> FALSE]]
  /\ UNCHANGED <<accounts, expired, version, failed>>

Answers(n) == \/ ServeLogin(n) \/ ServeLookup(n) \/ ServeCommit(n)
              \/ SignIn(n) \/ SubmitFails(n)
Receives(r, n) == ReceiveOld(r, n) \/ ReceiveOk(r, n) \/ ReceiveBad(r, n)

Next ==
  \/ \E n \in Submits : \/ \E mode \in {"login", "register"}, email \in Emails : Submit(n, mode, email)
                        \/ Answers(n)
                        \/ Expire(n)
  \/ Revisit \/ SignOut \/ Refresh \/ Reload
  \/ \E r \in Resources : \/ Age(r)
                          \/ \E n \in Requests : Serve(r, n) \/ Receives(r, n)

Spec == Init /\ [][Next]_vars

\* Endpoints answer, and the page takes the answers and runs its effects; what the
\* user does, and time, need not happen.
FairSpec ==
  /\ Spec /\ WF_vars(Refresh)
  /\ \A n \in Submits : WF_vars(Answers(n))
  /\ \A r \in Resources, n \in Requests : WF_vars(Serve(r, n)) /\ WF_vars(Receives(r, n))

-----------------------------------------------------------------------------
(***************************************************************************)
(* Properties.                                                             *)
(***************************************************************************)

TypeOK ==
  /\ accounts \subseteq Accounts
  /\ submit \in [Submits -> Submission]
  /\ expired \subseteq Submits
  /\ page \in [session: Accounts \union {None}, waits: 0..MaxSubmits, refreshed: Emails \union {None}]
  /\ storage \in [session: Accounts \union {None}, token: 0..MaxSubmits]
  /\ data \in [Resources -> Resource]
  /\ version \in [Resources -> 0..MaxRequests]
  /\ saved \in [Resources -> Envelope]
  /\ request \in [Resources -> [Requests -> Request]]
  /\ failed \in BOOLEAN

\* Whoever the page shows is the one account of that email, and the token it has kept
\* is of that account, through two registrations of an email at once, answers to an
\* abandoned form, reloads and tokens that are refused, unless a write failed.
SessionIsOfAccount ==
  /\ \A a, b \in accounts : a.email = b.email => a = b
  /\ {page.session, storage.session} \subseteq accounts \union {None}
  /\ ~failed /\ storage.token # 0 =>
       /\ submit[storage.token].account = storage.session
       /\ page.session # None => page.session = storage.session

\* A resource says it is being refreshed exactly while its latest request is under
\* way, and that it is ready exactly when it has something to show.
RefreshingMeansAsked ==
  /\ TypeOK
  /\ \A r \in Resources :
       /\ data[r].refresh = "refreshing" <=> InFlight(r, version[r])
       /\ data[r].load = "ready" <=> data[r].of # 0
       /\ data[r].load = "loading" => data[r].refresh = "refreshing"

\* What is shown is only replaced by the answer to a later request, whoever has signed
\* out and in meanwhile; and a page that is loaded again shows what it has shown, or
\* nothing once that is too old, unless a write failed.
ShownMovesForward ==
  [][\A r \in Resources :
       IF reloads' = reloads THEN data'[r].of >= data[r].of
       ELSE failed \/ data'[r].of \in {0, data[r].of}]_vars

\* The questionnaire is for who has signed in (ProtectedRoutes): what their answers
\* make of them is within their means and rewards no caution with risk.
AssessmentsAreSound == page.session # None => AssessmentIsSound

\* "On 401, clears the stored token so the app redirects to login" (authApi.ts:47)
RejectedReturnsToLogin ==
  (page.session # None /\ storage.token = 0) ~> (page.session = None \/ storage.token # 0)
=============================================================================
