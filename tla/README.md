# FinanceHub verification

TLA+ models of FinanceHub, the TLC runs that check them on small instances and
the theorems about them that TLAPS proves. Paths such as `chat/store.py` are
relative to `src/backend/financehub_market_api/`, `recommendation/...` likewise.

FinanceHub is a FastAPI backend with a React client. It shows Chinese market
data, recommends funds, wealth-management products and stocks after a risk
questionnaire, and has a chat assistant with stored sessions. What makes it
hard is not arithmetic but what happens between the steps: language-model
agents and providers that fail at any point, Redis that fails or is shared with
other processes, request threads and an event loop that interleave, clients
that leave in mid-stream.

## 1. Inventory

| Component | State | Operations | Hard behaviour |
|---|---|---|---|
| Recommendation pipeline (`recommendation/graph/*`, `services/recommendation_service.py`) | one graph state per request: user and market intelligence, retrieval context, compliance review, final response, warnings, trace | five nodes in a line, each with its early return when blocked, its fallback and its block | an agent or a service fails in the middle; later nodes and the assembler meet a half-filled state |
| Retrieval plan (`recommendation/product_index`, `fund_preferences.py`) | none | filter by risk tier, avoided categories, liquidity; rank | the pipeline must never go around it |
| Compliance review (`recommendation/compliance`) | none | verdict, approved ids | two methods decide separately and must agree |
| Assembler (`services/assembler.py`, `rules/profile_catalog.py`) | none | status, sections, allocation of 100% over the categories that have a product | integer shares with categories missing; what a blocked run shows |
| Agents (`agents/runtime_agents.py`, `provider.py`) | messages of one loop | rounds of tool calls, validation retries, submit | four limits in one bounded loop |
| Candidate pool refresh (`candidate_pool/refresh.py`, `cache.py`, `services/product_detail_service.py`, the refresh script) | pool of a category, detail of a product, in Redis | refresh a category: fetch, store pool, store details | a crash or a reader between the stores; two refreshes of one category |
| Scheduler (`candidate_pool/scheduler.py`) | ticker tasks, in-flight table, daemon threads | start, stop, tick, run, finish | stop cancels tasks and not threads; restart; skipped ticks |
| Snapshot cache (`cache.py`) | Redis, in-process fallback, latch | get, peek, put, delete | Redis fails once and is given up; malformed and expired entries |
| Market data (`service.py`, `watchlist.py`, `upstreams/*`) | snapshots in the cache | load with validation, stale fallback, refresh | threads interleave at every Redis call; another build's entry |
| Chat store (`chat/store.py`) | per session a hash, a list, an id in the user's index | create, add message, rename, delete, list, read | each method is several Redis commands; any may fail, a process may die |
| Chat router (`chat/router.py`) | request threads | post a question, stream the answer, store it | client leaves, session deleted in mid-stream, concurrent questions |
| Chat agent (`chat/agent.py`) | messages of one stream; the queue and workers of the executor that all streams share | rounds of completion and tools | round limit, a tool that raises, an analysis that times out and cannot be cancelled |
| Chat recall (`chat/recall_service.py`, `qdrant_store.py`) | vector points of questions | index, recall | scores, repeats and limits decide together; index and session deletion are not connected |
| News and fundamentals (`market_news.py`, `fundamental_analysis.py`) | none | digest of search results, report of a company | repeats, missing figures, losses in ratios |
| Market intelligence (`recommendation/intelligence/service.py`) | none | facts of the day from indices and news | thresholds applied one after the other |
| Authentication (`auth/*`, `AppStateProvider.tsx`, `authApi.ts`) | users table, token in the browser | register, login, restore, 401 | registration race, stale session |
| Chat client (`ChatStateProvider.tsx`) | sessions, active session, messages, streaming flag | send, switch, create, delete | effects and streams that resolve late |
| Market client (`MarketDataProvider.tsx`) | versioned requests, persisted snapshots | load, refresh | answers of an earlier load or sign-in, a browser that refuses to store |
| Questionnaire (`risk-scoring.ts`) | none | score answers | boundaries of the bands |

How they interact: a page asks the API; the market endpoints load through the
snapshot cache and their upstreams; a recommendation request reads the candidate
pools that the scheduler, a detail page or the script stored through the same
kind of cache, and runs the pipeline; a chat turn writes the session store
around an agent stream, whose tools call the market and recommendation services.
The API's lifespan starts and stops the scheduler. What is shared is Redis, and
in one process the cache object, the scheduler's tables and the clients.

What makes each part correct, in one line:

- pipeline: nothing reaches the user that the retrieval plan filtered out or
  that no review allowed, and every fallback is visible;
- refresh: what is offered has a page, nothing stored is lost, one refresh per
  category, and the pool catches up with its provider;
- market data: only valid snapshots are served, fresh means fresh, and a process
  that has loaded a snapshot once keeps answering;
- chat store: to its readers a session is a log that is created, appended to and
  deleted once, through failures and crashes;
- chat turn: answers follow their questions, the agent sees the question, and
  what is stored is what was shown;
- chat agent: every request to the model is a whole conversation, every stream
  ends, and the executor works only for somebody who waits;
- page: the session is the one of the account that signed in, and what a
  resource shows only moves forward.

The hazards behind these, each with its line and the properties that cover it,
are listed in `PROJECT.json` ("hazards"); those without a property say why.

## 2. Modules

| Module | Models | State and actions |
|---|---|---|
| `RecommendationGraph` | one pipeline run | one action per graph node plus `Assemble`; `user`, `market`, `basket`, `review`, `final`, `warnings`, `trace` are the fields of the graph state, `response` the HTTP answer |
| `SnapshotCache` | `cache.py` | `redis`, `fallback`, `latched`, `now`; the single steps (`RedisFails`, `RedisPut`, `FallbackPut`, ...), which callers put in order |
| `MarketData` (extends `SnapshotCache`) | `service.py` | `thread`: the program counter of `_load_cached_snapshot` in each request thread; one action per call to Redis, to the fallback or to the upstream |
| `CandidateRefresh` | `refresh.py`, detail pages, script | `pool`, `detail`, and `work`: the refresh threads; `FetchFails`, `FetchOk`, `PutPool`, `PutDetail` |
| `RefreshScheduler` (extends `CandidateRefresh`) | `scheduler.py` | `ticker`, `inflight`, `task`; an action is what a task does from one await to the next |
| `ChatLog` | the promise of the store | `status` and `log` of a session: create, append, delete |
| `ChatStore` | `chat/store.py` | `hash`, `messages`, `index` in Redis; `call`: the method a thread is in; one action per Redis command |
| `ChatTurn` (extends `ChatStore`) | `chat/router.py` | `turn`: the request a thread serves; store commands, streamed pieces, the client leaving |
| `AgentToolLoop` | `_run_tool_loop` of `runtime_agents.py`, `chat_with_tools` of `provider.py`, the five agents | `conversation`, `records`, `round`, `rejected`, `attempt`, and where the loop stands (`phase`, `current`); the model answers any calls, an attempt may fail, a submission is accepted or rejected, a tool is run or refused |
| `ChatAgent` | `chat/agent.py` | `stream`: where the generator of a request stands; `messages`: what the model is sent; `job`, `queue`, `worker`: the executor of the analyses |
| `ChatClient` | `ChatStateProvider.tsx` with the input, the drawer and `chatApi.ts`; the server's answers | the React state (`sessions`, `active`, `messages`, `streaming`), `seen` (what was rendered last, which refs and handlers read), `effected`, the requests in flight and, for each question, its `sendMessage` call (`stream`), its events (`wire`) and the reply the server has yet to store; an action is what runs without giving way |
| `ClientSession` | `LoginPage`, `AppStateProvider.tsx`, `MarketDataProvider.tsx`, `authApi.ts` against `auth/router.py` and the token check | the users table with its unique index, `localStorage`, the page's session, the submissions under way, and per resource its versioned requests, what is shown and what is stored |

Pure algorithms, as operators with the facts that must hold of them, are in
modules of their own that a state machine hosts: a run of the host evaluates
them where it uses what they compute.

| Module | Computes | Hosted by |
|---|---|---|
| `RiskScoring` | `risk-scoring.ts`: answers to a profile | `ClientSession` |
| `FundamentalAnalysis`, `MarketNews` | reports compared, ratios, flags, scores, stance, peers; which results a digest keeps and how it rates them | `ChatReports` |
| `CandidateRanking` | the order of candidates in a request, in the plan and for a fund preference; which terms of redemption are liquid | `AgentInputs` |
| `MarketStance` | the facts of the day for the market agent | `AgentInputs` |
| `WatchlistPrices` | the five queries of `upstreams/dolthub.py` against a table that grows, the validation, the rankings of the page | `AgentInputs` |
| `ChatRecall` | search, score and choice of recalled messages | `AgentInputs` |
| `DeterministicAgents` (extends `RecommendationGraph`) | the answers of the offline agents | `AgentInputs` |
| `Ordering` | what `sorted()`, a filter and a slice make of a list | the modules above that sort |

And the rest:

| Module | |
|---|---|
| `AgentInputs`, `ChatReports` | put the pipeline, and the chat agent, together with the functions that compute what they are given; each states the one property about it |
| `MC*` | constants and symmetry of the runs |
| `*_proofs` | theorems |

Conventions. A definition "Mutant of X" is a plausible bug of X; replacing X by
it breaks the property `PROJECT.json` pairs it with. Ghost variables and fields
(`torn`, `alone`, `clean`, `had`, `born`, `cut`, `shown`, `calm`, `tidy`) record history for a
property.  `born` also keeps an id from being drawn twice, as `uuid4` does.

Data that the properties do not tell apart is opaque: a product is a model value
with a category, a risk level and a liquidity; a cached market snapshot is when it was stored and
whether it validates; a message is a question or an answer with its number of
pieces. Left out altogether: prompts, wording and translations. The pipeline's
baskets are sets; `CandidateRanking` has their order.

Where the code gives a choice to something outside, the model does too: an agent
answers anything its contract admits or fails, and `compliance_risk_officer` may
also answer a verdict outside the vocabulary, which leaves the graph as an
exception; a Redis command does its work, fails, or does its work and then
reports an error; a provider lists a version, an empty list, or raises.

## 3. Runs

| Run | Asks | Bounds, and why they suffice |
|---|---|---|
| `recommendation_graph` | Can any mix of failures, fallbacks and agent answers deliver outside the plan, release without a review, hide a fallback, or break the allocation? Is what the agents are given sound (`AgentInputsAreSound`)? | products that differ in every attribute the filters read (category, risk on both sides of a tier, unknown risk, liquidity), profiles on both ends; one run of the graph, since runs share nothing; the algorithms over every list, table or index of the sizes their modules name |
| `cash_products_refused` | Is a product that can be redeemed at T+0 or T+1 offered to a user who wants liquidity? | same; violated, see findings |
| `market_data` | Can what is served be invalid or past its time, can a process that has loaded once answer 503, and does Redis share what a process keeps? | two threads of one process and one of another; one loads both snapshots in turn; under one key Redis holds what does not decode or not validate, under the other nothing or what does not validate; TTL 1 and time to 1, so that an entry is fresh and then expires |
| `refresh_scheduler` | Is the in-flight table exact, does an offered product have its page, is anything stored lost; undisturbed, does a category have one thread and its pool move forward; does the pool catch up with its provider? | one category (categories share nothing but worker slots), three versions of its list, one of them empty, three threads, so that a cancelled, a restarted and a page's or the script's refresh overlap; one stop or crash |
| `chat_store` | Does the store implement the log? Is the summary the first text? Does a delete leave nothing? | three threads in one session with two messages: two writers race a deleter; sessions share no key but the index |
| `chat_turn` | Do answers follow their questions, does the agent see the question, and is what is stored what was shown? | two turns in one session race a thread that creates and deletes it; one piece of text, at which the client may leave |
| `agent_tools` | Do the limits on rounds, tools, retries and attempts fit together, is every request a whole conversation, is the trace what the model was given? | all five agents with their own tools and opening calls; the limits of the code (four tools, one rejected submission, three attempts) and up to three calls in an answer, so that each limit is hit alone and together with another, and a rejected submission has calls before and after it |
| `chat_agent` | Is every request of the chat agent a whole conversation in which each report answers its own call, does the executor work only for who waits, does every stream end? Are reports and digests fair? | two streams and one worker, so that an analysis waits behind one that was given up; two rounds and two calls in a response, three calls in the first stream: the round limit is reached with a call left over from another round |
| `chat_client` | Does the input open again, does a load leave a question being answered alone, and does a quiet page show what is stored? | two sessions and two questions, so that two replies overlap; replies of no or one piece; one use of the drawer or failure, besides what the page does by itself |
| `chat_reply_received` | Is a reply that the agent finishes shown in full? | violated, see findings |
| `client_session` | Is the session that of the account whose token is stored, does a resource that shows as refreshing have a request under way, does what is shown only move forward? Is an assessment sound? | two submissions of the form, so that two registrations of one email, or a registration and a login, overlap; two reloads and four requests, so that answers of an earlier load arrive in a later one |
| `session_rejected` | Does a 401 lead back to the login page? | violated, see findings |

The names of the properties and the configuration of each run are in
`PROJECT.json`. Deadlock is checked wherever the system goes on. It is off where
the model comes to an end: a run of the pipeline or of a tool loop, streams that
have all ended, and pages whose bounds on what a user may still do are used up.
Symmetry is declared over threads, workers, sessions, questions and emails that
are alike, never in a liveness run.

Bounds in guards: `MaxTime`, `MaxRestarts`, `MaxPieces`, `MaxCalls` (calls in one
answer of a model, or of one stream), `MaxSubmits`, `MaxRequests`, `MaxReloads`,
`MaxSpent` (uses of the drawer and failures together), `NoGuest` (one refresh
that is not the scheduler's at a time), `Askers` (threads that post questions, as
against those that create and delete sessions), `Placed` (a message is in one place at a
time), each marked where it is defined.

Two facts about the algorithms' bounds. The indices of `ChatRecall` have up to
three messages, or four of the user's own, so the search limit never cuts the
result of a search and only its limit on snippets is exercised; `RecallIsAlwaysFair`
is proved for indices of any length. And `WatchlistPrices` asks only about tables of
which `DaysComeInOrder` holds: a day has its first row before the next day has one.
A day that is filled in afterwards can be mixed into a snapshot that is accepted,
which the code does not notice.

### Fairness

`RefreshScheduler!FairSpec`: weak fairness of `Start`, `Trigger`,
`Run` and `Resume`: the process is started again, and the event loop runs every
ready callback; a sleep ends. Weak fairness of `ThreadStep`: the operating
system runs daemon threads and a provider call returns. That last part is an
assumption about the provider, since the code sets no time limit around the
call, and is listed as a hazard. Strong fairness of a successful fetch: a
provider that lists products again and again is not unreachable every single
time. Nothing is assumed of `Stop`, `Crash`, `Publish`, views or the script.
`CatchesUp` takes as its premise that the provider eventually lists something
for good: an empty list is an error to the refresher, so the old pool stays.

`ChatAgent!FairSpec`: the thread of a stream goes on, which includes that
`future.result` gives up in time; and a response of the model ends or fails (the
client has a timeout), which is strong fairness because chunks may come in
between. Nothing is assumed of the analyses: they may hang and hold every worker.

`ClientSession!FairSpec`, used only for `RejectedReturnsToLogin`: requests are
answered and the page's own steps happen; nothing is assumed of the user.

### Findings

1. Cash products are refused to whoever wants liquidity. The terms that count as
   liquid are compared whole (`product_index/service.py:9`,
   `compliance/service.py:12`); the money-fund adapter, the only source of wealth
   products that the refresh has, labels its products "T+0/T+1"
   (`real_data_adapters.py:464`) and describes them as fit for users who
   prioritise liquidity. They are dropped by the plan and held back by the static
   review (`cash_products_refused`).
2. A tool that fails ends the reply on the page. `chat/agent.py:344` sends an
   "error" event and goes on with the error as the tool's result, as its tests
   ask ("reported without stopping"); `ChatStateProvider.tsx:234` takes every
   "error" event as the end, so the answer that follows is stored but not shown
   until the messages are loaded again (`chat_reply_received`).
3. A rejected token does not lead back to the login. `authApi.ts:57` removes the
   stored token, which `AppStateProvider.tsx:72` reads only when the page is
   loaded, so the page stays signed in; the comment at `authApi.ts:47` says that
   the app redirects (`session_rejected`).

Four observations that no text of the repository decides, so that no run claims
them. A blocked recommendation is assembled from whatever the run had reached
(`services/assembler.py:340`): when the manager or compliance agent fails after
the products were matched, the answer is blocked and lists them all the same.
And `chat/router.py:150` yields a piece before it counts it, so that a client who
leaves at a piece has seen one more than is stored; `StoredIsShown` states what
does hold: all pieces but the one the client left at.
A company that loses money can be called strong when its cash flow is missing: no
ratio is formed and no flag raised (`fundamental_analysis.py:155`, `:198`), and a
profit of -10 with a return of 20, a growth of 15 and a negative price ratio scores
3, 5, 5, 4, 5 and 3, which is 4.2. Only a warning (`:194`) says that the cash flow is
missing; `StrongLossIsWarnedOf` states this, and `MissingFiguresAreNoMerit` where a
missing figure does no good: where the known one is not bad. And a limit of 0 peers,
which `:109` and `:447` let pass, shows one, as the limit is looked at after a peer is
added (`:424`); `PeersAreTheLargest` counts it as a limit of 1.

What `SettledPageIsLog` says is what does hold of the page, and its condition
`tidy` names what does not: after a failed request, a reply cut short, a switch
away from a reply in flight, two replies at once, a question sent while its
session's messages are still loading (the load is then dropped) or before the
previous reply is stored, the page can differ from the store until the next load
that nothing disturbs. `QuestionStaysShown` is limited in the same way to
questions asked in the session that is shown: the flag that keeps a load from
overwriting a question is reset by the effects of a session created for it.

## 4. Proofs

`RecommendationGraph_proofs` proves, for every product catalogue, profile set,
category, risk and liquidity function that `CatalogAssumption` admits:

- `TypeOK`, `DeliveredWithinPlan`, `ReleasedOnlyAfterReview`,
  `StaticReviewSuitable`, `UnwarnedMeansAgentReviewed`, `HeldAnswerIsExplained`,
  `AllocationCoversSections`, `RevisionOnlyNarrows` and `NothingRunsAfterBlock`.

None of the interesting ones is inductive: that a release follows a review says
nothing of a state in which the review is still to come. `StageInv` supplies
what each stage leaves behind for the later ones: one trace event per stage, an
untouched basket before the product stage, who may have produced the review by
now, how `final` and `review` agree, and which stages an unblocked run has
finished. It is proved inductive together with the safety properties, one step
per node. The allocation is proved from the two percentage tables by the eight
cases of available categories.

The same module proves what goes into the pipeline sound: `AgentsGetSoundInputs`
(`AgentInputsAreSound`), in every run of the pipeline. Each part is a theorem for all
inputs of its function, and not only the small ones that a run enumerates:

- `OfflineStands`: whatever the catalogue, what the offline agents select of a plan
  needs no fallback, their review approves it and their status is the one released
  (`OfflineAnswersStand`, a part of `AgentInputsAreSound`);
- `BetterNewsNeverWorsens`: for any changes of the indices and any counts of news,
  more good stories or fewer bad ones never worsen the view of the market;
- `BetterIndicesNeverWorsen`: nor do indices of which none did worse. The average is
  a running sum, compared place by place; the counts of rises and falls are compared
  as sets;
- `AcceptedPricesAreOfOneDay`: for any watchlist, any trading days and any way the
  rows of a day come in while the five queries run, what is accepted is of one day.
  The table may have grown by a day between two queries, but then a stock lacks a
  close or the last point of its chart is not the day of the prices. It assumes
  `DaysComeInOrder`;
- `RankingsAreAlwaysHonest`: the lists of gainers and losers, for any changes and any
  length of them;
- `RankingKeepsOrder`, `WishesAlwaysComeFirst`, `ListedOrderAlwaysSurvives`: the order of
  the candidates, for lists of any length, any injective list of hits and any wishes;
- `RecallIsAlwaysFair`: the recalled messages, for any index and any limit of at least one.

The functions sort, filter and run through lists, and induction over a list is out of
reach (the theorems of the library for it take an operator as a parameter). Three
arguments take its place. A sort is `Arranged`: a place gets the member of which as
many others come before as the place says. That each place has exactly one member is a
fact about the sizes of initial segments of a finite strict order (`InOrder`), and its
proof takes a least counterexample, by the well-foundedness of the naturals; so do the
proofs about a loop, which is a recursive function of the number of turns. Sorting and
then filtering is filtering and then sorting because a bijection between two sets that
keeps an order keeps the ranks. And of a limit nothing is needed but that a list cut
short has the first members of the whole one. The lemmas about `Ordering` stand in this
module and in `ChatAgent_proofs`, since a module that extends two state machines would
declare their variables together.

`ChatStore_proofs` proves, for any number of threads, sessions and messages:

- `StoreInvariant`: `Inv == StoreTypeOK /\ HashInv /\ CallInv` holds throughout.
  `HashInv` says that an id that was never drawn has nothing in Redis and that a
  hash with a creation time is whole; `CallInv` what a thread in the middle of a
  method knows: its id was drawn, a thread that is creating a session is the only
  one that knows its id, and a delete past the hash finds the hash without its
  creation time;
- `StoreImplementsLog`: every behaviour of the store is one of `ChatLog` under
  the mapping that shows a session as live when its hash is whole, as deleted
  when its id was drawn and its hash is not whole, and its messages only while
  it is live. The steps that matter are the push (append if live, stutter if the
  session has gone) and the first command of a delete; every later command of a
  racing writer is a stutter, since only a create writes the creation time and
  ids are drawn once;
- `SummaryCorrect`: `SummaryIsFirstText`, from the fact that the first text of a
  list never changes once there is one. That fact is about
  the least index of a text; it is obtained from the well-foundedness of the
  naturals by a minimal counterexample, not by the library's induction operators;
- `DeleteIsClean` and `SessionsAreListed`, for any finite set of ids
  (`SessionAssumption`; an id is a UUID), from `TidyInv == EnlistInv /\ \A s \in
  Sessions : Tidy(s)`. `EnlistInv` says that a thread about to put a session on the
  index has it to itself, and that one about to take it off has deleted its hash.
  `Tidy` says of a session whose creation and deletion were not cut short, and
  whose deletion met no writer: while it lives it is on the index or about to be; once it is deleted nobody writes to it, and a list or an index entry that is
  left has a delete that is about to remove it.

It goes on to prove, for any number of requests, questions and pieces, what
`ChatTurn` adds on top of the store:

- `HistoryInOrder` (`AnswersFollowQuestions`), `AgentIsInformed`
  (`AgentSeesQuestion`) and `AnswersAreShown` (`StoredIsShown`), from `TurnInv`
  together with the store's `Inv`. None of the three is inductive. What is
  missing is how a turn and the store call of its thread go together: `Coupled`
  says which call a turn is in, `Alone` that no two turns are about one question,
  `Told` what a turn has kept of the pieces its client was sent, `Stored` that a
  question that was added is in its session for as long as that lives, `Informed`
  that the history has it and every question before it, and `Listing` that a list
  has nothing that is yet to be added and nothing twice, with answers as they were
  shown and after their questions;
- `TurnsImplementLog`: a turn's own steps do not show through the store, so the
  composition implements `ChatLog` as the store alone does.

`AgentToolLoop_proofs` proves, for each of the five agents, any names of tools
and any limits:

- `TypeCorrect` and `RoundsAlwaysSuffice`, from `LimitsInv`: while the loop goes
  on, the rounds that are over are at most the recorded tool calls and the rejected
  submissions together, and each of these has a limit of its own, so the bound on
  rounds is never the one that ends a run;
- `ConversationAlwaysWhole`, from `ConversationInv`: every earlier answer of the
  model is whole and the last one is answered up to the call the loop stands at;
- `TraceAlwaysTellsTheRun` (`TraceTellsTheRun`), from `TraceInv`: the n-th record of
  the trace and the n-th result in the conversation tell of the same call, where
  the n-th is told by counting the results before it.

`MarketData_proofs` proves, for any number of processes, threads, keys, any time
to live and anything left in Redis that is not from the future (`LeftAssumption`):

- `AnswersAreValid`, `AnswersAreFresh`, `AnswersGoOn` and `CopiesAreShared`, from
  `LoadInv` (`LoadsAreSafe`): a part for the caches (an entry is not from the
  future; one under a key that was once clean is valid), a part for each thread
  (what it remembers of a stale copy is valid, a thread that has loaded the key
  has a copy in its process), and `Shared`. A step changes one thread, and of the
  caches only what leaves the parts of the others true.

`RefreshScheduler_proofs` proves, for any number of categories, products, list
versions, threads and restarts:

- `TableOfRefreshes` (`InflightExact`), from `Registered`: a worker has an
  unfinished task for a category exactly if the table names it. The finally clause
  of a cancelled task finds another entry, or none, and leaves it alone;
- `NothingIsLost`, from `ListsWhole`: what a thread holds is what its provider
  listed, so no pool is stored that is empty;
- `OfferedPages`, from `PagesCovered`: a listed product has its detail, or its
  thread still holds it, or the category was torn by a crash;
- `UndisturbedIsConsistent` and `UndisturbedMovesForward`, from `AloneInv`: a
  thread runs exactly while its task waits for it, so `Registered` leaves one per
  category; the versions of pool, thread and provider are in this order; and a
  listed product has the detail of the list or its thread is storing it.

`ChatAgent_proofs` proves, for any number of streams, threads, rounds, call indexes
and calls:

- `PoolWorksForStreams` (`QueueIsAwaited`), from `PoolInv`: what waits in the queue
  waits there once and is queued or cancelled, busy threads run different analyses,
  and a stream's analyses are asked for one after the other, the last of which is
  queued only while the stream waits for it. It needs `Counted`: a stream asks for
  at most one analysis per call;
- `ConversationsAreWhole` (`ConversationWhole`), from `ReportInv` and `WholeInv`: the
  analysis a stream waits for was asked for by the call it executes; and while calls
  are executed, some message asked for them, its first calls are answered after it
  and the others are those still to be done;
- of the report of a company, for all integers as figures and any of them missing:
  `FlagAlwaysMatchesScore` (the score of financial quality and the flag of low cash
  conversion agree at the threshold), `StrongLossIsAlwaysWarnedOf` (no company is
  called strong whose operations bring in no cash, and one with a loss only if its
  cash flow is missing, under a warning that says so) and `MissingIsNeverAMerit` (of a
  company without a flag or a low score, hiding any figures raises no score and makes
  no stance strong). They rest on what rounding to the nearest keeps of the sign of a
  ratio (`RoundedFacts`) and of the order of two sums of scores (`RoundedKeepsOrder`);
- `LikeIsAlwaysComparedWithLike`: for any reports, in any order, the one compared with
  is that of the same quarter of the year before, or else the newest earlier one;
  `PeersAreAlwaysTheLargest`: for any industry and any limit, 0 included, the peers are
  other companies and of any size there are as many among them as there can be;
- `StoriesAlwaysShownOnce` and `RepeatsNeverHeat`: for any search results, a story is
  kept exactly if none that is kept before it shares its title or its address, and
  finding it again changes neither what is kept nor the temperature;
- `ReportsAreAlwaysFair` (`ReportsAreFair`), which puts these together: in every state
  of the agent the functions that make its reports are fair. The arguments about sorted
  lists and loops are those given above for the pipeline.

`ChatClient_proofs` proves, for any number of sessions, questions, sends and loads:

- `InputReopens` (`BusyMeansReplyComing`) and `QuestionStays`
  (`QuestionStaysShown`), from `PageInv`: a question waits for at most one creation
  of a session, no reply brings more pieces than there are, and a calm reply is
  the only one in flight, its question is on the page, and both the state and
  what was rendered last know that a reply is on its way;
- `SettledPage` (`SettledPageIsLog`), from `SyncInv`. "Settled" is about an end
  state, so the invariant has to describe the page at every moment before it: as
  long as the page is tidy and no load is under way, either nothing is and the page
  shows the log, or exactly one reply is under way, and the page is ahead of the
  log or behind it by what that reply is worth in one of four stages: its question is
  yet to be stored; both are under way; stored before the page has it all; or all
  on the page and yet to be stored. In the middle two the events still on the wire
  say how many pieces are to come (`Ends`). An undisturbed answer to a load is the log
  (`LoadInv`), and no id that the page knows is drawn again (`DrawnPage`).
  `SyncInv` was model-checked with the constants of `chat_client` before it was
  proved.

`ClientSession_proofs` proves, for any accounts, resources and bounds, `SessionCorrect`, `RefreshingCorrect` and `ShownOnlyMovesForward` (a
resource's latest request, what it shows and what is stored of it belong
together), and that every assessment is sound for all answers
(`AssessmentAlwaysSound`, `BolderIsBolder`), not only for the scores at the
thresholds that TLC tries.

Assumed: the ASSUMEs of the modules, which TLC evaluates for the constants of
every run, and the library theorems that are cited.

Only model-checked: liveness (`CatchesUp`, `EveryStreamEnds`; fairness and ENABLED
are out of the prover's reach) and the three violations of section 3. Every invariant
and every safety action property of the passing runs is a theorem. No module has a
RECURSIVE operator, so that all of them can be proved about.

## 5. Plan

Done: all modules of section 2. What would add most, in this order:

1. The in-memory store of `chat/store.py` as a second implementation of
   `ChatLog`, with two request threads inside its methods.
2. The adapters of public data: which products of a list become candidates.

## 6. Not modelled, and why

Rendering, translations and demo data hold no state of their own. The HTTP
clients, parsers and adapters of upstreams, model providers and the vector
database appear as what they may return. The path of `agents/provider.py` and the
agents for a provider without `chat_with_tools` is left out: only test doubles
take it. The profile, memory and manager services make texts
for prompts; evidence cards, localised texts and prompts are wording. The
in-memory chat store serves a process without Redis by three dictionaries. The
agent sample capture and the operational scripts other than the refresh script
are run by hand and share nothing with a running service. `PROJECT.json` lists
each of them with its files. SQL, Redis and the event loop are modelled by what the code
relies on: a command is atomic, a callback runs to its next await.
Two calls of the pipeline stand outside its `try` blocks, the recall of memories
(`graph/nodes.py:361`) and the facts for the compliance prompt (`:664`); an exception
there would leave the graph. Those that `runtime.py` wires only compute on values they
are given and do not raise, so the model has no outcome for it.
`ChatClient` models one user: signing out hides the chat panel
(`ChatWidget.tsx:22-28`) but keeps its state, so that the next user of the tab sees the
sessions and messages of the one before until they are loaded again.
