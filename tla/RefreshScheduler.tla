-------------------------- MODULE RefreshScheduler --------------------------
(***************************************************************************)
(* The refresh scheduler of candidate_pool/scheduler.py on the event loop  *)
(* of the API process: a ticker per category, at most one refresh task per *)
(* category, each waiting for a daemon thread that runs the refresher of   *)
(* CandidateRefresh.  Stopping cancels the tasks but not the threads.      *)
(* The loop runs one callback at a time, so an action is what a task does  *)
(* from one await to the next.                                             *)
(***************************************************************************)
EXTENDS CandidateRefresh

CONSTANTS
  Enabled,      \* settings.enabled
  RunOnStartup, \* settings.run_on_startup
  MaxRestarts   \* bound on how often the process stops or dies

ASSUME SchedulerAssumption ==
  /\ Enabled \in BOOLEAN /\ RunOnStartup \in BOOLEAN /\ MaxRestarts \in Nat
  /\ "none" \notin Workers

VARIABLES
  started,   \* _started
  ticker,    \* category -> "none", "due" (about to trigger) or "asleep"
  inflight,  \* category -> the worker slot of _inflight_tasks, or "none"
  task,      \* worker slot -> state of its _execute_refresh task
  restarts,  \* stops and crashes so far (bound)
  alone      \* ghost: the scheduler was never stopped, and nobody else refreshed

loopVars == <<started, ticker, inflight, task, restarts, alone>>
vars == <<refreshVars, loopVars>>

TaskStates == {"none", "created", "waiting", "settled", "cancelled"}

Init ==
  /\ RefreshInit
  /\ started = FALSE
  /\ ticker = [c \in Categories |-> "none"]
  /\ inflight = [c \in Categories |-> "none"]
  /\ task = [w \in Workers |-> "none"]
  /\ restarts = 0
  /\ alone = TRUE

\* start(); the lifespan calls it once stop() has returned.
Start ==
  /\ ~started
  /\ \A w \in Workers : task[w] # "cancelled"
  /\ started' = TRUE
  /\ ticker' = IF Enabled
               THEN [c \in Categories |-> IF RunOnStartup THEN "due" ELSE "asleep"]
               ELSE ticker
  /\ UNCHANGED <<refreshVars, inflight, task, restarts, alone>>

\* stop(), up to its gather: both tables are emptied and every task cancelled.
\* A task that has not run yet never will; the others still run their finally.
Stop ==
  /\ started
  /\ restarts < MaxRestarts
  /\ started' = FALSE
  /\ ticker' = [c \in Categories |-> "none"]
  /\ inflight' = [c \in Categories |-> "none"]
  /\ task' = [w \in Workers |-> IF task[w] \in {"waiting", "settled"} THEN "cancelled"
                                ELSE IF task[w] = "created" THEN "none" ELSE task[w]]
  /\ restarts' = restarts + 1
  /\ alone' = FALSE
  /\ UNCHANGED refreshVars

\* Mutant of Trigger: a running refresh does not hold back the next one.
TriggerAlways(c) ==
  /\ ticker[c] # "none"
  /\ ticker' = [ticker EXCEPT ![c] = "asleep"]
  /\ \E w \in Workers :
       /\ work[w].step = "idle" /\ task[w] = "none"
       /\ task' = [task EXCEPT ![w] = "created"]
       /\ inflight' = [inflight EXCEPT ![c] = w]
       /\ work' = [work EXCEPT ![w] = Unused(c)]
  /\ UNCHANGED <<source, pool, detail, torn, started, restarts, alone>>

\* The startup trigger of _run_schedule_loop, or the one after its sleep, with
\* _trigger_refresh: a category whose task is unfinished is skipped.
Trigger(c) ==
  /\ ticker[c] # "none"
  /\ ticker' = [ticker EXCEPT ![c] = "asleep"]
  /\ IF inflight[c] # "none"
     THEN UNCHANGED <<task, inflight, work>>
     ELSE \E w \in Workers :
            /\ work[w].step = "idle" /\ task[w] = "none"
            /\ task' = [task EXCEPT ![w] = "created"]
            /\ inflight' = [inflight EXCEPT ![c] = w]
            /\ work' = [work EXCEPT ![w] = Unused(c)]
  /\ UNCHANGED <<source, pool, detail, torn, started, restarts, alone>>

\* The task runs up to its await: the daemon thread is started.
Run(w) ==
  /\ task[w] = "created"
  /\ task' = [task EXCEPT ![w] = "waiting"]
  /\ Begin(w, work[w].cat, "scheduler")
  /\ UNCHANGED <<source, pool, detail, torn, started, ticker, inflight, restarts, alone>>

\* Mutant of Settle: only a result settles the future, an exception or error does not.
SettleOnSuccess(w) ==
  task' = IF Returning(w) /\ task[w] = "waiting" /\ work[w].step # "fetch"
          THEN [task EXCEPT ![w] = "settled"] ELSE task

\* A worker of the scheduler returns: call_soon_threadsafe settles the future
\* its task waits for, unless that was cancelled.
Settle(w) ==
  task' = IF Returning(w) /\ task[w] = "waiting"
          THEN [task EXCEPT ![w] = "settled"] ELSE task

ThreadStep(w) ==
  /\ WorkerStep(w)
  /\ Settle(w)
  /\ UNCHANGED <<started, ticker, inflight, restarts, alone>>

\* Mutant of Resume: the finished task stays registered.
ResumeKeeps(w) ==
  /\ task[w] \in {"settled", "cancelled"}
  /\ task' = [task EXCEPT ![w] = "none"]
  /\ UNCHANGED <<refreshVars, started, ticker, inflight, restarts, alone>>

\* The task runs to its end, by result or CancelledError: the finally clause
\* takes it out of _inflight_tasks if it is the one registered.
Resume(w) ==
  /\ task[w] \in {"settled", "cancelled"}
  /\ task' = [task EXCEPT ![w] = "none"]
  /\ inflight' = [c \in Categories |-> IF inflight[c] = w THEN "none" ELSE inflight[c]]
  /\ UNCHANGED <<refreshVars, started, ticker, restarts, alone>>

\* The process dies; the next one starts from what is stored.
Crash ==
  /\ restarts < MaxRestarts
  /\ restarts' = restarts + 1
  /\ alone' = FALSE
  /\ Die
  /\ started' = FALSE
  /\ ticker' = [c \in Categories |-> "none"]
  /\ inflight' = [c \in Categories |-> "none"]
  /\ task' = [w \in Workers |-> "none"]

\* Refreshes that are not the scheduler's, and what changes around it.
Other ==
  /\ \/ /\ \E w \in Workers : /\ task[w] = "none"
                            /\ \/ \E p \in Products : started /\ View(w, p)
                               \/ \E c \in Categories : Script(w, c)
        /\ alone' = FALSE
     \/ /\ \/ \E p \in Products : Expire(p)
           \/ \E c \in Categories : Publish(c)
        /\ UNCHANGED alone
  /\ UNCHANGED <<started, ticker, inflight, task, restarts>>

Next ==
  \/ Start \/ Stop \/ Crash \/ Other
  \/ \E c \in Categories : Trigger(c)
  \/ \E w \in Workers : Run(w) \/ ThreadStep(w) \/ Resume(w)

Spec == Init /\ [][Next]_vars

\* The loop runs what is ready, a sleep ends, a thread is scheduled and its
\* provider returns, and not always with an error.  The process is started.
Fairness ==
  /\ WF_vars(Start)
  /\ \A c \in Categories : WF_vars(Trigger(c))
  /\ \A w \in Workers : WF_vars(Run(w)) /\ WF_vars(ThreadStep(w)) /\ WF_vars(Resume(w))
  /\ \A w \in Workers : SF_vars(FetchOk(w) /\ ThreadStep(w))

FairSpec == Spec /\ Fairness

-----------------------------------------------------------------------------
(***************************************************************************)
(* Properties.                                                             *)
(***************************************************************************)

\* The tables and the workers have the shape the code gives them.
TypeOK ==
  /\ RefreshTypeOK
  /\ started \in BOOLEAN
  /\ ticker \in [Categories -> {"none", "due", "asleep"}]
  /\ inflight \in [Categories -> Workers \union {"none"}]
  /\ task \in [Workers -> TaskStates]
  /\ restarts \in 0..MaxRestarts
  /\ alone \in BOOLEAN

Unfinished(c) == {w \in Workers : task[w] \in {"created", "waiting", "settled"}
                                  /\ work[w].cat = c}

\* The table of running refreshes is exact: each category has at most one
\* unfinished task and it is the registered one, through cancellation, crash and
\* restart; a stopped scheduler has none.  A missing entry would let two run, a
\* leftover one would stop the category from ever being refreshed again.
InflightExact ==
  /\ TypeOK
  /\ \A c \in Categories :
       /\ Unfinished(c) = {inflight[c]} \ {"none"}
       /\ ~started => inflight[c] = "none" /\ ticker[c] = "none"

\* As long as the scheduler was not stopped and nobody else has refreshed,
\* a category has one refresh thread at a time, its pool never goes back to an
\* older list, and whenever no thread runs every listed product has the detail
\* of that very list.
AloneConsistent ==
  alone => \A c \in Categories :
    /\ Cardinality({w \in Workers : work[w].step # "idle" /\ work[w].cat = c}) <= 1
    /\ (\A w \in Workers : work[w].cat = c => work[w].step = "idle") /\ pool[c] # 0 =>
         \A p \in Lists[c][pool[c]] : detail[p].ver = pool[c]
AloneMovesForward ==
  [][alone => \A c \in Categories : pool'[c] >= pool[c]]_pool

\* A product that recommendations offer has a detail page, or the thread that
\* listed it is about to store it, or the process died in between: whichever of
\* the concurrent refreshes wins, no page of an offered product is missing.
OfferedHasPage ==
  \A c \in Categories : \A p \in Offered(c) :
    \/ Shown(p) # "not_found"
    \/ c \in torn
    \/ \E w \in Workers : /\ work[w].step = "details" /\ work[w].cat = c
                          /\ work[w].ver = pool[c] /\ p \in work[w].left

\* Nothing stored is ever taken away: a failed refresh, an empty list, a
\* cancellation or a crash leaves the previous pool and the details in place.
NothingStoredIsLost ==
  [][/\ \A c \in Categories : pool[c] # 0 => pool'[c] # 0 /\ Lists[c][pool'[c]] # {}
     /\ \A p \in Products : detail[p].ver # 0 => detail'[p].ver # 0]_<<pool, detail>>

\* A refresh that a crash cut short is made good, and the pool catches up with
\* its provider and stays there, whatever was refreshed concurrently.
CatchesUp ==
  Enabled => \A c \in Categories :
    <>[](Lists[c][source[c]] # {}) => <>[](pool[c] = source[c] /\ c \notin torn)
=============================================================================
