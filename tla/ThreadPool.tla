----------------------------- MODULE ThreadPool -----------------------------
(***************************************************************************)
(* The session thread pool of switch_core_session.c: launchers queue jobs  *)
(* (sessions) and wake the manager, the manager makes workers when it      *)
(* counts fewer idle ones than queued jobs, workers pop and run jobs, and  *)
(* leave when the manager interrupts them and no job is queued.            *)
(*                                                                         *)
(* The manager holds cond_mutex except while it waits (mpc = "wait"), and  *)
(* cond2_mutex from "to_wait" until it is awake.  Counters change under    *)
(* session_manager.mutex, in one step each.                                *)
(***************************************************************************)
EXTENDS Integers, FiniteSets, Sequences

CONSTANTS
    Jobs,           \* what is launched: sessions
    Workers         \* worker threads; bound: how many there are at a time

None == "none"      \* no job

ASSUME PoolAssumption == IsFiniteSet(Jobs) /\ IsFiniteSet(Workers) /\ None \notin Jobs

VARIABLES
    ready,          \* session_manager.ready
    queue,          \* thread_queue
    starting, running, popping, busy,   \* the manager's counts
    mpc,            \* where the manager is
    late,           \* is it later than the manager's next?
    need,           \* ttl - x in check_queue: workers still to be made
    lpc,            \* where the launch of each job is
    wpc,            \* where each worker is
    check,          \* its local variable check
    pop,            \* its local variable pop: the job, or none
    jpc,            \* history: new, queued, running or done
    failures,       \* history: how often switch_thread_create has failed
    upc             \* where switch_core_session_uninit is

counts == <<starting, running, popping, busy>>
manager == <<mpc, late, need>>
worker == <<wpc, check, pop>>
vars == <<ready, queue, counts, manager, lpc, worker, jpc, upc, failures>>

Init ==
    /\ ready = TRUE
    /\ queue = <<>>
    /\ starting = 0 /\ running = 0 /\ popping = 0 /\ busy = 0
    /\ mpc = "top" /\ late = FALSE /\ need = 0
    /\ lpc = [j \in Jobs |-> "new"]
    /\ wpc = [w \in Workers |-> "none"]
    /\ check = [w \in Workers |-> FALSE]
    /\ pop = [w \in Workers |-> None]
    /\ jpc = [j \in Jobs |-> "new"]
    /\ upc = "up"
    /\ failures = 0

-----------------------------------------------------------------------------
(* The queue: switch_queue_push wakes one thread that waits in             *)
(* switch_queue_pop, switch_queue_interrupt_all wakes all.  A thread that  *)
(* is woken and finds the queue empty gives up (APR_EINTR).                *)

Waiting == {w \in Workers : wpc[w] = "wait"}

SignalOne ==
    IF Waiting = {} THEN UNCHANGED wpc
    ELSE \E w \in Waiting : wpc' = [wpc EXCEPT ![w] = "woken"]

InterruptAll == wpc' = [w \in Workers |-> IF w \in Waiting THEN "woken" ELSE wpc[w]]

-----------------------------------------------------------------------------
(* thread_pool_launch: queue the job, then wake_queue. *)

Launch(j) ==
    /\ ready /\ lpc[j] = "new"
    /\ queue' = Append(queue, j)
    /\ SignalOne
    /\ lpc' = [lpc EXCEPT ![j] = "wake"]
    /\ jpc' = [jpc EXCEPT ![j] = "queued"]
    /\ UNCHANGED <<failures, ready, counts, manager, check, pop, upc>>

\* The manager waits: it is signalled.
Signalled ==
    /\ mpc = "wait"
    /\ mpc' = "woken"
    /\ late' \in BOOLEAN
    /\ UNCHANGED need

\* cond_mutex is taken, and with cond2_mutex free nothing is done; with both
\* taken the tries may run out.  Or the manager is past its loop.
WakeManager == Signalled \/ (mpc # "wait" /\ UNCHANGED manager)

LaunchWake(j) ==
    /\ lpc[j] = "wake"
    /\ WakeManager
    /\ lpc' = [lpc EXCEPT ![j] = "done"]
    /\ UNCHANGED <<failures, ready, queue, counts, worker, jpc, upc>>

-----------------------------------------------------------------------------
(* switch_core_session_thread_pool_manager and check_queue. *)

ManagerTop ==
    /\ mpc = "top"
    /\ mpc' = IF ready THEN "to_wait" ELSE "drain"
    /\ UNCHANGED <<failures, ready, queue, counts, late, need, lpc, worker, jpc, upc>>

ManagerWait ==
    /\ mpc = "to_wait"
    /\ mpc' = "wait"
    /\ UNCHANGED <<failures, ready, queue, counts, late, need, lpc, worker, jpc, upc>>

\* Mutant: the manager waits until it is signalled.
ManagerWaits ==
    /\ FALSE
    /\ UNCHANGED vars

\* switch_thread_cond_timedwait runs out: it is later than next.
ManagerTimeout ==
    /\ mpc = "wait"
    /\ mpc' = "woken"
    /\ late' = TRUE
    /\ UNCHANGED <<failures, ready, queue, counts, need, lpc, worker, jpc, upc>>

\* Idle workers are told to leave; the queue is not looked at this time.
ManagerInterrupt ==
    /\ mpc = "woken" /\ late /\ popping > 0
    /\ InterruptAll
    /\ mpc' = "top"
    /\ late' = FALSE
    /\ UNCHANGED <<failures, ready, queue, counts, need, lpc, check, pop, jpc, upc>>

ManagerCheck ==
    /\ mpc = "woken" /\ ~(late /\ popping > 0)
    /\ LET x == running + starting - busy IN
       need' = IF x < Len(queue) THEN Len(queue) - x ELSE 0
    /\ mpc' = "create"
    /\ late' = FALSE
    /\ UNCHANGED <<failures, ready, queue, counts, lpc, worker, jpc, upc>>

\* A failure also lowers the session limit (LaunchFails of SessionTable).
ManagerCreate ==
    /\ mpc = "create" /\ need > 0
    /\ \/ \E w \in Workers :
            /\ wpc[w] = "none"
            /\ wpc' = [wpc EXCEPT ![w] = "born"]
            /\ UNCHANGED failures
       \/ failures' = failures + 1 /\ UNCHANGED wpc
    /\ mpc' = "count"
    /\ UNCHANGED <<ready, queue, counts, late, need, lpc, check, pop, jpc, upc>>

\* The worker is counted, whether or not it could be made.
ManagerCount ==
    /\ mpc = "count"
    /\ starting' = starting + 1
    /\ need' = need - 1
    /\ mpc' = "create"
    /\ UNCHANGED <<failures, ready, queue, running, popping, busy, late, lpc, worker, jpc, upc>>

ManagerChecked ==
    /\ mpc = "create" /\ need = 0
    /\ mpc' = "top"
    /\ UNCHANGED <<failures, ready, queue, counts, late, need, lpc, worker, jpc, upc>>

\* Mutant: the manager waits for the workers and does not interrupt them.
ManagerDrainQuietly ==
    /\ mpc = "drain"
    /\ mpc' = IF running > 0 THEN "drain" ELSE "ended"
    /\ UNCHANGED <<failures, ready, queue, counts, late, need, lpc, worker, jpc, upc>>

ManagerDrain ==
    /\ mpc = "drain"
    /\ IF running > 0 THEN InterruptAll /\ UNCHANGED mpc
       ELSE mpc' = "ended" /\ UNCHANGED wpc
    /\ UNCHANGED <<failures, ready, queue, counts, late, need, lpc, check, pop, jpc, upc>>

-----------------------------------------------------------------------------
(* switch_core_session_thread_pool_worker. *)

At(w, from, to) == wpc[w] = from /\ wpc' = [wpc EXCEPT ![w] = to]

WorkerStart(w) ==
    /\ At(w, "born", "top")
    /\ starting' = starting - 1
    /\ running' = running + 1
    /\ UNCHANGED <<failures, ready, queue, popping, busy, manager, lpc, check, pop, jpc, upc>>

WorkerTop(w) ==
    /\ At(w, "top", IF ~ready THEN "end" ELSE IF check[w] THEN "try" ELSE "pop")
    /\ popping' = IF ready /\ ~check[w] THEN popping + 1 ELSE popping
    /\ UNCHANGED <<failures, ready, queue, starting, running, busy, manager, lpc, check, pop, jpc, upc>>

\* Mutant: the job stays in the queue.
TakeCopy(w) ==
    /\ pop' = [pop EXCEPT ![w] = Head(queue)]
    /\ UNCHANGED queue

\* The job at the head of the queue is taken.
Take(w) ==
    /\ pop' = [pop EXCEPT ![w] = Head(queue)]
    /\ queue' = Tail(queue)

\* trypop: a job, or the worker leaves.
WorkerTry(w) ==
    /\ At(w, "try", IF queue = <<>> THEN "end" ELSE "got")
    /\ IF queue = <<>> THEN UNCHANGED <<pop, queue>> ELSE Take(w)
    /\ UNCHANGED <<failures, ready, counts, manager, lpc, check, jpc, upc>>

\* pop: a job, or the worker waits.
WorkerPop(w) ==
    /\ At(w, "pop", IF queue = <<>> THEN "wait" ELSE "unpop")
    /\ IF queue = <<>> THEN UNCHANGED <<pop, queue>> ELSE Take(w)
    /\ UNCHANGED <<failures, ready, counts, manager, lpc, check, jpc, upc>>

\* Woken in pop: a job if there still is one, otherwise APR_EINTR.
WorkerWoken(w) ==
    /\ At(w, "woken", "unpop")
    /\ IF queue = <<>> THEN UNCHANGED <<pop, queue>> ELSE Take(w)
    /\ UNCHANGED <<failures, ready, counts, manager, lpc, check, jpc, upc>>

WorkerSpurious(w) ==
    /\ At(w, "wait", "woken")
    /\ UNCHANGED <<failures, ready, queue, counts, manager, lpc, check, pop, jpc, upc>>

WorkerUnpop(w) ==
    /\ At(w, "unpop", IF pop[w] = None THEN "top" ELSE "got")
    /\ popping' = popping - 1
    /\ check' = [check EXCEPT ![w] = pop[w] = None]
    /\ UNCHANGED <<failures, ready, queue, starting, running, busy, manager, lpc, pop, jpc, upc>>

\* The worker is busy, and runs td->func.
WorkerRun(w) ==
    /\ At(w, "got", "run")
    /\ busy' = busy + 1
    /\ jpc' = [jpc EXCEPT ![pop[w]] = "running"]
    /\ UNCHANGED <<failures, ready, queue, starting, running, popping, manager, lpc, check, pop, upc>>

WorkerDone(w) ==
    /\ At(w, "run", "top")
    /\ busy' = busy - 1
    /\ jpc' = [jpc EXCEPT ![pop[w]] = "done"]
    /\ pop' = [pop EXCEPT ![w] = None]
    /\ UNCHANGED <<failures, ready, queue, starting, running, popping, manager, lpc, check, upc>>

WorkerEnd(w) ==
    /\ At(w, "end", "none")
    /\ running' = running - 1
    /\ check' = [check EXCEPT ![w] = FALSE]
    /\ UNCHANGED <<failures, ready, queue, starting, popping, busy, manager, lpc, pop, jpc, upc>>

-----------------------------------------------------------------------------
(* switch_core_session_uninit. *)

Uninit ==
    /\ upc = "up"
    /\ ready' = FALSE
    /\ upc' = "wake"
    /\ UNCHANGED <<failures, queue, counts, manager, lpc, worker, jpc>>

UninitWake ==
    /\ upc = "wake"
    /\ WakeManager
    /\ upc' = "loop"
    /\ UNCHANGED <<failures, ready, queue, counts, lpc, worker, jpc>>

UninitLoop ==
    /\ upc = "loop" /\ running > 0
    /\ InterruptAll
    /\ UNCHANGED <<failures, ready, queue, counts, manager, lpc, check, pop, jpc, upc>>

\* No worker is running, or sanity has run out.
UninitJoin ==
    /\ upc = "loop"
    /\ upc' = "join"
    /\ UNCHANGED <<failures, ready, queue, counts, manager, lpc, worker, jpc>>

UninitEnd ==
    /\ upc = "join" /\ mpc = "ended"
    /\ upc' = "down"
    /\ UNCHANGED <<failures, ready, queue, counts, manager, lpc, worker, jpc>>

-----------------------------------------------------------------------------

Manager ==
    \/ ManagerTop \/ ManagerWait \/ ManagerTimeout \/ ManagerInterrupt
    \/ ManagerCheck \/ ManagerCreate \/ ManagerCount \/ ManagerChecked \/ ManagerDrain

Work(w) ==
    \/ WorkerStart(w) \/ WorkerTop(w) \/ WorkerTry(w) \/ WorkerPop(w) \/ WorkerWoken(w)
    \/ WorkerUnpop(w) \/ WorkerRun(w) \/ WorkerEnd(w)

Stop == UninitWake \/ UninitLoop \/ UninitJoin \/ UninitEnd

Next ==
    \/ \E j \in Jobs : Launch(j) \/ LaunchWake(j)
    \/ Manager
    \/ \E w \in Workers : Work(w) \/ WorkerDone(w) \/ WorkerSpurious(w)
    \/ Uninit \/ Stop

Spec == Init /\ [][Next]_vars

\* Threads go on; what a job's function does may take for ever.
Fairness ==
    /\ WF_vars(Manager)
    /\ \A j \in Jobs : WF_vars(LaunchWake(j))
    /\ \A w \in Workers : WF_vars(Work(w))
    /\ WF_vars(UninitWake) /\ WF_vars(UninitJoin) /\ WF_vars(UninitEnd)

FairSpec == Spec /\ Fairness

-----------------------------------------------------------------------------
(* Properties *)

Count(states) == Cardinality({w \in Workers : wpc[w] \in states})
Alive == {"top", "try", "pop", "wait", "woken", "unpop", "got", "run", "end"}

\* The types, and that the counters of session_manager stay within the number
\* of threads and jobs (starting is below zero while a new worker is counted
\* as running before the manager has counted it as starting).
TypeOK ==
    /\ ready \in BOOLEAN
    /\ queue \in Seq(Jobs) /\ Len(queue) <= Cardinality(Jobs)
    /\ starting \in -1 .. Cardinality(Jobs)
    /\ {running, popping, busy} \subseteq 0 .. Cardinality(Workers)
    /\ mpc \in {"top", "to_wait", "wait", "woken", "create", "count", "drain", "ended"}
    /\ late \in BOOLEAN /\ need \in 0 .. Cardinality(Jobs)
    /\ lpc \in [Jobs -> {"new", "wake", "done"}]
    /\ wpc \in [Workers -> Alive \cup {"none", "born"}]
    /\ check \in [Workers -> BOOLEAN] /\ pop \in [Workers -> Jobs \cup {None}]
    /\ jpc \in [Jobs -> {"new", "queued", "running", "done"}]
    /\ upc \in {"up", "wake", "loop", "join", "down"} /\ failures \in 0 .. Cardinality(Jobs)

\* A job is in the queue, or with one worker, until it is done: pop, trypop
\* and the interruption of a pop lose no job and give none to two workers.
JobIsSomewhere ==
    \A j \in Jobs :
        Cardinality({i \in DOMAIN queue : queue[i] = j}) + Cardinality({w \in Workers : pop[w] = j})
            = IF jpc[j] \in {"queued", "running"} THEN 1 ELSE 0

\* A session that was launched is run, however long the others go on, whatever
\* wake-ups wake_queue loses: the manager's timed wait makes up for them.  It
\* does not make up for a thread that could not be made.
LaunchedIsRun ==
    \A j \in Jobs : jpc[j] = "queued" ~> jpc[j] # "queued" \/ ~ready \/ failures > 0

\* switch_core_session_uninit returns, and the workers end, if the jobs that
\* run do: at the end of the process the sessions have been hung up.
StopEnds ==
    (\A w \in Workers : []<>(wpc[w] # "run"))
        => (upc = "wake" ~> upc = "down" /\ Count({"none"}) = Cardinality(Workers))
=============================================================================
