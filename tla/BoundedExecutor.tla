---------------------------- MODULE BoundedExecutor ----------------------------
(***************************************************************************)
(* BoundedExecutor (callback_runtime.cc): a fixed pool of workers behind a   *)
(* bounded queue, with places reserved for cleanup.  Workers and drain()     *)
(* wait on ONE condition variable with different predicates, submissions     *)
(* notify one waiter, and do so after the mutex is released.                 *)
(*                                                                           *)
(* A critical section of the mutex is one action.  A waiter is a thread in   *)
(* "wait"; a notified one is in "check" until it has the mutex again.        *)
(***************************************************************************)
EXTENDS Integers, Sequences, FiniteSets

CONSTANTS Workers,    \* the threads of the pool
          Ordinary,   \* tasks given to submit()
          Cleanup,    \* tasks given to submit_cleanup()
          Spawned,    \* the tasks that a running task submits; other tasks are
                      \* each submitted by a thread outside the pool
          Capacity,   \* capacity_
          Reserve     \* cleanup_reserve_

Tasks == Ordinary \cup Cleanup

NoTask == "none"

ASSUME ExecutorAssumption ==
    /\ Workers # {} /\ IsFiniteSet(Workers)
    /\ Capacity \in Nat \ {0}
    /\ Reserve \in 0..Capacity
    /\ Ordinary \cap Cleanup = {}
    /\ Spawned \subseteq Tasks

VARIABLES queue,           \* queue_
          ordinaryQueued,  \* ordinary_queued_
          active,          \* active_
          accepting,       \* accepting_
          stopping,        \* stopping_
          task,            \* what became of each task
          worker,          \* where each worker is in run()
          running,         \* the task each worker runs
          notifying,       \* outside callers between their push and notify_one
          drainer,         \* where the thread that calls drain() is
          closer           \* where the thread that calls shutdown() is

executorVars == <<queue, ordinaryQueued, active, accepting, stopping, task, worker,
                  running, notifying, drainer, closer>>

ExecutorInit ==
    /\ queue = <<>>
    /\ ordinaryQueued = 0
    /\ active = 0
    /\ accepting = TRUE
    /\ stopping = FALSE
    /\ task = [t \in Tasks |-> "new"]
    /\ worker = [w \in Workers |-> "check"]
    /\ running = [w \in Workers |-> NoTask]
    /\ notifying = {}
    /\ drainer = "idle"
    /\ closer = "open"

-----------------------------------------------------------------------------
(* submit() and submit_cleanup() *)

\* submit_impl, the tests: cleanup is admitted after stop_admission(), and the
\* reserved places are kept from ordinary tasks.
Admits(t) ==
    /\ ~stopping
    /\ t \in Cleanup \/ accepting
    /\ Len(queue) < Capacity
    /\ t \in Cleanup \/ ordinaryQueued < Capacity - Reserve

\* submit_impl, the critical section.
Push(t) ==
    /\ task[t] = "new"
    /\ task' = [task EXCEPT ![t] = IF Admits(t) THEN "queued" ELSE "refused"]
    /\ queue' = IF Admits(t) THEN Append(queue, t) ELSE queue
    /\ ordinaryQueued' = IF Admits(t) /\ t \in Ordinary THEN ordinaryQueued + 1
                                                         ELSE ordinaryQueued

\* notify_one(): some thread of the wait set, worker or drain(), goes on to
\* evaluate its predicate; with nobody waiting nothing happens.  The argument is
\* where the workers are once the caller has gone on.
NotifyOne(workers) ==
    \/ \E w \in Workers :
          /\ workers[w] = "wait"
          /\ worker' = [workers EXCEPT ![w] = "check"]
          /\ UNCHANGED drainer
    \/ /\ drainer = "wait"
       /\ drainer' = "check"
       /\ worker' = workers
    \/ /\ drainer # "wait" /\ \A w \in Workers : workers[w] # "wait"
       /\ worker' = workers
       /\ UNCHANGED drainer

\* A thread outside the pool submits.  An executor is drained only when the
\* transport has gone silent and every call of submit() has returned; shutdown()
\* without drain(), as on filesystem_, may find callers at any point.
Submit(t) ==
    /\ t \notin Spawned
    /\ drainer = "idle"
    /\ Push(t)
    /\ notifying' = IF Admits(t) THEN notifying \cup {t} ELSE notifying
    /\ UNCHANGED <<active, accepting, stopping, worker, running, drainer, closer>>

SubmitNotify(t) ==
    /\ t \in notifying
    /\ notifying' = notifying \ {t}
    /\ NotifyOne(worker)
    /\ UNCHANGED <<queue, ordinaryQueued, active, accepting, stopping, task, running,
                   closer>>

\* A running task submits to its own executor.
Spawn(w, t) ==
    /\ t \in Spawned
    /\ worker[w] = "run"
    /\ Push(t)
    /\ worker' = [worker EXCEPT ![w] = IF Admits(t) THEN "notify" ELSE "run"]
    /\ UNCHANGED <<active, accepting, stopping, running, notifying, drainer, closer>>

SpawnNotify(w) ==
    /\ worker[w] = "notify"
    /\ NotifyOne([worker EXCEPT ![w] = "run"])
    /\ UNCHANGED <<queue, ordinaryQueued, active, accepting, stopping, task, running,
                   notifying, closer>>

-----------------------------------------------------------------------------
(* run() *)

\* The wait predicate is false: the worker joins the wait set.
Sleep(w) ==
    /\ worker[w] = "check"
    /\ queue = <<>> /\ ~stopping
    /\ worker' = [worker EXCEPT ![w] = "wait"]
    /\ UNCHANGED <<queue, ordinaryQueued, active, accepting, stopping, task, running,
                   notifying, drainer, closer>>

Leave(w) ==
    /\ worker[w] = "check"
    /\ queue = <<>> /\ stopping
    /\ worker' = [worker EXCEPT ![w] = "exit"]
    /\ UNCHANGED <<queue, ordinaryQueued, active, accepting, stopping, task, running,
                   notifying, drainer, closer>>

\* Mutant: cleanup is taken out of the ordinary count too.
OrdinaryAfterEvery(t) == ordinaryQueued - 1

OrdinaryAfter(t) == IF t \in Ordinary THEN ordinaryQueued - 1 ELSE ordinaryQueued

Take(w) ==
    /\ worker[w] = "check"
    /\ queue # <<>>
    /\ worker' = [worker EXCEPT ![w] = "run"]
    /\ running' = [running EXCEPT ![w] = Head(queue)]
    /\ task' = [task EXCEPT ![Head(queue)] = "running"]
    /\ queue' = Tail(queue)
    /\ ordinaryQueued' = OrdinaryAfter(Head(queue))
    /\ active' = active + 1
    /\ UNCHANGED <<accepting, stopping, notifying, drainer, closer>>

\* The task returned or threw: the worker leaves active_, and wakes every waiter
\* when the pool has gone idle or is stopping.
Finish(w) ==
    /\ worker[w] = "run"
    /\ active' = active - 1
    /\ task' = [task EXCEPT ![running[w]] = "done"]
    /\ running' = [running EXCEPT ![w] = NoTask]
    /\ LET all == queue = <<>> /\ (active' = 0 \/ stopping) IN
       /\ worker' = [v \in Workers |->
             IF v = w \/ (all /\ worker[v] = "wait") THEN "check" ELSE worker[v]]
       /\ drainer' = IF all /\ drainer = "wait" THEN "check" ELSE drainer
    /\ UNCHANGED <<queue, ordinaryQueued, accepting, stopping, notifying, closer>>

-----------------------------------------------------------------------------
(* stop_admission(), drain() and shutdown() *)

StopAdmission ==
    /\ accepting
    /\ accepting' = FALSE
    /\ UNCHANGED <<queue, ordinaryQueued, active, stopping, task, worker, running,
                   notifying, drainer, closer>>

\* Mutant: drain() is called while a submission has yet to notify.
DrainAtAnyTime ==
    /\ drainer = "idle" /\ closer = "open" /\ ~accepting
    /\ drainer' = "check"
    /\ UNCHANGED <<queue, ordinaryQueued, active, accepting, stopping, task, worker,
                   running, notifying, closer>>

\* finalize() drains when the signal thread has stopped admission and ended the
\* transport, so no caller is left between its push and its notification.
Drain ==
    /\ drainer = "idle" /\ closer = "open" /\ ~accepting
    /\ notifying = {}
    /\ drainer' = "check"
    /\ UNCHANGED <<queue, ordinaryQueued, active, accepting, stopping, task, worker,
                   running, notifying, closer>>

Drained ==
    /\ drainer = "check"
    /\ drainer' = IF queue = <<>> /\ active = 0 THEN "returned" ELSE "wait"
    /\ UNCHANGED <<queue, ordinaryQueued, active, accepting, stopping, task, worker,
                   running, notifying, closer>>

\* shutdown(), the critical section, after drain() or from the destructor; every
\* caller passes drain = true, so queued tasks are kept.
Shutdown ==
    /\ closer = "open" /\ drainer \in {"idle", "returned"}
    /\ accepting' = FALSE
    /\ stopping' = TRUE
    /\ closer' = "notify"
    /\ UNCHANGED <<queue, ordinaryQueued, active, task, worker, running, notifying,
                   drainer>>

\* Mutant: shutdown() wakes one worker only.
ShutdownNotifyOne ==
    /\ closer = "notify"
    /\ closer' = "join"
    /\ NotifyOne(worker)
    /\ UNCHANGED <<queue, ordinaryQueued, active, accepting, stopping, task, running,
                   notifying>>

ShutdownNotify ==
    /\ closer = "notify"
    /\ closer' = "join"
    /\ worker' = [w \in Workers |-> IF worker[w] = "wait" THEN "check" ELSE worker[w]]
    /\ UNCHANGED <<queue, ordinaryQueued, active, accepting, stopping, task, running,
                   notifying, drainer>>

Join ==
    /\ closer = "join"
    /\ \A w \in Workers : worker[w] = "exit"
    /\ closer' = "closed"
    /\ UNCHANGED <<queue, ordinaryQueued, active, accepting, stopping, task, worker,
                   running, notifying, drainer>>

WorkerStep(w) ==
    \/ Sleep(w) \/ Leave(w) \/ Take(w) \/ Finish(w) \/ SpawnNotify(w)
    \/ \E t \in Tasks : Spawn(w, t)

ExecutorNext ==
    \/ \E t \in Tasks : Submit(t) \/ SubmitNotify(t)
    \/ \E w \in Workers : WorkerStep(w)
    \/ StopAdmission \/ Drain \/ Drained \/ Shutdown \/ ShutdownNotify \/ Join

\* Threads that hold or want the mutex run, tasks end, and a submission that has
\* pushed goes on to notify.  Nobody is obliged to submit, drain or shut down.
ExecutorFairness ==
    /\ \A t \in Tasks : WF_executorVars(SubmitNotify(t))
    /\ \A w \in Workers :
          WF_executorVars(Sleep(w) \/ Leave(w) \/ Take(w) \/ Finish(w) \/ SpawnNotify(w))
    /\ WF_executorVars(Drained)
    /\ WF_executorVars(ShutdownNotify \/ Join)

ExecutorSpec == ExecutorInit /\ [][ExecutorNext]_executorVars /\ ExecutorFairness

-----------------------------------------------------------------------------
(* Properties *)

\* Where the tasks of S stand in a queue.
Places(q, S) == {i \in 1..Len(q) : q[i] \in S}

Busy == {w \in Workers : worker[w] \in {"run", "notify"}}

\* Every variable has its type.
ExecutorTypeOK ==
    /\ queue \in Seq(Tasks)
    /\ ordinaryQueued \in Nat
    /\ active \in Nat
    /\ accepting \in BOOLEAN
    /\ stopping \in BOOLEAN
    /\ task \in [Tasks -> {"new", "refused", "queued", "running", "done"}]
    /\ worker \in [Workers -> {"check", "wait", "run", "notify", "exit"}]
    /\ running \in [Workers -> Tasks \cup {NoTask}]
    /\ notifying \subseteq Tasks
    /\ drainer \in {"idle", "check", "wait", "returned"}
    /\ closer \in {"open", "notify", "join", "closed"}

\* "Reserved submissions ... cannot be starved by ordinary RPC work": while fewer
\* cleanup tasks are queued than places are reserved, the queue has room for one.
CleanupHasRoom ==
    /\ Len(queue) <= Capacity
    /\ Cardinality(Places(queue, Cleanup)) < Reserve => Len(queue) < Capacity

\* No wakeup is lost to a waiter with another predicate: while tasks are queued
\* some worker is awake, or a submission is about to wake one.
NoLostWakeup ==
    queue # <<>> => \/ \E w \in Workers : worker[w] \notin {"wait", "exit"}
                    \/ notifying # {}

\* When drain() has returned, no task is queued or running, so the services that
\* tasks refer to can be destroyed.
DrainedIsQuiet ==
    drainer = "returned" => \A t \in Tasks : task[t] \notin {"queued", "running"}

\* When shutdown() has returned, every admitted task has run.
ClosedIsDone ==
    closer = "closed" => \A t \in Tasks : task[t] \in {"new", "refused", "done"}

\* ordinary_queued_ is exact and leaves the reserve free.
QueueCounted ==
    /\ ordinaryQueued = Cardinality(Places(queue, Ordinary))
    /\ ordinaryQueued <= Capacity - Reserve
    /\ Len(queue) <= Capacity

\* active_ is exact.
ActiveExact == active = Cardinality(Busy)

\* A queued task is in the queue and a running one is on a worker.
Located ==
    /\ \A t \in Tasks : task[t] = "queued" => \E i \in 1..Len(queue) : queue[i] = t
    /\ \A t \in Tasks : task[t] = "running" => \E w \in Busy : running[w] = t

\* Nobody submits from outside once drain() has begun, and a worker leaves only
\* when nothing can be queued any more.
Staged ==
    /\ drainer = "returned" => queue = <<>> /\ Busy = {}
    /\ notifying # {} => drainer = "idle"
    /\ closer # "open" <=> stopping
    /\ \A w \in Workers : worker[w] = "exit" => queue = <<>> /\ stopping
    /\ closer = "closed" => \A w \in Workers : worker[w] = "exit"

\* The inductive invariant: the counters that admission and drain() test say what
\* they are taken to say, and shutting down happens in stages.
ExecutorInvariant ==
    ExecutorTypeOK /\ QueueCounted /\ ActiveExact /\ Located /\ Staged /\ NoLostWakeup

\* Every admitted task is run in the end.
AdmittedTaskRuns == \A t \in Tasks : task[t] = "queued" ~> task[t] = "done"

\* shutdown() joins every worker.
ShutdownReturns == closer = "notify" ~> closer = "closed"
===============================================================================
