------------------------------ MODULE ThreadPool ------------------------------
(***************************************************************************)
(* util::ThreadPool: a queue of tasks and the workers that run them, with  *)
(* callers of Enqueue and of Shutdown on any other threads.                *)
(*                                                                         *)
(* Every access to tasks_ and every write of shutdown_requested_ is under  *)
(* queue_mutex_, so a section that holds the lock is one step.  Notifying  *)
(* condition_ comes after the lock is released, as a step of its own.      *)
(* stop_ is never set.                                                     *)
(***************************************************************************)
EXTENDS Integers, SequencesExt

CONSTANTS
    Worker,     \* the worker threads
    Task,       \* the tasks, each enqueued by a thread of its own
    Closer      \* the threads that call Shutdown, the destructor's included

ASSUME ThreadPoolAssumption == IsFiniteSet(Worker) /\ Worker # {}

VARIABLES
    tasks_, shutdown_requested_,
    worker,     \* where each worker is: it "runs" a task, is "ready" to take
                \* the lock, "waits" on condition_ or has returned ("done")
    current,    \* the tasks each worker has taken and not finished
    task,       \* "new", "pushed" (not notified), "queued", "rejected", or,
                \* once Enqueue has returned, "accepted"
    closer,     \* where each caller of Shutdown is
    accepted,   \* the tasks in the order in which they were pushed
    finished    \* the tasks that have run

vars == <<tasks_, shutdown_requested_, worker, current, task, closer, accepted,
          finished>>

\* Every variable has its type.
TypeOK ==
    /\ tasks_ \in Seq(Task) /\ shutdown_requested_ \in BOOLEAN
    /\ worker \in [Worker -> {"ready", "waits", "runs", "done"}]
    /\ current \in [Worker -> SUBSET Task]
    /\ task \in [Task -> {"new", "pushed", "accepted", "rejected"}]
    /\ closer \in [Closer -> {"idle", "notify", "join", "joined", "skipped"}]
    /\ accepted \in Seq(Task) /\ finished \subseteq Task

Init ==
    /\ tasks_ = <<>> /\ shutdown_requested_ = FALSE
    /\ worker = [w \in Worker |-> "ready"]
    /\ current = [w \in Worker |-> {}]
    /\ task = [t \in Task |-> "new"]
    /\ closer = [c \in Closer |-> "idle"]
    /\ accepted = <<>> /\ finished = {}

-----------------------------------------------------------------------------
(* Enqueue *)

\* Under the lock: throw if the pool is shutting down, or push the task.
Push(t) ==
    /\ task[t] = "new"
    /\ IF shutdown_requested_
       THEN /\ task' = [task EXCEPT ![t] = "rejected"]
            /\ UNCHANGED <<tasks_, accepted>>
       ELSE /\ task' = [task EXCEPT ![t] = "pushed"]
            /\ tasks_' = Append(tasks_, t)
            /\ accepted' = Append(accepted, t)
    /\ UNCHANGED <<shutdown_requested_, worker, current, closer, finished>>

\* Mutant: only the first task of a queue is announced.
NotifyOneIfFirst(t) ==
    /\ task[t] = "pushed" /\ task' = [task EXCEPT ![t] = "accepted"]
    /\ IF \E w \in Worker : worker[w] = "waits" /\ Len(tasks_) = 1
       THEN \E w \in Worker :
               worker[w] = "waits" /\ worker' = [worker EXCEPT ![w] = "ready"]
       ELSE UNCHANGED worker
    /\ UNCHANGED <<tasks_, shutdown_requested_, current, closer, accepted,
                   finished>>

\* condition_.notify_one() wakes one of the waiting workers, if there is one.
NotifyOne(t) ==
    /\ task[t] = "pushed" /\ task' = [task EXCEPT ![t] = "accepted"]
    /\ IF \E w \in Worker : worker[w] = "waits"
       THEN \E w \in Worker :
               worker[w] = "waits" /\ worker' = [worker EXCEPT ![w] = "ready"]
       ELSE UNCHANGED worker
    /\ UNCHANGED <<tasks_, shutdown_requested_, current, closer, accepted,
                   finished>>

-----------------------------------------------------------------------------
(* WorkerThread *)

\* Mutant: a worker leaves as soon as the pool shuts down.
TakeUnlessStopped(w) ==
    /\ worker[w] = "ready"
    /\ IF shutdown_requested_
       THEN /\ worker' = [worker EXCEPT ![w] = "done"]
            /\ UNCHANGED <<tasks_, current>>
       ELSE IF tasks_ = <<>>
       THEN /\ worker' = [worker EXCEPT ![w] = "waits"]
            /\ UNCHANGED <<tasks_, current>>
       ELSE /\ worker' = [worker EXCEPT ![w] = "runs"]
            /\ current' = [current EXCEPT ![w] = {Head(tasks_)}]
            /\ tasks_' = Tail(tasks_)
    /\ UNCHANGED <<shutdown_requested_, task, closer, accepted, finished>>

\* Mutant: the front of the queue is moved from and not popped.
TakeWithoutPop(w) ==
    /\ worker[w] = "ready" /\ tasks_ # <<>>
    /\ worker' = [worker EXCEPT ![w] = "runs"]
    /\ current' = [current EXCEPT ![w] = {Head(tasks_)}]
    /\ UNCHANGED <<tasks_, shutdown_requested_, task, closer, accepted, finished>>

\* Under the lock: evaluate the predicate, then wait, return, or take the
\* first task.
Take(w) ==
    /\ worker[w] = "ready"
    /\ \/ /\ tasks_ = <<>>
          /\ worker' = [worker EXCEPT ![w] = IF shutdown_requested_ THEN "done"
                                                                    ELSE "waits"]
          /\ UNCHANGED <<tasks_, current>>
       \/ /\ tasks_ # <<>>
          /\ worker' = [worker EXCEPT ![w] = "runs"]
          /\ current' = [current EXCEPT ![w] = {Head(tasks_)}]
          /\ tasks_' = Tail(tasks_)
    /\ UNCHANGED <<shutdown_requested_, task, closer, accepted, finished>>

\* A worker may wake up without having been notified.
WakeSpuriously(w) ==
    /\ worker[w] = "waits"
    /\ worker' = [worker EXCEPT ![w] = "ready"]
    /\ UNCHANGED <<tasks_, shutdown_requested_, current, task, closer, accepted,
                   finished>>

\* task() returns; what it throws goes to the future.
Finish(w) ==
    /\ worker[w] = "runs" /\ worker' = [worker EXCEPT ![w] = "ready"]
    /\ finished' = finished \cup current[w]
    /\ current' = [current EXCEPT ![w] = {}]
    /\ UNCHANGED <<tasks_, shutdown_requested_, task, closer, accepted>>

-----------------------------------------------------------------------------
(* Shutdown *)

\* Under the lock: the first caller sets the flag, any other one returns.
RequestShutdown(c) ==
    /\ closer[c] = "idle"
    /\ closer' = [closer EXCEPT ![c] = IF shutdown_requested_ THEN "skipped"
                                                              ELSE "notify"]
    /\ shutdown_requested_' = TRUE
    /\ UNCHANGED <<tasks_, worker, current, task, accepted, finished>>

\* Mutant: one worker is told.
NotifyOneWorker(c) ==
    /\ closer[c] = "notify" /\ closer' = [closer EXCEPT ![c] = "join"]
    /\ IF \E w \in Worker : worker[w] = "waits"
       THEN \E w \in Worker :
               worker[w] = "waits" /\ worker' = [worker EXCEPT ![w] = "ready"]
       ELSE UNCHANGED worker
    /\ UNCHANGED <<tasks_, shutdown_requested_, current, task, accepted, finished>>

\* condition_.notify_all()
NotifyAll(c) ==
    /\ closer[c] = "notify" /\ closer' = [closer EXCEPT ![c] = "join"]
    /\ worker' = [w \in Worker |-> IF worker[w] = "waits" THEN "ready"
                                                          ELSE worker[w]]
    /\ UNCHANGED <<tasks_, shutdown_requested_, current, task, accepted, finished>>

\* Every worker has been joined.
JoinWorkers(c) ==
    /\ closer[c] = "join" /\ \A w \in Worker : worker[w] = "done"
    /\ closer' = [closer EXCEPT ![c] = "joined"]
    /\ UNCHANGED <<tasks_, shutdown_requested_, worker, current, task, accepted,
                   finished>>

-----------------------------------------------------------------------------

WorkerStep(w) == Take(w) \/ Finish(w)
CloserStep(c) == NotifyAll(c) \/ JoinWorkers(c)

Next ==
    \/ \E t \in Task : Push(t) \/ NotifyOne(t)
    \/ \E w \in Worker : WorkerStep(w) \/ WakeSpuriously(w)
    \/ \E c \in Closer : RequestShutdown(c) \/ CloserStep(c)

Spec == Init /\ [][Next]_vars

\* Every thread runs and every task returns.  Nobody has to call Enqueue or
\* Shutdown, and no worker has to wake up by itself.
FairSpec ==
    /\ Spec
    /\ \A w \in Worker : WF_vars(WorkerStep(w))
    /\ \A t \in Task : WF_vars(NotifyOne(t))
    /\ \A c \in Closer : WF_vars(CloserStep(c))

-----------------------------------------------------------------------------

Running == UNION {current[w] : w \in Worker}

\* Tasks are taken in the order they were pushed, and each by one worker: what
\* was accepted is what has been taken, in any order, followed by the queue.
TakenOnceInOrder ==
    /\ \E n \in 0 .. Len(accepted) :
          /\ tasks_ = SubSeq(accepted, n + 1, Len(accepted))
          /\ Running \cup finished = {accepted[i] : i \in 1 .. n}
    /\ \A v, w \in Worker : v # w => current[v] \cap current[w] = {}
    /\ Running \cap finished = {}

\* A worker sleeps only while the others suffice: for every queued task there
\* is a worker on its way to the queue, or a notify_one still to come.
WorkersSuffice ==
    (\E w \in Worker : worker[w] = "waits") =>
        Len(tasks_) <= Cardinality({w \in Worker : worker[w] = "ready"})
                         + Cardinality({t \in Task : task[t] = "pushed"})

\* When Shutdown has joined the workers, every accepted task has run.
ShutdownDrains ==
    (\E c \in Closer : closer[c] = "joined") =>
        tasks_ = <<>> /\ finished = ToSet(accepted)

\* Every accepted task runs.
EveryTaskRuns == \A t \in Task : task[t] = "pushed" ~> t \in finished

\* Shutdown returns.
ShutdownReturns ==
    \A c \in Closer : closer[c] = "notify" ~> closer[c] = "joined"

=============================================================================
