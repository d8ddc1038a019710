----------------------------- MODULE ThreadPool -----------------------------
(***************************************************************************)
(* speculor::ThreadPool (include/speculor/concurrency/thread_pool.hpp,     *)
(* src/concurrency/thread_pool.cpp).                                       *)
(*                                                                         *)
(* What is done under queue_mutex_ is one action; the notifications, the   *)
(* counter and the tasks themselves happen outside of it and are actions   *)
(* of their own.  Tasks run in the pool may enqueue further tasks; none    *)
(* waits for a future or calls stop().                                     *)
(***************************************************************************)
EXTENDS Integers, Sequences, FiniteSets

CONSTANTS
    Workers,     \* workers_; none is a legal constructor argument
    Clients,     \* the threads outside the pool that call enqueue
    Tasks,       \* the callables that may be enqueued, each once
    NoTask

ASSUME ThreadsAssumption == IsFiniteSet(Workers) /\ IsFiniteSet(Clients)
ASSUME CallersAssumption == Workers \cap Clients = {}
ASSUME NoTaskAssumption == NoTask \notin Tasks

VARIABLES
    tasks,       \* tasks_, oldest first
    stop,        \* stop_
    active,      \* active_tasks_
    wpc, wtask,  \* each worker: where it is in worker_loop, and its local task
    epc,         \* each caller of enqueue: outside, or about to notify_one
    spc,         \* the thread calling stop(): "idle", "notify", "join", "joined"
    submitted,   \* history: the tasks whose enqueue took the mutex
    owed,        \* history: those enqueued before stop_ was set or by a task
    ready        \* the tasks whose future is ready

vars == <<tasks, stop, active, wpc, wtask, epc, spc, submitted, owed, ready>>

Callers == Workers \cup Clients

Init ==
    /\ tasks = <<>> /\ stop = FALSE /\ active = 0
    /\ wpc = [w \in Workers |-> "lock"]
    /\ wtask = [w \in Workers |-> NoTask]
    /\ epc = [c \in Callers |-> "outside"]
    /\ spc = "idle"
    /\ submitted = {} /\ owed = {} /\ ready = {}

Waiting == {w \in Workers : wpc[w] = "waiting"}

-----------------------------------------------------------------------------
(* enqueue: a client, or a task that a worker is running.                  *)

\* Queue the task.  stop_ is not looked at.
EnqueuePush(c, t) ==
    /\ epc[c] = "outside"
    /\ c \in Workers => wpc[c] = "running"
    /\ t \notin submitted
    /\ tasks' = Append(tasks, t)
    /\ submitted' = submitted \cup {t}
    /\ owed' = IF c \in Workers \/ ~stop THEN owed \cup {t} ELSE owed
    /\ epc' = [epc EXCEPT ![c] = "notify"]
    /\ UNCHANGED <<stop, active, wpc, wtask, spc, ready>>

\* Mutant: nobody is woken while some worker is active.
EnqueueNotifyIfIdle(c) ==
    /\ epc[c] = "notify"
    /\ epc' = [epc EXCEPT ![c] = "outside"]
    /\ IF Waiting = {} \/ active > 0
       THEN UNCHANGED wpc
       ELSE \E w \in Waiting : wpc' = [wpc EXCEPT ![w] = "lock"]
    /\ UNCHANGED <<tasks, stop, active, wtask, spc, submitted, owed, ready>>

\* Mutant: the notification is left out.
EnqueueWithoutNotify(c) ==
    /\ epc[c] = "notify"
    /\ epc' = [epc EXCEPT ![c] = "outside"]
    /\ UNCHANGED <<tasks, stop, active, wpc, wtask, spc, submitted, owed, ready>>

\* notify_one, after the mutex was released: some waiting worker, if any.
EnqueueNotify(c) ==
    /\ epc[c] = "notify"
    /\ epc' = [epc EXCEPT ![c] = "outside"]
    /\ IF Waiting = {}
       THEN UNCHANGED wpc
       ELSE \E w \in Waiting : wpc' = [wpc EXCEPT ![w] = "lock"]
    /\ UNCHANGED <<tasks, stop, active, wtask, spc, submitted, owed, ready>>

-----------------------------------------------------------------------------
(* worker_loop *)

\* The predicate is false: release the mutex and sleep, atomically.
WorkerWait(w) ==
    /\ wpc[w] = "lock"
    /\ ~stop /\ tasks = <<>>
    /\ wpc' = [wpc EXCEPT ![w] = "waiting"]
    /\ UNCHANGED <<tasks, stop, active, wtask, epc, spc, submitted, owed, ready>>

\* A condition variable may wake a thread that nobody notified.
WorkerWakeSpuriously(w) ==
    /\ wpc[w] = "waiting"
    /\ wpc' = [wpc EXCEPT ![w] = "lock"]
    /\ UNCHANGED <<tasks, stop, active, wtask, epc, spc, submitted, owed, ready>>

\* Mutant: a stopped worker leaves the queue as it is.
WorkerExitAtOnce(w) ==
    /\ wpc[w] = "lock"
    /\ stop
    /\ wpc' = [wpc EXCEPT ![w] = "exited"]
    /\ UNCHANGED <<tasks, stop, active, wtask, epc, spc, submitted, owed, ready>>

\* Stopped and nothing left: the thread ends.
WorkerExit(w) ==
    /\ wpc[w] = "lock"
    /\ stop /\ tasks = <<>>
    /\ wpc' = [wpc EXCEPT ![w] = "exited"]
    /\ UNCHANGED <<tasks, stop, active, wtask, epc, spc, submitted, owed, ready>>

\* Mutant: the task is copied, not taken, from the queue.
WorkerTakeWithoutPop(w) ==
    /\ wpc[w] = "lock"
    /\ tasks # <<>>
    /\ wtask' = [wtask EXCEPT ![w] = Head(tasks)]
    /\ wpc' = [wpc EXCEPT ![w] = "taken"]
    /\ UNCHANGED <<tasks, stop, active, epc, spc, submitted, owed, ready>>

\* Take the oldest task, also after stop_ was set.
WorkerTake(w) ==
    /\ wpc[w] = "lock"
    /\ tasks # <<>>
    /\ wtask' = [wtask EXCEPT ![w] = Head(tasks)]
    /\ tasks' = Tail(tasks)
    /\ wpc' = [wpc EXCEPT ![w] = "taken"]
    /\ UNCHANGED <<stop, active, epc, spc, submitted, owed, ready>>

\* Count the task as active and call it.
WorkerStart(w) ==
    /\ wpc[w] = "taken"
    /\ active' = active + 1
    /\ wpc' = [wpc EXCEPT ![w] = "running"]
    /\ UNCHANGED <<tasks, stop, wtask, epc, spc, submitted, owed, ready>>

\* The task returns or throws: either way its packaged_task makes the future
\* ready and nothing leaves task().
WorkerFinish(w) ==
    /\ wpc[w] = "running"
    /\ epc[w] = "outside"
    /\ ready' = ready \cup {wtask[w]}
    /\ wtask' = [wtask EXCEPT ![w] = NoTask]
    /\ wpc' = [wpc EXCEPT ![w] = "finished"]
    /\ UNCHANGED <<tasks, stop, active, epc, spc, submitted, owed>>

WorkerUncount(w) ==
    /\ wpc[w] = "finished"
    /\ active' = active - 1
    /\ wpc' = [wpc EXCEPT ![w] = "lock"]
    /\ UNCHANGED <<tasks, stop, wtask, epc, spc, submitted, owed, ready>>

-----------------------------------------------------------------------------
(* stop(), which the destructor also calls.                                *)

StopSetFlag ==
    /\ spc = "idle"
    /\ stop' = TRUE
    /\ spc' = "notify"
    /\ UNCHANGED <<tasks, active, wpc, wtask, epc, submitted, owed, ready>>

\* Mutant: only one worker is woken.
StopNotifyOne ==
    /\ spc = "notify"
    /\ IF Waiting = {}
       THEN UNCHANGED wpc
       ELSE \E w \in Waiting : wpc' = [wpc EXCEPT ![w] = "lock"]
    /\ spc' = "join"
    /\ UNCHANGED <<tasks, stop, active, wtask, epc, submitted, owed, ready>>

StopNotifyAll ==
    /\ spc = "notify"
    /\ wpc' = [w \in Workers |-> IF wpc[w] = "waiting" THEN "lock" ELSE wpc[w]]
    /\ spc' = "join"
    /\ UNCHANGED <<tasks, stop, active, wtask, epc, submitted, owed, ready>>

\* Every join has returned.
StopJoined ==
    /\ spc = "join"
    /\ \A w \in Workers : wpc[w] = "exited"
    /\ spc' = "joined"
    /\ UNCHANGED <<tasks, stop, active, wpc, wtask, epc, submitted, owed, ready>>

\* stop() has returned and all callers are done: nothing is left to happen.
Terminated ==
    /\ spc = "joined"
    /\ \A c \in Callers : epc[c] = "outside"
    /\ UNCHANGED vars

-----------------------------------------------------------------------------
Enqueue(c) == EnqueueNotify(c) \/ \E t \in Tasks : EnqueuePush(c, t)

\* What a worker does of its own, spurious wake-ups apart.
Worker(w) ==
    \/ WorkerWait(w)
    \/ WorkerExit(w)
    \/ WorkerTake(w)
    \/ WorkerStart(w)
    \/ WorkerFinish(w)
    \/ WorkerUncount(w)

Stop == StopSetFlag \/ StopNotifyAll \/ StopJoined

Next ==
    \/ \E c \in Callers : Enqueue(c)
    \/ \E w \in Workers : Worker(w) \/ WorkerWakeSpuriously(w)
    \/ Stop
    \/ Terminated

Spec == Init /\ [][Next]_vars

\* Threads that can run are scheduled, the mutex is held for a few instructions
\* and a task terminates; nobody is obliged to enqueue, to stop the pool or to
\* wake a thread for nothing.
Fairness ==
    /\ \A w \in Workers : WF_vars(Worker(w))
    /\ \A c \in Callers : WF_vars(EnqueueNotify(c))
    /\ WF_vars(StopNotifyAll \/ StopJoined)

FairSpec == Spec /\ Fairness

-----------------------------------------------------------------------------
(* Properties *)

TypeOK ==
    /\ tasks \in Seq(Tasks)
    /\ stop \in BOOLEAN
    /\ active \in 0 .. Cardinality(Workers)
    /\ wpc \in [Workers -> {"lock", "waiting", "taken", "running", "finished", "exited"}]
    /\ wtask \in [Workers -> Tasks \cup {NoTask}]
    /\ epc \in [Callers -> {"outside", "notify"}]
    /\ spc \in {"idle", "notify", "join", "joined"}
    /\ submitted \subseteq Tasks /\ owed \subseteq submitted /\ ready \subseteq Tasks

\* A task is executed at most once and in the order of the enqueue calls,
\* whatever the workers, the notifications and stop() do.
Lifecycle == INSTANCE TaskLifecycle WITH
    queue <- tasks, running <- wtask, done <- ready
ImplementsLifecycle == Lifecycle!Spec

\* When stop() has returned, every task enqueued before stop_ was set has run,
\* and so has every task that such a task enqueued while the pool was stopping.
\* A pool without workers runs nothing.
StopDrains ==
    spc = "joined" /\ Workers # {} => owed \subseteq ready

\* A worker sleeps only if each queued task already has a notification on its
\* way or a worker that is about to look at the queue.
NoLostWakeup ==
    Waiting # {} =>
        Len(tasks) <= Cardinality({c \in Callers : epc[c] = "notify"})
                      + Cardinality({w \in Workers : wpc[w] = "lock"})

\* A task enqueued before the pool is stopped, or by a task, is executed.
OwedTasksRun == \A t \in Tasks : t \in owed ~> t \in ready

\* stop() returns, also when its flag is set between a worker's test of the
\* predicate and its sleep, and with tasks that enqueue tasks.
StopReturns == stop ~> spc = "joined"
=============================================================================
