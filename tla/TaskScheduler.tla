---------------------------- MODULE TaskScheduler ----------------------------
(***************************************************************************)
(* speculor::TaskScheduler (include/speculor/concurrency/scheduler.hpp,    *)
(* src/concurrency/scheduler.cpp): threads that scan one list of tasks     *)
(* under one mutex, run what is due, and sweep out what ran for good.      *)
(*                                                                         *)
(* The steady clock may advance at any point, in particular while a task   *)
(* runs and between two readings of now().  Tasks call neither add_task    *)
(* nor remove_task: their thread holds the mutex these take.               *)
(***************************************************************************)
EXTENDS Integers, Sequences, SequencesExt

CONSTANTS
    Threads,     \* the num_threads_ threads of the scheduler
    Jobs,        \* the tasks ever added, each once
    Names,       \* the values of Task::name
    NameOf,      \* [Jobs -> Names]; several tasks may share a name
    Repeating,   \* the jobs whose repeat is set
    Interval,    \* Task::interval, in ticks
    Delays,      \* how far in the future callers set next_run
    MaxTime,     \* bound: the clock stops there
    NoThread, NoJob

ASSUME NameAssumption == NameOf \in [Jobs -> Names]
ASSUME RepeatingAssumption == Repeating \subseteq Jobs
ASSUME TimeAssumption == Interval \in Nat \ {0} /\ Delays \subseteq Nat /\ MaxTime \in Nat
ASSUME NoThreadAssumption == NoThread \notin Threads
ASSUME NoJobAssumption == NoJob \notin Jobs

VARIABLES
    clock,       \* steady_clock::now()
    tasks,       \* tasks_: the jobs, in the order they were added
    nextRun,     \* next_run of each job
    mutex,       \* the thread holding tasks_mutex_ across several steps
    running,     \* running_
    tpc,         \* each thread: where it is in scheduler_loop
    tnow, ti,    \* the local now, and the index of the scan or the sweep; 0
                 \*   outside of their scope
    current,     \* the task each thread is executing
    cpc,         \* the thread that calls start and stop: "idle" or "join"
    added,       \* history: the jobs that were added
    prompt,      \*   those already due at that moment
    removed,     \*   those remove_task took out
    runs         \*   how often each job was run, counted up to 2

listVars == <<tasks, nextRun, added, prompt, removed>>
threadVars == <<tpc, tnow, ti, current>>
vars == <<clock, listVars, mutex, running, threadVars, cpc, runs>>

Init ==
    /\ clock = 0
    /\ tasks = <<>>
    /\ nextRun = [j \in Jobs |-> 0]
    /\ mutex = NoThread
    /\ running = FALSE
    /\ tpc = [t \in Threads |-> "none"]
    /\ tnow = [t \in Threads |-> 0]
    /\ ti = [t \in Threads |-> 0]
    /\ current = [t \in Threads |-> NoJob]
    /\ cpc = "idle"
    /\ added = {} /\ prompt = {} /\ removed = {}
    /\ runs = [j \in Jobs |-> 0]

Tick ==
    /\ clock < MaxTime
    /\ clock' = clock + 1
    /\ UNCHANGED <<listVars, mutex, running, threadVars, cpc, runs>>

-----------------------------------------------------------------------------
(* add_task and remove_task, by any thread outside of the scheduler.       *)

\* A next_run in the past, the delay having gone by while the caller waited for
\* the mutex, is as due as one of this moment.
AddTask(j, delay) ==
    /\ mutex = NoThread
    /\ j \notin added
    /\ tasks' = Append(tasks, j)
    /\ nextRun' = [nextRun EXCEPT ![j] = clock + delay]
    /\ added' = added \cup {j}
    /\ prompt' = IF delay = 0 THEN prompt \cup {j} ELSE prompt
    /\ UNCHANGED <<clock, mutex, running, threadVars, cpc, removed, runs>>

InList == ToSet(tasks)

\* Every task of that name goes; the places that remove_if keeps close up, in their
\* order.  (This is SelectSeq without its recursion, which no prover unfolds.)
EraseNamed(name) ==
    /\ \E n \in 0 .. Len(tasks) :
       \E kept \in [1 .. n -> {i \in DOMAIN tasks : NameOf[tasks[i]] # name}] :
           /\ \A i, k \in 1 .. n : i < k => kept[i] < kept[k]
           /\ \A i \in DOMAIN tasks : NameOf[tasks[i]] # name => \E k \in 1 .. n : kept[k] = i
           /\ tasks' = [k \in 1 .. n |-> tasks[kept[k]]]
    /\ removed' = removed \cup {j \in InList : NameOf[j] = name}
    /\ UNCHANGED <<clock, nextRun, mutex, running, threadVars, cpc, added, prompt, runs>>

\* Mutant: the list is changed without the mutex.
RemoveTaskUnlocked(name) == EraseNamed(name)

RemoveTask(name) == mutex = NoThread /\ EraseNamed(name)

-----------------------------------------------------------------------------
(* scheduler_loop *)

Goto(t, where) == tpc' = [tpc EXCEPT ![t] = where]

\* Mutant: running_ is not looked at again.
LoopTestForever(t) ==
    /\ tpc[t] = "test"
    /\ Goto(t, "lock")
    /\ UNCHANGED <<clock, listVars, mutex, running, tnow, ti, current, cpc, runs>>

LoopTest(t) ==
    /\ tpc[t] = "test"
    /\ Goto(t, IF running THEN "lock" ELSE "exited")
    /\ UNCHANGED <<clock, listVars, mutex, running, tnow, ti, current, cpc, runs>>

\* Mutant: the clock is read before the wait for the mutex.
LoopLockClockFirst(t) ==
    /\ tpc[t] = "lock"
    /\ mutex = NoThread
    /\ mutex' = t
    /\ \E earlier \in 0 .. clock : tnow' = [tnow EXCEPT ![t] = earlier]
    /\ ti' = [ti EXCEPT ![t] = 1]
    /\ Goto(t, "scan")
    /\ UNCHANGED <<clock, listVars, running, current, cpc, runs>>

\* Take the mutex, then read the clock: now is later than every add_task so far.
LoopLock(t) ==
    /\ tpc[t] = "lock"
    /\ mutex = NoThread
    /\ mutex' = t
    /\ tnow' = [tnow EXCEPT ![t] = clock]
    /\ ti' = [ti EXCEPT ![t] = 1]
    /\ Goto(t, "scan")
    /\ UNCHANGED <<clock, listVars, running, current, cpc, runs>>

\* The next task is not due.
ScanSkip(t) ==
    /\ tpc[t] = "scan"
    /\ ti[t] <= Len(tasks)
    /\ nextRun[tasks[ti[t]]] > tnow[t]
    /\ ti' = [ti EXCEPT ![t] = @ + 1]
    /\ UNCHANGED <<clock, listVars, mutex, running, tpc, tnow, current, cpc, runs>>

\* It is due: execute_task, still under the mutex.
ScanRun(t) ==
    /\ tpc[t] = "scan"
    /\ ti[t] <= Len(tasks)
    /\ nextRun[tasks[ti[t]]] <= tnow[t]
    /\ runs' = [runs EXCEPT ![tasks[ti[t]]] = IF @ < 2 THEN @ + 1 ELSE @]
    /\ current' = [current EXCEPT ![t] = tasks[ti[t]]]
    /\ Goto(t, "execute")
    /\ UNCHANGED <<clock, listVars, mutex, running, tnow, ti, cpc>>

\* Mutant: the exception ends the loop, and gives up the mutex on its way.
TaskThrowsOut(t) ==
    /\ tpc[t] = "execute"
    /\ mutex' = NoThread
    /\ tnow' = [tnow EXCEPT ![t] = 0]
    /\ ti' = [ti EXCEPT ![t] = 0]
    /\ current' = [current EXCEPT ![t] = NoJob]
    /\ Goto(t, "exited")
    /\ UNCHANGED <<clock, listVars, running, cpc, runs>>

\* The task throws; one of the handlers of execute_task catches what it throws.
TaskThrows(t) ==
    /\ tpc[t] = "execute"
    /\ Goto(t, "caught")
    /\ UNCHANGED <<clock, listVars, mutex, running, tnow, ti, current, cpc, runs>>

\* execute_task returns, after the task or after a handler; a repeating task is due
\* again an interval after the clock reading of this scan, not after its own end.
ScanRan(t) ==
    /\ tpc[t] \in {"execute", "caught"}
    /\ nextRun' = IF current[t] \in Repeating
                  THEN [nextRun EXCEPT ![current[t]] = tnow[t] + Interval]
                  ELSE nextRun
    /\ current' = [current EXCEPT ![t] = NoJob]
    /\ ti' = [ti EXCEPT ![t] = @ + 1]
    /\ Goto(t, "scan")
    /\ UNCHANGED <<clock, tasks, added, prompt, removed, mutex, running, tnow, cpc, runs>>

ScanEnd(t) ==
    /\ tpc[t] = "scan"
    /\ ti[t] > Len(tasks)
    /\ ti' = [ti EXCEPT ![t] = 1]
    /\ Goto(t, "sweep")
    /\ UNCHANGED <<clock, listVars, mutex, running, tnow, current, cpc, runs>>

\* Mutants: a task due at this very moment stays; repeating ones are swept too.
ExpiredStrictly(j) == j \notin Repeating /\ nextRun[j] < clock
ExpiredRegardless(j) == nextRun[j] <= clock

\* remove_if asks for the time once more at every task.
Expired(j) == j \notin Repeating /\ nextRun[j] <= clock

SweepKeep(t) ==
    /\ tpc[t] = "sweep"
    /\ ti[t] <= Len(tasks)
    /\ ~Expired(tasks[ti[t]])
    /\ ti' = [ti EXCEPT ![t] = @ + 1]
    /\ UNCHANGED <<clock, listVars, mutex, running, tpc, tnow, current, cpc, runs>>

SweepErase(t) ==
    /\ tpc[t] = "sweep"
    /\ ti[t] <= Len(tasks)
    /\ Expired(tasks[ti[t]])
    /\ tasks' = RemoveAt(tasks, ti[t])
    /\ UNCHANGED <<clock, nextRun, added, prompt, removed, mutex, running, threadVars, cpc, runs>>

LoopUnlock(t) ==
    /\ tpc[t] = "sweep"
    /\ ti[t] > Len(tasks)
    /\ mutex' = NoThread
    /\ tnow' = [tnow EXCEPT ![t] = 0]
    /\ ti' = [ti EXCEPT ![t] = 0]
    /\ Goto(t, "sleep")
    /\ UNCHANGED <<clock, listVars, running, current, cpc, runs>>

\* sleep_for returns.
LoopWake(t) ==
    /\ tpc[t] = "sleep"
    /\ Goto(t, "test")
    /\ UNCHANGED <<clock, listVars, mutex, running, tnow, ti, current, cpc, runs>>

-----------------------------------------------------------------------------
(* start and stop, called by one thread.                                   *)

\* No effect on a scheduler that runs already.
Start ==
    /\ cpc = "idle"
    /\ ~running
    /\ running' = TRUE
    /\ tpc' = [t \in Threads |-> "test"]
    /\ UNCHANGED <<clock, listVars, mutex, tnow, ti, current, cpc, runs>>

StopClearFlag ==
    /\ cpc = "idle"
    /\ running' = FALSE
    /\ cpc' = "join"
    /\ UNCHANGED <<clock, listVars, mutex, threadVars, runs>>

\* Mutant: the threads are not waited for.
StopDetached ==
    /\ cpc = "join"
    /\ cpc' = "idle"
    /\ UNCHANGED <<clock, listVars, mutex, running, threadVars, runs>>

\* Every thread was joined; tasks that are still listed stay there.
StopJoined ==
    /\ cpc = "join"
    /\ \A t \in Threads : tpc[t] \in {"none", "exited"}
    /\ tpc' = [t \in Threads |-> "none"]
    /\ cpc' = "idle"
    /\ UNCHANGED <<clock, listVars, mutex, running, tnow, ti, current, runs>>

-----------------------------------------------------------------------------
Thread(t) ==
    \/ LoopTest(t) \/ LoopLock(t)
    \/ ScanSkip(t) \/ ScanRun(t) \/ TaskThrows(t) \/ ScanRan(t) \/ ScanEnd(t)
    \/ SweepKeep(t) \/ SweepErase(t)
    \/ LoopUnlock(t) \/ LoopWake(t)

Next ==
    \/ Tick
    \/ \E j \in Jobs, delay \in Delays : AddTask(j, delay)
    \/ \E name \in Names : RemoveTask(name)
    \/ \E t \in Threads : Thread(t)
    \/ Start \/ StopClearFlag \/ StopJoined

Spec == Init /\ [][Next]_vars

\* The threads are scheduled, tasks and joins return; nothing else is promised,
\* not even that the clock is seen to advance.
Fairness ==
    /\ \A t \in Threads : WF_vars(Thread(t))
    /\ WF_vars(StopJoined)

FairSpec == Spec /\ Fairness

-----------------------------------------------------------------------------
(* Properties *)

TypeOK ==
    /\ clock \in 0 .. MaxTime
    /\ tasks \in Seq(Jobs)
    /\ nextRun \in [Jobs -> Nat]
    /\ mutex \in Threads \cup {NoThread}
    /\ running \in BOOLEAN
    /\ tpc \in [Threads -> {"none", "test", "lock", "scan", "execute", "caught",
                            "sweep", "sleep", "exited"}]
    /\ tnow \in [Threads -> 0 .. MaxTime]
    /\ ti \in [Threads -> Nat]
    /\ current \in [Threads -> Jobs \cup {NoJob}]
    /\ cpc \in {"idle", "join"}
    /\ added \subseteq Jobs /\ prompt \subseteq added /\ removed \subseteq added
    /\ runs \in [Jobs -> 0 .. 2]

Executing(j) == \E t \in Threads : current[t] = j

\* A task that does not repeat runs at most once, with any number of threads:
\* the one that ran it sweeps it out before another can see it.
OneShotOnce == \A j \in Jobs \ Repeating : runs[j] <= 1

\* No task is lost: a repeating one leaves the list only by remove_task, and a
\* one-shot task that was due when it was added only by that or by being run. The
\* scan's clock reading, taken under the mutex, is never older than the task.
KeptUntilDone ==
    /\ \A j \in added \cap Repeating : j \in InList \cup removed
    /\ \A j \in prompt \ Repeating : j \in InList \cup removed \/ runs[j] > 0

\* After remove_task has returned the task is not running, on whatever thread it
\* was about to: what its function captured may be destroyed.
RemovedIsQuiet == \A j \in removed : ~Executing(j)

\* After stop() has returned no task runs until the next start().
StoppedIsQuiet == cpc = "idle" /\ ~running => \A j \in Jobs : ~Executing(j)

\* stop() returns, while threads sleep, scan or wait for the mutex.
StopReturns == cpc = "join" ~> cpc = "idle"

\* A task that was due when it was added is run, unless it is removed or the
\* scheduler is stopped, whatever other tasks come and go, return or throw.
PromptTaskRuns ==
    \A j \in Jobs : j \in prompt /\ running ~> runs[j] > 0 \/ j \in removed \/ ~running

\* "Remove non-repeating tasks that have executed" (scheduler.cpp:29): the sweep
\* takes out no task that was never run.
SweptHasRun == \A j \in added : j \in InList \cup removed \/ runs[j] > 0
==============================================================================
