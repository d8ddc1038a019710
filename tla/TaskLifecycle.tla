---------------------------- MODULE TaskLifecycle ----------------------------
(***************************************************************************)
(* What speculor::ThreadPool promises the callers of enqueue: a task is    *)
(* started at most once, in the order of the calls, by one of the workers, *)
(* and its future becomes ready once, after it was started.                *)
(***************************************************************************)
EXTENDS Naturals, Sequences

CONSTANTS
    Tasks,       \* the callables ever enqueued
    Workers,     \* the pool's threads
    NoTask

VARIABLES
    queue,       \* enqueued, not started, oldest first
    running,     \* what each worker runs
    done         \* the tasks whose future is ready

vars == <<queue, running, done>>

Known == {queue[i] : i \in DOMAIN queue} \cup {running[w] : w \in Workers} \cup done

Init ==
    /\ queue = <<>>
    /\ running = [w \in Workers |-> NoTask]
    /\ done = {}

Submit(t) ==
    /\ t \notin Known
    /\ queue' = Append(queue, t)
    /\ UNCHANGED <<running, done>>

Begin(w) ==
    /\ queue # <<>>
    /\ running[w] = NoTask
    /\ running' = [running EXCEPT ![w] = Head(queue)]
    /\ queue' = Tail(queue)
    /\ UNCHANGED done

Finish(w) ==
    /\ running[w] # NoTask
    /\ done' = done \cup {running[w]}
    /\ running' = [running EXCEPT ![w] = NoTask]
    /\ UNCHANGED queue

Next ==
    \/ \E t \in Tasks : Submit(t)
    \/ \E w \in Workers : Begin(w) \/ Finish(w)

Spec == Init /\ [][Next]_vars
==============================================================================
