---------------------------- MODULE EngineIngest ----------------------------
(***************************************************************************)
(* The asynchronous side of speculor::SpeculorEngine (src/core/engine.cpp):*)
(* process_async puts an event into input_queue_ (a RingBuffer, here the   *)
(* FifoQueue it implements) and a detection task into scheduler_ (the      *)
(* TaskScheduler this module extends); configure replaces the one and adds *)
(* a snapshot task to the other.                                           *)
(*                                                                         *)
(* No code takes an event out of input_queue_: a detection task carries a  *)
(* copy of its event.  And no code calls scheduler_.start(): of the        *)
(* scheduler only add_task and stop() are ever called.                     *)
(***************************************************************************)
EXTENDS TaskScheduler

CONSTANTS
    Events,      \* the events offered, each once
    QueueSize    \* input_queue_size; each other job is one snapshot task

ASSUME EventsAssumption == Events \subseteq Jobs \ Repeating
ASSUME QueueSizeAssumption == QueueSize \in Nat

VARIABLES
    queue, received, \* input_queue_
    ingesting,   \* the event whose process_async has pushed and not added yet
    offered      \* history: the events process_async was called with

ingestVars == <<queue, received, ingesting, offered>>
engineVars == <<vars, ingestVars>>

Ring == INSTANCE FifoQueue WITH
    Capacity <- QueueSize, Items <- Events, NoItem <- NoJob, Consumers <- {}

EngineInit == Init /\ Ring!Init /\ ingesting = NoJob /\ offered = {}

\* Mutant: process_async goes on after a failed try_push.
ProcessAsyncGoesOn(e) ==
    /\ ingesting = NoJob
    /\ e \notin offered
    /\ offered' = offered \cup {e}
    /\ \/ Ring!Enqueue(e)
       \/ Len(queue) >= QueueSize /\ UNCHANGED <<queue, received>>
    /\ ingesting' = e
    /\ UNCHANGED vars

\* process_async as far as try_push; when that fails the event is dropped.
ProcessAsync(e) ==
    /\ ingesting = NoJob
    /\ e \notin offered
    /\ offered' = offered \cup {e}
    /\ \/ Ring!Enqueue(e) /\ ingesting' = e
       \/ Len(queue) >= QueueSize /\ UNCHANGED <<queue, received, ingesting>>
    /\ UNCHANGED vars

\* The rest of it: a detection task that does not repeat, due at once.
AddDetection ==
    /\ ingesting # NoJob
    /\ AddTask(ingesting, 0)
    /\ ingesting' = NoJob
    /\ UNCHANGED <<queue, received, offered>>

\* configure begins with an empty queue, whatever waited in the old one ...
ReplaceQueue == queue' = <<>> /\ UNCHANGED <<received, ingesting, offered>>

\* ... and ends, with persistence, by adding one more snapshot task, whatever
\* tasks there are.
AddSnapshotTask(j) == j \notin Events /\ AddTask(j, Interval)

\* Both, when nothing fails in between.
Configure(j) ==
    /\ ingesting = NoJob
    /\ ReplaceQueue
    /\ AddSnapshotTask(j)

\* stop(), as far as the scheduler is concerned.
EngineStop ==
    /\ ingesting = NoJob
    /\ StopClearFlag \/ StopJoined
    /\ UNCHANGED ingestVars

TimePasses == Tick /\ UNCHANGED ingestVars

EngineNext ==
    \/ \E e \in Events : ProcessAsync(e)
    \/ AddDetection
    \/ \E j \in Jobs : Configure(j)
    \/ EngineStop
    \/ TimePasses

EngineSpec == EngineInit /\ [][EngineNext]_engineVars

\* The same with the scheduler's threads, which are scheduled fairly, should
\* there be any.
SchedulerStep == (\E t \in Threads : Thread(t)) /\ UNCHANGED ingestVars

EngineFairSpec ==
    /\ EngineInit
    /\ [][EngineNext \/ SchedulerStep]_engineVars
    /\ WF_engineVars(SchedulerStep)
    /\ WF_engineVars(AddDetection)

-----------------------------------------------------------------------------
(* Properties *)

\* The elements of s that are in S, in their order.  (This is SelectSeq as a
\* recursive function, which proofs can unfold.)
Chosen(s, S) ==
    LET chosen[n \in 0 .. Len(s)] ==
            IF n = 0 THEN <<>>
            ELSE IF s[n] \in S THEN Append(chosen[n - 1], s[n]) ELSE chosen[n - 1]
    IN  chosen[Len(s)]

\* The queue keeps its bound, and its events are the latest ones that have a detection task, in
\* the order of the tasks: none waits without a task, and a dropped event has
\* none.
Pending == IF ingesting = NoJob THEN <<>> ELSE <<ingesting>>
QueueMatchesTasks ==
    /\ Len(queue) <= QueueSize
    /\ IsSuffix(queue, Chosen(tasks, Events) \o Pending)

\* "Asynchronous detection: enqueue event for background processing"
\* (engine.hpp:30): an event that was accepted is processed, unless the engine
\* is stopped.
AcceptedIsProcessed ==
    \A e \in Events : e \in added ~> runs[e] > 0 \/ cpc = "join"
=============================================================================
