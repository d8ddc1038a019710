--------------------------- MODULE ThreadPoolProofs ---------------------------
(***************************************************************************)
(* Proofs about ThreadPool, for any number of workers, clients and tasks:  *)
(* its types, that stop() drains the queue, that no wake-up is lost, and   *)
(* that it implements TaskLifecycle.                                       *)
(***************************************************************************)
EXTENDS ThreadPool, FiniteSetTheorems, SequenceTheorems, TLAPS

Busy == {w \in Workers : wpc[w] \in {"taken", "running"}}
Queued == {tasks[i] : i \in DOMAIN tasks}
Held == {wtask[w] : w \in Busy}

\* The workers that count as active, and the types without their number.
Active == {w \in Workers : wpc[w] \in {"running", "finished"}}

Typing ==
    /\ tasks \in Seq(Tasks)
    /\ stop \in BOOLEAN
    /\ wpc \in [Workers -> {"lock", "waiting", "taken", "running", "finished", "exited"}]
    /\ wtask \in [Workers -> Tasks \cup {NoTask}]
    /\ \A w \in Workers : wtask[w] # NoTask <=> w \in Busy
    /\ epc \in [Callers -> {"outside", "notify"}]
    /\ spc \in {"idle", "notify", "join", "joined"}
    /\ submitted \subseteq Tasks /\ owed \subseteq submitted /\ ready \subseteq Tasks

CountInv == active = Cardinality(Active)

\* A worker ends only after stop_ was set, and all have when stop() returns.
FlagInv ==
    /\ spc # "idle" <=> stop
    /\ \A w \in Workers : wpc[w] = "exited" => stop
    /\ spc = "joined" => \A w \in Workers : wpc[w] = "exited"

\* An owed task is queued, held or done; and while one is queued, some worker is
\* left that will look at the queue again.
OwedInv ==
    /\ owed \subseteq Queued \cup Held \cup ready
    /\ owed \cap Queued # {} /\ Workers # {} => \E w \in Workers : wpc[w] # "exited"

\* A task is in one place only.
PlacesInv ==
    /\ Queued \cup Held \cup ready \subseteq submitted
    /\ \A i, j \in DOMAIN tasks : tasks[i] = tasks[j] => i = j
    /\ \A v, w \in Busy : wtask[v] = wtask[w] => v = w
    /\ Queued \cap Held = {} /\ Queued \cap ready = {} /\ Held \cap ready = {}

-----------------------------------------------------------------------------
(* The queue as a set *)

\* enqueue adds its task and nothing else.
LEMMA QueuedAppend ==
    ASSUME tasks \in Seq(Tasks), NEW t \in Tasks, tasks' = Append(tasks, t)
    PROVE  /\ tasks' \in Seq(Tasks)
           /\ Queued' = Queued \cup {t}
           /\ DOMAIN tasks' = DOMAIN tasks \cup {Len(tasks) + 1}
           /\ \A i \in DOMAIN tasks : tasks'[i] = tasks[i]
           /\ tasks'[Len(tasks) + 1] = t
           /\ Len(tasks) + 1 \notin DOMAIN tasks
<1>1. Len(tasks) \in Nat /\ DOMAIN tasks = 1 .. Len(tasks)
  BY LenProperties
<1>2. tasks' \in Seq(Tasks) /\ Len(tasks') = Len(tasks) + 1
  OBVIOUS
<1>3. DOMAIN tasks' = 1 .. (Len(tasks) + 1)
  BY <1>2, LenProperties
<1>4. \A i \in 1 .. (Len(tasks) + 1) :
         tasks'[i] = IF i = Len(tasks) + 1 THEN t ELSE tasks[i]
  BY <1>1
<1>5. DOMAIN tasks' = DOMAIN tasks \cup {Len(tasks) + 1}
  BY <1>1, <1>3
<1>. QED BY <1>1, <1>2, <1>3, <1>4, <1>5 DEF Queued

\* A worker takes the head off.
LEMMA QueuedTail ==
    ASSUME tasks \in Seq(Tasks), tasks # <<>>, tasks' = Tail(tasks)
    PROVE  /\ tasks' \in Seq(Tasks)
           /\ Head(tasks) \in Tasks /\ Head(tasks) = tasks[1] /\ 1 \in DOMAIN tasks
           /\ \A i \in DOMAIN tasks' : i + 1 \in DOMAIN tasks /\ tasks'[i] = tasks[i + 1] /\ i \in Nat \ {0}
           /\ Queued = Queued' \cup {Head(tasks)}
<1>1. Len(tasks) \in Nat \ {0} /\ DOMAIN tasks = 1 .. Len(tasks)
  BY LenProperties, EmptySeq
<1>2. /\ tasks' \in Seq(Tasks) /\ Len(tasks') = Len(tasks) - 1
      /\ Head(tasks) \in Tasks /\ Head(tasks) = tasks[1]
      /\ \A i \in 1 .. Len(tasks') : tasks'[i] = tasks[i + 1]
  BY HeadTailProperties
<1>3. DOMAIN tasks' = 1 .. (Len(tasks) - 1)
  BY <1>2, LenProperties
<1>4. \A i \in DOMAIN tasks : i = 1 \/ (i - 1 \in DOMAIN tasks' /\ tasks'[i - 1] = tasks[i])
  BY <1>1, <1>2, <1>3
<1>5. \A i \in DOMAIN tasks' : i + 1 \in DOMAIN tasks /\ tasks'[i] = tasks[i + 1] /\ i \in Nat \ {0}
  BY <1>1, <1>2, <1>3
<1>6. 1 \in DOMAIN tasks
  BY <1>1
<1>7. Queued \subseteq Queued' \cup {Head(tasks)}
  BY <1>2, <1>4 DEF Queued
<1>8. Queued' \cup {Head(tasks)} \subseteq Queued
  BY <1>2, <1>5, <1>6 DEF Queued
<1>. QED BY <1>2, <1>5, <1>6, <1>7, <1>8

-----------------------------------------------------------------------------
(* Types *)

\* The initial values are of their types.
LEMMA TypingInit == Init => Typing
BY EmptySeq DEF Init, Typing, Busy, Callers

\* Each step keeps the types.
LEMMA TypingNext == Typing /\ [Next]_vars => Typing'
<1>. SUFFICES ASSUME Typing, [Next]_vars PROVE Typing'
  OBVIOUS
<1>. USE DEF Typing, Busy
<1>1. ASSUME NEW c \in Callers, NEW t \in Tasks, EnqueuePush(c, t) PROVE Typing'
  BY <1>1, QueuedAppend DEF EnqueuePush
<1>2. ASSUME NEW c \in Callers, EnqueueNotify(c) PROVE Typing'
  BY <1>2 DEF EnqueueNotify, Waiting
<1>3. ASSUME NEW w \in Workers, WorkerWait(w) PROVE Typing'
  BY <1>3 DEF WorkerWait
<1>4. ASSUME NEW w \in Workers, WorkerExit(w) PROVE Typing'
  BY <1>4 DEF WorkerExit
<1>5. ASSUME NEW w \in Workers, WorkerTake(w) PROVE Typing'
  <2>1. Head(tasks) \in Tasks /\ tasks' \in Seq(Tasks)
    BY <1>5, QueuedTail DEF WorkerTake
  <2>. QED BY <1>5, <2>1, NoTaskAssumption DEF WorkerTake
<1>6. ASSUME NEW w \in Workers, WorkerStart(w) PROVE Typing'
  BY <1>6 DEF WorkerStart
<1>7. ASSUME NEW w \in Workers, WorkerFinish(w) PROVE Typing'
  BY <1>7 DEF WorkerFinish
<1>8. ASSUME NEW w \in Workers, WorkerUncount(w) PROVE Typing'
  BY <1>8 DEF WorkerUncount
<1>9. ASSUME NEW w \in Workers, WorkerWakeSpuriously(w) PROVE Typing'
  BY <1>9 DEF WorkerWakeSpuriously
<1>10. CASE Stop
  BY <1>10 DEF Stop, StopSetFlag, StopNotifyAll, StopJoined
<1>11. CASE Terminated \/ UNCHANGED vars
  BY <1>11 DEF Terminated, vars
<1>. QED
  BY <1>1, <1>2, <1>3, <1>4, <1>5, <1>6, <1>7, <1>8, <1>9, <1>10, <1>11
  DEF Next, Enqueue, Worker

\* The workers between the increment and the decrement of active_tasks_.
LEMMA CountNext == Typing /\ CountInv /\ [Next]_vars => CountInv'
<1>. SUFFICES ASSUME Typing, CountInv, [Next]_vars PROVE CountInv'
  OBVIOUS
<1>. IsFiniteSet(Active)
  BY ThreadsAssumption, FS_Subset DEF Active
<1>1. ASSUME UNCHANGED active, Active' = Active PROVE CountInv'
  BY <1>1 DEF CountInv
<1>2. ASSUME NEW w \in Workers, WorkerStart(w) PROVE CountInv'
  <2>1. Active' = Active \cup {w} /\ w \notin Active
    BY <1>2 DEF WorkerStart, Active, Typing
  <2>2. Cardinality(Active') = Cardinality(Active) + 1
    BY <2>1, FS_AddElement
  <2>. QED BY <1>2, <2>2 DEF WorkerStart, CountInv
<1>3. ASSUME NEW w \in Workers, WorkerUncount(w) PROVE CountInv'
  <2>1. Active' = Active \ {w} /\ w \in Active
    BY <1>3 DEF WorkerUncount, Active, Typing
  <2>2. Cardinality(Active') = Cardinality(Active) - 1
    BY <2>1, FS_RemoveElement
  <2>. QED BY <1>3, <2>2 DEF WorkerUncount, CountInv
<1>4. ASSUME NEW c \in Callers, Enqueue(c) PROVE UNCHANGED active /\ Active' = Active
  BY <1>4 DEF Enqueue, EnqueuePush, EnqueueNotify, Waiting, Active, Typing
<1>5. ASSUME NEW w \in Workers,
             \/ WorkerWait(w) \/ WorkerExit(w) \/ WorkerTake(w)
             \/ WorkerFinish(w) \/ WorkerWakeSpuriously(w)
      PROVE  UNCHANGED active /\ Active' = Active
  BY <1>5 DEF WorkerWait, WorkerExit, WorkerTake, WorkerFinish, WorkerWakeSpuriously,
              Active, Typing
<1>6. ASSUME Stop \/ Terminated \/ UNCHANGED vars PROVE UNCHANGED active /\ Active' = Active
  BY <1>6 DEF Stop, StopSetFlag, StopNotifyAll, StopJoined, Terminated, vars, Active, Typing
<1>. QED
  BY <1>1, <1>2, <1>3, <1>4, <1>5, <1>6 DEF Next, Worker

\* Every value stays of its type; active_tasks_ never leaves 0 .. size().
THEOREM TypeCorrect == Spec => []TypeOK
<1>1. Init => Typing /\ CountInv
  <2>1. Init => Active = {}
    BY DEF Init, Active
  <2>. QED BY <2>1, TypingInit, FS_EmptySet DEF Init, CountInv
<1>2. Typing /\ CountInv /\ [Next]_vars => (Typing /\ CountInv)'
  BY TypingNext, CountNext
<1>3. Typing /\ CountInv => TypeOK
  <2>. SUFFICES ASSUME Typing, CountInv PROVE TypeOK
    OBVIOUS
  <2>1. Active \subseteq Workers
    BY DEF Active
  <2>2. /\ IsFiniteSet(Active) /\ Cardinality(Active) <= Cardinality(Workers)
    BY <2>1, ThreadsAssumption, FS_Subset
  <2>3. Cardinality(Active) \in Nat /\ Cardinality(Workers) \in Nat
    BY <2>2, ThreadsAssumption, FS_CardinalityType
  <2>4. active \in 0 .. Cardinality(Workers)
    BY <2>2, <2>3 DEF CountInv
  <2>. QED BY <2>4 DEF Typing, TypeOK
<1>. QED BY <1>1, <1>2, <1>3, PTL DEF Spec

-----------------------------------------------------------------------------
(* stop() drains the queue *)

\* Flag, calls of stop() and exited workers.
LEMMA FlagNext == Typing /\ FlagInv /\ [Next]_vars => FlagInv'
<1>. SUFFICES ASSUME Typing, FlagInv, [Next]_vars PROVE FlagInv'
  OBVIOUS
<1>. USE DEF Typing, FlagInv
<1>1. ASSUME NEW c \in Callers, Enqueue(c) PROVE FlagInv'
  BY <1>1 DEF Enqueue, EnqueuePush, EnqueueNotify, Waiting
<1>2. ASSUME NEW w \in Workers, WorkerExit(w) PROVE FlagInv'
  BY <1>2 DEF WorkerExit
<1>3. ASSUME NEW w \in Workers,
             \/ WorkerWait(w) \/ WorkerTake(w) \/ WorkerStart(w) \/ WorkerFinish(w)
             \/ WorkerUncount(w) \/ WorkerWakeSpuriously(w)
      PROVE  FlagInv'
  BY <1>3 DEF WorkerWait, WorkerTake, WorkerStart, WorkerFinish, WorkerUncount,
              WorkerWakeSpuriously
<1>4. CASE StopSetFlag
  BY <1>4 DEF StopSetFlag
<1>5. CASE StopNotifyAll
  BY <1>5 DEF StopNotifyAll
<1>6. CASE StopJoined
  BY <1>6 DEF StopJoined
<1>7. CASE Terminated \/ UNCHANGED vars
  BY <1>7 DEF Terminated, vars
<1>. QED
  BY <1>1, <1>2, <1>3, <1>4, <1>5, <1>6, <1>7 DEF Next, Worker, Stop

\* No step loses an owed task, and the last worker leaves an empty queue.
LEMMA OwedNext == Typing /\ FlagInv /\ OwedInv /\ [Next]_vars => OwedInv'
<1>. SUFFICES ASSUME Typing, FlagInv, OwedInv, [Next]_vars PROVE OwedInv'
  OBVIOUS
<1>. USE DEF Typing
<1>1. ASSUME NEW c \in Callers, NEW t \in Tasks, EnqueuePush(c, t) PROVE OwedInv'
  <2>1. Queued' = Queued \cup {t} /\ Held' = Held /\ ready' = ready
    BY <1>1, QueuedAppend DEF EnqueuePush, Held, Busy
  <2>2. owed' \subseteq owed \cup {t} /\ wpc' = wpc
    BY <1>1 DEF EnqueuePush
  <2>3. ASSUME t \in owed' \ owed, Workers # {} PROVE \E w \in Workers : wpc[w] # "exited"
    <3>1. CASE c \in Workers
      BY <1>1, <3>1 DEF EnqueuePush
    <3>2. CASE ~stop
      BY <2>3, <3>2 DEF FlagInv
    <3>. QED BY <1>1, <2>3, <3>1, <3>2 DEF EnqueuePush
  <2>4. t \notin owed
    BY <1>1 DEF EnqueuePush
  <2>. QED BY <2>1, <2>2, <2>3, <2>4 DEF OwedInv
<1>2. ASSUME NEW w \in Workers, WorkerTake(w) PROVE OwedInv'
  <2>1. Queued = Queued' \cup {Head(tasks)} /\ UNCHANGED <<owed, ready>>
    BY <1>2, QueuedTail DEF WorkerTake
  <2>2. Busy' = Busy \cup {w} /\ w \notin Busy
    BY <1>2 DEF WorkerTake, Busy
  <2>3. Held' = Held \cup {Head(tasks)}
    BY <1>2, <2>2 DEF WorkerTake, Held, Busy
  <2>4. wpc'[w] # "exited"
    BY <1>2 DEF WorkerTake
  <2>. QED BY <2>1, <2>3, <2>4 DEF OwedInv
<1>3. ASSUME NEW w \in Workers, WorkerFinish(w) PROVE OwedInv'
  <2>1. UNCHANGED <<tasks, owed>> /\ ready' = ready \cup {wtask[w]} /\ wpc'[w] # "exited"
    BY <1>3 DEF WorkerFinish
  <2>2. Busy' = Busy \ {w} /\ \A v \in Busy' : wtask'[v] = wtask[v]
    BY <1>3 DEF WorkerFinish, Busy
  <2>3. Held \subseteq Held' \cup {wtask[w]}
    BY <2>2 DEF Held
  <2>. QED BY <2>1, <2>3 DEF OwedInv, Queued
<1>4. ASSUME UNCHANGED <<tasks, wtask, owed, ready>>, Busy' = Busy,
             tasks = <<>> \/ \A v \in Workers : wpc'[v] = "exited" => wpc[v] = "exited"
      PROVE  OwedInv'
  <2>1. Queued' = Queued /\ Held' = Held
    BY <1>4 DEF Queued, Held
  <2>2. tasks = <<>> => Queued = {}
    BY DEF Queued
  <2>. QED BY <1>4, <2>1, <2>2 DEF OwedInv
<1>5. ASSUME NEW c \in Callers, EnqueueNotify(c) PROVE OwedInv'
  BY <1>4, <1>5 DEF EnqueueNotify, Waiting, Busy
<1>6. ASSUME NEW w \in Workers,
             \/ WorkerWait(w) \/ WorkerExit(w) \/ WorkerStart(w) \/ WorkerUncount(w)
             \/ WorkerWakeSpuriously(w)
      PROVE  OwedInv'
  BY <1>4, <1>6 DEF WorkerWait, WorkerExit, WorkerStart, WorkerUncount, WorkerWakeSpuriously, Busy
<1>7. CASE Stop
  BY <1>4, <1>7 DEF Stop, StopSetFlag, StopNotifyAll, StopJoined, Busy
<1>8. CASE Terminated \/ UNCHANGED vars
  BY <1>4, <1>8 DEF Terminated, vars, Busy
<1>. QED
  BY <1>1, <1>2, <1>3, <1>5, <1>6, <1>7, <1>8 DEF Next, Enqueue, Worker

\* When stop() has returned, every owed task has run.
THEOREM StopDrainsHolds == Spec => []StopDrains
<1>1. Init => Typing /\ FlagInv /\ OwedInv
  <2>1. Init => FlagInv
    BY DEF Init, FlagInv
  <2>2. Init => OwedInv
    BY DEF Init, OwedInv, Queued
  <2>. QED BY <2>1, <2>2, TypingInit
<1>2. Typing /\ FlagInv /\ OwedInv /\ [Next]_vars => (Typing /\ FlagInv /\ OwedInv)'
  BY TypingNext, FlagNext, OwedNext
<1>3. FlagInv /\ OwedInv => StopDrains
  <2>. SUFFICES ASSUME FlagInv, OwedInv, spc = "joined", Workers # {}
                PROVE  owed \subseteq ready
    BY DEF StopDrains
  <2>1. \A w \in Workers : wpc[w] = "exited"
    BY DEF FlagInv
  <2>2. Held = {} /\ owed \cap Queued = {}
    BY <2>1 DEF Held, Busy, OwedInv
  <2>. QED BY <2>2 DEF OwedInv
<1>. QED BY <1>1, <1>2, <1>3, PTL DEF Spec

-----------------------------------------------------------------------------
(* No wake-up is lost *)

\* The notifications on their way and the workers about to look at the queue.
Notifying == {c \in Callers : epc[c] = "notify"}
Looking == {w \in Workers : wpc[w] = "lock"}

LEMMA WakersFinite ==
    /\ IsFiniteSet(Notifying) /\ Cardinality(Notifying) \in Nat
    /\ IsFiniteSet(Looking) /\ Cardinality(Looking) \in Nat
<1>1. IsFiniteSet(Callers)
  BY ThreadsAssumption, FS_Union DEF Callers
<1>2. IsFiniteSet(Notifying) /\ IsFiniteSet(Looking)
  BY <1>1, ThreadsAssumption, FS_Subset DEF Notifying, Looking
<1>. QED BY <1>2, FS_CardinalityType

\* A worker falls asleep only at an empty queue; whoever takes a notification or
\* a task from the right side of the inequality takes one from the left, too.
LEMMA WakeupNext == Typing /\ NoLostWakeup /\ [Next]_vars => NoLostWakeup'
<1>. SUFFICES ASSUME Typing, NoLostWakeup, [Next]_vars, Waiting' # {}
              PROVE  Len(tasks') <= Cardinality(Notifying') + Cardinality(Looking')
  BY DEF NoLostWakeup, Notifying, Looking
<1>. USE DEF Typing
<1>0. /\ Len(tasks) \in Nat
      /\ Waiting # {} => Len(tasks) <= Cardinality(Notifying) + Cardinality(Looking)
  BY LenProperties DEF NoLostWakeup, Notifying, Looking
<1>w. /\ IsFiniteSet(Notifying) /\ Cardinality(Notifying) \in Nat
      /\ IsFiniteSet(Looking) /\ Cardinality(Looking) \in Nat
  BY WakersFinite
<1>x. /\ IsFiniteSet(Notifying') /\ Cardinality(Notifying') \in Nat
      /\ IsFiniteSet(Looking') /\ Cardinality(Looking') \in Nat
  <2>1. IsFiniteSet(Callers)
    BY ThreadsAssumption, FS_Union DEF Callers
  <2>2. IsFiniteSet(Notifying') /\ IsFiniteSet(Looking')
    BY <2>1, ThreadsAssumption, FS_Subset DEF Notifying, Looking
  <2>. QED BY <2>2, FS_CardinalityType
<1>e. tasks' = <<>> => Len(tasks') = 0
  OBVIOUS
<1>1. ASSUME NEW c \in Callers, NEW t \in Tasks, EnqueuePush(c, t)
      PROVE  Len(tasks') <= Cardinality(Notifying') + Cardinality(Looking')
  <2>1. Len(tasks') = Len(tasks) + 1 /\ Looking' = Looking /\ Waiting' = Waiting
    BY <1>1 DEF EnqueuePush, Looking, Waiting
  <2>2. Notifying' = Notifying \cup {c} /\ c \notin Notifying
    BY <1>1 DEF EnqueuePush, Notifying
  <2>3. Cardinality(Notifying') = Cardinality(Notifying) + 1
    BY <2>2, <1>w, FS_AddElement
  <2>. QED BY <1>0, <1>w, <2>1, <2>3
<1>2. ASSUME NEW c \in Callers, EnqueueNotify(c)
      PROVE  Len(tasks') <= Cardinality(Notifying') + Cardinality(Looking')
  <2>1. Notifying' = Notifying \ {c} /\ c \in Notifying /\ tasks' = tasks
    BY <1>2 DEF EnqueueNotify, Notifying
  <2>2. Cardinality(Notifying') = Cardinality(Notifying) - 1
    BY <2>1, <1>w, FS_RemoveElement
  <2>3. Waiting # {}
    BY <1>2 DEF EnqueueNotify, Waiting
  <2>4. PICK w \in Waiting : wpc' = [wpc EXCEPT ![w] = "lock"]
    BY <1>2, <2>3 DEF EnqueueNotify
  <2>5. Looking' = Looking \cup {w} /\ w \notin Looking
    BY <2>4 DEF Looking, Waiting
  <2>6. Cardinality(Looking') = Cardinality(Looking) + 1
    BY <2>5, <1>w, FS_AddElement
  <2>. QED BY <1>0, <1>w, <2>1, <2>2, <2>3, <2>6
<1>3. ASSUME NEW w \in Workers, WorkerWait(w) \/ WorkerExit(w)
      PROVE  Len(tasks') <= Cardinality(Notifying') + Cardinality(Looking')
  BY <1>3, <1>e, <1>x DEF WorkerWait, WorkerExit
<1>4. ASSUME NEW w \in Workers, WorkerTake(w)
      PROVE  Len(tasks') <= Cardinality(Notifying') + Cardinality(Looking')
  <2>1. Len(tasks') = Len(tasks) - 1
    BY <1>4, HeadTailProperties DEF WorkerTake
  <2>2. Looking' = Looking \ {w} /\ w \in Looking
    BY <1>4 DEF WorkerTake, Looking
  <2>3. Notifying' = Notifying /\ Waiting' = Waiting
    BY <1>4 DEF WorkerTake, Notifying, Waiting
  <2>4. Cardinality(Looking') = Cardinality(Looking) - 1
    BY <2>2, <1>w, FS_RemoveElement
  <2>. QED BY <1>0, <1>w, <2>1, <2>3, <2>4
<1>5. ASSUME UNCHANGED <<tasks, epc>>, Waiting' \subseteq Waiting, Looking \subseteq Looking'
      PROVE  Len(tasks') <= Cardinality(Notifying') + Cardinality(Looking')
  <2>1. Notifying' = Notifying /\ Waiting # {}
    BY <1>5 DEF Notifying
  <2>2. Cardinality(Looking) <= Cardinality(Looking')
    BY <1>5, <1>x, FS_Subset
  <2>. QED BY <1>0, <1>5, <1>w, <1>x, <2>1, <2>2
<1>6. ASSUME NEW w \in Workers,
             \/ WorkerStart(w) \/ WorkerFinish(w) \/ WorkerUncount(w) \/ WorkerWakeSpuriously(w)
      PROVE  Len(tasks') <= Cardinality(Notifying') + Cardinality(Looking')
  BY <1>5, <1>6 DEF WorkerStart, WorkerFinish, WorkerUncount, WorkerWakeSpuriously,
                    Waiting, Looking
<1>7. ASSUME Stop \/ Terminated \/ UNCHANGED vars
      PROVE  Len(tasks') <= Cardinality(Notifying') + Cardinality(Looking')
  BY <1>5, <1>7 DEF Stop, StopSetFlag, StopNotifyAll, StopJoined, Terminated, vars,
                    Waiting, Looking
<1>. QED
  BY <1>1, <1>2, <1>3, <1>4, <1>6, <1>7 DEF Next, Enqueue, Worker

\* While a worker sleeps, every queued task has somebody to see to it.
THEOREM NoWakeupLost == Spec => []NoLostWakeup
<1>1. Init => NoLostWakeup
  BY DEF Init, NoLostWakeup, Waiting
<1>2. Init => Typing
  BY TypingInit
<1>3. Typing /\ NoLostWakeup /\ [Next]_vars => Typing' /\ NoLostWakeup'
  BY TypingNext, WakeupNext
<1>. QED BY <1>1, <1>2, <1>3, PTL DEF Spec

-----------------------------------------------------------------------------
(* The pool implements TaskLifecycle *)

\* What enqueue, taking a task and finishing it do to the three places.
LEMMA PushPlaces ==
    ASSUME Typing, PlacesInv, NEW c \in Callers, NEW t \in Tasks, EnqueuePush(c, t)
    PROVE  PlacesInv' /\ Lifecycle!Submit(t)
<1>. USE DEF Typing
<1>1. /\ tasks' = Append(tasks, t) /\ t \notin submitted /\ submitted' = submitted \cup {t}
      /\ UNCHANGED <<wpc, wtask, ready>>
  BY DEF EnqueuePush
<1>2. Busy' = Busy /\ Held' = Held
  BY <1>1 DEF Busy, Held
<1>3. t \notin Queued \cup Held \cup ready
  BY <1>1 DEF PlacesInv
<1>4. /\ Queued' = Queued \cup {t}
      /\ DOMAIN tasks' = DOMAIN tasks \cup {Len(tasks) + 1}
      /\ \A i \in DOMAIN tasks : tasks'[i] = tasks[i]
      /\ tasks'[Len(tasks) + 1] = t
  BY <1>1, QueuedAppend
<1>5. \A i, j \in DOMAIN tasks' : tasks'[i] = tasks'[j] => i = j
  BY <1>3, <1>4 DEF PlacesInv, Queued
<1>6. PlacesInv'
  BY <1>1, <1>2, <1>3, <1>4, <1>5 DEF PlacesInv
<1>7. Lifecycle!Known \subseteq Queued \cup Held \cup ready \cup {NoTask}
  BY DEF Lifecycle!Known, Queued, Held
<1>8. t # NoTask
  BY NoTaskAssumption
<1>9. Lifecycle!Submit(t)
  BY <1>1, <1>3, <1>7, <1>8 DEF Lifecycle!Submit
<1>. QED BY <1>6, <1>9

LEMMA TakePlaces ==
    ASSUME Typing, PlacesInv, NEW w \in Workers, WorkerTake(w)
    PROVE  PlacesInv' /\ Lifecycle!Begin(w)
<1>. USE DEF Typing
<1>1. /\ tasks # <<>> /\ tasks' = Tail(tasks) /\ UNCHANGED <<submitted, ready>>
      /\ wtask' = [wtask EXCEPT ![w] = Head(tasks)]
  BY DEF WorkerTake
<1>2. Busy' = Busy \cup {w} /\ w \notin Busy
  BY DEF WorkerTake, Busy
<1>3. /\ wtask'[w] = Head(tasks) /\ \A v \in Busy : wtask'[v] = wtask[v]
  BY <1>1, <1>2 DEF Busy
<1>4. Held' = Held \cup {Head(tasks)}
  BY <1>2, <1>3 DEF Held
<1>5. /\ Head(tasks) = tasks[1] /\ 1 \in DOMAIN tasks
      /\ \A i \in DOMAIN tasks' : i + 1 \in DOMAIN tasks /\ tasks'[i] = tasks[i + 1] /\ i \in Nat \ {0}
      /\ Queued = Queued' \cup {Head(tasks)}
  BY <1>1, QueuedTail
<1>6. Head(tasks) \notin Queued'
  <2>. SUFFICES ASSUME NEW i \in DOMAIN tasks', tasks'[i] = Head(tasks) PROVE FALSE
    BY DEF Queued
  <2>1. tasks[i + 1] = tasks[1] /\ i + 1 \in DOMAIN tasks /\ i \in Nat \ {0}
    BY <1>5
  <2>2. i + 1 = 1
    BY <1>5, <2>1 DEF PlacesInv
  <2>. QED BY <2>1, <2>2
<1>7. \A i, j \in DOMAIN tasks' : tasks'[i] = tasks'[j] => i = j
  <2>. SUFFICES ASSUME NEW i \in DOMAIN tasks', NEW j \in DOMAIN tasks', tasks'[i] = tasks'[j]
                PROVE  i = j
    OBVIOUS
  <2>1. i + 1 = j + 1
    BY <1>5 DEF PlacesInv
  <2>. QED BY <1>5, <2>1
<1>8. Head(tasks) \notin Held \cup ready /\ Head(tasks) \in submitted
  BY <1>5 DEF PlacesInv
<1>9. \A u, v \in Busy' : wtask'[u] = wtask'[v] => u = v
  BY <1>2, <1>3, <1>8 DEF PlacesInv, Held
<1>10. PlacesInv'
  BY <1>1, <1>4, <1>5, <1>6, <1>7, <1>8, <1>9 DEF PlacesInv
<1>11. Lifecycle!Begin(w)
  BY <1>1, <1>2 DEF Lifecycle!Begin
<1>. QED BY <1>10, <1>11

LEMMA FinishPlaces ==
    ASSUME Typing, PlacesInv, NEW w \in Workers, WorkerFinish(w)
    PROVE  PlacesInv' /\ Lifecycle!Finish(w)
<1>. USE DEF Typing
<1>1. /\ UNCHANGED <<tasks, submitted>> /\ ready' = ready \cup {wtask[w]} /\ w \in Busy
  BY DEF WorkerFinish, Busy
<1>2. /\ Busy' = Busy \ {w} /\ \A v \in Busy' : wtask'[v] = wtask[v]
  BY DEF WorkerFinish, Busy
<1>3. Held' = Held \ {wtask[w]} /\ wtask[w] \in Held
  BY <1>1, <1>2 DEF Held, PlacesInv
<1>4. Queued' = Queued
  BY <1>1 DEF Queued
<1>5. PlacesInv'
  BY <1>1, <1>2, <1>3, <1>4 DEF PlacesInv
<1>6. Lifecycle!Finish(w)
  BY <1>1 DEF WorkerFinish, Lifecycle!Finish
<1>. QED BY <1>5, <1>6

\* The other steps leave the three places alone.
LEMMA SamePlaces ==
    ASSUME PlacesInv, UNCHANGED <<tasks, wtask, submitted, ready>>, Busy' = Busy
    PROVE  PlacesInv' /\ UNCHANGED Lifecycle!vars
<1>1. Queued' = Queued /\ Held' = Held
  BY DEF Queued, Held
<1>. QED BY <1>1 DEF PlacesInv, Lifecycle!vars

LEMMA PlacesNext ==
    Typing /\ PlacesInv /\ [Next]_vars => PlacesInv' /\ [Lifecycle!Next]_(Lifecycle!vars)
<1>. SUFFICES ASSUME Typing, PlacesInv, [Next]_vars
              PROVE  PlacesInv' /\ [Lifecycle!Next]_(Lifecycle!vars)
  OBVIOUS
<1>1. ASSUME NEW c \in Callers, NEW t \in Tasks, EnqueuePush(c, t)
      PROVE  PlacesInv' /\ Lifecycle!Next
  BY <1>1, PushPlaces DEF Lifecycle!Next
<1>2. ASSUME NEW w \in Workers, WorkerTake(w) PROVE PlacesInv' /\ Lifecycle!Next
  BY <1>2, TakePlaces DEF Lifecycle!Next
<1>3. ASSUME NEW w \in Workers, WorkerFinish(w) PROVE PlacesInv' /\ Lifecycle!Next
  BY <1>3, FinishPlaces DEF Lifecycle!Next
<1>4. ASSUME NEW c \in Callers, EnqueueNotify(c) PROVE PlacesInv' /\ UNCHANGED Lifecycle!vars
  BY <1>4, SamePlaces DEF EnqueueNotify, Waiting, Busy, Typing
<1>5. ASSUME NEW w \in Workers,
             \/ WorkerWait(w) \/ WorkerExit(w) \/ WorkerStart(w) \/ WorkerUncount(w)
             \/ WorkerWakeSpuriously(w)
      PROVE  PlacesInv' /\ UNCHANGED Lifecycle!vars
  BY <1>5, SamePlaces DEF WorkerWait, WorkerExit, WorkerStart, WorkerUncount,
                          WorkerWakeSpuriously, Busy, Typing
<1>6. ASSUME Stop \/ Terminated \/ UNCHANGED vars PROVE PlacesInv' /\ UNCHANGED Lifecycle!vars
  BY <1>6, SamePlaces DEF Stop, StopSetFlag, StopNotifyAll, StopJoined, Terminated, vars,
                          Busy, Typing
<1>. QED
  BY <1>1, <1>2, <1>3, <1>4, <1>5, <1>6 DEF Next, Enqueue, Worker

\* Tasks start at most once and in the order of the enqueue calls, and their
\* futures become ready once, after that.
THEOREM PoolImplementsLifecycle == Spec => ImplementsLifecycle
<1>1. Init => Typing /\ PlacesInv /\ Lifecycle!Init
  <2>1. Init => Busy = {} /\ Queued = {} /\ Held = {}
    BY DEF Init, Busy, Queued, Held
  <2>. QED BY <2>1, TypingInit DEF Init, PlacesInv, Lifecycle!Init
<1>2. Typing /\ PlacesInv /\ [Next]_vars
      => Typing' /\ PlacesInv' /\ [Lifecycle!Next]_(Lifecycle!vars)
  BY TypingNext, PlacesNext
<1>. QED BY <1>1, <1>2, PTL DEF Spec, ImplementsLifecycle, Lifecycle!Spec
===============================================================================
