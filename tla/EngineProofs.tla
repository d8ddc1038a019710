----------------------------- MODULE EngineProofs -----------------------------
(***************************************************************************)
(* Proofs about the engine and its scheduler: TaskScheduler, for any       *)
(* numbers of threads and tasks, any names, delays and intervals;          *)
(* EngineIngest, for any events and size of the queue; EngineLifecycle, for*)
(* any configurations, detectors and events, and any number of             *)
(* reconfigurations, snapshots and crashes.                                *)
(***************************************************************************)
EXTENDS EngineLifecycle, Induction, SequenceTheorems

(* TaskScheduler *)

Holding(t) == tpc[t] \in {"scan", "execute", "caught", "sweep"}

\* The pass of t has dealt with place i: run it if it was due, not yet swept it.
Dealt(t, i) ==
    \/ tpc[t] = "scan" /\ i < ti[t]
    \/ tpc[t] \in {"execute", "caught"} /\ i <= ti[t]
    \/ tpc[t] = "sweep" /\ i >= ti[t]

\* Each task is in the list once, and never after remove_task took it out.
ListInv ==
    /\ \A i, k \in 1 .. Len(tasks) : tasks[i] = tasks[k] => i = k
    /\ \A i \in 1 .. Len(tasks) : tasks[i] \in added \ removed

\* A thread in a pass has the mutex, and what it executes is the task at its index.
ThreadInv ==
    \A t \in Threads :
        /\ Holding(t) <=> mutex = t
        /\ Holding(t) => tnow[t] <= clock /\ ti[t] \in 1 .. Len(tasks) + 1
        /\ tpc[t] \in {"execute", "caught"} => ti[t] <= Len(tasks) /\ current[t] = tasks[ti[t]]
        /\ tpc[t] \notin {"execute", "caught"} => current[t] = NoJob
        /\ cpc = "idle" /\ ~running => tpc[t] = "none"

\* A one-shot task that was run and is still listed is due, and waits for the sweep
\* of the pass that ran it.
RanInv ==
    /\ \A j \in Jobs \ added : runs[j] = 0
    /\ \A i \in 1 .. Len(tasks) :
        tasks[i] \notin Repeating /\ runs[tasks[i]] > 0 =>
            nextRun[tasks[i]] <= clock /\ \E t \in Threads : Dealt(t, i)

\* A prompt one-shot task is due for every pass that can see it, so that it has been
\* run when the sweep comes.
PromptInv ==
    \A i \in 1 .. Len(tasks) : tasks[i] \in prompt \ Repeating =>
        /\ nextRun[tasks[i]] <= clock
        /\ \A t \in Threads : Holding(t) => nextRun[tasks[i]] <= tnow[t]
        /\ \A t \in Threads : Dealt(t, i) => runs[tasks[i]] > 0

SchedulerInv ==
    /\ TypeOK
    /\ ListInv
    /\ ThreadInv
    /\ RanInv
    /\ PromptInv
    /\ OneShotOnce
    /\ KeptUntilDone

-----------------------------------------------------------------------------
\* erase closes the gap.
LEMMA RemoveAtProperties ==
    ASSUME NEW S, NEW s \in Seq(S), NEW i \in 1 .. Len(s)
    PROVE  /\ RemoveAt(s, i) \in Seq(S)
           /\ Len(RemoveAt(s, i)) = Len(s) - 1
           /\ \A k \in 1 .. Len(s) - 1 : RemoveAt(s, i)[k] = IF k < i THEN s[k] ELSE s[k + 1]
<1>. DEFINE a == SubSeq(s, 1, i - 1)
            b == SubSeq(s, i + 1, Len(s))
<1>1. Len(s) \in Nat /\ \A k \in 1 .. Len(s) : s[k] \in S
  OBVIOUS
<1>2. /\ a \in Seq(S) /\ Len(a) = i - 1
      /\ \A k \in 1 .. i - 1 : a[k] = s[k]
  <2>1. /\ SubSeq(s, 1, i - 1) \in Seq(S)
        /\ Len(SubSeq(s, 1, i - 1)) = IF 1 <= i - 1 THEN (i - 1) - 1 + 1 ELSE 0
        /\ \A k \in 1 .. (i - 1) - 1 + 1 : SubSeq(s, 1, i - 1)[k] = s[1 + k - 1]
    <3>1. 1 \in Int /\ i - 1 \in Int /\ \A k \in 1 .. i - 1 : s[k] \in S
      BY <1>1
    <3>. QED BY <3>1, SubSeqProperties
  <2>. QED BY <2>1
<1>3. /\ b \in Seq(S) /\ Len(b) = Len(s) - i
      /\ \A k \in 1 .. Len(s) - i : b[k] = s[i + k]
  <2>1. /\ SubSeq(s, i + 1, Len(s)) \in Seq(S)
        /\ Len(SubSeq(s, i + 1, Len(s))) = IF i + 1 <= Len(s) THEN Len(s) - (i + 1) + 1 ELSE 0
        /\ \A k \in 1 .. Len(s) - (i + 1) + 1 :
              SubSeq(s, i + 1, Len(s))[k] = s[(i + 1) + k - 1]
    <3>1. i + 1 \in Int /\ Len(s) \in Int /\ \A k \in i + 1 .. Len(s) : s[k] \in S
      BY <1>1
    <3>. QED BY <3>1, SubSeqProperties
  <2>. QED BY <1>1, <2>1
<1>4. RemoveAt(s, i) = a \o b
  BY DEF RemoveAt
<1>. HIDE DEF a, b
<1>5. /\ a \o b \in Seq(S) /\ Len(a \o b) = Len(a) + Len(b)
      /\ \A k \in 1 .. Len(a) + Len(b) :
            (a \o b)[k] = IF k <= Len(a) THEN a[k] ELSE b[k - Len(a)]
  BY <1>2, <1>3, ConcatProperties
<1>6. Len(a) + Len(b) = Len(s) - 1
  BY <1>1, <1>2, <1>3
<1>7. ASSUME NEW k \in 1 .. Len(s) - 1
      PROVE  RemoveAt(s, i)[k] = IF k < i THEN s[k] ELSE s[k + 1]
  <2>1. CASE k < i
    BY <1>2, <1>4, <1>5, <1>6, <2>1
  <2>2. CASE k >= i
    <3>1. k - (i - 1) \in 1 .. Len(s) - i /\ i + (k - (i - 1)) = k + 1
      BY <1>1, <2>2
    <3>2. (a \o b)[k] = b[k - (i - 1)]
      BY <1>1, <1>2, <1>5, <1>6, <2>2
    <3>3. (a \o b)[k] = s[k + 1]
      BY <1>3, <3>1, <3>2
    <3>4. ~(k < i)
      BY <2>2
    <3>. QED BY <1>4, <3>3, <3>4
  <2>. QED BY <1>1, <2>1, <2>2
<1>. QED BY <1>4, <1>5, <1>6, <1>7

-----------------------------------------------------------------------------
\* What the list holds, by places.
LEMMA Listed ==
    ASSUME TypeOK
    PROVE  InList = {tasks[i] : i \in 1 .. Len(tasks)}
  BY DEF InList, ToSet

LEMMA SchedulerInitially == Init => SchedulerInv
<1>. SUFFICES ASSUME Init PROVE SchedulerInv
  OBVIOUS
<1>1. TypeOK
  <2>1. /\ clock \in 0 .. MaxTime /\ tasks \in Seq(Jobs) /\ nextRun \in [Jobs -> Nat]
        /\ tnow \in [Threads -> 0 .. MaxTime] /\ ti \in [Threads -> Nat]
        /\ runs \in [Jobs -> 0 .. 2]
    BY TimeAssumption DEF Init
  <2>. QED BY <2>1 DEF Init, TypeOK
<1>2. ListInv /\ RanInv /\ PromptInv /\ OneShotOnce /\ KeptUntilDone
  <2>1. tasks = <<>> /\ added = {} /\ prompt = {} /\ runs = [j \in Jobs |-> 0]
    BY DEF Init
  <2>2. Len(tasks) = 0
    BY <2>1
  <2>. QED BY <2>1, <2>2 DEF ListInv, RanInv, PromptInv, OneShotOnce, KeptUntilDone
<1>3. ThreadInv
  BY NoThreadAssumption DEF Init, ThreadInv, Holding
<1>. QED BY <1>1, <1>2, <1>3 DEF SchedulerInv

LEMMA TickStep == SchedulerInv /\ Tick => SchedulerInv'
<1>. SUFFICES ASSUME SchedulerInv, Tick PROVE SchedulerInv'
  OBVIOUS
<1>1. /\ clock \in Nat /\ clock' = clock + 1 /\ clock' \in 0 .. MaxTime
      /\ UNCHANGED <<listVars, mutex, running, threadVars, cpc, runs>>
  BY TimeAssumption DEF Tick, SchedulerInv, TypeOK
<1>2. TypeOK' /\ ListInv' /\ OneShotOnce' /\ KeptUntilDone'
  BY <1>1
  DEF listVars, threadVars, SchedulerInv, TypeOK, ListInv, OneShotOnce, KeptUntilDone, InList
<1>3. ThreadInv'
  BY <1>1 DEF listVars, threadVars, SchedulerInv, TypeOK, ThreadInv, Holding
<1>4. RanInv'
  BY <1>1 DEF listVars, threadVars, SchedulerInv, TypeOK, ListInv, RanInv, Holding, Dealt
<1>5. PromptInv'
  BY <1>1 DEF listVars, threadVars, SchedulerInv, TypeOK, ListInv, PromptInv, Holding, Dealt
<1>. QED BY <1>2, <1>3, <1>4, <1>5 DEF SchedulerInv

-----------------------------------------------------------------------------
\* While the mutex is free no pass is under way: nothing that ran waits for a sweep.
LEMMA FreeMutex ==
    ASSUME SchedulerInv, mutex = NoThread
    PROVE  /\ \A t \in Threads : ~Holding(t) /\ current[t] = NoJob
           /\ \A t \in Threads, i \in 1 .. Len(tasks) : ~Dealt(t, i)
           /\ \A i \in 1 .. Len(tasks) : tasks[i] \notin Repeating => runs[tasks[i]] = 0
<1>1. \A t \in Threads : ~Holding(t)
  BY NoThreadAssumption DEF SchedulerInv, ThreadInv
<1>2. \A t \in Threads, i \in 1 .. Len(tasks) : ~Dealt(t, i)
  BY <1>1 DEF Holding, Dealt
<1>3. \A i \in 1 .. Len(tasks) : tasks[i] \in Jobs
  BY DEF SchedulerInv, TypeOK
<1>4. \A i \in 1 .. Len(tasks) : runs[tasks[i]] \in 0 .. 2
  BY <1>3 DEF SchedulerInv, TypeOK
<1>. QED BY <1>1, <1>2, <1>4 DEF SchedulerInv, ThreadInv, RanInv, Holding

LEMMA AddTaskStep ==
    ASSUME SchedulerInv, NEW j \in Jobs, NEW delay \in Delays, AddTask(j, delay)
    PROVE  SchedulerInv'
<1>1. /\ mutex = NoThread /\ j \notin added
      /\ tasks' = Append(tasks, j)
      /\ nextRun' = [nextRun EXCEPT ![j] = clock + delay]
      /\ added' = added \cup {j}
      /\ prompt' = IF delay = 0 THEN prompt \cup {j} ELSE prompt
      /\ UNCHANGED <<clock, mutex, running, threadVars, cpc, removed, runs>>
  BY DEF AddTask
<1>2. clock + delay \in Nat /\ clock \in Nat /\ delay \in Nat
  BY TimeAssumption DEF SchedulerInv, TypeOK
<1>3. /\ tasks \in Seq(Jobs) /\ Len(tasks) \in Nat
      /\ tasks' \in Seq(Jobs) /\ Len(tasks') = Len(tasks) + 1 /\ tasks'[Len(tasks) + 1] = j
      /\ \A i \in 1 .. Len(tasks) : tasks'[i] = tasks[i] /\ tasks[i] \in added /\ tasks[i] # j
      /\ \A i \in 1 .. Len(tasks') : i \in 1 .. Len(tasks) \/ i = Len(tasks) + 1
  BY <1>1 DEF SchedulerInv, TypeOK, ListInv
<1>4. \A t \in Threads : ~Holding(t)
  BY <1>1, FreeMutex
<1>5. \A t \in Threads, i \in 1 .. Len(tasks') : ~Dealt(t, i)'
  BY <1>1, <1>4 DEF Holding, Dealt, threadVars
<1>6. TypeOK'
  BY <1>1, <1>2, <1>3 DEF threadVars, SchedulerInv, TypeOK
<1>7. ListInv'
  <2>1. \A i, k \in 1 .. Len(tasks') : tasks'[i] = tasks'[k] => i = k
    BY <1>3 DEF SchedulerInv, ListInv
  <2>2. \A i \in 1 .. Len(tasks') : tasks'[i] \in added' \ removed'
    BY <1>1, <1>3 DEF SchedulerInv, TypeOK, ListInv
  <2>. QED BY <2>1, <2>2 DEF ListInv
<1>8. ThreadInv'
  BY <1>1, <1>4 DEF threadVars, SchedulerInv, ThreadInv, Holding
<1>9. RanInv'
  <2>1. runs[j] = 0 /\ \A i \in 1 .. Len(tasks) : tasks[i] \notin Repeating => runs[tasks[i]] = 0
    BY <1>1, FreeMutex DEF SchedulerInv, RanInv
  <2>. QED BY <1>1, <1>3, <2>1 DEF SchedulerInv, RanInv
<1>10. PromptInv'
  <2>1. ASSUME NEW i \in 1 .. Len(tasks'), tasks'[i] \in prompt' \ Repeating
        PROVE  nextRun'[tasks'[i]] <= clock'
    <3>1. CASE i = Len(tasks) + 1
      BY <1>1, <1>2, <1>3, <2>1, <3>1 DEF SchedulerInv, TypeOK
    <3>2. CASE i \in 1 .. Len(tasks)
      BY <1>1, <1>2, <1>3, <2>1, <3>2 DEF SchedulerInv, TypeOK, PromptInv
    <3>. QED BY <1>3, <3>1, <3>2
  <2>. QED BY <1>1, <1>4, <1>5, <2>1 DEF PromptInv, Holding, threadVars
<1>11. InList' = InList \cup {j}
  BY <1>1, <1>3 DEF InList, ToSet
<1>12. OneShotOnce' /\ KeptUntilDone'
  BY <1>1, <1>11 DEF SchedulerInv, OneShotOnce, KeptUntilDone
<1>. QED BY <1>6, <1>7, <1>8, <1>9, <1>10, <1>12 DEF SchedulerInv

LEMMA RemoveTaskStep ==
    ASSUME SchedulerInv, NEW name \in Names, RemoveTask(name)
    PROVE  SchedulerInv'
<1>0. PICK n \in 0 .. Len(tasks) :
        \E kept \in [1 .. n -> {i \in DOMAIN tasks : NameOf[tasks[i]] # name}] :
            /\ \A i, k \in 1 .. n : i < k => kept[i] < kept[k]
            /\ \A i \in DOMAIN tasks : NameOf[tasks[i]] # name => \E k \in 1 .. n : kept[k] = i
            /\ tasks' = [k \in 1 .. n |-> tasks[kept[k]]]
  BY DEF RemoveTask, EraseNamed
<1>1. PICK kept \in [1 .. n -> {i \in DOMAIN tasks : NameOf[tasks[i]] # name}] :
        /\ \A i, k \in 1 .. n : i < k => kept[i] < kept[k]
        /\ \A i \in DOMAIN tasks : NameOf[tasks[i]] # name => \E k \in 1 .. n : kept[k] = i
        /\ tasks' = [k \in 1 .. n |-> tasks[kept[k]]]
  BY <1>0
<1>2. /\ mutex = NoThread
      /\ removed' = removed \cup {j \in InList : NameOf[j] = name}
      /\ UNCHANGED <<clock, nextRun, mutex, running, threadVars, cpc, added, prompt, runs>>
  BY DEF RemoveTask, EraseNamed
<1>3. tasks \in Seq(Jobs) /\ Len(tasks) \in Nat /\ DOMAIN tasks = 1 .. Len(tasks) /\ n \in Nat
  BY DEF SchedulerInv, TypeOK
<1>4. \A k \in 1 .. n : /\ kept[k] \in 1 .. Len(tasks) /\ NameOf[tasks[kept[k]]] # name
                        /\ tasks[kept[k]] \in Jobs
  BY <1>1, <1>3
<1>5. tasks' \in Seq(Jobs) /\ Len(tasks') = n /\ \A k \in 1 .. n : tasks'[k] = tasks[kept[k]]
  BY <1>1, <1>3, <1>4
<1>6. InList = {tasks[i] : i \in 1 .. Len(tasks)} /\ InList' = {tasks'[i] : i \in 1 .. n}
  <2>1. DOMAIN tasks' = 1 .. n
    BY <1>1
  <2>2. InList' = {tasks'[i] : i \in DOMAIN tasks'}
    BY DEF InList, ToSet
  <2>. QED BY <2>1, <2>2, Listed DEF SchedulerInv
<1>7. InList' = {j \in InList : NameOf[j] # name}
  BY <1>1, <1>3, <1>4, <1>5, <1>6
<1>8. \A t \in Threads : ~Holding(t)
  BY <1>2, FreeMutex
<1>9. \A t \in Threads, i \in 1 .. n : ~Dealt(t, i)'
  BY <1>2, <1>8 DEF Holding, Dealt, threadVars
<1>10. TypeOK'
  BY <1>2, <1>5, <1>6 DEF threadVars, SchedulerInv, TypeOK, ListInv
<1>11. ListInv'
  <2>1. \A i, k \in 1 .. n : kept[i] = kept[k] => i = k
    <3>1. SUFFICES ASSUME NEW i \in 1 .. n, NEW k \in 1 .. n, kept[i] = kept[k], i # k
                   PROVE  FALSE
      OBVIOUS
    <3>2. i \in Nat /\ k \in Nat /\ kept[i] \in Nat /\ kept[k] \in Nat
      BY <1>3, <1>4
    <3>3. (i < k => kept[i] < kept[k]) /\ (k < i => kept[k] < kept[i])
      BY <1>1
    <3>. QED BY <3>1, <3>2, <3>3
  <2>2. \A i, k \in 1 .. n : tasks'[i] = tasks'[k] => i = k
    BY <1>4, <1>5, <2>1 DEF SchedulerInv, ListInv
  <2>3. \A k \in 1 .. n : tasks'[k] \in added' \ removed'
    BY <1>2, <1>4, <1>5 DEF SchedulerInv, ListInv
  <2>. QED BY <1>5, <2>2, <2>3 DEF ListInv
<1>12. ThreadInv'
  BY <1>2, <1>8 DEF threadVars, SchedulerInv, ThreadInv, Holding
<1>13. RanInv'
  <2>1. \A k \in 1 .. n : tasks'[k] \notin Repeating => runs[tasks'[k]] = 0
    <3>1. \A i \in 1 .. Len(tasks) : tasks[i] \notin Repeating => runs[tasks[i]] = 0
      BY <1>2, FreeMutex
    <3>2. TAKE k \in 1 .. n
    <3>3. kept[k] \in 1 .. Len(tasks) /\ tasks'[k] = tasks[kept[k]]
      BY <1>4, <1>5
    <3>. QED BY <3>1, <3>3
  <2>. QED BY <1>2, <1>5, <2>1 DEF SchedulerInv, RanInv
<1>14. PromptInv'
  BY <1>2, <1>4, <1>5, <1>8, <1>9 DEF SchedulerInv, PromptInv, Holding, threadVars
<1>15. OneShotOnce' /\ KeptUntilDone'
  BY <1>2, <1>7 DEF SchedulerInv, OneShotOnce, KeptUntilDone
<1>. QED BY <1>10, <1>11, <1>12, <1>13, <1>14, <1>15 DEF SchedulerInv

-----------------------------------------------------------------------------
\* Steps outside of a pass: no thread that holds the mutex moves.
LEMMA OutsideStep ==
    ASSUME SchedulerInv,
           (\E t \in Threads : LoopTest(t) \/ LoopWake(t)) \/ Start \/ StopClearFlag \/ StopJoined
    PROVE  SchedulerInv'
<1>1. UNCHANGED <<clock, listVars, mutex, tnow, ti, current, runs>>
  BY DEF LoopTest, LoopWake, Start, StopClearFlag, StopJoined, threadVars
<1>2. TypeOK'
  BY <1>1
  DEF listVars, threadVars, SchedulerInv, TypeOK, Goto, LoopTest, LoopWake, Start, StopClearFlag, StopJoined
<1>3. \A t \in Threads :
        /\ Holding(t)' <=> Holding(t)
        /\ Holding(t) => tpc'[t] = tpc[t]
        /\ cpc' = "idle" /\ ~running' => tpc'[t] = "none"
  <2>1. CASE \E u \in Threads : LoopTest(u) \/ LoopWake(u)
    BY <2>1 DEF SchedulerInv, TypeOK, ThreadInv, LoopTest, LoopWake, Goto, Holding
  <2>2. CASE Start
    BY <2>2 DEF SchedulerInv, ThreadInv, Start, Holding
  <2>3. CASE StopClearFlag
    BY <2>3 DEF StopClearFlag, threadVars, Holding
  <2>4. CASE StopJoined
    BY <2>4 DEF StopJoined, Holding
  <2>. QED BY <2>1, <2>2, <2>3, <2>4
<1>4. ThreadInv'
  BY <1>1, <1>3 DEF listVars, SchedulerInv, ThreadInv, Holding
<1>5. \A t \in Threads, i \in 1 .. Len(tasks) : Dealt(t, i)' <=> Dealt(t, i)
  BY <1>1, <1>3 DEF Holding, Dealt
<1>6. ListInv' /\ OneShotOnce' /\ KeptUntilDone'
  BY <1>1 DEF listVars, SchedulerInv, ListInv, OneShotOnce, KeptUntilDone, InList
<1>7. RanInv' /\ PromptInv'
  BY <1>1, <1>3, <1>5 DEF listVars, SchedulerInv, RanInv, PromptInv
<1>. QED BY <1>2, <1>4, <1>6, <1>7 DEF SchedulerInv

-----------------------------------------------------------------------------
(* The steps of a pass of thread t *)

LEMMA OnlyHolder ==
    ASSUME SchedulerInv, NEW t \in Threads, Holding(t)
    PROVE  /\ mutex = t /\ t # NoThread
           /\ ti[t] \in 1 .. Len(tasks) + 1 /\ tnow[t] <= clock
           /\ tnow[t] \in Nat /\ clock \in Nat /\ Len(tasks) \in Nat
           /\ cpc # "idle" \/ running
           /\ \A u \in Threads \ {t} : ~Holding(u) /\ \A i \in 1 .. Len(tasks) : ~Dealt(u, i)
           /\ \A i \in 1 .. Len(tasks) : tasks[i] \in Jobs /\ runs[tasks[i]] \in 0 .. 2
                                         /\ nextRun[tasks[i]] \in Nat
<1>1. mutex = t /\ ti[t] \in 1 .. Len(tasks) + 1 /\ tnow[t] <= clock
  BY DEF SchedulerInv, ThreadInv
<1>2. t # NoThread /\ tnow[t] \in Nat /\ clock \in Nat /\ Len(tasks) \in Nat
  BY NoThreadAssumption, TimeAssumption DEF SchedulerInv, TypeOK
<1>3. \A u \in Threads \ {t} : ~Holding(u)
  BY <1>1 DEF SchedulerInv, ThreadInv
<1>4. \A i \in 1 .. Len(tasks) : tasks[i] \in Jobs
  BY DEF SchedulerInv, TypeOK
<1>. QED BY <1>1, <1>2, <1>3, <1>4 DEF SchedulerInv, TypeOK, ThreadInv, Holding, Dealt

\* A pass begins, at a moment that is not before any task was added.
LEMMA LoopLockStep ==
    ASSUME SchedulerInv, NEW t \in Threads, LoopLock(t)
    PROVE  SchedulerInv'
<1>1. /\ tpc[t] = "lock" /\ mutex = NoThread /\ mutex' = t
      /\ tnow' = [tnow EXCEPT ![t] = clock] /\ ti' = [ti EXCEPT ![t] = 1]
      /\ tpc' = [tpc EXCEPT ![t] = "scan"]
      /\ UNCHANGED <<clock, listVars, running, current, cpc, runs>>
  BY DEF LoopLock, Goto
<1>2. /\ \A u \in Threads : ~Holding(u)
      /\ \A i \in 1 .. Len(tasks) : tasks[i] \notin Repeating => runs[tasks[i]] = 0
  BY <1>1, FreeMutex
<1>3. /\ clock \in 0 .. MaxTime /\ clock \in Nat /\ Len(tasks) \in Nat /\ t # NoThread
      /\ tpc'[t] = "scan" /\ tnow'[t] = clock /\ ti'[t] = 1
      /\ \A u \in Threads \ {t} : tpc'[u] = tpc[u] /\ ~Holding(u)'
  BY <1>1, <1>2, NoThreadAssumption, TimeAssumption DEF SchedulerInv, TypeOK, Holding
<1>4. TypeOK'
  BY <1>1, <1>3 DEF listVars, SchedulerInv, TypeOK
<1>5. ThreadInv'
  BY <1>1, <1>3 DEF listVars, SchedulerInv, ThreadInv, Holding
<1>6. \A u \in Threads, i \in 1 .. Len(tasks) : ~Dealt(u, i)'
  BY <1>3 DEF Holding, Dealt
<1>7. ListInv' /\ OneShotOnce' /\ KeptUntilDone'
  BY <1>1 DEF listVars, SchedulerInv, ListInv, OneShotOnce, KeptUntilDone, InList
<1>8. RanInv'
  BY <1>1, <1>2 DEF listVars, SchedulerInv, RanInv
<1>9. PromptInv'
  BY <1>1, <1>3, <1>6 DEF listVars, SchedulerInv, PromptInv, Holding
<1>. QED BY <1>4, <1>5, <1>7, <1>8, <1>9 DEF SchedulerInv

\* A task that is not due is no prompt one.
LEMMA ScanSkipStep ==
    ASSUME SchedulerInv, NEW t \in Threads, ScanSkip(t)
    PROVE  SchedulerInv'
<1>1. /\ tpc[t] = "scan" /\ ti[t] <= Len(tasks) /\ nextRun[tasks[ti[t]]] > tnow[t]
      /\ ti' = [ti EXCEPT ![t] = @ + 1]
      /\ UNCHANGED <<clock, listVars, mutex, running, tpc, tnow, current, cpc, runs>>
  BY DEF ScanSkip
<1>2. Holding(t)
  BY <1>1 DEF Holding
<1>3. /\ ti[t] \in 1 .. Len(tasks) /\ Len(tasks) \in Nat /\ ti'[t] = ti[t] + 1
      /\ \A u \in Threads \ {t} : ~Holding(u) /\ ti'[u] = ti[u]
      /\ tnow[t] \in Nat /\ tnow[t] <= clock /\ clock \in Nat /\ nextRun[tasks[ti[t]]] \in Nat
  <2>1. /\ ti[t] \in 1 .. Len(tasks) + 1 /\ Len(tasks) \in Nat
        /\ \A u \in Threads \ {t} : ~Holding(u)
        /\ tnow[t] \in Nat /\ tnow[t] <= clock /\ clock \in Nat
        /\ \A i \in 1 .. Len(tasks) : nextRun[tasks[i]] \in Nat
    BY <1>2, OnlyHolder
  <2>2. ti[t] \in 1 .. Len(tasks)
    BY <1>1, <2>1
  <2>3. ti \in [Threads -> Nat]
    BY DEF SchedulerInv, TypeOK
  <2>4. ti'[t] = ti[t] + 1 /\ \A u \in Threads \ {t} : ti'[u] = ti[u]
    BY <1>1, <2>3
  <2>. QED BY <2>1, <2>2, <2>4
<1>4. TypeOK'
  <2>1. ti' \in [Threads -> Nat]
    BY <1>1 DEF SchedulerInv, TypeOK
  <2>. QED BY <1>1, <2>1 DEF listVars, SchedulerInv, TypeOK
<1>5. ThreadInv'
  BY <1>1, <1>3 DEF listVars, SchedulerInv, ThreadInv, Holding
<1>6. \A i \in 1 .. Len(tasks) :
        Dealt(t, i)' <=> Dealt(t, i) \/ i = ti[t]
  BY <1>1, <1>3 DEF Dealt
<1>7. \A u \in Threads \ {t}, i \in 1 .. Len(tasks) : ~Dealt(u, i) /\ ~Dealt(u, i)'
  BY <1>1, <1>3 DEF Dealt, Holding
<1>8. ListInv' /\ OneShotOnce' /\ KeptUntilDone'
  BY <1>1 DEF listVars, SchedulerInv, ListInv, OneShotOnce, KeptUntilDone, InList
<1>9. RanInv'
  BY <1>1, <1>6, <1>7 DEF listVars, SchedulerInv, RanInv
<1>10. tasks[ti[t]] \notin prompt \ Repeating
  BY <1>1, <1>2, <1>3 DEF SchedulerInv, PromptInv
<1>11. PromptInv'
  BY <1>1, <1>6, <1>7, <1>10 DEF listVars, SchedulerInv, PromptInv, Holding
<1>. QED BY <1>4, <1>5, <1>8, <1>9, <1>11 DEF SchedulerInv

\* A due task that does not repeat was not run before: whoever ran it would have
\* swept it out.
LEMMA ScanRunStep ==
    ASSUME SchedulerInv, NEW t \in Threads, ScanRun(t)
    PROVE  SchedulerInv'
<1>. DEFINE j == tasks[ti[t]]
<1>1. /\ tpc[t] = "scan" /\ ti[t] <= Len(tasks) /\ nextRun[j] <= tnow[t]
      /\ runs' = [runs EXCEPT ![j] = IF @ < 2 THEN @ + 1 ELSE @]
      /\ current' = [current EXCEPT ![t] = j]
      /\ tpc' = [tpc EXCEPT ![t] = "execute"]
      /\ UNCHANGED <<clock, listVars, mutex, running, tnow, ti, cpc>>
  BY DEF ScanRun, Goto
<1>2. Holding(t)
  BY <1>1 DEF Holding
<1>3. /\ ti[t] \in 1 .. Len(tasks) /\ Len(tasks) \in Nat /\ j \in Jobs
      /\ \A u \in Threads \ {t} : ~Holding(u)
      /\ tnow[t] \in Nat /\ tnow[t] <= clock /\ clock \in Nat /\ nextRun[j] \in Nat
      /\ runs[j] \in 0 .. 2
  BY <1>1, <1>2, OnlyHolder
<1>4. /\ tpc'[t] = "execute" /\ current'[t] = j
      /\ \A u \in Threads \ {t} : tpc'[u] = tpc[u] /\ current'[u] = current[u]
  BY <1>1 DEF SchedulerInv, TypeOK
<1>5. /\ runs'[j] \in 1 .. 2 /\ (runs[j] = 0 => runs'[j] = 1)
      /\ \A k \in Jobs \ {j} : runs'[k] = runs[k]
      /\ runs' \in [Jobs -> 0 .. 2]
  BY <1>1, <1>3 DEF SchedulerInv, TypeOK
<1>6. TypeOK'
  BY <1>1, <1>3, <1>5 DEF listVars, SchedulerInv, TypeOK
<1>7. ThreadInv'
  BY <1>1, <1>3, <1>4 DEF listVars, SchedulerInv, ThreadInv, Holding
<1>8. \A u \in Threads \ {t}, i \in 1 .. Len(tasks) : ~Dealt(u, i) /\ ~Dealt(u, i)'
  BY <1>1, <1>3, <1>4 DEF Dealt, Holding
<1>9. \A i \in 1 .. Len(tasks) : /\ Dealt(t, i) <=> i < ti[t]
                                 /\ Dealt(t, i)' <=> i <= ti[t]
  BY <1>1, <1>4 DEF Dealt
<1>10. j \notin Repeating => runs[j] = 0
  <2>1. ~Dealt(t, ti[t])
    BY <1>3, <1>9
  <2>. QED BY <1>3, <1>8, <2>1 DEF SchedulerInv, RanInv
<1>11. \A i \in 1 .. Len(tasks) : tasks[i] = j => i = ti[t]
  BY <1>3 DEF SchedulerInv, ListInv
<1>. HIDE DEF j
<1>12. ListInv' /\ KeptUntilDone'
  BY <1>1, <1>5 DEF listVars, SchedulerInv, TypeOK, ListInv, KeptUntilDone, InList
<1>13. OneShotOnce'
  BY <1>5, <1>10 DEF SchedulerInv, OneShotOnce
<1>14. \A i \in 1 .. Len(tasks) : tasks[i] \in Jobs
  BY <1>2, OnlyHolder
<1>15. RanInv'
  <2>1. \A k \in Jobs \ added' : runs'[k] = 0
    BY <1>1, <1>3, <1>5 DEF listVars, SchedulerInv, RanInv, ListInv, j
  <2>2. ASSUME NEW i \in 1 .. Len(tasks), tasks[i] \notin Repeating, runs'[tasks[i]] > 0
        PROVE  nextRun[tasks[i]] <= clock /\ Dealt(t, i)'
    <3>1. CASE i = ti[t]
      BY <1>1, <1>3, <1>9, <3>1 DEF j
    <3>2. CASE i # ti[t]
      <4>1. runs[tasks[i]] > 0
        BY <1>5, <1>11, <1>14, <2>2, <3>2
      <4>2. nextRun[tasks[i]] <= clock /\ Dealt(t, i)
        BY <1>8, <2>2, <4>1 DEF SchedulerInv, RanInv
      <4>. QED BY <1>3, <1>9, <4>2
    <3>. QED BY <3>1, <3>2
  <2>. QED BY <1>1, <2>1, <2>2 DEF listVars, RanInv
<1>16. PromptInv'
  <2>1. ASSUME NEW i \in 1 .. Len(tasks), tasks[i] \in prompt \ Repeating, i <= ti[t]
        PROVE  runs'[tasks[i]] > 0
    <3>1. CASE i = ti[t]
      BY <1>5, <3>1 DEF j
    <3>2. CASE i # ti[t]
      <4>1. runs[tasks[i]] > 0
        BY <1>3, <1>9, <2>1, <3>2 DEF SchedulerInv, PromptInv
      <4>. QED BY <1>5, <1>11, <1>14, <3>2, <4>1
    <3>. QED BY <3>1, <3>2
  <2>. QED BY <1>1, <1>2, <1>4, <1>8, <1>9, <2>1 DEF listVars, SchedulerInv, PromptInv, Holding
<1>. QED BY <1>6, <1>7, <1>12, <1>13, <1>15, <1>16 DEF SchedulerInv

\* A handler runs at the place of the task, and still under the mutex.
LEMMA TaskThrowsStep ==
    ASSUME SchedulerInv, NEW t \in Threads, TaskThrows(t)
    PROVE  SchedulerInv'
<1>1. /\ tpc[t] = "execute"
      /\ tpc' = [tpc EXCEPT ![t] = "caught"]
      /\ UNCHANGED <<clock, listVars, mutex, running, tnow, ti, current, cpc, runs>>
  BY DEF TaskThrows, Goto
<1>2. /\ tpc'[t] = "caught"
      /\ \A u \in Threads \ {t} : tpc'[u] = tpc[u]
  BY <1>1 DEF SchedulerInv, TypeOK
<1>3. TypeOK' /\ ListInv' /\ OneShotOnce' /\ KeptUntilDone'
  BY <1>1
  DEF listVars, SchedulerInv, TypeOK, ListInv, OneShotOnce, KeptUntilDone, InList
<1>4. \A u \in Threads : Holding(u)' <=> Holding(u)
  BY <1>1, <1>2 DEF Holding
<1>5. \A u \in Threads, i \in 1 .. Len(tasks) : Dealt(u, i)' <=> Dealt(u, i)
  BY <1>1, <1>2 DEF Dealt
<1>6. ThreadInv'
  BY <1>1, <1>2, <1>4 DEF listVars, SchedulerInv, ThreadInv
<1>7. RanInv' /\ PromptInv'
  BY <1>1, <1>4, <1>5 DEF listVars, SchedulerInv, RanInv, PromptInv
<1>. QED BY <1>3, <1>6, <1>7 DEF SchedulerInv

\* Only a repeating task becomes due again.
LEMMA ScanRanStep ==
    ASSUME SchedulerInv, NEW t \in Threads, ScanRan(t)
    PROVE  SchedulerInv'
<1>1. /\ tpc[t] \in {"execute", "caught"}
      /\ nextRun' = IF current[t] \in Repeating
                    THEN [nextRun EXCEPT ![current[t]] = tnow[t] + Interval]
                    ELSE nextRun
      /\ current' = [current EXCEPT ![t] = NoJob]
      /\ ti' = [ti EXCEPT ![t] = @ + 1]
      /\ tpc' = [tpc EXCEPT ![t] = "scan"]
      /\ UNCHANGED <<clock, tasks, added, prompt, removed, mutex, running, tnow, cpc, runs>>
  BY DEF ScanRan, Goto
<1>2. Holding(t)
  BY <1>1 DEF Holding
<1>3. /\ ti[t] \in 1 .. Len(tasks) /\ Len(tasks) \in Nat /\ current[t] = tasks[ti[t]]
      /\ \A u \in Threads \ {t} : ~Holding(u)
      /\ tnow[t] \in Nat /\ tnow[t] <= clock /\ clock \in Nat
      /\ \A i \in 1 .. Len(tasks) : tasks[i] \in Jobs
  BY <1>1, <1>2, OnlyHolder DEF SchedulerInv, ThreadInv
<1>4. /\ tpc'[t] = "scan" /\ current'[t] = NoJob /\ ti'[t] = ti[t] + 1
      /\ \A u \in Threads \ {t} : tpc'[u] = tpc[u] /\ current'[u] = current[u] /\ ti'[u] = ti[u]
  BY <1>1 DEF SchedulerInv, TypeOK
<1>5. nextRun' \in [Jobs -> Nat] /\ \A k \in Jobs \ Repeating : nextRun'[k] = nextRun[k]
  <2>1. tnow[t] + Interval \in Nat
    BY <1>3, TimeAssumption
  <2>2. nextRun \in [Jobs -> Nat] /\ current[t] \in Jobs
    BY <1>3 DEF SchedulerInv, TypeOK
  <2>. QED BY <1>1, <2>1, <2>2
<1>6. TypeOK'
  <2>1. ti' \in [Threads -> Nat]
    BY <1>1 DEF SchedulerInv, TypeOK
  <2>2. current' \in [Threads -> Jobs \cup {NoJob}]
    BY <1>1 DEF SchedulerInv, TypeOK
  <2>3. tpc' \in [Threads -> {"none", "test", "lock", "scan", "execute", "caught", "sweep",
                             "sleep", "exited"}]
    BY <1>1 DEF SchedulerInv, TypeOK
  <2>. QED BY <1>1, <1>5, <2>1, <2>2, <2>3 DEF SchedulerInv, TypeOK
<1>7. ThreadInv'
  BY <1>1, <1>3, <1>4 DEF SchedulerInv, ThreadInv, Holding
<1>8. \A u \in Threads \ {t}, i \in 1 .. Len(tasks) : ~Dealt(u, i) /\ ~Dealt(u, i)'
  BY <1>1, <1>3, <1>4 DEF Dealt, Holding
<1>9. \A i \in 1 .. Len(tasks) : Dealt(t, i)' <=> Dealt(t, i)
  BY <1>1, <1>3, <1>4 DEF Dealt
<1>10. ListInv' /\ OneShotOnce' /\ KeptUntilDone'
  BY <1>1 DEF SchedulerInv, ListInv, OneShotOnce, KeptUntilDone, InList
<1>11. RanInv'
  <2>1. ASSUME NEW i \in 1 .. Len(tasks), tasks[i] \notin Repeating, runs[tasks[i]] > 0
        PROVE  nextRun'[tasks[i]] <= clock /\ \E u \in Threads : Dealt(u, i)'
    <3>1. nextRun[tasks[i]] <= clock /\ Dealt(t, i)
      BY <1>8, <2>1 DEF SchedulerInv, RanInv
    <3>2. nextRun'[tasks[i]] = nextRun[tasks[i]]
      BY <1>3, <1>5, <2>1
    <3>. QED BY <1>9, <3>1, <3>2
  <2>2. \A k \in Jobs \ added' : runs'[k] = 0
    BY <1>1 DEF SchedulerInv, RanInv
  <2>. QED BY <1>1, <2>1, <2>2 DEF RanInv
<1>12. PromptInv'
  <2>1. ASSUME NEW i \in 1 .. Len(tasks), tasks[i] \in prompt \ Repeating
        PROVE  /\ nextRun'[tasks[i]] <= clock
               /\ \A u \in Threads : Holding(u)' => nextRun'[tasks[i]] <= tnow[u]
               /\ \A u \in Threads : Dealt(u, i)' => runs[tasks[i]] > 0
    <3>1. nextRun'[tasks[i]] = nextRun[tasks[i]]
      BY <1>3, <1>5, <2>1
    <3>2. \A u \in Threads : Holding(u)' => Holding(u)
      BY <1>2, <1>4 DEF Holding
    <3>3. \A u \in Threads : Dealt(u, i)' => Dealt(u, i)
      BY <1>8, <1>9
    <3>. QED BY <2>1, <3>1, <3>2, <3>3 DEF SchedulerInv, PromptInv
  <2>. QED BY <1>1, <2>1 DEF PromptInv
<1>. QED BY <1>6, <1>7, <1>10, <1>11, <1>12 DEF SchedulerInv

\* After the scan every place was dealt with.
LEMMA ScanEndStep ==
    ASSUME SchedulerInv, NEW t \in Threads, ScanEnd(t)
    PROVE  SchedulerInv'
<1>1. /\ tpc[t] = "scan" /\ ti[t] > Len(tasks)
      /\ ti' = [ti EXCEPT ![t] = 1]
      /\ tpc' = [tpc EXCEPT ![t] = "sweep"]
      /\ UNCHANGED <<clock, listVars, mutex, running, tnow, current, cpc, runs>>
  BY DEF ScanEnd, Goto
<1>2. Holding(t)
  BY <1>1 DEF Holding
<1>3. /\ ti[t] \in Nat /\ Len(tasks) \in Nat
      /\ \A u \in Threads \ {t} : ~Holding(u)
  BY <1>2, OnlyHolder
<1>4. /\ tpc'[t] = "sweep" /\ ti'[t] = 1
      /\ \A u \in Threads \ {t} : tpc'[u] = tpc[u] /\ ti'[u] = ti[u]
  BY <1>1 DEF SchedulerInv, TypeOK
<1>5. TypeOK'
  BY <1>1 DEF listVars, SchedulerInv, TypeOK
<1>6. ThreadInv'
  BY <1>1, <1>3, <1>4 DEF listVars, SchedulerInv, ThreadInv, Holding
<1>7. \A u \in Threads \ {t}, i \in 1 .. Len(tasks) : ~Dealt(u, i) /\ ~Dealt(u, i)'
  BY <1>1, <1>3, <1>4 DEF Dealt, Holding
<1>8. \A i \in 1 .. Len(tasks) : Dealt(t, i) /\ Dealt(t, i)'
  BY <1>1, <1>3, <1>4 DEF Dealt
<1>9. ListInv' /\ OneShotOnce' /\ KeptUntilDone'
  BY <1>1 DEF listVars, SchedulerInv, ListInv, OneShotOnce, KeptUntilDone, InList
<1>10. RanInv' /\ PromptInv'
  BY <1>1, <1>2, <1>4, <1>7, <1>8 DEF listVars, SchedulerInv, RanInv, PromptInv, Holding
<1>. QED BY <1>5, <1>6, <1>9, <1>10 DEF SchedulerInv

\* What the sweep keeps and does not repeat is not due yet, and was not run.
LEMMA SweepKeepStep ==
    ASSUME SchedulerInv, NEW t \in Threads, SweepKeep(t)
    PROVE  SchedulerInv'
<1>1. /\ tpc[t] = "sweep" /\ ti[t] <= Len(tasks)
      /\ tasks[ti[t]] \in Repeating \/ ~(nextRun[tasks[ti[t]]] <= clock)
      /\ ti' = [ti EXCEPT ![t] = @ + 1]
      /\ UNCHANGED <<clock, listVars, mutex, running, tpc, tnow, current, cpc, runs>>
  BY DEF SweepKeep, Expired
<1>2. Holding(t)
  BY <1>1 DEF Holding
<1>3. /\ ti[t] \in 1 .. Len(tasks) /\ Len(tasks) \in Nat
      /\ \A u \in Threads \ {t} : ~Holding(u)
  BY <1>1, <1>2, OnlyHolder
<1>4. ti'[t] = ti[t] + 1 /\ \A u \in Threads \ {t} : ti'[u] = ti[u]
  BY <1>1 DEF SchedulerInv, TypeOK
<1>5. TypeOK'
  BY <1>1, <1>3 DEF listVars, SchedulerInv, TypeOK
<1>6. ThreadInv'
  BY <1>1, <1>3, <1>4 DEF listVars, SchedulerInv, ThreadInv, Holding
<1>7. \A u \in Threads \ {t}, i \in 1 .. Len(tasks) : ~Dealt(u, i) /\ ~Dealt(u, i)'
  BY <1>1, <1>3, <1>4 DEF Dealt, Holding
<1>8. \A i \in 1 .. Len(tasks) : Dealt(t, i)' <=> Dealt(t, i) /\ i # ti[t]
  BY <1>1, <1>3, <1>4 DEF Dealt
<1>9. ListInv' /\ OneShotOnce' /\ KeptUntilDone'
  BY <1>1 DEF listVars, SchedulerInv, ListInv, OneShotOnce, KeptUntilDone, InList
<1>10. tasks[ti[t]] \notin Repeating => ~(runs[tasks[ti[t]]] > 0)
  BY <1>1, <1>3 DEF SchedulerInv, RanInv
<1>11. RanInv'
  BY <1>1, <1>7, <1>8, <1>10 DEF listVars, SchedulerInv, RanInv
<1>12. PromptInv'
  BY <1>1, <1>7, <1>8 DEF listVars, SchedulerInv, PromptInv, Holding
<1>. QED BY <1>5, <1>6, <1>9, <1>11, <1>12 DEF SchedulerInv

\* What it erases does not repeat, and was run if it was a prompt one.
LEMMA SweepEraseStep ==
    ASSUME SchedulerInv, NEW t \in Threads, SweepErase(t)
    PROVE  SchedulerInv'
<1>. DEFINE n == Len(tasks)
            j == tasks[ti[t]]
            old(k) == IF k < ti[t] THEN k ELSE k + 1
<1>1. /\ tpc[t] = "sweep" /\ ti[t] <= n /\ j \notin Repeating
      /\ tasks' = RemoveAt(tasks, ti[t])
      /\ UNCHANGED <<clock, nextRun, added, prompt, removed, mutex, running, threadVars, cpc, runs>>
  BY DEF SweepErase, Expired
<1>2. Holding(t)
  BY <1>1 DEF Holding
<1>3. /\ ti[t] \in 1 .. n /\ n \in Nat
      /\ \A u \in Threads \ {t} : ~Holding(u)
      /\ tasks \in Seq(Jobs)
  BY <1>1, <1>2, OnlyHolder DEF SchedulerInv, TypeOK
<1>4. /\ tasks' \in Seq(Jobs) /\ Len(tasks') = n - 1
      /\ \A k \in 1 .. n - 1 : old(k) \in 1 .. n /\ tasks'[k] = tasks[old(k)] /\ old(k) # ti[t]
  <2>1. /\ tasks' \in Seq(Jobs) /\ Len(tasks') = n - 1
        /\ \A k \in 1 .. n - 1 : tasks'[k] = IF k < ti[t] THEN tasks[k] ELSE tasks[k + 1]
    BY <1>1, <1>3, RemoveAtProperties
  <2>2. \A k \in 1 .. n - 1 : old(k) \in 1 .. n /\ old(k) # ti[t]
    BY <1>3
  <2>. QED BY <2>1, <2>2
<1>5. /\ \A i, k \in 1 .. n - 1 : old(i) = old(k) => i = k
      /\ \A i \in 1 .. n : i # ti[t] => \E k \in 1 .. n - 1 : old(k) = i
  <2>1. \A i, k \in 1 .. n - 1 : old(i) = old(k) => i = k
    BY <1>3
  <2>2. ASSUME NEW i \in 1 .. n, i # ti[t]
        PROVE  \E k \in 1 .. n - 1 : old(k) = i
    <3>1. CASE i < ti[t]
      <4>1. i \in 1 .. n - 1 /\ old(i) = i
        BY <1>3, <3>1
      <4>. QED BY <4>1
    <3>2. CASE i > ti[t]
      <4>1. i - 1 \in 1 .. n - 1 /\ old(i - 1) = i
        BY <1>3, <3>2
      <4>. QED BY <4>1
    <3>. QED BY <1>3, <2>2, <3>1, <3>2
  <2>. QED BY <2>1, <2>2
<1>6. TypeOK'
  BY <1>1, <1>4 DEF threadVars, SchedulerInv, TypeOK
<1>7. ThreadInv'
  BY <1>1, <1>3, <1>4 DEF threadVars, SchedulerInv, ThreadInv, Holding
<1>8. \A u \in Threads \ {t}, i \in 1 .. n : ~Dealt(u, i) /\ ~Dealt(u, i)'
  BY <1>1, <1>3 DEF Dealt, Holding, threadVars
<1>9. \A k \in 1 .. n - 1 : Dealt(t, k)' <=> Dealt(t, old(k))
  BY <1>1, <1>3 DEF Dealt, threadVars
<1>10. InList = {tasks[i] : i \in 1 .. n} /\ InList' = {tasks'[k] : k \in 1 .. n - 1}
  <2>1. InList' = {tasks'[k] : k \in 1 .. Len(tasks')}
    BY <1>4 DEF InList, ToSet
  <2>. QED BY <1>4, <2>1, Listed DEF SchedulerInv
<1>. HIDE DEF n, old
<1>11. ListInv'
  <2>1. \A i, k \in 1 .. n - 1 : tasks'[i] = tasks'[k] => i = k
    BY <1>4, <1>5 DEF SchedulerInv, ListInv, n
  <2>2. \A k \in 1 .. n - 1 : tasks'[k] \in added' \ removed'
    BY <1>1, <1>4 DEF SchedulerInv, ListInv, n
  <2>. QED BY <1>4, <2>1, <2>2 DEF ListInv
<1>12. RanInv'
  <2>1. ASSUME NEW k \in 1 .. n - 1, tasks'[k] \notin Repeating, runs[tasks'[k]] > 0
        PROVE  nextRun[tasks'[k]] <= clock /\ Dealt(t, k)'
    <3>1. nextRun[tasks[old(k)]] <= clock /\ Dealt(t, old(k))
      BY <1>4, <1>8, <2>1 DEF SchedulerInv, RanInv, n
    <3>. QED BY <1>4, <1>9, <3>1
  <2>. QED BY <1>1, <1>4, <2>1 DEF SchedulerInv, RanInv
<1>13. PromptInv'
  <2>1. ASSUME NEW k \in 1 .. n - 1, tasks'[k] \in prompt \ Repeating
        PROVE  /\ nextRun[tasks'[k]] <= clock
               /\ \A u \in Threads : Holding(u) => nextRun[tasks'[k]] <= tnow[u]
               /\ \A u \in Threads : Dealt(u, k)' => runs[tasks'[k]] > 0
    <3>1. old(k) \in 1 .. Len(tasks) /\ tasks'[k] = tasks[old(k)]
      BY <1>4 DEF n
    <3>2. /\ nextRun[tasks[old(k)]] <= clock
          /\ \A u \in Threads : Holding(u) => nextRun[tasks[old(k)]] <= tnow[u]
          /\ \A u \in Threads : Dealt(u, old(k)) => runs[tasks[old(k)]] > 0
      BY <2>1, <3>1 DEF SchedulerInv, PromptInv
    <3>3. \A u \in Threads : Dealt(u, k)' => u = t
      <4>1. k \in 1 .. n
        BY <1>3
      <4>. QED BY <1>8, <4>1
    <3>. QED BY <1>9, <3>1, <3>2, <3>3
  <2>. QED BY <1>1, <1>4, <2>1 DEF PromptInv, Holding, threadVars
<1>14. InList \subseteq InList' \cup {j}
  BY <1>4, <1>5, <1>10
<1>15. j \in prompt => runs[j] > 0
  <2>1. Dealt(t, ti[t]) /\ ti[t] \in 1 .. Len(tasks)
    BY <1>1, <1>3 DEF Dealt, n
  <2>. QED BY <1>1, <2>1 DEF SchedulerInv, PromptInv
<1>. HIDE DEF j
<1>16. OneShotOnce' /\ KeptUntilDone'
  BY <1>1, <1>14, <1>15 DEF SchedulerInv, OneShotOnce, KeptUntilDone
<1>. QED BY <1>6, <1>7, <1>11, <1>12, <1>13, <1>16 DEF SchedulerInv

\* After the sweep nothing that was run and does not repeat is left.
LEMMA LoopUnlockStep ==
    ASSUME SchedulerInv, NEW t \in Threads, LoopUnlock(t)
    PROVE  SchedulerInv'
<1>1. /\ tpc[t] = "sweep" /\ ti[t] > Len(tasks) /\ mutex' = NoThread
      /\ tnow' = [tnow EXCEPT ![t] = 0] /\ ti' = [ti EXCEPT ![t] = 0]
      /\ tpc' = [tpc EXCEPT ![t] = "sleep"]
      /\ UNCHANGED <<clock, listVars, running, current, cpc, runs>>
  BY DEF LoopUnlock, Goto
<1>2. Holding(t)
  BY <1>1 DEF Holding
<1>3. /\ ti[t] \in Nat /\ Len(tasks) \in Nat /\ (cpc # "idle" \/ running)
      /\ \A u \in Threads \ {t} : ~Holding(u)
  BY <1>2, OnlyHolder
<1>4. /\ tpc'[t] = "sleep"
      /\ \A u \in Threads \ {t} : tpc'[u] = tpc[u]
  BY <1>1 DEF SchedulerInv, TypeOK
<1>5. TypeOK'
  BY <1>1, TimeAssumption DEF listVars, SchedulerInv, TypeOK
<1>6. \A u \in Threads : ~Holding(u)'
  BY <1>3, <1>4 DEF Holding
<1>7. ThreadInv'
  BY <1>1, <1>3, <1>4, <1>6, NoThreadAssumption DEF listVars, SchedulerInv, ThreadInv, Holding
<1>8. \A u \in Threads, i \in 1 .. Len(tasks) : ~Dealt(u, i) /\ ~Dealt(u, i)'
  BY <1>1, <1>3, <1>6 DEF Dealt, Holding
<1>9. ListInv' /\ OneShotOnce' /\ KeptUntilDone'
  BY <1>1 DEF listVars, SchedulerInv, ListInv, OneShotOnce, KeptUntilDone, InList
<1>10. RanInv' /\ PromptInv'
  BY <1>1, <1>6, <1>8 DEF listVars, SchedulerInv, RanInv, PromptInv
<1>. QED BY <1>5, <1>7, <1>9, <1>10 DEF SchedulerInv

-----------------------------------------------------------------------------
LEMMA SchedulerPreserved == SchedulerInv /\ [Next]_vars => SchedulerInv'
<1>. SUFFICES ASSUME SchedulerInv, [Next]_vars PROVE SchedulerInv'
  OBVIOUS
<1>1. CASE Tick
  BY <1>1, TickStep
<1>2. ASSUME NEW j \in Jobs, NEW delay \in Delays, AddTask(j, delay) PROVE SchedulerInv'
  BY <1>2, AddTaskStep
<1>3. ASSUME NEW name \in Names, RemoveTask(name) PROVE SchedulerInv'
  BY <1>3, RemoveTaskStep
<1>4. ASSUME NEW t \in Threads, Thread(t) PROVE SchedulerInv'
  BY <1>4, OutsideStep, LoopLockStep, ScanSkipStep, ScanRunStep, TaskThrowsStep, ScanRanStep,
     ScanEndStep,
     SweepKeepStep, SweepEraseStep, LoopUnlockStep DEF Thread
<1>5. CASE Start \/ StopClearFlag \/ StopJoined
  BY <1>5, OutsideStep
<1>6. CASE UNCHANGED vars
  BY <1>6
  DEF vars, listVars, threadVars, SchedulerInv, TypeOK, ListInv, ThreadInv, RanInv, PromptInv, OneShotOnce,
      KeptUntilDone, Holding, Dealt, InList
<1>. QED BY <1>1, <1>2, <1>3, <1>4, <1>5, <1>6 DEF Next

\* The invariant: the list, who holds the mutex, and what a pass has dealt with.
THEOREM SchedulerInvariant == Spec => []SchedulerInv
  BY SchedulerInitially, SchedulerPreserved, PTL DEF Spec

\* Every value stays of its type.
THEOREM TypeCorrect == Spec => []TypeOK
<1>1. SchedulerInv => TypeOK
  BY DEF SchedulerInv
<1>. QED BY <1>1, SchedulerInvariant, PTL

\* With any number of threads a task that does not repeat runs at most once.
THEOREM OneShotOnceHolds == Spec => []OneShotOnce
<1>1. SchedulerInv => OneShotOnce
  BY DEF SchedulerInv
<1>. QED BY <1>1, SchedulerInvariant, PTL

\* Repeating tasks stay listed, and a prompt one-shot task until it was run.
THEOREM KeptUntilDoneHolds == Spec => []KeptUntilDone
<1>1. SchedulerInv => KeptUntilDone
  BY DEF SchedulerInv
<1>. QED BY <1>1, SchedulerInvariant, PTL

\* remove_task returns after the last run of the tasks it took out.
THEOREM RemovedIsQuietHolds == Spec => []RemovedIsQuiet
<1>1. SchedulerInv => RemovedIsQuiet
  <2>. SUFFICES ASSUME SchedulerInv, NEW t \in Threads, NEW j \in removed, current[t] = j
                PROVE  FALSE
    BY DEF RemovedIsQuiet, Executing
  <2>1. j # NoJob
    BY NoJobAssumption DEF SchedulerInv, TypeOK
  <2>2. tpc[t] \in {"execute", "caught"}
    BY <2>1 DEF SchedulerInv, ThreadInv
  <2>3. ti[t] \in 1 .. Len(tasks) /\ j = tasks[ti[t]]
    BY <2>2 DEF SchedulerInv, TypeOK, ThreadInv, Holding
  <2>. QED BY <2>3 DEF SchedulerInv, ListInv
<1>. QED BY <1>1, SchedulerInvariant, PTL

\* stop() returns after the last run of any task.
THEOREM StoppedIsQuietHolds == Spec => []StoppedIsQuiet
<1>1. SchedulerInv => StoppedIsQuiet
  BY NoJobAssumption DEF SchedulerInv, ThreadInv, StoppedIsQuiet, Executing
<1>. QED BY <1>1, SchedulerInvariant, PTL

-----------------------------------------------------------------------------
(* EngineIngest *)

\* c is the recursive function within Chosen(s, S), for a sequence s over T.
Chooses(c, s, S, T) ==
    /\ c \in [0 .. Len(s) -> Seq(T)]
    /\ c[0] = <<>>
    /\ \A n \in 1 .. Len(s) : c[n] = IF s[n] \in S THEN Append(c[n - 1], s[n]) ELSE c[n - 1]

\* Chosen is defined: it is the last value of such a function.
LEMMA ChosenChooses ==
    ASSUME NEW T, NEW s \in Seq(T), NEW S
    PROVE  \E c : Chooses(c, s, S, T) /\ Chosen(s, S) = c[Len(s)]
<1>. DEFINE D == 0 .. Len(s)
            V == Seq(T)
            size == [n \in D |-> n]
            h == [p \in D \X [D -> V] |->
                    IF p[1] = 0 THEN <<>>
                    ELSE IF s[p[1]] \in S THEN Append(p[2][p[1] - 1], s[p[1]]) ELSE p[2][p[1] - 1]]
            R(f) == f = [n \in D |->
                          IF n = 0 THEN <<>>
                          ELSE IF s[n] \in S THEN Append(f[n - 1], s[n]) ELSE f[n - 1]]
            C == CHOOSE f : R(f)
<1>0. Len(s) \in Nat /\ \A n \in D : n # 0 => n - 1 \in D /\ s[n] \in T
  OBVIOUS
<1>1. \A n \in D, f \in [D -> V] :
         h[<<n, f>>] = IF n = 0 THEN <<>>
                       ELSE IF s[n] \in S THEN Append(f[n - 1], s[n]) ELSE f[n - 1]
  OBVIOUS
<1>2. \A q \in V, x \in T : Append(q, x) \in V
  OBVIOUS
<1>3. <<>> \in V /\ size \in [D -> Nat]
  OBVIOUS
<1>4. h \in [D \X [D -> V] -> V]
  <2>1. SUFFICES ASSUME NEW n \in D, NEW f \in [D -> V] PROVE h[<<n, f>>] \in V
    OBVIOUS
  <2>2. n # 0 => f[n - 1] \in V /\ s[n] \in T
    BY <1>0
  <2>. HIDE DEF h, V
  <2>. QED BY <1>1, <1>2, <1>3, <2>2
<1>5. ASSUME NEW n \in D, NEW f \in [D -> V], NEW g \in [D -> V],
             \A y \in D : size[y] < size[n] => f[y] = g[y]
      PROVE  h[<<n, f>>] = h[<<n, g>>]
  <2>1. n # 0 => n - 1 \in D /\ size[n - 1] < size[n]
    BY <1>0
  <2>2. n # 0 => f[n - 1] = g[n - 1]
    BY <1>5, <2>1
  <2>. HIDE DEF h
  <2>3. h[<<n, f>>] = IF n = 0 THEN <<>>
                      ELSE IF s[n] \in S THEN Append(f[n - 1], s[n]) ELSE f[n - 1]
    BY <1>1
  <2>4. h[<<n, g>>] = IF n = 0 THEN <<>>
                      ELSE IF s[n] \in S THEN Append(g[n - 1], s[n]) ELSE g[n - 1]
    BY <1>1
  <2>. QED BY <2>2, <2>3, <2>4
<1>. HIDE DEF size, h
<1>6. PICK f : Solves(f, h, D, V)
  <2>1. LooksBack(h, size, D, V)
    <3>. HIDE DEF D, V
    <3>. QED BY <1>3, <1>4, <1>5 DEF LooksBack
  <2>. HIDE DEF D, V, R, C
  <2>. QED BY <1>3, <2>1, Recursion
<1>7. R(f)
  <2>. HIDE DEF V
  <2>. QED BY <1>1, <1>6 DEF Solves
<1>8. R(C)
  <2>. HIDE DEF R
  <2>. QED BY <1>7
<1>9. Chosen(s, S) = C[Len(s)]
  BY Zenon DEF Chosen
<1>. HIDE DEF C
<1>10. \A n \in D : C[n] = IF n = 0 THEN <<>>
                           ELSE IF s[n] \in S THEN Append(C[n - 1], s[n]) ELSE C[n - 1]
  BY <1>8
<1>11. \A n \in D : C[n] \in V
  <2>. DEFINE N == {n \in Nat : n \in D => C[n] \in V}
  <2>1. 0 \in N
    <3>1. 0 \in D => C[0] = <<>>
      BY <1>10
    <3>. HIDE DEF V, D
    <3>. QED BY <1>3, <3>1
  <2>2. ASSUME NEW n \in Nat, n \in N PROVE n + 1 \in N
    <3>1. SUFFICES ASSUME n + 1 \in D PROVE C[n + 1] \in V
      OBVIOUS
    <3>2. n + 1 # 0 /\ (n + 1) - 1 = n /\ n \in D
      BY <1>0, <3>1
    <3>3. s[n + 1] \in T /\ C[n] \in V
      BY <1>0, <2>2, <3>1, <3>2
    <3>4. C[n + 1] = IF s[n + 1] \in S THEN Append(C[n], s[n + 1]) ELSE C[n]
      BY <1>10, <3>1, <3>2
    <3>. HIDE DEF V
    <3>. QED BY <1>2, <3>3, <3>4
  <2>3. Nat \subseteq N
    <3>. HIDE DEF N
    <3>. QED BY <2>1, <2>2, SetInduction
  <2>. QED BY <1>0, <2>3
<1>12. C \in [D -> V]
  <2>1. C = [n \in D |-> C[n]]
    BY <1>8
  <2>. HIDE DEF V
  <2>. QED BY <1>11, <2>1
<1>13. Chooses(C, s, S, T)
  <2>1. C[0] = <<>>
    BY <1>0, <1>10
  <2>2. \A n \in 1 .. Len(s) : n \in D /\ n # 0
    BY <1>0
  <2>3. \A n \in 1 .. Len(s) : C[n] = IF s[n] \in S THEN Append(C[n - 1], s[n]) ELSE C[n - 1]
    BY <1>10, <2>2
  <2>. QED BY <1>12, <2>1, <2>3 DEF Chooses
<1>. QED BY <1>9, <1>13

\* What Chosen returns for no element, and for one more.
LEMMA ChosenEmpty ==
    ASSUME NEW S
    PROVE  Chosen(<<>>, S) = <<>>
<1>1. <<>> \in Seq({}) /\ Len(<<>>) = 0
  OBVIOUS
<1>2. PICK c : Chooses(c, <<>>, S, {}) /\ Chosen(<<>>, S) = c[Len(<<>>)]
  BY <1>1, ChosenChooses
<1>. QED BY <1>1, <1>2 DEF Chooses

\* What is chosen of a sequence over T is one.
LEMMA ChosenType ==
    ASSUME NEW T, NEW s \in Seq(T), NEW S
    PROVE  Chosen(s, S) \in Seq(T)
<1>1. PICK c : Chooses(c, s, S, T) /\ Chosen(s, S) = c[Len(s)]
  BY ChosenChooses
<1>2. Len(s) \in 0 .. Len(s)
  OBVIOUS
<1>. QED BY <1>1, <1>2 DEF Chooses

\* One more element is appended to what is chosen, or is left out.
LEMMA ChosenAppend ==
    ASSUME NEW T, NEW s \in Seq(T), NEW x \in T, NEW S
    PROVE  Chosen(Append(s, x), S) =
              IF x \in S THEN Append(Chosen(s, S), x) ELSE Chosen(s, S)
<1>. DEFINE t == Append(s, x)
            m == Len(s)
<1>1. /\ t \in Seq(T) /\ Len(t) = m + 1 /\ m \in Nat /\ t[m + 1] = x
      /\ \A n \in 1 .. m : t[n] = s[n]
  OBVIOUS
<1>. HIDE DEF t
<1>2. PICK c : Chooses(c, s, S, T) /\ Chosen(s, S) = c[m]
  BY ChosenChooses
<1>3. PICK d : Chooses(d, t, S, T) /\ Chosen(t, S) = d[m + 1]
  BY <1>1, ChosenChooses
<1>. DEFINE N == {n \in Nat : n <= m => d[n] = c[n]}
<1>4. 0 \in N
  BY <1>2, <1>3 DEF Chooses
<1>5. ASSUME NEW n \in Nat, n \in N PROVE n + 1 \in N
  <2>1. SUFFICES ASSUME n + 1 <= m PROVE d[n + 1] = c[n + 1]
    OBVIOUS
  <2>2. n + 1 \in 1 .. m /\ n + 1 \in 1 .. m + 1 /\ (n + 1) - 1 = n /\ n <= m
    BY <1>1, <2>1
  <2>3. /\ c[n + 1] = IF s[n + 1] \in S THEN Append(c[n], s[n + 1]) ELSE c[n]
        /\ d[n + 1] = IF t[n + 1] \in S THEN Append(d[n], t[n + 1]) ELSE d[n]
    BY <1>1, <1>2, <1>3, <2>2 DEF Chooses
  <2>4. t[n + 1] = s[n + 1] /\ d[n] = c[n]
    BY <1>1, <1>5, <2>2
  <2>. QED BY <2>3, <2>4
<1>6. Nat \subseteq N
  <2>. HIDE DEF N
  <2>. QED BY <1>4, <1>5, SetInduction
<1>7. d[m] = c[m]
  BY <1>1, <1>6
<1>8. d[m + 1] = IF t[m + 1] \in S THEN Append(d[m], t[m + 1]) ELSE d[m]
  <2>1. m + 1 \in 1 .. Len(t) /\ (m + 1) - 1 = m
    BY <1>1
  <2>. QED BY <1>3, <2>1 DEF Chooses
<1>. QED BY <1>1, <1>2, <1>3, <1>7, <1>8 DEF t

\* IsPrefix and IsSuffix, element by element.
LEMMA PrefixIs ==
    ASSUME NEW T, NEW s \in Seq(T), NEW t \in Seq(T)
    PROVE  IsPrefix(s, t) <=> Len(s) <= Len(t) /\ \A i \in 1 .. Len(s) : s[i] = t[i]
<1>1. Len(s) \in Nat /\ Len(t) \in Nat
  OBVIOUS
<1>2. SubSeq(s, 1, Len(s)) = s
  BY SubSeqFull
<1>3. ASSUME Len(s) <= Len(t)
      PROVE  SubSeq(t, 1, Len(s)) \in Seq(T) /\ Len(SubSeq(t, 1, Len(s))) = Len(s)
             /\ \A i \in 1 .. Len(s) : SubSeq(t, 1, Len(s))[i] = t[i]
  <2>1. \A i \in 1 .. Len(s) : t[i] \in T
    BY <1>1, <1>3
  <2>2. 1 \in Nat \ {0} /\ Len(s) \in Int
    BY <1>1
  <2>3. /\ SubSeq(t, 1, Len(s)) \in Seq(T)
        /\ Len(SubSeq(t, 1, Len(s))) = IF 1 <= Len(s) THEN Len(s) - 1 + 1 ELSE 0
        /\ \A i \in 1 .. Len(s) - 1 + 1 : SubSeq(t, 1, Len(s))[i] = t[1 + i - 1]
    BY <2>1, <2>2, SubSeqProperties
  <2>. QED BY <1>1, <2>3
<1>4. ASSUME Len(s) <= Len(t)
      PROVE  s = SubSeq(t, 1, Len(s)) <=> \A i \in 1 .. Len(s) : s[i] = t[i]
  <2>. DEFINE u == SubSeq(t, 1, Len(s))
  <2>1. u \in Seq(T) /\ Len(u) = Len(s) /\ \A i \in 1 .. Len(s) : u[i] = t[i]
    BY <1>3, <1>4
  <2>. HIDE DEF u
  <2>2. (\A i \in 1 .. Len(s) : s[i] = u[i]) => s = u
    BY <2>1, SeqEqual
  <2>3. s = u <=> \A i \in 1 .. Len(s) : s[i] = t[i]
    BY <2>1, <2>2
  <2>. QED BY <2>3 DEF u
<1>. QED BY <1>2, <1>4 DEF IsPrefix

\* The same of the end of a sequence.
LEMMA SuffixIs ==
    ASSUME NEW T, NEW s \in Seq(T), NEW t \in Seq(T)
    PROVE  IsSuffix(s, t) <=>
              Len(s) <= Len(t) /\ \A i \in 1 .. Len(s) : s[i] = t[Len(t) - Len(s) + i]
<1>. DEFINE k == Len(s)
            m == Len(t)
            u == Reverse(s)
            v == Reverse(t)
<1>1. k \in Nat /\ m \in Nat
  OBVIOUS
<1>2. u \in Seq(T) /\ Len(u) = k /\ \A i \in 1 .. k : u[i] = s[(k - i) + 1]
  <2>1. \A i \in 1 .. k : (k - i) + 1 \in 1 .. k
    BY <1>1
  <2>2. u = [i \in 1 .. k |-> s[(k - i) + 1]]
    BY DEF Reverse
  <2>3. \A i \in 1 .. k : s[(k - i) + 1] \in T
    BY <2>1
  <2>. HIDE DEF u
  <2>. QED BY <1>1, <2>2, <2>3, IsASeq
<1>3. v \in Seq(T) /\ Len(v) = m /\ \A i \in 1 .. m : v[i] = t[(m - i) + 1]
  <2>1. \A i \in 1 .. m : (m - i) + 1 \in 1 .. m
    BY <1>1
  <2>2. v = [i \in 1 .. m |-> t[(m - i) + 1]]
    BY DEF Reverse
  <2>3. \A i \in 1 .. m : t[(m - i) + 1] \in T
    BY <2>1
  <2>. HIDE DEF v
  <2>. QED BY <1>1, <2>2, <2>3, IsASeq
<1>. HIDE DEF u, v
<1>4. IsPrefix(u, v) <=> k <= m /\ \A i \in 1 .. k : u[i] = v[i]
  BY <1>2, <1>3, PrefixIs
<1>5. ASSUME k <= m
      PROVE  (\A i \in 1 .. k : u[i] = v[i]) <=> \A i \in 1 .. k : s[i] = t[m - k + i]
  <2>1. ASSUME \A i \in 1 .. k : u[i] = v[i], NEW i \in 1 .. k PROVE s[i] = t[m - k + i]
    <3>1. (k - i) + 1 \in 1 .. k /\ (k - i) + 1 \in 1 .. m
      BY <1>1, <1>5
    <3>2. u[(k - i) + 1] = s[(k - ((k - i) + 1)) + 1] /\ v[(k - i) + 1] = t[(m - ((k - i) + 1)) + 1]
      BY <1>2, <1>3, <3>1
    <3>3. (k - ((k - i) + 1)) + 1 = i /\ (m - ((k - i) + 1)) + 1 = m - k + i
      BY <1>1
    <3>. QED BY <2>1, <3>1, <3>2, <3>3
  <2>2. ASSUME \A i \in 1 .. k : s[i] = t[m - k + i], NEW i \in 1 .. k PROVE u[i] = v[i]
    <3>1. (k - i) + 1 \in 1 .. k /\ i \in 1 .. m
      BY <1>1, <1>5
    <3>2. s[(k - i) + 1] = t[m - k + ((k - i) + 1)]
      BY <2>2, <3>1
    <3>3. m - k + ((k - i) + 1) = (m - i) + 1
      BY <1>1
    <3>. QED BY <1>2, <1>3, <3>1, <3>2, <3>3
  <2>. QED BY <2>1, <2>2
<1>6. IsSuffix(s, t) <=> IsPrefix(u, v)
  BY DEF IsSuffix, u, v
<1>. QED BY <1>4, <1>5, <1>6

\* QueueMatchesTasks, of a queue q, tasks ts and the event i on its way.
Ingested(q, ts, i) ==
    /\ ts \in Seq(Jobs) /\ q \in Seq(Jobs) /\ i \in Events \cup {NoJob}
    /\ Len(q) <= QueueSize
    /\ IsSuffix(q, Chosen(ts, Events) \o IF i = NoJob THEN <<>> ELSE <<i>>)

\* The inductive invariant: the queue of events is the end of what was put into tasks_.
IngestInv ==
    /\ tasks \in Seq(Jobs) /\ queue \in Seq(Jobs) /\ ingesting \in Events \cup {NoJob}
    /\ QueueMatchesTasks

\* The invariant is Ingested of the variables, before and after a step.
LEMMA IngestInvIs ==
    /\ IngestInv <=> Ingested(queue, tasks, ingesting)
    /\ IngestInv' <=> Ingested(queue', tasks', ingesting')
<1>1. IngestInv <=> Ingested(queue, tasks, ingesting)
  BY DEF IngestInv, QueueMatchesTasks, Pending, Ingested
<1>2. IngestInv' <=> Ingested(queue', tasks', ingesting')
  BY DEF IngestInv, QueueMatchesTasks, Pending, Ingested
<1>. QED BY <1>1, <1>2

\* An empty queue matches any tasks.
LEMMA IngestedNothing ==
    ASSUME NEW ts \in Seq(Jobs), NEW i \in Events \cup {NoJob}
    PROVE  Ingested(<<>>, ts, i)
<1>. DEFINE t == Chosen(ts, Events) \o IF i = NoJob THEN <<>> ELSE <<i>>
<1>1. Chosen(ts, Events) \in Seq(Jobs)
  BY ChosenType
<1>2. (IF i = NoJob THEN <<>> ELSE <<i>>) \in Seq(Jobs)
  BY EventsAssumption, NoJobAssumption
<1>3. t \in Seq(Jobs)
  BY <1>1, <1>2, ConcatProperties
<1>4. <<>> \in Seq(Jobs) /\ Len(<<>>) = 0 /\ Len(t) \in Nat
  BY <1>3
<1>. HIDE DEF t
<1>5. IsSuffix(<<>>, t)
  <2>1. Len(<<>>) <= Len(t) /\ \A k \in 1 .. Len(<<>>) : <<>>[k] = t[Len(t) - Len(<<>>) + k]
    BY <1>4
  <2>. QED BY <1>3, <1>4, <2>1, SuffixIs
<1>. QED BY <1>4, <1>5, QueueSizeAssumption DEF Ingested, t

\* An event that was pushed waits behind the rest and is on its way.
LEMMA IngestedPushed ==
    ASSUME NEW q, NEW ts, Ingested(q, ts, NoJob), NEW e \in Events, Len(q) < QueueSize
    PROVE  Ingested(Append(q, e), ts, e)
<1>. DEFINE t == Chosen(ts, Events)
            r == Append(q, e)
            u == Append(t, e)
<1>1. /\ ts \in Seq(Jobs) /\ q \in Seq(Jobs) /\ e \in Jobs /\ e # NoJob
      /\ IsSuffix(q, t \o <<>>)
  BY EventsAssumption, NoJobAssumption DEF Ingested
<1>2. t \in Seq(Jobs)
  BY <1>1, ChosenType
<1>. HIDE DEF t
<1>3. t \o <<>> = t /\ t \o <<e>> = u
  BY <1>1, <1>2, ConcatEmptySeq, AppendIsConcat
<1>4. Len(q) <= Len(t) /\ \A k \in 1 .. Len(q) : q[k] = t[Len(t) - Len(q) + k]
  BY <1>1, <1>2, <1>3, SuffixIs
<1>5. /\ r \in Seq(Jobs) /\ Len(r) = Len(q) + 1 /\ r[Len(q) + 1] = e
      /\ \A k \in 1 .. Len(q) : r[k] = q[k]
      /\ Len(q) \in Nat
  BY <1>1
<1>6. /\ u \in Seq(Jobs) /\ Len(u) = Len(t) + 1 /\ u[Len(t) + 1] = e
      /\ \A k \in 1 .. Len(t) : u[k] = t[k]
      /\ Len(t) \in Nat
  BY <1>1, <1>2
<1>. HIDE DEF r, u
<1>7. ASSUME NEW k \in 1 .. Len(r) PROVE r[k] = u[Len(u) - Len(r) + k]
  <2>1. Len(u) - Len(r) + k = Len(t) - Len(q) + k
    BY <1>5, <1>6
  <2>2. CASE k = Len(q) + 1
    <3>1. Len(t) - Len(q) + k = Len(t) + 1
      BY <1>5, <1>6, <2>2
    <3>. QED BY <1>5, <1>6, <2>1, <2>2, <3>1
  <2>3. CASE k # Len(q) + 1
    <3>1. k \in 1 .. Len(q)
      BY <1>5, <2>3
    <3>2. Len(t) - Len(q) + k \in 1 .. Len(t)
      BY <1>4, <1>5, <1>6, <3>1
    <3>. QED BY <1>4, <1>5, <1>6, <2>1, <3>1, <3>2
  <2>. QED BY <2>2, <2>3
<1>8. IsSuffix(r, u)
  <2>1. Len(r) <= Len(u)
    BY <1>4, <1>5, <1>6
  <2>. QED BY <1>5, <1>6, <1>7, <2>1, SuffixIs
<1>9. Len(r) <= QueueSize
  BY <1>5, QueueSizeAssumption
<1>10. Ingested(r, ts, e) <=>
          /\ ts \in Seq(Jobs) /\ r \in Seq(Jobs) /\ e \in Events \cup {NoJob}
          /\ Len(r) <= QueueSize
          /\ IsSuffix(r, t \o <<e>>)
  BY <1>1 DEF Ingested, t
<1>. QED BY <1>1, <1>3, <1>5, <1>8, <1>9, <1>10 DEF r

\* The task of the event on its way is the last one; the task of no event changes nothing.
LEMMA IngestedAdded ==
    ASSUME NEW q, NEW ts, NEW i, Ingested(q, ts, i)
    PROVE  /\ i # NoJob => Ingested(q, Append(ts, i), NoJob)
           /\ \A j \in Jobs \ Events : Ingested(q, Append(ts, j), i)
<1>. DEFINE t == Chosen(ts, Events)
<1>1. /\ ts \in Seq(Jobs) /\ q \in Seq(Jobs) /\ i \in Events \cup {NoJob} /\ Len(q) <= QueueSize
      /\ IsSuffix(q, t \o IF i = NoJob THEN <<>> ELSE <<i>>)
  BY DEF Ingested
<1>2. t \in Seq(Jobs)
  BY <1>1, ChosenType
<1>3. ASSUME i # NoJob PROVE Ingested(q, Append(ts, i), NoJob)
  <2>1. i \in Events /\ i \in Jobs
    BY <1>1, <1>3, EventsAssumption
  <2>2. Chosen(Append(ts, i), Events) = Append(t, i)
    BY <1>1, <2>1, ChosenAppend
  <2>. HIDE DEF t
  <2>3. Append(t, i) = t \o <<i>> /\ Append(t, i) \in Seq(Jobs)
    BY <1>2, <2>1, AppendIsConcat
  <2>4. Append(t, i) \o <<>> = Append(t, i)
    BY <2>3, ConcatEmptySeq
  <2>5. Append(ts, i) \in Seq(Jobs)
    BY <1>1, <2>1
  <2>6. IsSuffix(q, Append(t, i) \o <<>>)
    BY <1>1, <1>3, <2>3, <2>4
  <2>. QED BY <1>1, <2>2, <2>5, <2>6 DEF Ingested
<1>4. ASSUME NEW j \in Jobs \ Events PROVE Ingested(q, Append(ts, j), i)
  <2>1. Chosen(Append(ts, j), Events) = t
    BY <1>1, ChosenAppend
  <2>2. Append(ts, j) \in Seq(Jobs)
    BY <1>1
  <2>. HIDE DEF t
  <2>. QED BY <1>1, <2>1, <2>2 DEF Ingested
<1>. QED BY <1>3, <1>4

\* The steps of EngineIngest.
LEMMA ProcessAsyncStep == \A e \in Events : IngestInv /\ ProcessAsync(e) => IngestInv'
<1>. SUFFICES ASSUME NEW e \in Events, IngestInv, ProcessAsync(e) PROVE IngestInv'
  OBVIOUS
<1>1. Ingested(queue, tasks, ingesting) /\ ingesting = NoJob /\ tasks' = tasks
  BY IngestInvIs DEF ProcessAsync, vars, listVars
<1>2. CASE Ring!Enqueue(e) /\ ingesting' = e
  <2>1. Len(queue) < QueueSize /\ queue' = Append(queue, e)
    BY <1>2 DEF Ring!Enqueue
  <2>. QED BY <1>1, <1>2, <2>1, IngestedPushed, IngestInvIs
<1>3. CASE UNCHANGED <<queue, received, ingesting>>
  BY <1>1, <1>3, IngestInvIs
<1>. QED BY <1>2, <1>3 DEF ProcessAsync

\* process_event_async adds the task of the event it has pushed.
LEMMA AddDetectionStep == IngestInv /\ AddDetection => IngestInv'
<1>. SUFFICES ASSUME IngestInv, AddDetection PROVE IngestInv'
  OBVIOUS
<1>1. /\ Ingested(queue, tasks, ingesting) /\ ingesting # NoJob
      /\ tasks' = Append(tasks, ingesting) /\ queue' = queue /\ ingesting' = NoJob
  BY IngestInvIs DEF AddDetection, AddTask
<1>. QED BY <1>1, IngestedAdded, IngestInvIs

\* A new queue is empty, and no event is on its way to it.
LEMMA ReplaceQueueStep ==
    ASSUME IngestInv, ReplaceQueue,
           tasks' = tasks \/ \E j \in Jobs \ Events : tasks' = Append(tasks, j)
    PROVE  IngestInv'
<1>1. tasks' \in Seq(Jobs) /\ ingesting' \in Events \cup {NoJob} /\ queue' = <<>>
  BY DEF IngestInv, ReplaceQueue
<1>. QED BY <1>1, IngestedNothing, IngestInvIs

\* The task of a snapshot is no event: the choice of events does not see it.
LEMMA AddSnapshotTaskStep ==
    \A j \in Jobs : IngestInv /\ AddSnapshotTask(j) /\ UNCHANGED ingestVars => IngestInv'
<1>. SUFFICES ASSUME NEW j \in Jobs, IngestInv, AddSnapshotTask(j), UNCHANGED ingestVars
              PROVE  IngestInv'
  OBVIOUS
<1>1. /\ Ingested(queue, tasks, ingesting) /\ j \in Jobs \ Events
      /\ tasks' = Append(tasks, j) /\ queue' = queue /\ ingesting' = ingesting
  BY IngestInvIs DEF AddSnapshotTask, AddTask, ingestVars
<1>. QED BY <1>1, IngestedAdded, IngestInvIs

\* Steps that leave the queue and the list of tasks.
LEMMA IngestUnchanged ==
    ASSUME IngestInv, UNCHANGED <<tasks, queue, ingesting>>
    PROVE  IngestInv'
BY IngestInvIs

\* The engine starts without tasks and with an empty queue.
LEMMA IngestInitially == EngineInit => IngestInv
<1>. SUFFICES ASSUME EngineInit PROVE IngestInv
  OBVIOUS
<1>1. tasks = <<>> /\ queue = <<>> /\ ingesting = NoJob /\ <<>> \in Seq(Jobs)
  BY DEF EngineInit, Init, Ring!Init
<1>. QED BY <1>1, IngestedNothing, IngestInvIs

\* stop touches neither.
LEMMA EngineStopStep == IngestInv /\ EngineStop => IngestInv'
  BY IngestUnchanged DEF EngineStop, StopClearFlag, StopJoined, listVars, ingestVars

\* IngestInv is an invariant of the engine whose configure never fails (EngineIngest).
THEOREM IngestInvariant == EngineSpec => []IngestInv
<1>1. IngestInv /\ [EngineNext]_engineVars => IngestInv'
  <2>. SUFFICES ASSUME IngestInv, [EngineNext]_engineVars PROVE IngestInv'
    OBVIOUS
  <2>1. ASSUME NEW e \in Events, ProcessAsync(e) PROVE IngestInv'
    BY <2>1, ProcessAsyncStep
  <2>2. CASE AddDetection
    BY <2>2, AddDetectionStep
  <2>3. ASSUME NEW j \in Jobs, Configure(j) PROVE IngestInv'
    <3>1. ReplaceQueue /\ j \in Jobs \ Events /\ tasks' = Append(tasks, j)
      BY <2>3 DEF Configure, AddSnapshotTask, AddTask
    <3>. QED BY <3>1, ReplaceQueueStep
  <2>4. CASE EngineStop
    BY <2>4, EngineStopStep
  <2>5. CASE TimePasses \/ UNCHANGED engineVars
    BY <2>5, IngestUnchanged DEF TimePasses, Tick, listVars, ingestVars, engineVars, vars
  <2>. QED BY <2>1, <2>2, <2>3, <2>4, <2>5 DEF EngineNext
<1>. QED BY <1>1, IngestInitially, PTL DEF EngineSpec

\* There the events in the ring buffer are those whose detection tasks were added last.
THEOREM EngineQueueMatchesTasks == EngineSpec => []QueueMatchesTasks
<1>1. IngestInv => QueueMatchesTasks
  BY DEF IngestInv
<1>. QED BY <1>1, IngestInvariant, PTL

\* IngestInv is an invariant of the engine that is also reconfigured, snapshot and crashed.
THEOREM LifecycleIngestInvariant == LifecycleSpec => []IngestInv
<1>1. LifecycleInit => IngestInv
  BY IngestInitially DEF LifecycleInit
<1>2. IngestInv /\ [LifecycleNext]_lifecycleVars => IngestInv'
  <2>. SUFFICES ASSUME IngestInv, [LifecycleNext]_lifecycleVars PROVE IngestInv'
    OBVIOUS
  <2>0. UNCHANGED engineVars => IngestInv'
    BY IngestUnchanged DEF engineVars, vars, listVars, ingestVars
  <2>1. ASSUME NEW c \in Configs, ConfigureBegin(c) PROVE IngestInv'
    BY <2>1, ReplaceQueueStep DEF ConfigureBegin, vars, listVars
  <2>2. CASE ConfigureEnd
    BY <2>0, <2>2, AddSnapshotTaskStep DEF ConfigureEnd
  <2>3. CASE Ingest
    BY <2>3, ProcessAsyncStep, AddDetectionStep, EngineStopStep DEF Ingest
  <2>4. CASE Crash
    <3>1. tasks' = <<>> /\ queue' = <<>> /\ ingesting' = NoJob /\ <<>> \in Seq(Jobs)
      BY <2>4 DEF Crash
    <3>. QED BY <3>1, IngestedNothing, IngestInvIs
  <2>5. CASE \/ ConfigureOpen \/ ConfigureClear \/ ConfigureAdd
             \/ UpdateDetector \/ UpdateEnd
             \/ SnapshotBegin \/ SnapshotSerialize \/ SnapshotPut \/ Restore
             \/ UNCHANGED lifecycleVars
    BY <2>0, <2>5
    DEF ConfigureOpen, ConfigureClear, ConfigureAdd, UpdateDetector, UpdateEnd, UpdateReturns,
        SnapshotBegin, SnapshotSerialize, SnapshotPut, Restore, lifecycleVars
  <2>6. ASSUME NEW e \in Samples, UpdateBegin(e) PROVE IngestInv'
    BY <2>0, <2>6 DEF UpdateBegin
  <2>. QED BY <2>1, <2>2, <2>3, <2>4, <2>5, <2>6 DEF LifecycleNext
<1>. QED BY <1>1, <1>2, PTL DEF LifecycleSpec

\* The events in the ring buffer of engine.cpp are those whose detection tasks were
\* added last, in that order, whatever configure, the snapshots and the crashes do.
THEOREM QueueMatchesTasksHolds == LifecycleSpec => []QueueMatchesTasks
<1>1. IngestInv => QueueMatchesTasks
  BY DEF IngestInv
<1>. QED BY <1>1, LifecycleIngestInvariant, PTL

-----------------------------------------------------------------------------
(* EngineLifecycle *)

Detector == [kind : Kinds, seen : SUBSET Samples]
Walk == [event : Samples, left : SUBSET Nat, whole : BOOLEAN]

Shape ==
    /\ pipeline \in Seq(Detector)
    /\ update = NoUpdate \/ update \in Walk
    /\ place \in Nat
    /\ blob \in Seq(Detector)

\* An update has only detectors of the pipeline left; those that it has not left know
\* its event, or the list has changed under it.
UpdateInv ==
    update # NoUpdate =>
        /\ update.left \subseteq 1 .. Len(pipeline)
        /\ update.whole =>
              \A i \in 1 .. Len(pipeline) : i \in update.left \/ update.event \in pipeline[i].seen
        /\ ~update.whole => update.event \in torn

\* What detector i is still to learn from the update.
Due(i) == IF i \in update.left THEN {update.event} ELSE {}

\* The part of detector i that a snapshot has serialized.
CopyOf(i) ==
    /\ blob[i].kind = pipeline[i].kind
    /\ blob[i].seen \subseteq pipeline[i].seen \cup Due(i)
    /\ blob[i].kind # "kdtree" \/ quiet => floor[i] \subseteq blob[i].seen

\* A snapshot has a part of each detector it passed; no detector forgets meanwhile,
\* and it is quiet only without an update.
SnapshotInv ==
    /\ phase # "serialize" => blob = <<>>
    /\ phase = "serialize" =>
        /\ place \in 1 .. Len(pipeline) + 1 /\ Len(blob) = place - 1
        /\ quiet => update = NoUpdate
        /\ \A i \in 1 .. Len(pipeline) : floor[i] \subseteq pipeline[i].seen
        /\ \A i \in 1 .. place - 1 : CopyOf(i)

\* configure opens a store when it has closed the old one.
ClosedInv == phase = "open" => store = "none"

LifecycleInv ==
    /\ Shape
    /\ ClosedInv
    /\ UpdateInv
    /\ SnapshotInv
    /\ DetectorsAgree
    /\ LockIsOwned

-----------------------------------------------------------------------------
LEMMA Places ==
    ASSUME Shape
    PROVE  /\ Len(pipeline) \in Nat /\ DOMAIN pipeline = 1 .. Len(pipeline)
           /\ \A i \in 1 .. Len(pipeline) : pipeline[i] \in Detector /\ pipeline[i].seen \subseteq Samples
           /\ update # NoUpdate => update \in Walk /\ update.event \in Samples
<1>1. Len(pipeline) \in Nat /\ DOMAIN pipeline = 1 .. Len(pipeline)
  BY DEF Shape
<1>2. \A i \in 1 .. Len(pipeline) : pipeline[i] \in Detector
  BY DEF Shape
<1>3. \A d \in Detector : d.seen \subseteq Samples
  BY DEF Detector
<1>4. update # NoUpdate => update \in Walk /\ update.event \in Samples
  BY DEF Shape, Walk
<1>. QED BY <1>1, <1>2, <1>3, <1>4

\* No update has no event, and nothing left.
LEMMA NoUpdateIs ==
    /\ NoUpdate.event = NoSample /\ NoUpdate.left = {} /\ NoSample \notin Samples
    /\ NoUpdate \notin Walk
  BY NoSampleAssumption DEF NoUpdate, Walk

\* Without detectors there is nothing to disagree about.
LEMMA Emptied ==
    ASSUME pipeline' = <<>>, handled' = {}, place' \in Nat, phase' # "serialize", blob' = <<>>,
           \/ update' = NoUpdate
           \/ update' \in Walk /\ update'.left = {} /\ ~update'.whole /\ update'.event \in torn'
    PROVE  Shape' /\ UpdateInv' /\ SnapshotInv' /\ DetectorsAgree'
<1>1. DOMAIN pipeline' = {}
  OBVIOUS
<1>2. Shape'
  BY DEF Shape
<1>3. UpdateInv' /\ SnapshotInv'
  BY DEF UpdateInv, SnapshotInv
<1>4. DetectorsAgree'
  BY <1>1 DEF DetectorsAgree
<1>. QED BY <1>2, <1>3, <1>4

LEMMA LifecycleInitially == LifecycleInit => LifecycleInv
<1>. SUFFICES ASSUME LifecycleInit PROVE LifecycleInv
  OBVIOUS
<1>1. pipeline = <<>> /\ handled = {} /\ update = NoUpdate /\ place = 0 /\ phase = "idle" /\ blob = <<>>
  BY DEF LifecycleInit
<1>2. Len(pipeline) = 0 /\ DOMAIN pipeline = {}
  BY <1>1
<1>3. LockIsOwned
  BY DEF LifecycleInit, StoreInit, LockIsOwned
<1>. QED BY <1>1, <1>2, <1>3 DEF LifecycleInv, Shape, UpdateInv, SnapshotInv, DetectorsAgree, ClosedInv

\* Steps that leave the pipeline and a snapshot alone.
LEMMA Elsewhere ==
    ASSUME LifecycleInv, UNCHANGED pipelineVars, place' \in Nat, LockIsOwned',
           \/ UNCHANGED <<phase, place, blob, floor, quiet>>
           \/ phase # "serialize" /\ phase' # "serialize" /\ UNCHANGED blob,
           ClosedInv'
    PROVE  LifecycleInv'
<1>1. Shape' /\ UpdateInv' /\ DetectorsAgree'
  BY DEF pipelineVars, LifecycleInv, Shape, UpdateInv, DetectorsAgree, SnapshotInv
<1>2. SnapshotInv'
  <2>1. CASE UNCHANGED <<phase, place, blob, floor, quiet>>
    <3>1. \A i \in 1 .. place - 1 : CopyOf(i) => CopyOf(i)'
      BY <2>1 DEF pipelineVars, CopyOf, Due
    <3>. QED BY <2>1, <3>1 DEF pipelineVars, LifecycleInv, SnapshotInv
  <2>2. CASE phase # "serialize" /\ phase' # "serialize" /\ UNCHANGED blob
    BY <2>2 DEF LifecycleInv, SnapshotInv
  <2>. QED BY <2>1, <2>2
<1>. QED BY <1>1, <1>2 DEF LifecycleInv

LEMMA ConfigureStep ==
    ASSUME LifecycleInv,
           (\E c \in Configs : ConfigureBegin(c)) \/ ConfigureOpen \/ ConfigureClear \/ ConfigureEnd
    PROVE  LifecycleInv'
<1>1. CASE \E c \in Configs : ConfigureBegin(c)
  <2>1. PICK c \in Configs : ConfigureBegin(c)
    BY <1>1
  <2>2. /\ UNCHANGED pipelineVars /\ place' = place /\ blob' = blob
        /\ phase = "idle" /\ phase' \in {"open", "clear"}
    BY <2>1 DEF ConfigureBegin
  <2>3. LockIsOwned' /\ ClosedInv'
    BY <2>1 DEF ConfigureBegin, StoreDrop, LifecycleInv, LockIsOwned, ClosedInv
  <2>4. place' \in Nat /\ phase # "serialize" /\ phase' # "serialize"
    BY <2>2 DEF LifecycleInv, Shape
  <2>. QED BY <2>2, <2>3, <2>4, Elsewhere
<1>2. CASE ConfigureOpen
  <2>1. /\ UNCHANGED pipelineVars /\ place' = place /\ blob' = blob
        /\ phase = "open" /\ phase' \in {"clear", "idle"}
    BY <1>2 DEF ConfigureOpen
  <2>2. LockIsOwned' /\ ClosedInv'
    BY <1>2, <2>1 DEF ConfigureOpen, StoreOpen, LifecycleInv, LockIsOwned, ClosedInv
  <2>3. place' \in Nat /\ phase # "serialize" /\ phase' # "serialize"
    BY <2>1 DEF LifecycleInv, Shape
  <2>. QED BY <2>1, <2>2, <2>3, Elsewhere
<1>3. CASE ConfigureClear
  <2>1. /\ pipeline' = <<>> /\ handled' = {} /\ update' = NoUpdate /\ place' \in Nat
        /\ phase # "serialize" /\ phase' # "serialize" /\ blob' = blob
        /\ UNCHANGED storeVars
    BY <1>3 DEF ConfigureClear
  <2>2. blob' = <<>>
    BY <2>1 DEF LifecycleInv, SnapshotInv
  <2>3. ClosedInv' /\ LockIsOwned'
    BY <1>3 DEF ConfigureClear, ClosedInv, storeVars, LifecycleInv, LockIsOwned
  <2>4. Shape' /\ UpdateInv' /\ SnapshotInv' /\ DetectorsAgree'
    BY <2>1, <2>2, Emptied
  <2>. QED BY <2>3, <2>4 DEF LifecycleInv
<1>4. CASE ConfigureEnd
  <2>1. /\ UNCHANGED <<storeVars, pipelineVars>> /\ place' \in Nat /\ blob' = blob
        /\ phase # "serialize" /\ phase' # "serialize"
    BY <1>4 DEF ConfigureEnd
  <2>2. LockIsOwned' /\ ClosedInv'
    BY <1>4, <2>1 DEF ConfigureEnd, storeVars, LifecycleInv, LockIsOwned, ClosedInv
  <2>. QED BY <2>1, <2>2, Elsewhere
<1>. QED BY <1>1, <1>2, <1>3, <1>4

\* A new detector knows nothing, and nothing was processed since it came.
LEMMA ConfigureAddStep ==
    ASSUME LifecycleInv, ConfigureAdd
    PROVE  LifecycleInv'
<1>1. /\ phase = "build" /\ blob' = blob
      /\ UNCHANGED <<storeVars, floor, quiet>>
      /\ phase' \in {"build", "idle"}
  BY DEF ConfigureAdd
<1>2. phase # "serialize" /\ phase' # "serialize" /\ place' \in Nat
  BY <1>1 DEF ConfigureAdd, LifecycleInv, Shape
<1>3. LockIsOwned' /\ ClosedInv'
  BY <1>1 DEF storeVars, LifecycleInv, LockIsOwned, ClosedInv
<1>4. CASE UNCHANGED pipelineVars
  BY <1>1, <1>2, <1>3, <1>4, Elsewhere
<1>5. CASE \E kind \in Kinds : ListGrows(kind)
  <2>1. PICK kind \in Kinds : ListGrows(kind)
    BY <1>5
  <2>2. /\ pipeline' = Append(pipeline, [kind |-> kind, seen |-> {}])
        /\ handled' = {} /\ torn' = torn \cup Updating
    BY <2>1 DEF ListGrows
  <2>3. [kind |-> kind, seen |-> {}] \in Detector
    BY DEF Detector
  <2>4. /\ pipeline \in Seq(Detector) /\ pipeline' \in Seq(Detector)
        /\ Len(pipeline') = Len(pipeline) + 1 /\ Len(pipeline) \in Nat
        /\ \A i \in 1 .. Len(pipeline) : pipeline'[i] = pipeline[i]
        /\ pipeline'[Len(pipeline) + 1].seen = {}
        /\ DOMAIN pipeline' = 1 .. Len(pipeline) + 1 /\ DOMAIN pipeline = 1 .. Len(pipeline)
    BY <2>2, <2>3 DEF LifecycleInv, Shape
  <2>5. \/ update' = NoUpdate
        \/ /\ update # NoUpdate /\ update' \in Walk /\ update'.event = update.event
           /\ update'.left \subseteq update.left /\ ~update'.whole
    <3>1. PICK left \in SUBSET update.left :
            update' = IF update = NoUpdate THEN NoUpdate
                      ELSE [update EXCEPT !.left = left, !.whole = FALSE]
      BY <2>1 DEF ListGrows
    <3>2. CASE update = NoUpdate
      BY <3>1, <3>2
    <3>3. CASE update # NoUpdate
      <4>1. update \in Walk
        BY <3>3, Places DEF LifecycleInv
      <4>2. left \in SUBSET Nat
        BY <3>1, <4>1 DEF Walk
      <4>. QED BY <3>1, <3>3, <4>1, <4>2 DEF Walk
    <3>. QED BY <3>2, <3>3
  <2>6. update' # NoUpdate => update'.event \in torn' /\ update'.left \subseteq 1 .. Len(pipeline)
    <3>1. SUFFICES ASSUME update' # NoUpdate
                   PROVE  update'.event \in torn' /\ update'.left \subseteq 1 .. Len(pipeline)
      OBVIOUS
    <3>2. update.event \in Samples /\ update.event # NoSample
      BY <2>5, <3>1, Places, NoUpdateIs DEF LifecycleInv
    <3>. QED BY <2>2, <2>5, <3>1, <3>2 DEF LifecycleInv, UpdateInv, Updating
  <2>7. Shape' /\ SnapshotInv'
    BY <1>1, <1>2, <2>4, <2>5 DEF LifecycleInv, Shape, SnapshotInv
  <2>8. UpdateInv'
    BY <2>4, <2>5, <2>6 DEF UpdateInv
  <2>9. DetectorsAgree'
    BY <2>2, <2>4 DEF LifecycleInv, DetectorsAgree
  <2>. QED BY <1>3, <2>7, <2>8, <2>9 DEF LifecycleInv
<1>. QED BY <1>4, <1>5 DEF ConfigureAdd

-----------------------------------------------------------------------------
(* The composite's update *)

LEMMA UpdateBeginStep ==
    ASSUME LifecycleInv, NEW e \in Samples, UpdateBegin(e)
    PROVE  LifecycleInv'
<1>1. /\ update = NoUpdate /\ update' = [event |-> e, left |-> DOMAIN pipeline, whole |-> TRUE]
      /\ quiet' = (quiet /\ phase # "serialize")
      /\ UNCHANGED <<storeVars, pipeline, handled, torn, phase, place, blob, floor>>
  BY DEF UpdateBegin
<1>2. /\ update'.event = e /\ update'.left = 1 .. Len(pipeline) /\ update'.whole
      /\ update' \in Walk
  BY <1>1, Places DEF LifecycleInv, Walk
<1>3. update' # NoUpdate
  BY <1>2, NoUpdateIs
<1>4. Shape' /\ UpdateInv' /\ DetectorsAgree' /\ LockIsOwned' /\ ClosedInv'
  BY <1>1, <1>2
  DEF LifecycleInv, Shape, UpdateInv, DetectorsAgree, LockIsOwned, ClosedInv, storeVars
<1>5. SnapshotInv'
  <2>1. CASE phase = "serialize"
    <3>1. quiet' = FALSE /\ \A i : Due(i) = {}
      BY <1>1, <2>1, NoUpdateIs DEF Due
    <3>2. \A i \in 1 .. place - 1 : CopyOf(i)
      BY <2>1 DEF LifecycleInv, SnapshotInv
    <3>3. \A i \in 1 .. place - 1 : CopyOf(i)'
      BY <1>1, <3>1, <3>2 DEF CopyOf
    <3>. QED BY <1>1, <2>1, <3>1, <3>3 DEF LifecycleInv, SnapshotInv
  <2>2. CASE phase # "serialize"
    BY <1>1, <2>2 DEF LifecycleInv, SnapshotInv
  <2>. QED BY <2>1, <2>2
<1>. QED BY <1>4, <1>5 DEF LifecycleInv

\* What the detector in hand learns those before it know already, or the list has
\* changed under the update.
LEMMA UpdateDetectorStep ==
    ASSUME LifecycleInv, UpdateDetector
    PROVE  LifecycleInv'
<1>1. PICK at \in update.left :
        /\ IsIn(at)
        /\ pipeline' = [pipeline EXCEPT ![at].seen = @ \cup {update.event}]
        /\ update' = [update EXCEPT !.left = @ \ {at}]
  BY DEF UpdateDetector
<1>. DEFINE e == update.event
<1>2. UNCHANGED <<storeVars, handled, torn, phase, place, blob, floor, quiet>>
  BY DEF UpdateDetector, adminVars
<1>3. update # NoUpdate
  BY <1>1, NoUpdateIs
<1>4. /\ update \in Walk /\ e \in Samples /\ update.left \subseteq 1 .. Len(pipeline)
      /\ Len(pipeline) \in Nat /\ at \in 1 .. Len(pipeline)
      /\ pipeline \in Seq(Detector) /\ DOMAIN pipeline = 1 .. Len(pipeline)
      /\ \A i \in 1 .. Len(pipeline) : pipeline[i] \in Detector
  BY <1>1, <1>3, Places DEF LifecycleInv, Shape, UpdateInv
<1>5. /\ update'.left = update.left \ {at} /\ update'.event = e /\ update'.whole = update.whole
      /\ update' \in Walk
  BY <1>1, <1>4 DEF Walk
<1>. DEFINE new == [pipeline[at] EXCEPT !.seen = @ \cup {e}]
<1>6. /\ new \in Detector
      /\ new.kind = pipeline[at].kind /\ new.seen = pipeline[at].seen \cup {e}
  BY <1>4 DEF Detector
<1>7. pipeline' = [pipeline EXCEPT ![at] = new]
  BY <1>1
<1>. HIDE DEF new
<1>8. /\ pipeline' \in Seq(Detector)
      /\ Len(pipeline') = Len(pipeline) /\ DOMAIN pipeline' = 1 .. Len(pipeline)
      /\ \A i \in 1 .. Len(pipeline) : pipeline'[i] = IF i = at THEN new ELSE pipeline[i]
  BY <1>4, <1>6, <1>7, ExceptSeq
<1>9. Shape'
  BY <1>2, <1>5, <1>8 DEF LifecycleInv, Shape
<1>. HIDE DEF e
<1>10. \A i \in 1 .. Len(pipeline) :
        /\ pipeline'[i].kind = pipeline[i].kind
        /\ pipeline'[i].seen = IF i = at THEN pipeline[i].seen \cup {e} ELSE pipeline[i].seen
  BY <1>6, <1>8
<1>11. /\ update.whole => \A i \in 1 .. Len(pipeline) : i \in update.left \/ e \in pipeline[i].seen
       /\ ~update.whole => e \in torn
  BY <1>3 DEF LifecycleInv, UpdateInv, e
<1>12. UpdateInv'
  BY <1>2, <1>4, <1>5, <1>8, <1>10, <1>11 DEF UpdateInv
<1>13. DetectorsAgree'
  <2>1. ASSUME NEW i \in 1 .. Len(pipeline), NEW j \in 1 .. Len(pipeline), i <= j
        PROVE  pipeline'[j].seen \subseteq pipeline'[i].seen \cup torn
    <3>1. pipeline[j].seen \subseteq pipeline[i].seen \cup torn
      BY <1>4, <2>1 DEF LifecycleInv, DetectorsAgree
    <3>2. CASE i < j
      <4>1. j = at => i \notin update.left
        BY <1>1, <1>4, <3>2 DEF IsIn
      <4>2. j = at => e \in pipeline[i].seen \cup torn
        BY <1>11, <4>1
      <4>. QED BY <1>4, <1>10, <3>1, <4>2
    <3>3. CASE i = j
      BY <3>3
    <3>. QED BY <2>1, <3>2, <3>3
  <2>2. \A i \in 1 .. Len(pipeline) : handled \subseteq pipeline'[i].seen
    BY <1>4, <1>10 DEF LifecycleInv, DetectorsAgree
  <2>. QED BY <1>2, <1>8, <2>1, <2>2 DEF DetectorsAgree
<1>14. SnapshotInv'
  <2>1. CASE phase = "serialize"
    <3>1. place \in 1 .. Len(pipeline) + 1 /\ \A i \in 1 .. place - 1 : CopyOf(i)
      BY <2>1 DEF LifecycleInv, SnapshotInv
    <3>2. \A i \in 1 .. place - 1 : i \in 1 .. Len(pipeline)
      BY <1>4, <3>1
    <3>3. \A i \in 1 .. Len(pipeline) : pipeline[i].seen \cup Due(i) \subseteq pipeline'[i].seen \cup Due(i)'
      BY <1>5, <1>10 DEF Due, e
    <3>4. \A i \in 1 .. place - 1 : CopyOf(i)'
      <4>. SUFFICES ASSUME NEW i \in 1 .. place - 1 PROVE CopyOf(i)'
        BY <1>2
      <4>. QED BY <1>2, <1>10, <3>1, <3>2, <3>3 DEF CopyOf
    <3>5. \A i \in 1 .. Len(pipeline) : floor[i] \subseteq pipeline'[i].seen
      BY <1>10, <2>1 DEF LifecycleInv, SnapshotInv
    <3>. QED BY <1>2, <1>3, <1>8, <2>1, <3>4, <3>5 DEF LifecycleInv, SnapshotInv
  <2>2. CASE phase # "serialize"
    BY <1>2, <2>2 DEF LifecycleInv, SnapshotInv
  <2>. QED BY <2>1, <2>2
<1>. QED BY <1>2, <1>9, <1>12, <1>13, <1>14 DEF LifecycleInv, LockIsOwned, ClosedInv, storeVars

\* The event is known to every detector when an update of one list is through.
LEMMA UpdateEndStep ==
    ASSUME LifecycleInv, UpdateEnd
    PROVE  LifecycleInv'
<1>1. /\ update # NoUpdate /\ update.left = {} /\ update' = NoUpdate
      /\ handled' = IF update.whole THEN handled \cup {update.event} ELSE handled
      /\ UNCHANGED <<storeVars, pipeline, torn, phase, place, blob, floor, quiet>>
  BY DEF UpdateEnd, UpdateReturns, adminVars
<1>2. Len(pipeline) \in Nat /\ DOMAIN pipeline = 1 .. Len(pipeline)
  BY Places DEF LifecycleInv
<1>3. update.whole => \A i \in 1 .. Len(pipeline) : update.event \in pipeline[i].seen
  BY <1>1, <1>2 DEF LifecycleInv, UpdateInv
<1>4. Shape' /\ UpdateInv' /\ LockIsOwned' /\ ClosedInv'
  BY <1>1 DEF LifecycleInv, Shape, UpdateInv, LockIsOwned, ClosedInv, storeVars
<1>5. DetectorsAgree'
  BY <1>1, <1>2, <1>3 DEF LifecycleInv, DetectorsAgree
<1>6. SnapshotInv'
  <2>1. CASE phase = "serialize"
    <3>1. place \in 1 .. Len(pipeline) + 1 /\ \A i \in 1 .. place - 1 : CopyOf(i)
      BY <2>1 DEF LifecycleInv, SnapshotInv
    <3>2. \A i : Due(i) = {} /\ Due(i)' = {}
      BY <1>1, NoUpdateIs DEF Due
    <3>3. \A i \in 1 .. place - 1 : CopyOf(i)'
      BY <1>1, <3>1, <3>2 DEF CopyOf
    <3>. QED BY <1>1, <2>1, <3>1, <3>3 DEF LifecycleInv, SnapshotInv
  <2>2. CASE phase # "serialize"
    BY <1>1, <2>2 DEF LifecycleInv, SnapshotInv
  <2>. QED BY <2>1, <2>2
<1>. QED BY <1>4, <1>5, <1>6 DEF LifecycleInv

-----------------------------------------------------------------------------
(* Snapshots *)

LEMMA SnapshotBeginStep ==
    ASSUME LifecycleInv, SnapshotBegin
    PROVE  LifecycleInv'
<1>1. /\ phase = "idle" /\ phase' = "serialize" /\ place' = 1
      /\ floor' = [i \in DOMAIN pipeline |-> pipeline[i].seen]
      /\ quiet' = (update = NoUpdate)
      /\ UNCHANGED <<storeVars, pipelineVars, blob>>
  BY DEF SnapshotBegin
<1>2. Len(pipeline) \in Nat /\ DOMAIN pipeline = 1 .. Len(pipeline)
  BY Places DEF LifecycleInv
<1>3. blob' = <<>> /\ Len(blob') = 0
  BY <1>1 DEF LifecycleInv, SnapshotInv
<1>4. Shape' /\ UpdateInv' /\ DetectorsAgree' /\ LockIsOwned' /\ ClosedInv'
  BY <1>1
  DEF pipelineVars, storeVars, LifecycleInv, Shape, UpdateInv, DetectorsAgree, LockIsOwned, ClosedInv
<1>5. \A i \in 1 .. Len(pipeline) : floor'[i] \subseteq pipeline'[i].seen
  BY <1>1, <1>2 DEF pipelineVars
<1>6. SnapshotInv'
  <2>1. /\ Len(pipeline') = Len(pipeline) /\ phase' = "serialize"
        /\ place' \in 1 .. Len(pipeline') + 1 /\ Len(blob') = place' - 1
    BY <1>1, <1>2, <1>3 DEF pipelineVars
  <2>2. \A i \in 1 .. place' - 1 : FALSE
    BY <1>1
  <2>3. quiet' => update' = NoUpdate
    BY <1>1, Zenon DEF pipelineVars
  <2>4. \A i \in 1 .. Len(pipeline') : floor'[i] \subseteq pipeline'[i].seen
    BY <1>5, <2>1
  <2>. QED BY <2>1, <2>2, <2>3, <2>4 DEF SnapshotInv
<1>. QED BY <1>4, <1>6 DEF LifecycleInv

\* However an insertion is under way, a copy has no event the detector did not see.
LEMMA CopyBounds ==
    ASSUME Shape, NEW i \in 1 .. Len(pipeline), NEW copy \in Copies(i)
    PROVE  /\ copy \subseteq Samples
           /\ copy \subseteq pipeline[i].seen \cup Due(i)
           /\ pipeline[i].kind # "kdtree" \/ update = NoUpdate => pipeline[i].seen \subseteq copy
<1>1. pipeline[i].seen \subseteq Samples
  BY Places
<1>2. CASE ~IsIn(i)
  BY <1>1, <1>2 DEF Copies
<1>3. CASE IsIn(i)
  <2>1. i \in update.left /\ update # NoUpdate
    BY <1>3, NoUpdateIs DEF IsIn
  <2>2. update.event \in Samples
    BY <2>1, Places
  <2>. QED BY <1>1, <1>3, <2>1, <2>2 DEF Copies, Due
<1>. QED BY <1>2, <1>3

LEMMA SnapshotSerializeStep ==
    ASSUME LifecycleInv, SnapshotSerialize
    PROVE  LifecycleInv'
<1>1. PICK copy \in Copies(place) :
        blob' = Append(blob, [kind |-> pipeline[place].kind, seen |-> copy])
  BY DEF SnapshotSerialize
<1>2. /\ phase = "serialize" /\ place <= Len(pipeline) /\ place' = place + 1
      /\ UNCHANGED <<storeVars, pipelineVars, phase, floor, quiet>>
  BY DEF SnapshotSerialize
<1>3. /\ place \in 1 .. Len(pipeline) /\ Len(pipeline) \in Nat /\ Len(blob) = place - 1
      /\ quiet => update = NoUpdate
      /\ \A i \in 1 .. Len(pipeline) : floor[i] \subseteq pipeline[i].seen
      /\ \A i \in 1 .. place - 1 : CopyOf(i)
  BY <1>2, Places DEF LifecycleInv, SnapshotInv
<1>4. /\ copy \subseteq Samples
      /\ copy \subseteq pipeline[place].seen \cup Due(place)
      /\ pipeline[place].kind # "kdtree" \/ update = NoUpdate => pipeline[place].seen \subseteq copy
  BY <1>1, <1>3, CopyBounds DEF LifecycleInv
<1>. DEFINE part == [kind |-> pipeline[place].kind, seen |-> copy]
<1>5. pipeline[place].kind \in Kinds
  BY <1>3, Places DEF LifecycleInv, Detector
<1>6. part \in Detector /\ part.kind = pipeline[place].kind /\ part.seen = copy
  BY <1>4, <1>5 DEF Detector
<1>7. blob' = Append(blob, part)
  BY <1>1
<1>. HIDE DEF part
<1>8. /\ blob' \in Seq(Detector) /\ Len(blob') = place
      /\ \A i \in 1 .. place - 1 : blob'[i] = blob[i]
      /\ blob'[place] = part
  BY <1>3, <1>6, <1>7 DEF LifecycleInv, Shape
<1>9. Shape' /\ UpdateInv' /\ DetectorsAgree' /\ LockIsOwned' /\ ClosedInv'
  BY <1>2, <1>3, <1>8
  DEF pipelineVars, storeVars, LifecycleInv, Shape, UpdateInv, DetectorsAgree, LockIsOwned, ClosedInv
<1>10. \A i \in 1 .. place - 1 : CopyOf(i)'
  BY <1>2, <1>3, <1>8 DEF pipelineVars, CopyOf, Due
<1>11. \A i \in {place} : CopyOf(i)'
  <2>1. floor[place] \subseteq pipeline[place].seen
    BY <1>3
  <2>2. /\ blob'[place].kind = pipeline[place].kind /\ blob'[place].seen = copy
        /\ UNCHANGED <<pipeline, update, floor, quiet>>
    BY <1>2, <1>6, <1>8 DEF pipelineVars
  <2>3. ASSUME NEW i \in {place} PROVE CopyOf(i)'
    <3>1. i = place
      OBVIOUS
    <3>2. blob'[i].kind # "kdtree" \/ quiet => floor[i] \subseteq blob'[i].seen
      BY <1>3, <1>4, <2>1, <2>2, <3>1
    <3>. QED BY <1>4, <2>2, <3>1, <3>2 DEF CopyOf, Due
  <2>. QED BY <2>3
<1>12. SnapshotInv'
  <2>1. \A i \in 1 .. place : i \in 1 .. place - 1 \/ i \in {place}
    BY <1>3
  <2>2. \A i \in 1 .. place : CopyOf(i)'
    BY <1>10, <1>11, <2>1
  <2>3. place' - 1 = place /\ place' \in 1 .. Len(pipeline) + 1
    BY <1>2, <1>3
  <2>. QED BY <1>2, <1>3, <1>8, <2>2, <2>3 DEF pipelineVars, SnapshotInv
<1>. QED BY <1>9, <1>12 DEF LifecycleInv

LEMMA SnapshotPutStep ==
    ASSUME LifecycleInv, SnapshotPut
    PROVE  LifecycleInv'
<1>1. /\ phase = "serialize" /\ phase' = "idle" /\ place' = 0 /\ blob' = <<>>
      /\ UNCHANGED <<pipelineVars, store, locked>>
  BY DEF SnapshotPut, StorePut
<1>. QED
  BY <1>1
  DEF pipelineVars, LifecycleInv, Shape, UpdateInv, SnapshotInv, DetectorsAgree, LockIsOwned, ClosedInv

LEMMA RestoreStep ==
    ASSUME LifecycleInv, Restore
    PROVE  LifecycleInv'
<1>1. /\ phase = "idle"
      /\ UNCHANGED <<storeVars, phase, place, blob, floor, quiet>>
      /\ ListGoes \/ UNCHANGED pipelineVars
  BY DEF Restore
<1>2. LockIsOwned' /\ ClosedInv' /\ place' \in Nat
  BY <1>1 DEF storeVars, LifecycleInv, Shape, LockIsOwned, ClosedInv
<1>3. CASE ListGoes
  <2>1. blob' = <<>>
    BY <1>1 DEF LifecycleInv, SnapshotInv
  <2>2. /\ pipeline' = <<>> /\ handled' = {} /\ torn' = Updating
        /\ update' = IF update = NoUpdate THEN NoUpdate
                     ELSE [update EXCEPT !.left = {}, !.whole = FALSE]
    BY <1>3 DEF ListGoes
  <2>3. \/ update' = NoUpdate
        \/ update' \in Walk /\ update'.left = {} /\ ~update'.whole /\ update'.event \in torn'
    <3>1. CASE update = NoUpdate
      BY <2>2, <3>1
    <3>2. CASE update # NoUpdate
      <4>1. update \in Walk /\ update.event \in Samples /\ update.event # NoSample
        BY <3>2, Places, NoUpdateIs DEF LifecycleInv
      <4>. QED BY <2>2, <3>2, <4>1 DEF Walk, Updating
    <3>. QED BY <3>1, <3>2
  <2>. QED BY <1>1, <1>2, <2>1, <2>2, <2>3, Emptied DEF LifecycleInv
<1>4. CASE UNCHANGED pipelineVars
  BY <1>1, <1>2, <1>4, Elsewhere
<1>. QED BY <1>1, <1>3, <1>4

LEMMA CrashStep ==
    ASSUME LifecycleInv, Crash
    PROVE  LifecycleInv'
<1>1. /\ pipeline' = <<>> /\ handled' = {} /\ update' = NoUpdate /\ place' = 0 /\ phase' = "idle"
      /\ blob' = <<>> /\ store' = "none" /\ locked' = FALSE
  BY DEF Crash, StoreCrash
<1>. QED BY <1>1, Emptied DEF LifecycleInv, LockIsOwned, ClosedInv

-----------------------------------------------------------------------------
LEMMA LifecyclePreserved == LifecycleInv /\ [LifecycleNext]_lifecycleVars => LifecycleInv'
<1>. SUFFICES ASSUME LifecycleInv, [LifecycleNext]_lifecycleVars PROVE LifecycleInv'
  OBVIOUS
<1>1. CASE Ingest \/ UNCHANGED lifecycleVars
  <2>1. UNCHANGED <<storeVars, pipelineVars, adminVars>>
    BY <1>1 DEF Ingest, lifecycleVars
  <2>. QED
    BY <2>1, Elsewhere DEF storeVars, adminVars, LifecycleInv, Shape, LockIsOwned, ClosedInv
<1>2. ASSUME NEW e \in Samples, UpdateBegin(e) PROVE LifecycleInv'
  BY <1>2, UpdateBeginStep
<1>. QED
  BY <1>1, <1>2, ConfigureStep, ConfigureAddStep, UpdateDetectorStep, UpdateEndStep,
     SnapshotBeginStep, SnapshotSerializeStep, SnapshotPutStep, RestoreStep, CrashStep
  DEF LifecycleNext

\* The invariant: the types, what an update has reached, what a snapshot holds.
THEOREM LifecycleInvariant == LifecycleSpec => []LifecycleInv
  BY LifecycleInitially, LifecyclePreserved, PTL DEF LifecycleSpec

\* The directory is locked exactly while the engine has it open.
THEOREM LockIsOwnedHolds == LifecycleSpec => []LockIsOwned
<1>1. LifecycleInv => LockIsOwned
  BY DEF LifecycleInv
<1>. QED BY <1>1, LifecycleInvariant, PTL

\* The detectors agree on what was processed, also when updates overlap configure and
\* restore, neither of which takes the mutex of the composite to change its list: all
\* know what was processed with one list, and the rest an earlier one before a later one,
\* but for the events whose update the list changed under.
THEOREM DetectorsAgreeHolds == LifecycleSpec => []DetectorsAgree
<1>1. LifecycleInv => DetectorsAgree
  BY DEF LifecycleInv
<1>. QED BY <1>1, LifecycleInvariant, PTL

\* A snapshot that any updates overlap lies between what was known when it began and
\* what is known when it is put.
THEOREM SnapshotWindowHolds == LifecycleSpec => []SnapshotWindow
<1>1. LifecycleInv => SnapshotWindow
  <2>. SUFFICES ASSUME LifecycleInv, phase = "serialize", place > Len(pipeline)
                PROVE  /\ KindsOf(blob) = KindsOf(pipeline)
                       /\ \A i \in DOMAIN pipeline :
                           /\ blob[i].seen \subseteq pipeline[i].seen \cup Updating
                           /\ blob[i].kind # "kdtree" \/ quiet => floor[i] \subseteq blob[i].seen
    BY DEF SnapshotWindow
  <2>1. /\ Len(pipeline) \in Nat /\ DOMAIN pipeline = 1 .. Len(pipeline)
        /\ place \in 1 .. Len(pipeline) + 1 /\ Len(blob) = place - 1 /\ blob \in Seq(Detector)
        /\ \A i \in 1 .. place - 1 : CopyOf(i)
    BY Places DEF LifecycleInv, Shape, SnapshotInv
  <2>2. place - 1 = Len(pipeline) /\ DOMAIN blob = 1 .. Len(pipeline)
    BY <2>1
  <2>3. \A i \in 1 .. Len(pipeline) : CopyOf(i)
    BY <2>1, <2>2
  <2>4. \A i : Due(i) \subseteq Updating
    <3>1. CASE update = NoUpdate
      BY <3>1, NoUpdateIs DEF Due
    <3>2. CASE update # NoUpdate
      <4>1. update.event \in Samples /\ update.event # NoSample
        BY <3>2, Places, NoUpdateIs DEF LifecycleInv
      <4>. QED BY <4>1 DEF Due, Updating
    <3>. QED BY <3>1, <3>2
  <2>. QED BY <2>1, <2>2, <2>3, <2>4 DEF KindsOf, CopyOf
<1>. QED BY <1>1, LifecycleInvariant, PTL

\* The detectors that configure has added when it is at the given place of its list.
Added(c, at) == Chosen(SubSeq(KindsOf(c.detectors), 1, at - 1), Kinds)

\* The inductive invariant: while configure builds, the pipeline holds the detectors
\* of the places it has passed.
PipelineInv ==
    /\ config \in Configs \cup {NoConfig} /\ builtFrom \in Configs \cup {NoConfig}
    /\ phase \in {"open", "clear", "build"} => config \in Configs /\ outcome = "pending"
    /\ phase = "build" =>
        /\ builtFrom = config
        /\ place \in 1 .. Len(config.detectors) + 1
        /\ KindsOf(pipeline) = Added(config, place)
    /\ PipelineOfOneConfiguration

\* The kinds of the detectors of a configuration are a sequence as long as theirs.
LEMMA DetectorsOfConfig ==
    ASSUME NEW c \in Configs
    PROVE  \E T : KindsOf(c.detectors) \in Seq(T) /\ Len(KindsOf(c.detectors)) = Len(c.detectors)
                  /\ Len(c.detectors) \in Nat
                  /\ \A i \in 1 .. Len(c.detectors) :
                       KindsOf(c.detectors)[i] = c.detectors[i].kind /\ c.detectors[i].valid \in BOOLEAN
<1>. DEFINE T == {c.detectors[i].kind : i \in DOMAIN c.detectors}
            n == Len(c.detectors)
            k == KindsOf(c.detectors)
<1>1. c.detectors \in Seq([kind : T, valid : BOOLEAN])
  BY ConfigsAssumption
<1>. HIDE DEF T
<1>2. n \in Nat /\ DOMAIN c.detectors = 1 .. n
      /\ \A i \in 1 .. n : c.detectors[i] \in [kind : T, valid : BOOLEAN]
  <2>. DEFINE D == [kind : T, valid : BOOLEAN]
              d == c.detectors
  <2>1. d \in Seq(D)
    BY <1>1
  <2>. HIDE DEF D, d
  <2>2. Len(d) \in Nat /\ DOMAIN d = 1 .. Len(d) /\ \A i \in 1 .. Len(d) : d[i] \in D
    BY <2>1
  <2>. QED BY <2>2 DEF D, d
<1>3. \A i \in 1 .. n : c.detectors[i].kind \in T /\ c.detectors[i].valid \in BOOLEAN
  BY <1>2
<1>4. k = [i \in 1 .. n |-> c.detectors[i].kind]
  BY <1>2 DEF KindsOf
<1>. HIDE DEF n, k
<1>5. k \in Seq(T) /\ Len(k) = n /\ \A i \in 1 .. n : k[i] = c.detectors[i].kind
  <2>1. k \in [1 .. n -> T]
    BY <1>3, <1>4
  <2>2. k \in Seq(T) /\ Len(k) = n
    BY <1>2, <2>1
  <2>. QED BY <1>4, <2>2
<1>. QED BY <1>2, <1>3, <1>5 DEF n, k

\* What is chosen of the front of a sequence is the front of what is chosen.
LEMMA ChosenOfFront ==
    ASSUME NEW T, NEW s \in Seq(T), NEW S, NEW n \in 0 .. Len(s)
    PROVE  IsPrefix(Chosen(SubSeq(s, 1, n), S), Chosen(s, S))
<1>. DEFINE F(m) == Chosen(SubSeq(s, 1, m), S)
            N == {k \in Nat : n + k <= Len(s) => IsPrefix(F(n), F(n + k))}
<1>0. Len(s) \in Nat /\ n \in Nat
  OBVIOUS
<1>1. \A m \in 0 .. Len(s) : SubSeq(s, 1, m) \in Seq(T)
  <2>1. SUFFICES ASSUME NEW m \in 0 .. Len(s) PROVE SubSeq(s, 1, m) \in Seq(T)
    OBVIOUS
  <2>2. \A i \in 1 .. m : s[i] \in T
    BY <1>0
  <2>3. 1 \in Nat \ {0} /\ m \in Int
    BY <1>0
  <2>. QED BY <2>2, <2>3, SubSeqProperties
<1>2. \A m \in 0 .. Len(s) : F(m) \in Seq(T)
  BY <1>1, ChosenType
<1>3. 0 \in N
  <2>1. F(n) \in Seq(T) /\ n + 0 = n
    BY <1>0, <1>2
  <2>. HIDE DEF F
  <2>2. IsPrefix(F(n), F(n))
    BY <2>1, PrefixIs
  <2>. QED BY <2>1, <2>2
<1>4. ASSUME NEW k \in Nat, k \in N PROVE k + 1 \in N
  <2>. DEFINE m == n + k
  <2>1. SUFFICES ASSUME n + (k + 1) <= Len(s) PROVE IsPrefix(F(n), F(n + (k + 1)))
    OBVIOUS
  <2>2. m \in 0 .. Len(s) /\ m + 1 \in 0 .. Len(s) /\ n + (k + 1) = m + 1 /\ s[m + 1] \in T
        /\ m + 1 \in 1 .. Len(s)
    BY <1>0, <2>1
  <2>3. SubSeq(s, 1, m + 1) = Append(SubSeq(s, 1, m), s[m + 1])
    <3>. HIDE DEF m
    <3>. QED BY <1>0, <2>2, SubSeqRecursiveSecond
  <2>4. F(m + 1) = IF s[m + 1] \in S THEN Append(F(m), s[m + 1]) ELSE F(m)
    <3>1. SubSeq(s, 1, m) \in Seq(T) /\ s[m + 1] \in T
      BY <1>1, <2>2
    <3>. DEFINE q == SubSeq(s, 1, m)
                x == s[m + 1]
    <3>2. q \in Seq(T) /\ x \in T
      BY <3>1
    <3>3. F(m) = Chosen(q, S) /\ F(m + 1) = Chosen(Append(q, x), S)
      BY <2>3
    <3>. HIDE DEF q, x, F
    <3>4. Chosen(Append(q, x), S) = IF x \in S THEN Append(Chosen(q, S), x) ELSE Chosen(q, S)
      BY <3>2, ChosenAppend
    <3>. QED BY <3>3, <3>4 DEF x
  <2>5. F(n) \in Seq(T) /\ F(m) \in Seq(T) /\ F(m + 1) \in Seq(T)
    BY <1>0, <1>2, <2>2
  <2>6. IsPrefix(F(n), F(m))
    BY <1>4, <2>2
  <2>. HIDE DEF F, m
  <2>7. Len(F(n)) <= Len(F(m)) /\ \A i \in 1 .. Len(F(n)) : F(n)[i] = F(m)[i]
    BY <2>5, <2>6, PrefixIs
  <2>8. Len(F(m)) <= Len(F(m + 1)) /\ \A i \in 1 .. Len(F(m)) : F(m + 1)[i] = F(m)[i]
    <3>. DEFINE q == F(m)
                x == s[m + 1]
    <3>1. q \in Seq(T) /\ x \in T
      BY <2>2, <2>5
    <3>. HIDE DEF q, x
    <3>2. /\ Len(q) <= Len(Append(q, x)) /\ \A i \in 1 .. Len(q) : Append(q, x)[i] = q[i]
          /\ Len(q) <= Len(q)
      BY <3>1
    <3>3. F(m + 1) = Append(q, x) \/ F(m + 1) = q
      BY <2>4 DEF q, x
    <3>4. Len(q) <= Len(F(m + 1)) /\ \A i \in 1 .. Len(q) : F(m + 1)[i] = q[i]
      BY <3>2, <3>3
    <3>. QED BY <3>4 DEF q
  <2>9. Len(F(n)) <= Len(F(m + 1)) /\ \A i \in 1 .. Len(F(n)) : F(n)[i] = F(m + 1)[i]
    BY <2>5, <2>7, <2>8
  <2>10. IsPrefix(F(n), F(m + 1))
    BY <2>5, <2>9, PrefixIs
  <2>. QED BY <2>2, <2>10
<1>5. Nat \subseteq N
  <2>. HIDE DEF N
  <2>. QED BY <1>3, <1>4, SetInduction
<1>6. IsPrefix(F(n), F(Len(s)))
  <2>1. Len(s) - n \in Nat /\ n + (Len(s) - n) = Len(s)
    BY <1>0
  <2>2. Len(s) - n \in N
    BY <1>5, <2>1
  <2>. QED BY <1>0, <2>1, <2>2
<1>7. SubSeq(s, 1, Len(s)) = s
  BY SubSeqFull
<1>. QED BY <1>6, <1>7

\* One more detector appends its kind.
LEMMA KindsAppended ==
    ASSUME NEW p \in Seq(Detector), NEW kind \in Kinds
    PROVE  /\ KindsOf(p) \in Seq(Kinds)
           /\ KindsOf(Append(p, [kind |-> kind, seen |-> {}])) = Append(KindsOf(p), kind)
<1>. DEFINE d == [kind |-> kind, seen |-> {}]
            n == Len(p)
            q == Append(p, d)
<1>1. d \in Detector /\ d.kind = kind
  BY DEF Detector
<1>2. \A x \in Detector : x.kind \in Kinds
  BY DEF Detector
<1>. HIDE DEF d
<1>3. /\ n \in Nat /\ DOMAIN p = 1 .. n /\ DOMAIN q = 1 .. n + 1
      /\ q[n + 1] = d /\ \A i \in 1 .. n : q[i] = p[i] /\ p[i] \in Detector
  BY <1>1
<1>. DEFINE k == KindsOf(p)
            l == KindsOf(q)
<1>4. k = [i \in 1 .. n |-> p[i].kind] /\ l = [i \in 1 .. n + 1 |-> q[i].kind]
  <2>. HIDE DEF q, n
  <2>. QED BY <1>3 DEF KindsOf
<1>. HIDE DEF q, n, k, l
<1>5. k \in [1 .. n -> Kinds]
  BY <1>2, <1>3, <1>4
<1>6. k \in Seq(Kinds) /\ Len(k) = n
  BY <1>3, <1>5
<1>7. /\ Append(k, kind) \in Seq(Kinds) /\ Len(Append(k, kind)) = n + 1
      /\ Append(k, kind)[n + 1] = kind /\ \A i \in 1 .. n : Append(k, kind)[i] = k[i]
  BY <1>6
<1>8. /\ l \in Seq(Kinds) /\ Len(l) = n + 1
      /\ l[n + 1] = kind /\ \A i \in 1 .. n : l[i] = k[i]
  <2>1. \A i \in 1 .. n + 1 : q[i] \in Detector /\ q[i].kind \in Kinds
    BY <1>1, <1>2, <1>3
  <2>2. l \in [1 .. n + 1 -> Kinds]
    BY <1>4, <2>1
  <2>3. l \in Seq(Kinds) /\ Len(l) = n + 1
    BY <1>3, <2>2
  <2>. QED BY <1>1, <1>3, <1>4, <2>3
<1>9. \A i \in 1 .. n + 1 : l[i] = Append(k, kind)[i]
  BY <1>3, <1>7, <1>8
<1>10. l = Append(k, kind)
  BY <1>7, <1>8, <1>9, SeqEqual
<1>. QED BY <1>6, <1>10 DEF k, l, q, d

\* No detectors, no kinds.
LEMMA KindsOfNone == KindsOf(<<>>) = <<>>
BY DEF KindsOf

\* What configure has added at the first place, after the next one and at the end.
LEMMA AddedBounds ==
    ASSUME NEW c \in Configs
    PROVE  /\ Added(c, 1) = <<>>
           /\ Added(c, Len(c.detectors) + 1) = Wanted(c)
           /\ \A at \in 1 .. Len(c.detectors) + 1 : IsPrefix(Added(c, at), Wanted(c))
           /\ \A at \in 1 .. Len(c.detectors) :
                Added(c, at + 1) = IF c.detectors[at].kind \in Kinds
                                   THEN Append(Added(c, at), c.detectors[at].kind)
                                   ELSE Added(c, at)
<1>. DEFINE k == KindsOf(c.detectors)
            n == Len(c.detectors)
<1>1. PICK T : k \in Seq(T) /\ Len(k) = n /\ n \in Nat
               /\ \A i \in 1 .. n : k[i] = c.detectors[i].kind
  BY DetectorsOfConfig
<1>2. \A at : Added(c, at) = Chosen(SubSeq(k, 1, at - 1), Kinds)
  BY DEF Added
<1>3. Wanted(c) = Chosen(k, Kinds)
  BY NoSampleAssumption DEF Wanted
<1>. HIDE DEF k, n
<1>4. Added(c, 1) = <<>>
  <2>1. SubSeq(k, 1, 0) = <<>>
    BY SubSeqEmpty
  <2>2. 1 - 1 = 0
    OBVIOUS
  <2>. QED BY <1>2, <2>1, <2>2, ChosenEmpty
<1>5. Added(c, n + 1) = Wanted(c)
  <2>1. (n + 1) - 1 = n /\ SubSeq(k, 1, n) = k
    BY <1>1, SubSeqFull
  <2>. QED BY <1>2, <1>3, <2>1
<1>6. ASSUME NEW at \in 1 .. n + 1 PROVE IsPrefix(Added(c, at), Wanted(c))
  <2>1. at - 1 \in 0 .. Len(k)
    BY <1>1
  <2>. QED BY <1>1, <1>2, <1>3, <2>1, ChosenOfFront
<1>7. ASSUME NEW at \in 1 .. n
      PROVE  Added(c, at + 1) = IF c.detectors[at].kind \in Kinds
                                THEN Append(Added(c, at), c.detectors[at].kind) ELSE Added(c, at)
  <2>. DEFINE q == SubSeq(k, 1, at - 1)
              x == k[at]
  <2>0. at \in Nat /\ at \in 1 .. Len(k) /\ (at - 1) + 1 = at /\ at - 1 \in 0 .. Len(k) - 1
        /\ (at + 1) - 1 = at
    BY <1>1
  <2>1. q \in Seq(T) /\ x \in T
    <3>1. \A i \in 1 .. at - 1 : k[i] \in T
      BY <1>1, <2>0
    <3>2. 1 \in Nat \ {0} /\ at - 1 \in Int
      BY <2>0
    <3>3. x \in T
      BY <1>1, <2>0
    <3>. QED BY <1>1, <3>1, <3>2, <3>3, SubSeqProperties
  <2>2. SubSeq(k, 1, at) = Append(q, x)
    <3>1. at \in 1 .. Len(k)
      BY <2>0
    <3>. QED BY <1>1, <2>0, <3>1, SubSeqRecursiveSecond
  <2>3. Added(c, at) = Chosen(q, Kinds) /\ Added(c, at + 1) = Chosen(Append(q, x), Kinds)
    BY <1>2, <2>0, <2>2
  <2>4. x = c.detectors[at].kind
    BY <1>1
  <2>. HIDE DEF q, x
  <2>5. Chosen(Append(q, x), Kinds) = IF x \in Kinds THEN Append(Chosen(q, Kinds), x) ELSE Chosen(q, Kinds)
    BY <2>1, ChosenAppend
  <2>. QED BY <2>3, <2>4, <2>5
<1>. QED BY <1>4, <1>5, <1>6, <1>7 DEF n

\* Steps that build no pipeline.
LEMMA PipelineKept ==
    ASSUME PipelineInv, UNCHANGED <<config, builtFrom, outcome>>,
           KindsOf(pipeline') = KindsOf(pipeline),
           UNCHANGED <<phase, place>> \/ phase' \notin {"open", "clear", "build"}
    PROVE  PipelineInv'
BY DEF PipelineInv, PipelineOfOneConfiguration

\* configure makes the detector of one place, fails to (the pipeline stays short of
\* the configuration), or passes a kind that it does not know.
LEMMA ConfigureAddKinds == LifecycleInv /\ PipelineInv /\ ConfigureAdd => PipelineInv'
<1>. SUFFICES ASSUME LifecycleInv, PipelineInv, ConfigureAdd PROVE PipelineInv'
  OBVIOUS
<1>1. /\ phase = "build" /\ place <= Len(config.detectors)
      /\ UNCHANGED <<config, builtFrom>>
      /\ config \in Configs /\ outcome = "pending"
      /\ builtFrom = config /\ place \in 1 .. Len(config.detectors) + 1
      /\ KindsOf(pipeline) = Added(config, place)
  BY DEF ConfigureAdd, PipelineInv
<1>. DEFINE d == config.detectors[place]
<1>2. Len(config.detectors) \in Nat
  BY <1>1, DetectorsOfConfig
<1>3. place \in 1 .. Len(config.detectors) /\ place + 1 \in 1 .. Len(config.detectors) + 1
  BY <1>1, <1>2
<1>4. /\ Added(config, place + 1) = IF d.kind \in Kinds THEN Append(Added(config, place), d.kind)
                                    ELSE Added(config, place)
      /\ IsPrefix(Added(config, place), Wanted(config))
      /\ IsPrefix(Added(config, place + 1), Wanted(config))
  BY <1>1, <1>3, AddedBounds
<1>5. /\ \/ /\ d.kind \in Kinds /\ d.valid
            /\ pipeline' = Append(pipeline, [kind |-> d.kind, seen |-> {}])
            /\ place' = place + 1
            /\ UNCHANGED <<phase, outcome>>
         \/ /\ d.kind \in Kinds
            /\ phase' = "idle" /\ outcome' = "threw"
            /\ UNCHANGED pipeline
         \/ /\ d.kind \notin Kinds
            /\ place' = place + 1
            /\ UNCHANGED <<pipeline, phase, outcome>>
  BY DEF ConfigureAdd, ListGrows, pipelineVars
<1>6. CASE /\ d.kind \in Kinds
           /\ pipeline' = Append(pipeline, [kind |-> d.kind, seen |-> {}])
           /\ place' = place + 1
           /\ UNCHANGED <<phase, outcome>>
  <2>1. pipeline \in Seq(Detector)
    BY DEF LifecycleInv, Shape
  <2>2. KindsOf(pipeline') = Append(KindsOf(pipeline), d.kind)
    <3>. HIDE DEF d
    <3>. QED BY <1>6, <2>1, KindsAppended
  <2>3. KindsOf(pipeline') = Added(config, place')
    BY <1>1, <1>4, <1>6, <2>2
  <2>. QED BY <1>1, <1>3, <1>4, <1>6, <2>3 DEF PipelineInv, PipelineOfOneConfiguration
<1>7. CASE phase' = "idle" /\ outcome' = "threw" /\ UNCHANGED pipeline
  BY <1>1, <1>4, <1>7 DEF PipelineInv, PipelineOfOneConfiguration
<1>8. CASE d.kind \notin Kinds /\ place' = place + 1 /\ UNCHANGED <<pipeline, phase, outcome>>
  <2>1. KindsOf(pipeline') = Added(config, place')
    BY <1>1, <1>4, <1>8
  <2>. QED BY <1>1, <1>3, <1>4, <1>8, <2>1 DEF PipelineInv, PipelineOfOneConfiguration
<1>. QED BY <1>5, <1>6, <1>7, <1>8

\* configure is done when the pipeline holds all of them.
LEMMA ConfigureEndKinds == PipelineInv /\ ConfigureEnd => PipelineInv'
<1>. SUFFICES ASSUME PipelineInv, ConfigureEnd PROVE PipelineInv'
  OBVIOUS
<1>1. /\ place > Len(config.detectors)
      /\ UNCHANGED <<config, builtFrom, pipeline>> /\ phase' = "idle" /\ outcome' = "done"
      /\ config \in Configs /\ builtFrom = config /\ place \in 1 .. Len(config.detectors) + 1
      /\ KindsOf(pipeline) = Added(config, place)
  BY DEF ConfigureEnd, PipelineInv, pipelineVars
<1>2. Len(config.detectors) \in Nat
  BY <1>1, DetectorsOfConfig
<1>3. place = Len(config.detectors) + 1
  BY <1>1, <1>2
<1>4. KindsOf(pipeline) = Wanted(config) /\ IsPrefix(KindsOf(pipeline), Wanted(config))
  BY <1>1, <1>3, AddedBounds
<1>. QED BY <1>1, <1>4 DEF PipelineInv, PipelineOfOneConfiguration

\* A sequence is a front of itself.
LEMMA PrefixOfItself ==
    ASSUME NEW T, NEW s \in Seq(T)
    PROVE  IsPrefix(s, s)
<1>1. Len(s) \in Nat
  OBVIOUS
<1>. QED BY <1>1, PrefixIs

\* A pipeline without detectors is the front of any.
LEMMA EmptiedPipeline ==
    ASSUME NEW c \in Configs \cup {NoConfig}
    PROVE  KindsOf(<<>>) = <<>> /\ IsPrefix(<<>>, Wanted(c))
<1>1. CASE c = NoConfig
  <2>1. Wanted(c) = <<>>
    BY <1>1 DEF Wanted
  <2>2. <<>> \in Seq({})
    OBVIOUS
  <2>. QED BY <2>1, <2>2, PrefixOfItself, KindsOfNone
<1>2. CASE c \in Configs
  <2>1. Len(c.detectors) \in Nat
    BY <1>2, DetectorsOfConfig
  <2>2. 1 \in 1 .. Len(c.detectors) + 1
    BY <2>1
  <2>. QED BY <1>2, <2>2, AddedBounds, KindsOfNone
<1>. QED BY <1>1, <1>2

\* An event changes what a detector has seen and never its kind.
LEMMA UpdateKeepsKinds == LifecycleInv /\ UpdateDetector => KindsOf(pipeline') = KindsOf(pipeline)
<1>. SUFFICES ASSUME LifecycleInv, UpdateDetector PROVE KindsOf(pipeline') = KindsOf(pipeline)
  OBVIOUS
<1>1. /\ Len(pipeline) \in Nat /\ DOMAIN pipeline = 1 .. Len(pipeline)
      /\ \A i \in 1 .. Len(pipeline) : pipeline[i] \in Detector
  BY Places DEF LifecycleInv
<1>2. PICK at \in update.left : pipeline' = [pipeline EXCEPT ![at].seen = @ \cup {update.event}]
  BY DEF UpdateDetector
<1>3. DOMAIN pipeline' = DOMAIN pipeline
  BY <1>2
<1>4. \A i \in DOMAIN pipeline : pipeline'[i].kind = pipeline[i].kind
  BY <1>1, <1>2 DEF Detector
<1>. QED BY <1>3, <1>4 DEF KindsOf

\* PipelineInv is an invariant of LifecycleSpec: configure, also one that fails half
\* way, updates, snapshots, crashes and restarts.
THEOREM PipelineInvariant == LifecycleSpec => []PipelineInv
<1>1. LifecycleInit => PipelineInv
  <2>. SUFFICES ASSUME LifecycleInit PROVE PipelineInv
    OBVIOUS
  <2>1. pipeline = <<>> /\ config = NoConfig /\ builtFrom = NoConfig /\ phase = "idle" /\ outcome = "none"
    BY DEF LifecycleInit
  <2>. QED BY <2>1, EmptiedPipeline DEF PipelineInv, PipelineOfOneConfiguration
<1>2. LifecycleInv /\ PipelineInv /\ [LifecycleNext]_lifecycleVars => PipelineInv'
  <2>. SUFFICES ASSUME LifecycleInv, PipelineInv, [LifecycleNext]_lifecycleVars PROVE PipelineInv'
    OBVIOUS
  <2>1. ASSUME NEW c \in Configs, ConfigureBegin(c) PROVE PipelineInv'
    <3>1. /\ config' = c /\ outcome' = "pending" /\ phase' \in {"open", "clear"}
          /\ UNCHANGED <<pipeline, builtFrom>>
      BY <2>1 DEF ConfigureBegin, pipelineVars
    <3>. QED BY <3>1 DEF PipelineInv, PipelineOfOneConfiguration
  <2>2. CASE ConfigureOpen
    <3>1. /\ UNCHANGED <<config, builtFrom, pipeline>>
          /\ config \in Configs /\ outcome = "pending"
          /\ \/ phase' = "clear" /\ outcome' = outcome
             \/ phase' = "idle" /\ outcome' = "threw"
      BY <2>2 DEF ConfigureOpen, pipelineVars, PipelineInv
    <3>. QED BY <3>1 DEF PipelineInv, PipelineOfOneConfiguration
  <2>3. CASE ConfigureClear
    <3>1. /\ config' = config /\ builtFrom' = config /\ outcome' = outcome /\ pipeline' = <<>>
          /\ phase' = "build" /\ place' = 1
          /\ config \in Configs /\ outcome = "pending"
      BY <2>3 DEF ConfigureClear, PipelineInv
    <3>2. Len(config.detectors) \in Nat
      BY <3>1, DetectorsOfConfig
    <3>3. place' \in 1 .. Len(config.detectors) + 1
      BY <3>1, <3>2
    <3>4. KindsOf(pipeline') = <<>> /\ KindsOf(pipeline') = Added(config, 1)
      BY <3>1, KindsOfNone, AddedBounds
    <3>5. IsPrefix(KindsOf(pipeline'), Wanted(config))
      BY <3>1, <3>4, EmptiedPipeline
    <3>. QED BY <3>1, <3>3, <3>4, <3>5 DEF PipelineInv, PipelineOfOneConfiguration
  <2>4. CASE ConfigureAdd
    BY <2>4, ConfigureAddKinds
  <2>5. CASE ConfigureEnd
    BY <2>5, ConfigureEndKinds
  <2>6. ASSUME NEW e \in Samples, UpdateBegin(e) PROVE PipelineInv'
    BY <2>6, PipelineKept DEF UpdateBegin
  <2>7. CASE UpdateDetector
    BY <2>7, UpdateKeepsKinds, PipelineKept DEF UpdateDetector, adminVars
  <2>8. CASE UpdateEnd \/ Ingest \/ UNCHANGED lifecycleVars
    BY <2>8, PipelineKept DEF UpdateEnd, UpdateReturns, Ingest, lifecycleVars, pipelineVars, adminVars
  <2>9. CASE SnapshotBegin \/ SnapshotSerialize \/ SnapshotPut
    <3>1. UNCHANGED <<config, builtFrom, outcome, pipeline>> /\ phase' \notin {"open", "clear", "build"}
      BY <2>9 DEF SnapshotBegin, SnapshotSerialize, SnapshotPut, pipelineVars
    <3>. QED BY <3>1, PipelineKept
  <2>10. CASE Restore
    <3>1. /\ UNCHANGED <<config, builtFrom, phase, place>> /\ phase = "idle"
          /\ \/ pipeline' = <<>> /\ outcome' = "emptied"
             \/ UNCHANGED <<pipeline, outcome>>
      BY <2>10 DEF Restore, ListGoes, pipelineVars
    <3>2. builtFrom \in Configs \cup {NoConfig}
      BY DEF PipelineInv
    <3>3. CASE pipeline' = <<>> /\ outcome' = "emptied"
      BY <3>1, <3>2, <3>3, EmptiedPipeline DEF PipelineInv, PipelineOfOneConfiguration
    <3>4. CASE UNCHANGED <<pipeline, outcome>>
      BY <3>1, <3>4, PipelineKept
    <3>. QED BY <3>1, <3>3, <3>4
  <2>11. CASE Crash
    <3>1. /\ config' = NoConfig /\ builtFrom' = NoConfig /\ pipeline' = <<>>
          /\ phase' = "idle" /\ outcome' = "none"
      BY <2>11 DEF Crash
    <3>. QED BY <3>1, EmptiedPipeline DEF PipelineInv, PipelineOfOneConfiguration
  <2>. QED BY <2>1, <2>2, <2>3, <2>4, <2>5, <2>6, <2>7, <2>8, <2>9, <2>10, <2>11 DEF LifecycleNext
<1>. QED BY <1>1, <1>2, LifecycleInvariant, PTL DEF LifecycleSpec

\* The pipeline of engine.cpp is built from one configuration: it holds a front of the
\* kinds that configuration asks for, and all of them once configure has returned.
THEOREM PipelineOfOneConfigurationHolds == LifecycleSpec => []PipelineOfOneConfiguration
<1>1. PipelineInv => PipelineOfOneConfiguration
  BY DEF PipelineInv
<1>. QED BY <1>1, PipelineInvariant, PTL

==============================================================================
