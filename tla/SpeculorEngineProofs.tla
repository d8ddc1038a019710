------------------------ MODULE SpeculorEngineProofs ------------------------
(***************************************************************************)
(* Theorems about SpeculorEngine, for any number of calling threads and of *)
(* calls, any scores of the pipeline and any resolution of them.           *)
(***************************************************************************)
EXTENDS SpeculorEngine, TLAPS

\* Whoever is between the store and the clamp holds the threshold's mutex.
LockInv == \A p \in Callers : pc[p] = "clamp" <=> tlock = p

\* A push_back that has found the end of recent_alerts_ holds alerts_mutex_, and the
\* end is still there.
AppendInv ==
    \A p \in Callers :
        /\ pc[p] = "append" <=> alock = p
        /\ pc[p] = "append" => place[p] = Len(alerts) + 1

\* No two calls have the same number, nor one of an alert that is there already.
NumberInv ==
    /\ returned \subseteq 1 .. calls
    /\ \A p \in Callers : pc[p] # "idle" =>
          /\ number[p] \in 1 .. calls /\ number[p] \notin returned
          /\ \A q \in Callers \ {p} : pc[q] # "idle" => number[q] # number[p]

\* While a call is alone nobody else is in one.
AloneInv ==
    \A p, q \in Callers : alone[p] /\ pc[p] # "idle" /\ q # p => pc[q] = "idle"

\* What the comparison is going to find: as soon as the mutex is free again if no
\* other call comes in between, and that the rule of AdaptiveThreshold says the same.
DecisionInv ==
    \A p \in Callers :
        /\ pc[p] = "clamp" =>
              (anomalous[p] <=> score[p] * scale >= Store!Clamp(threshold, One * scale))
        /\ alone[p] /\ pc[p] = "check" =>
              (anomalous[p] <=> score[p] * scale >= threshold)
        /\ alone[p] /\ pc[p] \in {"record", "append"} => score[p] * scale >= threshold

IInv ==
    /\ TypeOK
    /\ LockInv
    /\ AppendInv
    /\ NumberInv
    /\ AloneInv
    /\ DecisionInv
    /\ AlertsKept
    /\ SequentialDecision

-----------------------------------------------------------------------------
\* The numbers of 1 / (One * scale) that an update works with, without products.
LEMMA Products ==
    ASSUME NEW s \in 0 .. One, NEW k \in Nat \ {0}
    PROVE  /\ One * k \in Nat /\ s * k \in 0 .. One * k
           /\ One * (10 * k) = 10 * (One * k)
           /\ s * (10 * k) = 10 * (s * k)
           /\ 3 * s * k = 3 * (s * k)
           /\ s = One <=> s * k = One * k
<1>1. One \in Nat
  BY OneAssumption
<1>2. PICK rest \in Nat : One = s + rest
  <2>1. One - s \in Nat /\ One = s + (One - s)
    BY <1>1
  <2>. QED BY <2>1
<1>3. One * k = s * k + rest * k
  BY <1>2
<1>4. s * k \in Nat /\ rest * k \in Nat /\ (rest = 0 <=> rest * k = 0)
  BY <1>2
<1>5. One * (10 * k) = 10 * (One * k) /\ s * (10 * k) = 10 * (s * k) /\ 3 * s * k = 3 * (s * k)
  BY <1>1
<1>. QED BY <1>1, <1>2, <1>3, <1>4, <1>5

\* The score x, the mean m and the deviation d of at most u: the score reaches the
\* threshold that it moves to exactly if it is the highest, or 14 deviations away.
LEMMA Rule ==
    ASSUME NEW u \in Nat, NEW x \in 0 .. u, NEW m \in 0 .. u, NEW d \in 0 .. u
    PROVE  10 * x >= Store!Clamp((3 * x + 7 * m) + 2 * (3 * Store!Abs(x - m) + 7 * d), 10 * u)
              <=> x = u \/ x - m >= 14 * d
  BY DEF Store!Clamp, Store!Abs

\* Everything that an update stores.
LEMMA Stored ==
    ASSUME TypeOK, NEW p \in Callers, UpdateStore(p)
    PROVE  /\ scale' \in Nat \ {0} /\ One * scale' \in Nat /\ threshold' \in Nat
           /\ ema' \in 0 .. One * scale' /\ dev' \in 0 .. One * scale'
           /\ threshold' = ema' + 2 * dev'
           /\ anomalous' = [anomalous EXCEPT ![p] =
                 score[p] * scale' >= Store!Clamp(threshold', One * scale')]
<1>. DEFINE s == score[p]
            x == s * scale
            u == One * scale
<1>1. s \in 0 .. One /\ scale \in Nat \ {0} /\ ema \in 0 .. u /\ dev \in 0 .. u
  BY DEF TypeOK
<1>2. /\ u \in Nat /\ x \in 0 .. u
      /\ One * (10 * scale) = 10 * u /\ s * (10 * scale) = 10 * x /\ 3 * s * scale = 3 * x
      /\ s = One <=> x = u
  BY <1>1, Products
<1>3. threshold' = ema' + 2 * dev'
  BY DEF UpdateStore, RawThreshold
<1>4. anomalous' = [anomalous EXCEPT ![p] = ~initialized \/ s = One \/ x - ema >= 14 * dev]
  BY DEF UpdateStore
<1>5. CASE ~initialized
  <2>1. ema' = x /\ dev' = 0 /\ scale' = scale
    BY <1>5 DEF UpdateStore, Store!EmaUpdate
  <2>2. s * scale' = x /\ One * scale' = u
    BY <2>1
  <2>3. threshold' = x
    BY <1>2, <1>3, <2>1
  <2>4. x >= Store!Clamp(x, u)
    BY <1>2 DEF Store!Clamp
  <2>. HIDE DEF s, x, u
  <2>5. anomalous' = [anomalous EXCEPT ![p] = TRUE]
    BY <1>4, <1>5
  <2>6. s * scale' >= Store!Clamp(threshold', One * scale')
    BY <2>2, <2>3, <2>4
  <2>7. anomalous' = [anomalous EXCEPT ![p] = s * scale' >= Store!Clamp(threshold', One * scale')]
    BY <2>5, <2>6
  <2>8. scale' \in Nat \ {0} /\ One * scale' \in Nat /\ threshold' \in Nat /\ ema' \in 0 .. One * scale' /\ dev' \in 0 .. One * scale'
    BY <1>1, <1>2, <2>1, <2>2, <2>3
  <2>. QED BY <1>3, <2>7, <2>8 DEF s
<1>6. CASE initialized
  <2>1. /\ scale' = 10 * scale
        /\ ema' = 3 * s * scale + 7 * ema
        /\ dev' = 3 * Store!Abs(x - ema) + 7 * dev
    BY <1>6 DEF UpdateStore, Store!EmaUpdate
  <2>2. s * scale' = 10 * x /\ One * scale' = 10 * u
    BY <1>2, <2>1
  <2>. HIDE DEF s, x, u
  <2>3. ema' = 3 * x + 7 * ema
    BY <1>2, <2>1
  <2>4. ema' \in 0 .. 10 * u
    BY <1>1, <1>2, <2>3
  <2>5. Store!Abs(x - ema) \in 0 .. u
    BY <1>1, <1>2 DEF Store!Abs
  <2>6. dev' \in 0 .. 10 * u
    BY <1>1, <1>2, <2>1, <2>5
  <2>7. threshold' = (3 * x + 7 * ema) + 2 * (3 * Store!Abs(x - ema) + 7 * dev)
    BY <1>3, <2>1, <2>3
  <2>8. s * scale' >= Store!Clamp(threshold', One * scale') <=> x = u \/ x - ema >= 14 * dev
    <3>1. 10 * x >= Store!Clamp((3 * x + 7 * ema) + 2 * (3 * Store!Abs(x - ema) + 7 * dev), 10 * u)
             <=> x = u \/ x - ema >= 14 * dev
      BY <1>1, <1>2, Rule
    <3>. QED BY <3>1, <2>2, <2>7
  <2>9. (~initialized \/ s = One \/ x - ema >= 14 * dev)
           = (s * scale' >= Store!Clamp(threshold', One * scale'))
    BY <1>2, <1>6, <2>8
  <2>10. anomalous' = [anomalous EXCEPT ![p] = s * scale' >= Store!Clamp(threshold', One * scale')]
    BY <1>4, <2>9, Zenon
  <2>11. scale' \in Nat \ {0} /\ One * scale' \in Nat /\ threshold' \in Nat
    BY <1>1, <1>2, <2>1, <2>2, <2>4, <2>6, <1>3
  <2>. QED BY <1>3, <2>2, <2>4, <2>6, <2>10, <2>11 DEF s
<1>. QED BY <1>5, <1>6

-----------------------------------------------------------------------------
LEMMA Initially == Init => IInv
<1>. SUFFICES ASSUME Init PROVE IInv
  OBVIOUS
<1>1. One \in Nat /\ 3 * (One \div 4) \in 0 .. One
  BY OneAssumption
<1>2. TypeOK
  <2>1. One * 1 = One
    BY <1>1
  <2>2. /\ initialized = FALSE /\ ema = 0 /\ dev = 0 /\ scale = 1 /\ last = 0 /\ strayed = FALSE
        /\ threshold = 3 * (One \div 4)
    BY DEF Init, Store!Init
  <2>3. /\ tlock = NoCaller /\ alerts = <<>> /\ alock = NoCaller
        /\ pc = [p \in Callers |-> "idle"] /\ score = [p \in Callers |-> 0]
        /\ place = [p \in Callers |-> 0] /\ answer = [p \in Callers |-> NoAlert]
        /\ number = [p \in Callers |-> 0] /\ returned = {}
        /\ anomalous = [p \in Callers |-> FALSE] /\ alone = [p \in Callers |-> FALSE]
        /\ calls = 0
    BY DEF Init
  <2>4. MaxCalls \in Nat
    BY MaxCallsAssumption
  <2>5. /\ scale \in Nat \ {0} /\ ema \in 0 .. One * scale /\ dev \in 0 .. One * scale
        /\ threshold \in Nat /\ threshold <= One * scale /\ last \in 0 .. One
        /\ 0 \in 0 .. One /\ calls \in 0 .. MaxCalls
    BY <1>1, <2>1, <2>2, <2>3, <2>4
  <2>6. alerts \in Seq(Alert)
    BY <2>3
  <2>. QED BY <2>2, <2>3, <2>5, <2>6, Zenon DEF TypeOK
<1>3. AlertsKept
  <2>1. alerts = <<>> /\ returned = {}
    BY DEF Init
  <2>. QED BY <2>1 DEF AlertsKept, IsInjective, ToSet
<1>4. LockInv /\ AppendInv /\ NumberInv /\ AloneInv /\ DecisionInv /\ SequentialDecision
  BY NoCallerAssumption
  DEF Init, LockInv, AppendInv, NumberInv, AloneInv, DecisionInv, SequentialDecision
<1>. QED BY <1>2, <1>3, <1>4 DEF IInv

\* The steps that leave recent_alerts_ and the numbers of the calls alone.
AlertsRest ==
    /\ UNCHANGED <<alertVars, number, calls>>
    /\ \A q \in Callers : (pc'[q] = "append") <=> (pc[q] = "append")
    /\ \A q \in Callers : pc'[q] # "idle" => pc[q] # "idle"

LEMMA AlertsRestStep ==
    ASSUME AppendInv, NumberInv, AlertsKept, AlertsRest
    PROVE  AppendInv' /\ NumberInv' /\ AlertsKept'
  BY DEF AlertsRest, alertVars, AppendInv, NumberInv, AlertsKept

LEMMA ScoreEventStep ==
    ASSUME IInv, NEW p \in Callers, ScoreEvent(p)
    PROVE  IInv'
<1>1. PICK s \in PipelineScores : score' = [score EXCEPT ![p] = s]
  BY DEF ScoreEvent
<1>2. s \in 0 .. One
  BY <1>1, ScoresAssumption
<1>3. calls' \in 0 .. MaxCalls
  BY MaxCallsAssumption DEF ScoreEvent, IInv, TypeOK
<1>4. calls' = calls + 1 /\ calls \in Nat /\ calls < MaxCalls
  BY DEF ScoreEvent, IInv, TypeOK
<1>5. TypeOK'
  <2>1. number' = [number EXCEPT ![p] = calls + 1] /\ calls + 1 \in Alert
    BY <1>3, <1>4 DEF ScoreEvent, Alert
  <2>2. /\ pc' \in [Callers -> {"idle", "update", "clamp", "check", "record", "append"}]
        /\ score' \in [Callers -> 0 .. One]
        /\ answer' \in [Callers -> Alert \cup {NoAlert}]
        /\ number' \in [Callers -> Alert \cup {0}]
    BY <1>1, <1>2, <2>1 DEF ScoreEvent, Goto, IInv, TypeOK
  <2>3. alone' \in [Callers -> BOOLEAN]
    BY Zenon DEF ScoreEvent, Busy, IInv, TypeOK
  <2>. QED
    BY <1>3, <2>2, <2>3 DEF ScoreEvent, thresholdVars, IInv, TypeOK
<1>6. LockInv' /\ AppendInv'
  BY DEF ScoreEvent, Goto, IInv, TypeOK, LockInv, AppendInv
<1>7. NumberInv'
  <2>1. returned \subseteq 1 .. calls /\ returned' = returned
    BY DEF ScoreEvent, IInv, NumberInv
  <2>2. number'[p] = calls + 1 /\ calls + 1 \notin returned
    BY <1>4, <2>1 DEF ScoreEvent, IInv, TypeOK
  <2>3. \A q \in Callers \ {p} : pc'[q] = pc[q] /\ number'[q] = number[q]
    BY DEF ScoreEvent, Goto, IInv, TypeOK
  <2>4. \A q \in Callers \ {p} : pc[q] # "idle" => number[q] \in 1 .. calls /\ number[q] \notin returned
    BY DEF IInv, NumberInv
  <2>5. \A q, o \in Callers \ {p} :
           q # o /\ pc[q] # "idle" /\ pc[o] # "idle" => number[q] # number[o]
    BY DEF IInv, NumberInv
  <2>. QED BY <1>4, <2>1, <2>2, <2>3, <2>4, <2>5 DEF NumberInv
<1>8. AlertsKept'
  BY DEF ScoreEvent, IInv, AlertsKept
<1>9. AloneInv' /\ DecisionInv' /\ SequentialDecision'
  BY <1>1
  DEF ScoreEvent, Goto, Busy, thresholdVars, IInv, TypeOK, LockInv, AloneInv, DecisionInv,
      SequentialDecision
<1>. QED BY <1>5, <1>6, <1>7, <1>8, <1>9 DEF IInv

LEMMA UpdateStoreStep ==
    ASSUME IInv, NEW p \in Callers, UpdateStore(p)
    PROVE  IInv'
<1>1. TypeOK /\ LockInv /\ AloneInv /\ DecisionInv
  BY DEF IInv
<1>2. /\ scale' \in Nat \ {0}
      /\ ema' \in 0 .. One * scale' /\ dev' \in 0 .. One * scale'
      /\ threshold' = ema' + 2 * dev'
      /\ anomalous' = [anomalous EXCEPT ![p] =
            score[p] * scale' >= Store!Clamp(threshold', One * scale')]
  BY <1>1, Stored
<1>3. /\ pc[p] = "update" /\ tlock = NoCaller /\ tlock' = p /\ pc' = [pc EXCEPT ![p] = "clamp"]
      /\ initialized' = TRUE /\ last' = score[p] /\ strayed' \in BOOLEAN
      /\ UNCHANGED <<alertVars, score, number, alone, calls>>
  BY DEF UpdateStore, Goto
<1>4. One * scale' \in Nat /\ threshold' \in Nat
  BY <1>1, Stored
<1>5. TypeOK'
  <2>1. anomalous' \in [Callers -> BOOLEAN]
    <3>. DEFINE b == score[p] * scale' >= Store!Clamp(threshold', One * scale')
    <3>1. b \in BOOLEAN
      OBVIOUS
    <3>2. anomalous \in [Callers -> BOOLEAN] /\ anomalous' = [anomalous EXCEPT ![p] = b]
      BY <1>1, <1>2, Zenon DEF TypeOK
    <3>. HIDE DEF b
    <3>. QED BY <3>1, <3>2
  <2>. QED BY <1>1, <1>2, <1>3, <1>4, <2>1, NoCallerAssumption DEF alertVars, TypeOK
<1>6. AlertsRest
  BY <1>1, <1>3 DEF TypeOK, AlertsRest
<1>11. LockInv' /\ AloneInv'
  BY <1>1, <1>3, NoCallerAssumption DEF TypeOK, LockInv, AloneInv
<1>7. \A q \in Callers \ {p} : pc[q] # "clamp" /\ (alone[q] => pc[q] = "idle")
  BY <1>1, <1>3, NoCallerAssumption DEF LockInv, AloneInv
<1>8. /\ score'[p] = score[p] /\ pc'[p] = "clamp"
      /\ (anomalous'[p] <=> score[p] * scale' >= Store!Clamp(threshold', One * scale'))
      /\ \A q \in Callers \ {p} : pc'[q] = pc[q] /\ anomalous'[q] = anomalous[q]
  BY <1>1, <1>2, <1>3 DEF TypeOK
<1>9. DecisionInv'
  BY <1>3, <1>7, <1>8 DEF DecisionInv
<1>10. SequentialDecision'
  BY <1>3, <1>8 DEF alertVars, IInv, SequentialDecision
<1>. QED BY <1>5, <1>6, <1>9, <1>10, <1>11, AlertsRestStep DEF IInv

LEMMA UpdateClampStep ==
    ASSUME IInv, NEW p \in Callers, UpdateClamp(p)
    PROVE  IInv'
<1>1. TypeOK /\ LockInv /\ AloneInv /\ DecisionInv
  BY DEF IInv
<1>2. /\ pc[p] = "clamp" /\ tlock = p /\ tlock' = NoCaller /\ pc' = [pc EXCEPT ![p] = "check"]
      /\ threshold' = Store!Clamp(threshold, One * scale)
      /\ UNCHANGED <<initialized, ema, dev, scale, last, strayed, alertVars, score, historyVars>>
  BY <1>1 DEF UpdateClamp, Goto, LockInv
<1>3. One * scale \in Nat
  BY <1>1, OneAssumption DEF TypeOK
<1>4. threshold' \in 0 .. One * scale
  BY <1>1, <1>2, <1>3 DEF TypeOK, Store!Clamp
<1>5. TypeOK'
  <2>1. pc' \in [Callers -> {"idle", "update", "clamp", "check", "record", "append"}]
    BY <1>1, <1>2 DEF TypeOK
  <2>2. threshold' \in Nat /\ threshold' <= One * scale'
    BY <1>2, <1>3, <1>4
  <2>. QED BY <1>1, <1>2, <2>1, <2>2, Zenon DEF alertVars, historyVars, TypeOK
<1>6. AlertsRest
  BY <1>1, <1>2 DEF historyVars, TypeOK, AlertsRest
<1>10. LockInv' /\ AloneInv'
  BY <1>1, <1>2, NoCallerAssumption DEF historyVars, TypeOK, LockInv, AloneInv
<1>7. \A q \in Callers \ {p} : pc[q] # "clamp" /\ (alone[q] => pc[q] = "idle")
  BY <1>1, <1>2 DEF LockInv, AloneInv
<1>8. DecisionInv'
  BY <1>1, <1>2, <1>7 DEF historyVars, TypeOK, DecisionInv
<1>9. SequentialDecision'
  BY <1>1, <1>2 DEF alertVars, historyVars, TypeOK, IInv, SequentialDecision
<1>. QED BY <1>5, <1>6, <1>8, <1>9, <1>10, AlertsRestStep DEF IInv

LEMMA CheckThresholdStep ==
    ASSUME IInv, NEW p \in Callers, CheckThreshold(p)
    PROVE  IInv'
<1>. DEFINE next == IF score[p] * scale >= threshold THEN "record" ELSE "idle"
<1>1. /\ pc[p] = "check" /\ pc' = [pc EXCEPT ![p] = next]
      /\ UNCHANGED <<thresholdVars, tlock, alertVars, score, historyVars>>
  BY DEF CheckThreshold, Goto, Store!Exceeds
<1>2. next \in {"record", "idle"} /\ (next = "record" <=> score[p] * scale >= threshold)
  OBVIOUS
<1>. HIDE DEF next
<1>3. AlertsRest
  BY <1>1, <1>2 DEF historyVars, IInv, TypeOK, AlertsRest
<1>4. TypeOK' /\ LockInv' /\ AloneInv'
  BY <1>1, <1>2 DEF thresholdVars, alertVars, historyVars, IInv, TypeOK, LockInv, AloneInv
<1>5. DecisionInv' /\ SequentialDecision'
  BY <1>1, <1>2
  DEF thresholdVars, alertVars, historyVars, IInv, TypeOK, DecisionInv, SequentialDecision
<1>. QED BY <1>3, <1>4, <1>5, AlertsRestStep DEF IInv

LEMMA RecordBeginStep ==
    ASSUME IInv, NEW p \in Callers, RecordBegin(p)
    PROVE  IInv'
<1>1. /\ pc[p] = "record" /\ alock = NoCaller /\ alock' = p
      /\ place' = [place EXCEPT ![p] = Len(alerts) + 1] /\ pc' = [pc EXCEPT ![p] = "append"]
      /\ UNCHANGED <<thresholdVars, tlock, alerts, answer, returned, score, historyVars>>
  BY DEF RecordBegin, Goto
<1>2. Len(alerts) + 1 \in Nat
  BY DEF IInv, TypeOK
<1>3. TypeOK' /\ LockInv' /\ AloneInv'
  BY <1>1, <1>2 DEF thresholdVars, historyVars, IInv, TypeOK, LockInv, AloneInv
<1>4. AppendInv' /\ NumberInv' /\ AlertsKept'
  BY <1>1, NoCallerAssumption
  DEF historyVars, IInv, TypeOK, AppendInv, NumberInv, AlertsKept
<1>5. DecisionInv' /\ SequentialDecision'
  BY <1>1 DEF thresholdVars, historyVars, IInv, TypeOK, DecisionInv, SequentialDecision
<1>. QED BY <1>3, <1>4, <1>5 DEF IInv

\* What push_back leaves behind: the alerts there were, and the new one at the end.
LEMMA Appended ==
    ASSUME NEW S, NEW s \in Seq(S), NEW a \in S, IsInjective(s), a \notin ToSet(s)
    PROVE  LET t == Append(SubSeq(s, 1, Len(s) + 1 - 1), a)
           IN  t \in Seq(S) /\ IsInjective(t) /\ ToSet(t) = ToSet(s) \cup {a}
<1>. DEFINE t == Append(s, a)
<1>1. Len(s) \in Nat /\ Len(s) + 1 - 1 = Len(s)
  OBVIOUS
<1>2. SubSeq(s, 1, Len(s)) = s
  OBVIOUS
<1>3. /\ t \in Seq(S) /\ DOMAIN t = 1 .. Len(s) + 1 /\ DOMAIN s = 1 .. Len(s)
      /\ t[Len(s) + 1] = a /\ \A i \in 1 .. Len(s) : t[i] = s[i]
  OBVIOUS
<1>. HIDE DEF t
<1>4. \A i \in 1 .. Len(s) : s[i] # a
  BY <1>3 DEF ToSet
<1>5. IsInjective(t)
  BY <1>1, <1>3, <1>4 DEF IsInjective
<1>6. ToSet(t) = ToSet(s) \cup {a}
  BY <1>1, <1>3 DEF ToSet
<1>. QED BY <1>1, <1>2, <1>3, <1>5, <1>6 DEF t

LEMMA RecordEndStep ==
    ASSUME IInv, NEW p \in Callers, RecordEnd(p)
    PROVE  IInv'
<1>. DEFINE a == number[p]
<1>1. /\ pc[p] = "append" /\ alock' = NoCaller /\ pc' = [pc EXCEPT ![p] = "idle"]
      /\ alerts' = Append(SubSeq(alerts, 1, place[p] - 1), a)
      /\ answer' = [answer EXCEPT ![p] = a] /\ returned' = returned \cup {a}
      /\ UNCHANGED <<thresholdVars, tlock, place, score, historyVars>>
  BY DEF RecordEnd, Goto
<1>2. alock = p /\ place[p] = Len(alerts) + 1
  BY <1>1 DEF IInv, AppendInv
<1>3. a \in 1 .. calls /\ a \in Alert /\ a \notin returned /\ a # NoAlert
  <2>1. a \in 1 .. calls /\ a \notin returned
    BY <1>1 DEF IInv, NumberInv
  <2>2. calls \in 0 .. MaxCalls /\ MaxCalls \in Nat
    BY MaxCallsAssumption DEF IInv, TypeOK
  <2>. QED BY <2>1, <2>2 DEF Alert, NoAlert
<1>. HIDE DEF a
<1>4. alerts' \in Seq(Alert) /\ AlertsKept'
  <2>1. alerts \in Seq(Alert) /\ IsInjective(alerts) /\ ToSet(alerts) = returned
    BY DEF IInv, TypeOK, AlertsKept
  <2>2. alerts' = Append(SubSeq(alerts, 1, Len(alerts) + 1 - 1), a)
    BY <1>1, <1>2
  <2>. HIDE DEF Alert
  <2>3. alerts' \in Seq(Alert) /\ IsInjective(alerts') /\ ToSet(alerts') = ToSet(alerts) \cup {a}
    BY <1>3, <2>1, <2>2, Appended
  <2>. QED BY <1>1, <2>1, <2>3 DEF AlertsKept
<1>5. TypeOK' /\ LockInv' /\ AloneInv'
  BY <1>1, <1>3, <1>4 DEF thresholdVars, historyVars, IInv, TypeOK, LockInv, AloneInv
<1>6. AppendInv'
  BY <1>1, <1>2, NoCallerAssumption DEF IInv, TypeOK, AppendInv
<1>7. NumberInv'
  <2>1. \A q \in Callers \ {p} : pc'[q] = pc[q] /\ (pc[q] # "idle" => number[q] # a)
    BY <1>1 DEF IInv, TypeOK, NumberInv, a
  <2>. QED BY <1>1, <1>3, <2>1 DEF historyVars, IInv, TypeOK, NumberInv
<1>8. DecisionInv' /\ SequentialDecision'
  BY <1>1, <1>3 DEF thresholdVars, historyVars, IInv, TypeOK, DecisionInv, SequentialDecision
<1>. QED BY <1>4, <1>5, <1>6, <1>7, <1>8 DEF IInv

LEMMA Preserved == IInv /\ [Next]_vars => IInv'
<1>. SUFFICES ASSUME IInv, [Next]_vars PROVE IInv'
  OBVIOUS
<1>1. ASSUME NEW p \in Callers, Process(p) PROVE IInv'
  BY <1>1, ScoreEventStep, UpdateStoreStep, UpdateClampStep, CheckThresholdStep,
     RecordBeginStep, RecordEndStep DEF Process
<1>2. CASE UNCHANGED vars
  BY <1>2
  DEF vars, thresholdVars, alertVars, historyVars, IInv, TypeOK, LockInv, AppendInv, NumberInv,
      AloneInv, DecisionInv, AlertsKept, SequentialDecision
<1>. QED BY <1>1, <1>2 DEF Next, BoundReached

\* The invariant: who holds which mutex, the numbers of the calls, who is alone, and
\* what a call that is alone is going to decide.
THEOREM Invariant == Spec => []IInv
  BY Initially, Preserved, PTL DEF Spec

\* The types, and the range [0, 1] of the threshold while nobody moves it.
THEOREM TypeCorrect == Spec => []TypeOK
<1>1. IInv => TypeOK
  BY DEF IInv
<1>. QED BY <1>1, Invariant, PTL

\* No alert is lost or there twice, although a push_back takes two steps: alerts_mutex_
\* keeps the end that it found where it is.
THEOREM AlertsKeptHolds == Spec => []AlertsKept
<1>1. IInv => AlertsKept
  BY DEF IInv
<1>. QED BY <1>1, Invariant, PTL

\* A call alone decides by the rule, whatever overlapped before it.
THEOREM SequentialDecisionHolds == Spec => []SequentialDecision
<1>1. IInv => SequentialDecision
  BY DEF IInv
<1>. QED BY <1>1, Invariant, PTL

\* A call returns nothing for the highest score only while another one holds the
\* threshold's mutex: the threshold is in [0, 1] whenever nobody does.
THEOREM HighestScoreAlertsHolds == Spec => HighestScoreAlerts
<1>1. ASSUME IInv, [Next]_vars, NEW p \in Callers,
             pc[p] = "check", pc'[p] = "idle", score[p] = One
      PROVE  tlock # NoCaller
  <2>1. TypeOK
    BY <1>1 DEF IInv
  <2>2. ~ UNCHANGED vars
    BY <1>1 DEF vars
  <2>3. PICK q \in Callers : Process(q)
    BY <1>1, <2>2 DEF Next, BoundReached
  <2>4. q = p
    BY <1>1, <2>1, <2>3
    DEF TypeOK, Goto, Process, ScoreEvent, UpdateStore, UpdateClamp, CheckThreshold, RecordBegin,
        RecordEnd
  <2>5. CheckThreshold(p)
    BY <1>1, <2>3, <2>4
    DEF Process, ScoreEvent, UpdateStore, UpdateClamp, RecordBegin, RecordEnd
  <2>6. ~(One * scale >= threshold)
    BY <1>1, <2>1, <2>5 DEF TypeOK, CheckThreshold, Goto, Store!Exceeds
  <2>. QED BY <2>1, <2>6, OneAssumption DEF TypeOK
<1>2. IInv /\ [Next]_vars =>
         [\A p \in Callers :
             pc[p] = "check" /\ pc'[p] = "idle" /\ score[p] = One => tlock # NoCaller]_vars
  BY <1>1
<1>. QED BY <1>2, Invariant, PTL DEF Spec, HighestScoreAlerts

-----------------------------------------------------------------------------
\* The store and the clamp together are one update of AdaptiveThreshold; it takes
\* effect with the store, seen by those who wait for the mutex.
LEMMA UpdateRefines ==
    ASSUME TypeOK, NEW p \in Callers, UpdateStore(p)
    PROVE  score[p] \in Threshold!Scores /\ Threshold!Update(score[p])
<1>1. score[p] \in Threshold!Scores
  BY DEF TypeOK, Threshold!Scores
<1>2. threshold' = ema' + 2 * dev' /\ tlock' = p /\ p # NoCaller
  BY NoCallerAssumption DEF UpdateStore, RawThreshold
<1>3. ema' + 2 * dev' \in Nat /\ One * scale' \in Nat
  BY Stored, OneAssumption
<1>4. Settled' = Threshold!Clamp(ema' + 2 * dev', One * scale')
  BY <1>2, <1>3 DEF Settled, Threshold!Clamp
<1>5. Threshold!EmaUpdate(score[p])
  BY DEF UpdateStore, Store!EmaUpdate, Threshold!EmaUpdate, Store!Abs, Threshold!Abs
<1>. QED BY <1>1, <1>4, <1>5 DEF UpdateStore, Threshold!Update

\* SpeculorEngine implements AdaptiveThreshold: calls of process() move the
\* threshold as if their scores came one after the other.
THEOREM EngineImplementsThreshold == Spec => ImplementsThreshold
<1>1. Init => Threshold!Init
  BY DEF Init, Store!Init, Threshold!Init, Settled
<1>2. TypeOK /\ LockInv /\ [Next]_vars => [Threshold!Next]_(Threshold!vars)
  <2>. SUFFICES ASSUME TypeOK, LockInv, [Next]_vars PROVE [Threshold!Next]_(Threshold!vars)
    OBVIOUS
  <2>1. ASSUME NEW p \in Callers, UpdateStore(p) PROVE Threshold!Next
    BY <2>1, UpdateRefines DEF Threshold!Next
  <2>2. ASSUME NEW p \in Callers, UpdateClamp(p) PROVE UNCHANGED Threshold!vars
    <3>1. tlock = p /\ p # NoCaller /\ tlock' = NoCaller
      BY <2>2, NoCallerAssumption DEF LockInv, UpdateClamp
    <3>2. One * scale \in Nat /\ threshold \in Nat
      BY OneAssumption DEF TypeOK
    <3>3. Settled' = Settled
      BY <2>2, <3>1, <3>2 DEF Settled, UpdateClamp, Store!Clamp
    <3>. QED BY <2>2, <3>3 DEF UpdateClamp, Threshold!vars
  <2>3. ASSUME UNCHANGED <<thresholdVars, tlock>> PROVE UNCHANGED Threshold!vars
    BY <2>3 DEF thresholdVars, Settled, Threshold!vars
  <2>4. ASSUME NEW p \in Callers,
               ScoreEvent(p) \/ CheckThreshold(p) \/ RecordBegin(p) \/ RecordEnd(p)
        PROVE  UNCHANGED <<thresholdVars, tlock>>
    BY <2>4 DEF ScoreEvent, CheckThreshold, RecordBegin, RecordEnd
  <2>5. ASSUME UNCHANGED vars PROVE UNCHANGED <<thresholdVars, tlock>>
    BY <2>5 DEF vars
  <2>. QED BY <2>1, <2>2, <2>3, <2>4, <2>5 DEF Next, Process, BoundReached
<1>3. IInv => TypeOK /\ LockInv
  BY DEF IInv
<1>. QED
  BY <1>1, <1>2, <1>3, Invariant, PTL DEF Spec, ImplementsThreshold, Threshold!Spec
=============================================================================
