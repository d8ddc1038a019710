--------------------------- MODULE SpeculorEngine ---------------------------
(***************************************************************************)
(* speculor::SpeculorEngine::process (src/core/engine.cpp), called by any  *)
(* number of threads, as the REST server's handlers do: update the         *)
(* pipeline, score the event, move the threshold, compare, and record the  *)
(* alert.  An alert is the number of the call that raised it.              *)
(*                                                                         *)
(* threshold_ is the state of AdaptiveThreshold.  Its update holds a       *)
(* mutex, but exceeds_threshold and current_threshold() do not take it, so *)
(* the update is cut where they can tell: current_threshold_ is stored and *)
(* then clamped.  The pipeline is left out but for its score, a number in  *)
(* [0, 1] that CompositeDetector::score computes under a mutex of its own. *)
(*                                                                         *)
(* recent_alerts_ is a vector: a push_back finds the end, writes the       *)
(* element there and moves the end behind it.  It takes two steps here,    *)
(* which only alerts_mutex_ keeps together.                                *)
(***************************************************************************)
EXTENDS Integers, Sequences, SequencesExt

CONSTANTS
    Callers,     \* the threads calling process()
    PipelineScores, \* what the detectors make of the events; {0} without any
    One, MaxScale, \* see AdaptiveThreshold
    MaxCalls,    \* bound: calls of process()
    NoCaller

ASSUME OneAssumption == One \in Nat \ {0} /\ One % 4 = 0
ASSUME ScoresAssumption == PipelineScores \subseteq 0 .. One
ASSUME MaxCallsAssumption == MaxCalls \in Nat /\ 10 ^ MaxCalls <= MaxScale
ASSUME NoCallerAssumption == NoCaller \notin Callers

\* The alerts are numbered like the calls; process() may return none.
Alert == 1 .. MaxCalls
NoAlert == 0

VARIABLES
    initialized, ema, dev, threshold, scale, last, strayed, \* threshold_
    tlock,       \* who holds the mutex_ of threshold_
    alerts,      \* recent_alerts_
    alock,       \* who holds alerts_mutex_
    pc, score,   \* each call of process(): its next step, the local score,
    place,       \*   where its push_back found the end of recent_alerts_,
    answer,      \*   and what it returned
    number,      \* history: which call it is
    returned,    \* history: the alerts that calls have returned
    anomalous,   \* history: AdaptiveThreshold's rule for the call's score
    alone,       \* history: no other call overlapped it
    calls        \* history: the calls begun

thresholdVars == <<initialized, ema, dev, threshold, scale, last, strayed>>
alertVars == <<alerts, alock, place, answer, returned>>
historyVars == <<number, anomalous, alone, calls>>
vars == <<thresholdVars, tlock, alertVars, pc, score, historyVars>>

\* current_threshold_ as those see it who take the mutex.
Settled ==
    IF tlock = NoCaller THEN threshold
    ELSE IF threshold > One * scale THEN One * scale ELSE threshold

Store == INSTANCE AdaptiveThreshold
Threshold == INSTANCE AdaptiveThreshold WITH threshold <- Settled

Init ==
    /\ Store!Init
    /\ tlock = NoCaller
    /\ alerts = <<>>
    /\ alock = NoCaller
    /\ pc = [p \in Callers |-> "idle"]
    /\ score = [p \in Callers |-> 0]
    /\ place = [p \in Callers |-> 0]
    /\ answer = [p \in Callers |-> NoAlert]
    /\ number = [p \in Callers |-> 0]
    /\ returned = {}
    /\ anomalous = [p \in Callers |-> FALSE]
    /\ alone = [p \in Callers |-> FALSE]
    /\ calls = 0

Goto(p, where) == pc' = [pc EXCEPT ![p] = where]

Busy == {p \in Callers : pc[p] # "idle"}

\* update_detectors, and the score that the pipeline gives the event.
ScoreEvent(p) ==
    /\ pc[p] = "idle"
    /\ calls < MaxCalls
    /\ calls' = calls + 1
    /\ number' = [number EXCEPT ![p] = calls']
    /\ \E s \in PipelineScores : score' = [score EXCEPT ![p] = s]
    /\ answer' = [answer EXCEPT ![p] = NoAlert]
    /\ alone' = [q \in Callers |-> IF q = p THEN Busy = {}
                                  ELSE alone[q] /\ q \notin Busy]
    /\ Goto(p, "update")
    /\ UNCHANGED <<thresholdVars, tlock, alerts, alock, place, returned, anomalous>>

\* Mutant: the deviation counts once.
RawThresholdSingle(mean, deviation) == mean + deviation

RawThreshold(mean, deviation) == mean + 2 * deviation

\* threshold_.update under its mutex, up to the store of current_threshold_.  (By
\* MaxCallsAssumption the bound on scale never keeps a call from it.)
UpdateStore(p) ==
    /\ pc[p] = "update"
    /\ tlock = NoCaller
    /\ scale < MaxScale
    /\ tlock' = p
    /\ Store!EmaUpdate(score[p])
    /\ initialized' = TRUE
    /\ threshold' = RawThreshold(ema', dev')
    /\ last' = score[p]
    /\ strayed' = (initialized /\ score[p] * scale # ema)
    /\ anomalous' = [anomalous EXCEPT ![p] =
                        \/ ~initialized
                        \/ score[p] = One
                        \/ score[p] * scale - ema >= 14 * dev]
    /\ Goto(p, "clamp")
    /\ UNCHANGED <<alertVars, score, number, alone, calls>>

\* Mutant: the threshold may stay above the highest score.
UpdateUnclamped(p) ==
    /\ pc[p] = "clamp"
    /\ tlock' = NoCaller
    /\ Goto(p, "check")
    /\ UNCHANGED <<thresholdVars, alertVars, score, historyVars>>

\* Its clamps, and the release of the mutex.
UpdateClamp(p) ==
    /\ pc[p] = "clamp"
    /\ threshold' = Store!Clamp(threshold, One * scale)
    /\ tlock' = NoCaller
    /\ Goto(p, "check")
    /\ UNCHANGED <<initialized, ema, dev, scale, last, strayed, alertVars, score, historyVars>>

\* Mutant: an alert has to lie above the threshold.
CheckThresholdStrictly(p) ==
    /\ pc[p] = "check"
    /\ Goto(p, IF score[p] * scale > threshold THEN "record" ELSE "idle")
    /\ UNCHANGED <<thresholdVars, tlock, alertVars, score, historyVars>>

\* exceeds_threshold, without the mutex; below it process() returns nothing.
CheckThreshold(p) ==
    /\ pc[p] = "check"
    /\ Goto(p, IF Store!Exceeds(score[p]) THEN "record" ELSE "idle")
    /\ UNCHANGED <<thresholdVars, tlock, alertVars, score, historyVars>>

\* Mutant: push_back does not wait for alerts_mutex_.
RecordUnlocked(p) ==
    /\ pc[p] = "record"
    /\ alock' = p
    /\ place' = [place EXCEPT ![p] = Len(alerts) + 1]
    /\ Goto(p, "append")
    /\ UNCHANGED <<thresholdVars, tlock, alerts, answer, returned, score, historyVars>>

\* The lock_guard on alerts_mutex_, and push_back up to where it has found the end.
RecordBegin(p) ==
    /\ pc[p] = "record"
    /\ alock = NoCaller
    /\ alock' = p
    /\ place' = [place EXCEPT ![p] = Len(alerts) + 1]
    /\ Goto(p, "append")
    /\ UNCHANGED <<thresholdVars, tlock, alerts, answer, returned, score, historyVars>>

\* push_back stores the alert and the new end; the mutex is released, and process()
\* returns the alert.
RecordEnd(p) ==
    /\ pc[p] = "append"
    /\ alerts' = Append(SubSeq(alerts, 1, place[p] - 1), number[p])
    /\ alock' = NoCaller
    /\ answer' = [answer EXCEPT ![p] = number[p]]
    /\ returned' = returned \cup {number[p]}
    /\ Goto(p, "idle")
    /\ UNCHANGED <<thresholdVars, tlock, place, score, historyVars>>

\* The bound on the calls is reached and every call has returned.
BoundReached ==
    /\ calls = MaxCalls
    /\ \A p \in Callers : pc[p] = "idle"
    /\ UNCHANGED vars

Process(p) ==
    \/ ScoreEvent(p)
    \/ UpdateStore(p)
    \/ UpdateClamp(p)
    \/ CheckThreshold(p)
    \/ RecordBegin(p)
    \/ RecordEnd(p)

Next == (\E p \in Callers : Process(p)) \/ BoundReached

Spec == Init /\ [][Next]_vars

-----------------------------------------------------------------------------
(* Properties *)

TypeOK ==
    /\ initialized \in BOOLEAN
    /\ scale \in Nat \ {0}
    /\ ema \in 0 .. One * scale /\ dev \in 0 .. One * scale
    /\ threshold \in Nat
    /\ tlock = NoCaller => threshold <= One * scale
    /\ last \in 0 .. One /\ strayed \in BOOLEAN
    /\ tlock \in Callers \cup {NoCaller}
    /\ alerts \in Seq(Alert)
    /\ alock \in Callers \cup {NoCaller}
    /\ pc \in [Callers -> {"idle", "update", "clamp", "check", "record", "append"}]
    /\ score \in [Callers -> 0 .. One]
    /\ place \in [Callers -> Nat]
    /\ answer \in [Callers -> Alert \cup {NoAlert}]
    /\ number \in [Callers -> Alert \cup {0}]
    /\ returned \subseteq Alert
    /\ anomalous \in [Callers -> BOOLEAN]
    /\ alone \in [Callers -> BOOLEAN]
    /\ calls \in 0 .. MaxCalls

\* Whatever the calls' interleaving, the threshold moves as if the scores came
\* one after the other: no score is lost or counted twice.
ImplementsThreshold == Threshold!Spec

\* recent_alerts_ holds every alert that a call of process() returned, each once, and
\* nothing else, whatever push_backs meet there.
AlertsKept ==
    /\ IsInjective(alerts)
    /\ ToSet(alerts) = returned

\* A call that no other overlaps returns an alert exactly if its score is anomalous
\* by the rule of AdaptiveThreshold, whatever overlapping calls did before.  (A
\* second call may move the threshold between update and exceeds_threshold.)
SequentialDecision ==
    \A p \in Callers : alone[p] =>
        /\ pc[p] \in {"record", "append"} => anomalous[p]
        /\ pc[p] = "idle" /\ anomalous[p] => answer[p] # NoAlert

\* The highest score there is passes exceeds_threshold's >= whatever other calls make
\* of the threshold, save at one moment: while another call has stored a threshold
\* that it has not clamped to [0, 1] yet, which the read without the mutex can meet.
HighestScoreAlerts ==
    [][\A p \in Callers :
          pc[p] = "check" /\ pc'[p] = "idle" /\ score[p] = One => tlock # NoCaller]_vars
=============================================================================
