--------------------------- MODULE ThresholdEngine ---------------------------
(***************************************************************************)
(* The whole of speculor::ThresholdEngine                                  *)
(* (src/adaptive/threshold_engine.cpp): the adaptive threshold, the        *)
(* optimizer's window of labelled samples and the queue of alerts.  Every  *)
(* operation holds mutex_ and is one action; what readers without the mutex*)
(* see is the subject of SpeculorEngine.                                   *)
(***************************************************************************)
EXTENDS AdaptiveThreshold, ThresholdOptimizer, AlertPriorityQueue, SequencesExt

CONSTANTS
    Severities,   \* those of the alerts
    UpdateScores, SampleScores, \* the scores that update and add_labelled_sample get
    MaxCalls      \* bound: calls of update, add_labelled_sample and push_alert

ASSUME SeveritiesAssumption == Severities \subseteq Nat /\ IsFiniteSet(Severities)
ASSUME SampleScoresAssumption == UpdateScores \cup SampleScores \subseteq Scores

\* The sum of the steps passes 1.0 without meeting it.
ASSUME OneIsNotTried == Candidates \subseteq Scores \ {One}

VARIABLES
    window, insert_idx, \* optimizer_: window_, insert_idx_
    heap,        \* alert_queue_: heap_
    pushed,      \* history: how many alerts of each severity since the reset
    calls        \* the calls that MaxCalls bounds

optimizerVars == <<window, insert_idx>>
queueVars == <<heap, pushed>>
allVars == <<vars, optimizerVars, queueVars, calls>>

EngineInit ==
    /\ Init
    /\ window = EmptyWindow /\ insert_idx = 0
    /\ heap = <<>> /\ pushed = [s \in Severities |-> 0]
    /\ calls = 0

Call == calls < MaxCalls /\ calls' = calls + 1

UpdateScore(score) ==
    /\ Call
    /\ Update(score)
    /\ UNCHANGED <<optimizerVars, queueVars>>

\* The samples go round the window.
AddLabelledSample(score, is_anomaly) ==
    /\ Call
    /\ window' = [window EXCEPT ![insert_idx] = [score |-> score, is_anomaly |-> is_anomaly]]
    /\ insert_idx' = (insert_idx + 1) % WindowSize
    /\ UNCHANGED <<vars, queueVars>>

RecalculateThreshold ==
    /\ Recalculate(Optimum(window, One))
    /\ UNCHANGED <<optimizerVars, queueVars, calls>>

PushAlert(severity) ==
    /\ Call
    /\ heap' = Pushed(heap, severity)
    /\ pushed' = [pushed EXCEPT ![severity] = @ + 1]
    /\ UNCHANGED <<vars, optimizerVars>>

ResetAll ==
    /\ Reset
    /\ window' = EmptyWindow /\ insert_idx' = 0
    /\ heap' = <<>> /\ pushed' = [s \in Severities |-> 0]
    /\ UNCHANGED calls

EngineNext ==
    \/ \E score \in UpdateScores : UpdateScore(score)
    \/ \E score \in SampleScores, label \in BOOLEAN : AddLabelledSample(score, label)
    \/ RecalculateThreshold
    \/ \E severity \in Severities : PushAlert(severity)
    \/ ResetAll

EngineSpec == EngineInit /\ [][EngineNext]_allVars

-----------------------------------------------------------------------------
(* Properties *)

\* No alert is more severe than its parent, so that top() is a most severe one,
\* after any number of pushes and evictions.
MaxHeap == \A i \in 2 .. Len(heap) : heap[i] <= heap[i \div 2]

InQueue(severity) == Cardinality({i \in DOMAIN heap : heap[i] = severity})

\* The queue is a heap, holds as many alerts as were pushed or as it may, and none
\* more often than it was pushed, whatever was pushed and evicted before.
AlertHeap ==
    LET total == SumFunctionOnSet(pushed, Severities)
    IN  /\ MaxHeap
        /\ Len(heap) = IF total <= MaxAlerts THEN total ELSE MaxAlerts
        /\ \A s \in Severities : InQueue(s) <= pushed[s]

\* "Remove the lowest severity element" (threshold_engine.cpp:113): while an alert
\* that was pushed is missing, no milder one is in the queue.
EvictsLowest ==
    \A s \in Severities : InQueue(s) < pushed[s] => \A i \in DOMAIN heap : heap[i] >= s

\* What evict does instead: it pops the root, as the next comment says, so that no
\* alert in the queue is more severe than one that was evicted.
EvictsHighest ==
    \A s \in Severities : InQueue(s) < pushed[s] => \A i \in DOMAIN heap : heap[i] <= s

\* The threshold t alerts for the anomalies of the window, the unused places with
\* their zeros included, and for nothing else.
Separates(t) ==
    /\ \E i \in DOMAIN window : window[i].is_anomaly
    /\ \A i \in DOMAIN window : window[i].score >= t <=> window[i].is_anomaly

\* recalculate_threshold sets a threshold that optimize tried, and one that separates
\* the anomalies of the window from the rest if any of those tried does.  (Scores
\* that lie between two of them, or above the last, stay together.)
OptimumSeparates ==
    [][RecalculateThreshold =>
         /\ \E t \in Candidates : threshold' = t * scale
         /\ (\E t \in Candidates : Separates(t)) =>
               \A i \in DOMAIN window : Exceeds(window[i].score)' <=> window[i].is_anomaly]_allVars
==============================================================================
