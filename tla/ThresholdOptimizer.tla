-------------------------- MODULE ThresholdOptimizer --------------------------
(***************************************************************************)
(* speculor::ThresholdOptimizer (src/adaptive/threshold_engine.cpp): the   *)
(* threshold with the best F1 over a window of labelled scores.  Scores are*)
(* arbitrary; thresholds are the sums of steps of 0.01 from 0.0 that the   *)
(* loop reaches, the last of them near 0.99.  Both are numbers of one fine *)
(* scale here, and only some of these are thresholds that are tried.       *)
(***************************************************************************)
EXTENDS Integers, FiniteSets

CONSTANTS
    WindowSize,  \* window_size_ of the optimizer
    Candidates   \* the values that t takes in optimize

ASSUME WindowAssumption == WindowSize \in Nat \ {0}
ASSUME CandidatesAssumption == Candidates \subseteq Nat /\ 0 \in Candidates

Sample == [score : Nat, is_anomaly : BOOLEAN]

\* The window is full of these before the first add_sample.
NoSample == [score |-> 0, is_anomaly |-> FALSE]
EmptyWindow == [i \in 0 .. (WindowSize - 1) |-> NoSample]

\* Mutant: a score on the threshold does not exceed it.
PredictedStrictly(sample, t) == sample.score > t

Predicted(sample, t) == sample.score >= t

TruePositives(window, t) ==
    Cardinality({i \in DOMAIN window : window[i].is_anomaly /\ Predicted(window[i], t)})
Mistakes(window, t) ==
    Cardinality({i \in DOMAIN window : window[i].is_anomaly # Predicted(window[i], t)})

\* compute_f1 as a fraction: 2 tp / (2 tp + fp + fn), and 0 without a tp.
F1(window, t) ==
    LET tp == TruePositives(window, t)
    IN  IF tp = 0 THEN <<0, 1>> ELSE <<2 * tp, 2 * tp + Mistakes(window, t)>>

Better(a, b) == a[1] * b[2] > b[1] * a[2]

\* optimize, over the candidates up to top: the first of the best ones.
Optimum(window, top) ==
    LET best[t \in 0 .. top] ==
            IF t = 0 THEN 0
            ELSE LET so_far == best[t - 1]
                 IN  IF t \in Candidates /\ Better(F1(window, t), F1(window, so_far))
                     THEN t ELSE so_far
    IN  best[top]
==============================================================================
