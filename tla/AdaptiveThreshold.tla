-------------------------- MODULE AdaptiveThreshold --------------------------
(***************************************************************************)
(* speculor::ThresholdEngine with its EMACalculator                        *)
(* (src/adaptive/threshold_engine.cpp): the threshold that scores are      *)
(* compared with, which every score moves first.                           *)
(*                                                                         *)
(* Scores lie in [0, 1], as CompositeDetector clamps them; here they are   *)
(* 0 .. One.  Averages are exact: alpha_ is 3/10, so each update multiplies*)
(* the denominator by 10.  ema, dev and threshold count units of           *)
(* 1 / (One * scale), and scale is the power of 10 reached so far.  What   *)
(* the rounding of doubles adds is not modelled.                           *)
(***************************************************************************)
EXTENDS Integers

CONSTANTS
    One,         \* the resolution of scores; 3/4 of it is a score
    MaxScale     \* bound: no update once scale has reached it

ASSUME OneAssumption == One \in Nat \ {0} /\ One % 4 = 0
ASSUME MaxScaleAssumption == MaxScale \in Nat

VARIABLES
    initialized, \* initialized_ of the EMACalculator
    ema, dev,    \* ema_value_, ema_deviation_
    threshold,   \* current_threshold_
    scale,
    last,        \* history: the score of the last update
    strayed      \* history: it differed from the mean it met

vars == <<initialized, ema, dev, threshold, scale, last, strayed>>

Scores == 0 .. One

\* The numbers this state can represent, as the code's double in [0, 1].
Unit == One * scale

Abs(x) == IF x < 0 THEN -x ELSE x
Clamp(x, top) == IF x > top THEN top ELSE IF x < 0 THEN 0 ELSE x

Init ==
    /\ initialized = FALSE
    /\ ema = 0 /\ dev = 0
    /\ threshold = 3 * (One \div 4)
    /\ scale = 1
    /\ last = 0 /\ strayed = FALSE

\* Mutant: the deviation is taken from the mean that already has the score.
EmaUpdateMeanFirst(score) ==
    IF ~initialized
    THEN /\ ema' = score * scale /\ dev' = 0 /\ scale' = scale
    ELSE /\ ema' = 3 * score * scale + 7 * ema
         /\ dev' = 3 * ((7 * Abs(score * scale - ema)) \div 10) + 7 * dev
         /\ scale' = 10 * scale

\* Mutant: the weights of the old and the new deviation are swapped.
EmaUpdateSwapped(score) ==
    IF ~initialized
    THEN /\ ema' = score * scale /\ dev' = 0 /\ scale' = scale
    ELSE /\ ema' = 7 * score * scale + 3 * ema
         /\ dev' = 3 * Abs(score * scale - ema) + 7 * dev
         /\ scale' = 10 * scale

\* EMACalculator::update.  The first score is the mean, without deviation.
EmaUpdate(score) ==
    IF ~initialized
    THEN /\ ema' = score * scale /\ dev' = 0 /\ scale' = scale
    ELSE /\ ema' = 3 * score * scale + 7 * ema
         /\ dev' = 3 * Abs(score * scale - ema) + 7 * dev
         /\ scale' = 10 * scale

\* ThresholdEngine::update: ema_multiplier_ is 2.
Update(score) ==
    /\ scale < MaxScale
    /\ EmaUpdate(score)
    /\ initialized' = TRUE
    /\ threshold' = Clamp(ema' + 2 * dev', One * scale')
    /\ last' = score
    /\ strayed' = (initialized /\ score * scale # ema)

\* recalculate_threshold: whatever threshold the optimizer finds best.
Recalculate(best) ==
    /\ threshold' = best * scale
    /\ UNCHANGED <<initialized, ema, dev, scale, last, strayed>>

Reset ==
    /\ initialized' = FALSE
    /\ ema' = 0 /\ dev' = 0
    /\ threshold' = 3 * (One \div 4)
    /\ scale' = 1
    /\ last' = 0 /\ strayed' = FALSE

Next ==
    \/ \E score \in Scores : Update(score)
    \/ \E best \in Scores : Recalculate(best)
    \/ Reset

Spec == Init /\ [][Next]_vars

\* exceeds_threshold
Exceeds(score) == score * scale >= threshold

-----------------------------------------------------------------------------
(* Properties *)

\* The averages and the threshold stay in [0, 1]; the code's second clamp, at
\* 0, never applies.
TypeOK ==
    /\ initialized \in BOOLEAN
    /\ scale \in Nat \ {0}
    /\ ema \in 0 .. Unit
    /\ dev \in 0 .. Unit
    /\ threshold \in 0 .. Unit
    /\ last \in Scores
    /\ strayed \in BOOLEAN

\* What update followed by exceeds_threshold amounts to.  A score is anomalous
\* when it is the first one, or the highest possible, or lies above the mean by
\* at least 14 times the mean deviation before it: the score takes part in the
\* threshold it is compared with.  Nothing that recalculate_threshold found
\* plays a role.
AlertRule ==
    [][\A score \in Scores :
         Update(score) =>
            (Exceeds(score)' <=>
                \/ ~initialized
                \/ score = One
                \/ score * scale - ema >= 14 * dev)]_vars

\* A score other than the mean, repeated at once, never alerts the second time
\* (unless it is the highest possible): an anomaly that lasts is reported for
\* its first event only.
EchoIsQuiet ==
    [][\A score \in Scores :
         Update(score) /\ strayed /\ score = last /\ score # One =>
            ~Exceeds(score)']_vars
==============================================================================
