---------------------------- MODULE DetectorEvents ----------------------------
(***************************************************************************)
(* What the detectors are given: speculor::Event                           *)
(* (include/speculor/core/event.hpp), reduced to the kinds of event that a *)
(* detector tells apart by metric name and value.  A score of 1.0 is       *)
(* FullScore, so that the constants 0.1 and 0.8 of the code and means of   *)
(* two or three scores stay whole.                                         *)
(***************************************************************************)
EXTENDS Integers

CONSTANT Events

FullScore == 600
==============================================================================
