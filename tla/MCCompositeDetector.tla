------------------------- MODULE MCCompositeDetector -------------------------
(* CompositeDetector with four events in the corners of a rectangle of sides *)
(* 9 and 12, one shorter and one longer than Reach, whose hashes collide in  *)
(* part.                                                                     *)
EXTENDS CompositeDetector

MCEvents == 1 .. 4
MCFeature == <<<<0, 0>>, <<0, 12>>, <<9, 0>>, <<9, 12>>>>

\* Event 1 has both hashes on one bit, events 2 and 3 share a bit.
MCBloomHash == <<[i \in 0 .. 1 |-> 0], [i \in 0 .. 1 |-> i + 1],
                 [i \in 0 .. 1 |-> 2 * i], [i \in 0 .. 1 |-> 2 - i]>>

\* In each row two events share a column, not the same two.
MCCmsHash == <<[i \in 0 .. 1 |-> 0], [i \in 0 .. 1 |-> i],
               [i \in 0 .. 1 |-> 1], [i \in 0 .. 1 |-> 2]>>
===============================================================================
