---------------------------- MODULE MCRingBuffer ----------------------------
(* RingBuffer on a small instance. *)
EXTENDS RingBuffer

\* The bound on the pushes lets the producer come round the ring twice, so it
\* meets slots that a slow consumer still holds.
ASSUME TwoLaps == Capacity > 0 /\ MaxPush >= 2 * Capacity
=============================================================================
