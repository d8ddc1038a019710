-------------------------- MODULE AlertPriorityQueue --------------------------
(***************************************************************************)
(* speculor::AlertPriorityQueue (src/adaptive/threshold_engine.cpp): the   *)
(* operations on its vector heap_ as operators.  Alerts are compared by    *)
(* severity only, so an alert is its severity here.  The root is element 1;*)
(* the children of element i are 2i and 2i + 1.                            *)
(***************************************************************************)
EXTENDS Integers, Sequences

CONSTANT MaxAlerts       \* max_size_
ASSUME MaxAlertsAssumption == MaxAlerts \in Nat

Swapped(heap, i, j) == [heap EXCEPT ![i] = heap[j], ![j] = heap[i]]

\* heapify_up
HeapifyUp(heap, i) ==
    LET sift[j \in DOMAIN heap] == [h \in [DOMAIN heap -> Nat] |->
            IF j > 1 /\ h[j] > h[j \div 2]
            THEN sift[j \div 2][Swapped(h, j, j \div 2)]
            ELSE h]
    IN  sift[i][heap]

\* Mutant: only the left child is looked at.
LargestLeftOnly(heap, i) ==
    IF 2 * i <= Len(heap) /\ heap[2 * i] > heap[i] THEN 2 * i ELSE i

\* The most severe of element i and its children.
Largest(heap, i) ==
    LET left == IF 2 * i <= Len(heap) /\ heap[2 * i] > heap[i] THEN 2 * i ELSE i
    IN  IF 2 * i + 1 <= Len(heap) /\ heap[2 * i + 1] > heap[left] THEN 2 * i + 1 ELSE left

\* heapify_down
HeapifyDown(heap, i) ==
    LET sift[j \in Nat \ {0}] == [h \in [DOMAIN heap -> Nat] |->
            IF Largest(h, j) = j
            THEN h
            ELSE sift[Largest(h, j)][Swapped(h, j, Largest(h, j))]]
    IN  sift[i][heap]

\* pop: the last element takes the place of the root and sinks.
Popped(heap) ==
    IF heap = <<>>
    THEN heap
    ELSE HeapifyDown(SubSeq(Swapped(heap, 1, Len(heap)), 1, Len(heap) - 1), 1)

\* evict: pop, which takes the root, while there are too many.
Evicted(heap) ==
    LET evict[h \in Seq(Nat)] == IF Len(h) > MaxAlerts THEN evict[Popped(h)] ELSE h
    IN  evict[heap]

\* push
Pushed(heap, severity) == Evicted(HeapifyUp(Append(heap, severity), Len(heap) + 1))
==============================================================================
