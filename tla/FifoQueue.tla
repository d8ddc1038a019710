------------------------------ MODULE FifoQueue ------------------------------
(***************************************************************************)
(* What speculor::RingBuffer promises its users: a bounded first-in        *)
(* first-out queue.  An accepted item waits behind the ones accepted       *)
(* before it and is handed to exactly one consumer.                        *)
(***************************************************************************)
EXTENDS Naturals, Sequences

CONSTANTS
    Capacity,    \* RingBuffer::capacity_
    Items,       \* the values that can be stored
    NoItem,      \* "nothing received yet"
    Consumers    \* the threads that take items

VARIABLES
    queue,       \* the accepted items nobody has taken, oldest first
    received     \* per consumer, the item its last successful take returned

vars == <<queue, received>>

Init ==
    /\ queue = <<>>
    /\ received = [c \in Consumers |-> NoItem]

\* An item is accepted while there is room.
Enqueue(item) ==
    /\ Len(queue) < Capacity
    /\ queue' = Append(queue, item)
    /\ UNCHANGED received

\* Consumer c takes the oldest item.
Dequeue(c) ==
    /\ queue # <<>>
    /\ received' = [received EXCEPT ![c] = Head(queue)]
    /\ queue' = Tail(queue)

Next ==
    \/ \E item \in Items : Enqueue(item)
    \/ \E c \in Consumers : Dequeue(c)

Spec == Init /\ [][Next]_vars
==============================================================================
