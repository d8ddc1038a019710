----------------------------- MODULE RingBuffer -----------------------------
(***************************************************************************)
(* speculor::RingBuffer<T> (include/speculor/concurrency/ring_buffer.hpp): *)
(* the lock-free ring between one producer and several consumers.          *)
(*                                                                         *)
(* One action per atomic access of the code, so every interleaving of a    *)
(* try_push, several try_pops and a size() is a behaviour.  Accesses       *)
(* happen in program order, as the release/acquire pairs ask for and as    *)
(* the x86-64 build gives for the relaxed ones.  The copy into a slot and  *)
(* the move out of one are not atomic: "write" and "move" are the program  *)
(* counters during which they go on.                                       *)
(***************************************************************************)
EXTENDS Integers, Sequences

CONSTANTS
    Capacity,    \* capacity_; 0 is a legal constructor argument
    Items,       \* the values of T
    NoItem,      \* a slot never written, or left behind by a move
    Consumers,   \* the threads calling try_pop
    MaxPush      \* bound: the producer starts no push once tail reaches it

ASSUME CapacityAssumption == Capacity \in Nat
ASSUME ItemsAssumption == NoItem \notin Items
ASSUME MaxPushAssumption == MaxPush \in Nat

VARIABLES
    data,        \* buffer_[i].data
    ready,       \* buffer_[i].ready
    head, tail,  \* head_, tail_: positions, never reduced modulo Capacity
    ppc, pitem,  \* the producer: its next access, and the item it pushes
    cpc, chead,  \* each consumer: its next access, its local copy of head_
    citem,       \*   and the item its last successful try_pop returned
    opc, otail,  \* an observer calling size(): next access, local tail
    osize        \*   and the last result

prodVars == <<ppc, pitem>>
consVars == <<cpc, chead, citem>>
obsVars  == <<opc, otail, osize>>
vars == <<data, ready, head, tail, prodVars, consVars, obsVars>>

Slots == 0 .. (Capacity - 1)
Slot(position) == position % Capacity

Init ==
    /\ data = [s \in Slots |-> NoItem]
    /\ ready = [s \in Slots |-> FALSE]
    /\ head = 0 /\ tail = 0
    /\ ppc = "idle" /\ pitem = NoItem
    /\ cpc = [c \in Consumers |-> "idle"]
    /\ chead = [c \in Consumers |-> 0]
    /\ citem = [c \in Consumers |-> NoItem]
    /\ opc = "idle" /\ otail = 0 /\ osize = 0

-----------------------------------------------------------------------------
(* try_push.  Only the producer writes tail_, so its relaxed load of tail_ *)
(* needs no step of its own.                                               *)

\* Load head_; refuse when the ring is full.
PushLoadHead(item) ==
    /\ ppc = "idle"
    /\ tail < MaxPush
    /\ pitem' = item
    /\ ppc' = IF tail - head >= Capacity THEN "idle" ELSE "check"
    /\ UNCHANGED <<data, ready, head, tail, consVars, obsVars>>

\* Mutant: the producer trusts the counters and does not look at the flag.
PushCheckReadyIgnoringFlag ==
    /\ ppc = "check"
    /\ ppc' = "write"
    /\ UNCHANGED <<data, ready, head, tail, pitem, consVars, obsVars>>

\* Load the slot's flag; refuse when its last item was not moved out yet.
PushCheckReady ==
    /\ ppc = "check"
    /\ ppc' = IF ready[Slot(tail)] THEN "idle" ELSE "write"
    /\ UNCHANGED <<data, ready, head, tail, pitem, consVars, obsVars>>

\* The copy into the slot ends.
PushWriteData ==
    /\ ppc = "write"
    /\ data' = [data EXCEPT ![Slot(tail)] = pitem]
    /\ ppc' = "setready"
    /\ UNCHANGED <<ready, head, tail, pitem, consVars, obsVars>>

\* Mutant: the flag is left clear.
PushStoreReadyForgotten ==
    /\ ppc = "setready"
    /\ ppc' = "publish"
    /\ UNCHANGED <<data, ready, head, tail, pitem, consVars, obsVars>>

\* The item is complete: set the slot's flag.
PushStoreReady ==
    /\ ppc = "setready"
    /\ ready' = [ready EXCEPT ![Slot(tail)] = TRUE]
    /\ ppc' = "publish"
    /\ UNCHANGED <<data, head, tail, pitem, consVars, obsVars>>

\* Store tail_: the push takes effect and returns true.
PushStoreTail ==
    /\ ppc = "publish"
    /\ tail' = tail + 1
    /\ ppc' = "idle"
    /\ UNCHANGED <<data, ready, head, pitem, consVars, obsVars>>

-----------------------------------------------------------------------------
(* try_pop.  clear() is a consumer calling it until it returns false.      *)

PopLoadHead(c) ==
    /\ cpc[c] = "idle"
    /\ chead' = [chead EXCEPT ![c] = head]
    /\ cpc' = [cpc EXCEPT ![c] = "loadtail"]
    /\ UNCHANGED <<data, ready, head, tail, citem, prodVars, obsVars>>

\* Load tail_; return false when it equals the local head.
PopLoadTail(c) ==
    /\ cpc[c] = "loadtail"
    /\ cpc' = [cpc EXCEPT ![c] = IF chead[c] = tail THEN "idle" ELSE "check"]
    /\ UNCHANGED <<data, ready, head, tail, chead, citem, prodVars, obsVars>>

\* Load the slot's flag; return false when it is not set.
PopCheckReady(c) ==
    /\ cpc[c] = "check"
    /\ cpc' = [cpc EXCEPT ![c] = IF ready[Slot(chead[c])] THEN "cas" ELSE "idle"]
    /\ UNCHANGED <<data, ready, head, tail, chead, citem, prodVars, obsVars>>

\* Mutant: head_ is stored without being compared.
PopClaimWithoutCompare(c) ==
    /\ cpc[c] = "cas"
    /\ head' = chead[c] + 1
    /\ cpc' = [cpc EXCEPT ![c] = "move"]
    /\ UNCHANGED <<data, ready, tail, chead, citem, prodVars, obsVars>>

\* The compare-exchange succeeds: c owns the item at position chead[c].
PopClaim(c) ==
    /\ cpc[c] = "cas"
    /\ head = chead[c]
    /\ head' = head + 1
    /\ cpc' = [cpc EXCEPT ![c] = "move"]
    /\ UNCHANGED <<data, ready, tail, chead, citem, prodVars, obsVars>>

\* It fails, because head_ moved or spuriously (the weak form may), and
\* leaves the current head_ in the local copy: once more around the loop.
PopRetry(c) ==
    /\ cpc[c] = "cas"
    /\ chead' = [chead EXCEPT ![c] = head]
    /\ cpc' = [cpc EXCEPT ![c] = "loadtail"]
    /\ UNCHANGED <<data, ready, head, tail, citem, prodVars, obsVars>>

\* The move out of the slot ends.
PopMove(c) ==
    /\ cpc[c] = "move"
    /\ citem' = [citem EXCEPT ![c] = data[Slot(chead[c])]]
    /\ data' = [data EXCEPT ![Slot(chead[c])] = NoItem]
    /\ cpc' = [cpc EXCEPT ![c] = "release"]
    /\ UNCHANGED <<ready, head, tail, chead, prodVars, obsVars>>

\* Mutant: the flag is left set.
PopReleaseForgotten(c) ==
    /\ cpc[c] = "release"
    /\ cpc' = [cpc EXCEPT ![c] = "idle"]
    /\ UNCHANGED <<data, ready, head, tail, chead, citem, prodVars, obsVars>>

\* Clear the flag, which hands the slot back to the producer; return true.
PopRelease(c) ==
    /\ cpc[c] = "release"
    /\ ready' = [ready EXCEPT ![Slot(chead[c])] = FALSE]
    /\ cpc' = [cpc EXCEPT ![c] = "idle"]
    /\ UNCHANGED <<data, head, tail, chead, citem, prodVars, obsVars>>

-----------------------------------------------------------------------------
(* size(): the two counters are loaded one after the other, tail_ first.   *)

\* Mutant: the smaller counter is loaded first, into the variable of the other.
SizeLoadHeadFirst ==
    /\ opc = "idle"
    /\ otail' = head
    /\ opc' = "loadhead"
    /\ UNCHANGED <<data, ready, head, tail, osize, prodVars, consVars>>

SizeLoadTailLast ==
    /\ opc = "loadhead"
    /\ osize' = tail - otail
    /\ opc' = "idle"
    /\ UNCHANGED <<data, ready, head, tail, otail, prodVars, consVars>>

SizeHeadFirst == SizeLoadHeadFirst \/ SizeLoadTailLast

SizeLoadTail ==
    /\ opc = "idle"
    /\ otail' = tail
    /\ opc' = "loadhead"
    /\ UNCHANGED <<data, ready, head, tail, osize, prodVars, consVars>>

SizeLoadHead ==
    /\ opc = "loadhead"
    /\ osize' = IF otail >= head THEN otail - head ELSE 0
    /\ opc' = "idle"
    /\ UNCHANGED <<data, ready, head, tail, otail, prodVars, consVars>>

-----------------------------------------------------------------------------
Push ==
    \/ \E item \in Items : PushLoadHead(item)
    \/ PushCheckReady
    \/ PushWriteData
    \/ PushStoreReady
    \/ PushStoreTail

Pop(c) ==
    \/ PopLoadHead(c)
    \/ PopLoadTail(c)
    \/ PopCheckReady(c)
    \/ PopClaim(c)
    \/ PopRetry(c)
    \/ PopMove(c)
    \/ PopRelease(c)

Size == SizeLoadTail \/ SizeLoadHead

Next == Push \/ (\E c \in Consumers : Pop(c)) \/ Size

Spec == Init /\ [][Next]_vars

-----------------------------------------------------------------------------
(* Properties *)

TypeOK ==
    /\ data \in [Slots -> Items \cup {NoItem}]
    /\ ready \in [Slots -> BOOLEAN]
    /\ head \in Nat /\ tail \in Nat
    /\ ppc \in {"idle", "check", "write", "setready", "publish"}
    /\ pitem \in Items \cup {NoItem}
    /\ cpc \in [Consumers -> {"idle", "loadtail", "check", "cas", "move", "release"}]
    /\ chead \in [Consumers -> Nat]
    /\ citem \in [Consumers -> Items \cup {NoItem}]
    /\ opc \in {"idle", "loadhead"}
    /\ otail \in Nat /\ osize \in Nat

\* Consumer c has claimed position chead[c] and not handed its slot back.
Holds(c) == cpc[c] \in {"move", "release"}

\* The producer owns the slot of position tail and has not published it.
Writing == ppc \in {"write", "setready", "publish"}

\* No slot is touched by two threads: a consumer still moving an item out is
\* alone on its slot, even when the producer has come round the whole ring
\* or another consumer has claimed the next item.
NoSlotShared ==
    \A c \in Consumers : Holds(c) =>
        /\ Writing => Slot(tail) # Slot(chead[c])
        /\ \A d \in Consumers \ {c} : Holds(d) => Slot(chead[d]) # Slot(chead[c])

\* try_pop gives up on a slot that is not ready only when another consumer has
\* already claimed that position.  The producer publishes a position after its
\* flag, so a consumer never meets an item "not yet ready".
UnreadyMeansOvertaken ==
    \A c \in Consumers :
        cpc[c] = "check" /\ ~ready[Slot(chead[c])] => chead[c] < head

\* try_push gives up on a slot that is still ready only while a consumer is
\* holding the item the producer wrote there one lap ago: no flag is ever left
\* set behind, which would make the ring smaller for good.
RefusalMeansHeld ==
    ppc = "check" /\ ready[Slot(tail)] =>
        \E c \in Consumers : Holds(c) /\ chead[c] = tail - Capacity

\* size() never reports more items than the ring can hold, whatever the threads
\* do between its two loads.
SizeWithinCapacity == osize <= Capacity

\* The ring is a first-in first-out queue: a push takes effect when tail_ is
\* stored, a pop when the compare-exchange succeeds, although the item is moved
\* out later.
Waiting == [k \in 1 .. (tail - head) |-> data[Slot(head + k - 1)]]
Received == [c \in Consumers |->
                IF cpc[c] = "move" THEN data[Slot(chead[c])] ELSE citem[c]]

Fifo == INSTANCE FifoQueue WITH queue <- Waiting, received <- Received

ImplementsFifo == Fifo!Spec
-----------------------------------------------------------------------------
(* The inductive invariant behind these properties. *)

\* At most Capacity items wait; a ring of capacity 0 never takes one.
CountersInv ==
    /\ head <= tail
    /\ tail <= head + Capacity
    /\ tail > 0 => Capacity > 0

\* Past the fullness test there is room; the flag the producer found clear
\* stays clear until the producer sets it, and nobody touches its data.
ProducerInv ==
    /\ ppc # "idle" => tail < head + Capacity /\ pitem \in Items
    /\ ppc \in {"write", "setready"} => ~ready[Slot(tail)]
    /\ ppc \in {"setready", "publish"} => data[Slot(tail)] = pitem
    /\ ppc = "publish" => ready[Slot(tail)]

\* A local head is never ahead of head_.  A held position was claimed less than
\* a lap ago, by one consumer only, and its flag is still set.
ConsumerInv ==
    \A c \in Consumers :
        /\ chead[c] <= head
        /\ cpc[c] \in {"check", "cas"} => chead[c] < tail
        /\ Holds(c) =>
            /\ chead[c] < head
            /\ tail <= chead[c] + Capacity
            /\ Writing => tail < chead[c] + Capacity
            /\ ready[Slot(chead[c])]
            /\ \A d \in Consumers \ {c} : Holds(d) => chead[d] # chead[c]

\* The flags that are set are those of the waiting items, of the held ones and
\* of the one about to be published.
FlagsInv ==
    /\ \A p \in head .. (tail - 1) : ready[Slot(p)]
    /\ \A s \in Slots : ready[s] =>
        \/ \E p \in head .. (tail - 1) : Slot(p) = s
        \/ \E c \in Consumers : Holds(c) /\ Slot(chead[c]) = s
        \/ ppc = "publish" /\ Slot(tail) = s

SizeInv == otail <= tail /\ osize <= Capacity

IndInv == TypeOK /\ CountersInv /\ ProducerInv /\ ConsumerInv /\ FlagsInv /\ SizeInv
=============================================================================
