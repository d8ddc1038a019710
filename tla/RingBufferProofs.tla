-------------------------- MODULE RingBufferProofs --------------------------
(***************************************************************************)
(* Proofs about RingBuffer, for every capacity, every set of items and     *)
(* every set of consumers.                                                 *)
(***************************************************************************)
EXTENDS RingBuffer, SequenceTheorems, TLAPS

-----------------------------------------------------------------------------
(* Arithmetic of the slots. *)

\* Quotient and remainder are determined by the number divided.
LEMMA DivisionUnique ==
    ASSUME NEW n \in Nat, n > 0,
           NEW q1 \in Int, NEW q2 \in Int,
           NEW r1 \in 0 .. (n - 1), NEW r2 \in 0 .. (n - 1),
           n * q1 + r1 = n * q2 + r2
    PROVE  q1 = q2 /\ r1 = r2
<1>1. n * (q1 - q2) = r2 - r1
  OBVIOUS
<1>2. CASE q1 > q2
  <2>1. n * (q1 - q2) >= n
    BY <1>2
  <2>. QED BY <2>1, <1>1
<1>3. CASE q1 < q2
  <2>1. n * (q1 - q2) <= -n
    BY <1>3
  <2>. QED BY <2>1, <1>1
<1>. QED BY <1>1, <1>2, <1>3

\* A position is a whole number of laps plus its slot.
LEMMA SlotDivision ==
    ASSUME NEW a \in Nat, Capacity > 0
    PROVE  /\ Slot(a) \in Slots
           /\ a \div Capacity \in Nat
           /\ a = Capacity * (a \div Capacity) + Slot(a)
BY CapacityAssumption, SMTT(30) DEF Slot, Slots

\* Positions less than a lap apart have different slots.
LEMMA SlotInjective ==
    ASSUME NEW a \in Nat, NEW b \in Nat, a < b, b < a + Capacity
    PROVE  Slot(a) # Slot(b)
<1>1. Capacity \in Nat /\ Capacity > 0
  BY CapacityAssumption
<1>2. PICK qa \in Nat : a = Capacity * qa + Slot(a)
  BY <1>1, SlotDivision
<1>3. PICK qb \in Nat : b = Capacity * qb + Slot(b)
  BY <1>1, SlotDivision
<1>4. Slot(a) \in Nat /\ Slot(b) \in Nat
  BY <1>1, SlotDivision DEF Slots
<1>. SUFFICES ASSUME Slot(a) = Slot(b) PROVE FALSE
  OBVIOUS
<1>5. b - a = Capacity * (qb - qa)
  BY <1>1, <1>2, <1>3, <1>4
<1>6. CASE qb <= qa
  <2>1. Capacity * (qb - qa) <= 0
    BY <1>1, <1>6
  <2>. QED BY <2>1, <1>5
<1>7. CASE qb > qa
  <2>1. Capacity * (qb - qa) >= Capacity
    BY <1>1, <1>7
  <2>. QED BY <2>1, <1>5, <1>1
<1>. QED BY <1>6, <1>7

\* Positions exactly a lap apart share their slot.
LEMMA SlotPeriodic ==
    ASSUME NEW a \in Nat, Capacity > 0
    PROVE  Slot(a + Capacity) = Slot(a)
<1>1. Capacity \in Nat /\ a + Capacity \in Nat
  BY CapacityAssumption
<1>2. PICK q \in Nat : a = Capacity * q + Slot(a)
  BY SlotDivision
<1>3. PICK p \in Nat : a + Capacity = Capacity * p + Slot(a + Capacity)
  BY <1>1, SlotDivision
<1>4. /\ Slot(a) \in 0 .. (Capacity - 1)
      /\ Slot(a + Capacity) \in 0 .. (Capacity - 1)
  BY <1>1, SlotDivision DEF Slots
<1>5. PICK r \in Int : r = q + 1
  OBVIOUS
<1>6. Capacity * r + Slot(a) = Capacity * p + Slot(a + Capacity)
  <2>1. Capacity * r = Capacity * q + Capacity
    BY <1>1, <1>5
  <2>. QED BY <2>1, <1>1, <1>2, <1>3, <1>4
<1>7. p \in Int
  OBVIOUS
<1>. QED
  BY <1>1, <1>4, <1>6, <1>7, DivisionUnique, Zenon

-----------------------------------------------------------------------------
(* Consequences of the inductive invariant. *)

\* The slot of a held position belongs to no waiting item, to no other holder
\* and is not the one being written.
LEMMA HeldSlotIsOwn ==
    ASSUME IndInv, NEW c \in Consumers, Holds(c)
    PROVE  /\ chead[c] \in Nat /\ Capacity > 0
           /\ Slot(chead[c]) \in Slots
           /\ \A p \in head .. (tail - 1) : Slot(p) # Slot(chead[c])
           /\ Writing => Slot(tail) # Slot(chead[c])
           /\ \A d \in Consumers \ {c} : Holds(d) => Slot(chead[d]) # Slot(chead[c])
<1>1. /\ Capacity \in Nat /\ head \in Nat /\ tail \in Nat
      /\ chead \in [Consumers -> Nat]
  BY CapacityAssumption DEF IndInv, TypeOK
<1>2. head <= tail /\ tail <= head + Capacity
  BY DEF IndInv, CountersInv
<1>3. chead[c] < head /\ tail <= chead[c] + Capacity
  BY DEF IndInv, ConsumerInv
<1>4. chead[c] \in Nat /\ Capacity > 0
  BY <1>1, <1>2, <1>3
<1>5. ASSUME NEW p \in head .. (tail - 1) PROVE Slot(p) # Slot(chead[c])
  <2>1. p \in Nat /\ chead[c] < p /\ p < chead[c] + Capacity
    BY <1>1, <1>3, <1>4
  <2>. QED BY <2>1, <1>4, SlotInjective
<1>6. ASSUME Writing PROVE Slot(tail) # Slot(chead[c])
  <2>1. tail < chead[c] + Capacity
    BY <1>6 DEF IndInv, ConsumerInv
  <2>2. chead[c] < tail
    BY <1>1, <1>2, <1>3, <1>4
  <2>. QED BY <2>1, <2>2, <1>1, <1>4, SlotInjective
<1>7. ASSUME NEW d \in Consumers \ {c}, Holds(d)
      PROVE  Slot(chead[d]) # Slot(chead[c])
  <2>1. /\ chead[d] \in Nat /\ chead[d] < head
        /\ tail <= chead[d] + Capacity /\ chead[d] # chead[c]
    BY <1>1, <1>7 DEF IndInv, ConsumerInv
  <2>2. CASE chead[d] < chead[c]
    <3>1. chead[c] < chead[d] + Capacity
      BY <1>1, <1>2, <1>3, <1>4, <2>1
    <3>. QED BY <3>1, <2>1, <2>2, <1>4, SlotInjective
  <2>3. CASE chead[c] < chead[d]
    <3>1. chead[d] < chead[c] + Capacity
      BY <1>1, <1>2, <1>3, <1>4, <2>1
    <3>. QED BY <3>1, <2>1, <2>3, <1>4, SlotInjective
  <2>. QED BY <2>1, <2>2, <2>3, <1>4
<1>8. Slot(chead[c]) \in Slots
  BY <1>4, SlotDivision
<1>. QED BY <1>4, <1>5, <1>6, <1>7, <1>8

\* The slots of the waiting items are slots of the ring.
LEMMA SlotInRing ==
    ASSUME IndInv, NEW p \in head .. (tail - 1)
    PROVE  p \in Nat /\ Slot(p) \in Slots
<1>1. p \in Nat /\ Capacity \in Nat /\ Capacity > 0
  BY CapacityAssumption DEF IndInv, TypeOK, CountersInv
<1>. QED BY <1>1, SlotDivision

\* While the producer is past its fullness test, the slot of position tail is
\* a slot of the ring and belongs to no waiting item.
LEMMA TailSlotIsFree ==
    ASSUME IndInv, ppc # "idle"
    PROVE  /\ Capacity > 0 /\ Slot(tail) \in Slots
           /\ \A p \in head .. (tail - 1) : Slot(p) # Slot(tail)
<1>1. /\ Capacity \in Nat /\ head \in Nat /\ tail \in Nat
      /\ head <= tail /\ tail < head + Capacity
  BY CapacityAssumption DEF IndInv, TypeOK, CountersInv, ProducerInv
<1>2. Capacity > 0 /\ Slot(tail) \in Slots
  BY <1>1, SlotDivision
<1>3. ASSUME NEW p \in head .. (tail - 1) PROVE Slot(p) # Slot(tail)
  <2>1. p \in Nat /\ p < tail /\ tail < p + Capacity
    BY <1>1
  <2>. QED BY <2>1, <1>1, SlotInjective
<1>. QED BY <1>2, <1>3

-----------------------------------------------------------------------------
(* Every action preserves the inductive invariant. *)

LEMMA InitInv == Init => IndInv
<1>. SUFFICES ASSUME Init PROVE IndInv
  OBVIOUS
<1>1. TypeOK
  BY DEF Init, TypeOK, Slots
<1>2. CountersInv /\ ProducerInv /\ SizeInv
  BY CapacityAssumption DEF Init, CountersInv, ProducerInv, SizeInv
<1>3. ConsumerInv
  BY DEF Init, ConsumerInv, Holds
<1>4. FlagsInv
  BY DEF Init, FlagsInv, Slots
<1>. QED BY <1>1, <1>2, <1>3, <1>4 DEF IndInv

LEMMA PushLoadHeadInv ==
    ASSUME IndInv, NEW item \in Items, PushLoadHead(item)
    PROVE  IndInv'
<1>. USE CapacityAssumption DEF PushLoadHead, consVars, obsVars
<1>1. TypeOK'
  BY DEF IndInv, TypeOK
<1>2. CountersInv' /\ SizeInv'
  BY DEF IndInv, CountersInv, SizeInv
<1>3. ProducerInv'
  BY DEF IndInv, TypeOK, CountersInv, ProducerInv, Slot
<1>4. ConsumerInv'
  BY DEF IndInv, ConsumerInv, Holds, Writing, Slot
<1>5. FlagsInv'
  BY DEF IndInv, FlagsInv, Holds, Slot, Slots
<1>. QED BY <1>1, <1>2, <1>3, <1>4, <1>5 DEF IndInv

\* The flag is clear, so no consumer holds the item written a lap ago.
LEMMA PushCheckReadyInv ==
    ASSUME IndInv, PushCheckReady
    PROVE  IndInv'
<1>. USE CapacityAssumption DEF PushCheckReady, consVars, obsVars
<1>1. TypeOK'
  BY DEF IndInv, TypeOK
<1>2. CountersInv' /\ SizeInv'
  BY DEF IndInv, CountersInv, SizeInv
<1>3. ProducerInv'
  BY DEF IndInv, ProducerInv, Slot
<1>4. ConsumerInv'
  <2>1. ASSUME NEW c \in Consumers, Holds(c), ppc' = "write"
        PROVE  tail < chead[c] + Capacity
    <3>1. ~ready[Slot(tail)]
      BY <2>1
    <3>2. /\ ready[Slot(chead[c])] /\ tail <= chead[c] + Capacity
          /\ chead[c] \in Nat /\ tail \in Nat
      BY <2>1 DEF IndInv, TypeOK, ConsumerInv
    <3>3. Slot(chead[c] + Capacity) = Slot(chead[c])
      BY <2>1, <3>2, HeldSlotIsOwn, SlotPeriodic
    <3>. QED BY <3>1, <3>2, <3>3
  <2>. QED
    BY <2>1 DEF IndInv, ConsumerInv, Holds, Writing, Slot
<1>5. FlagsInv'
  BY DEF IndInv, FlagsInv, Holds, Slot, Slots
<1>. QED BY <1>1, <1>2, <1>3, <1>4, <1>5 DEF IndInv

LEMMA PushWriteDataInv ==
    ASSUME IndInv, PushWriteData
    PROVE  IndInv'
<1>. USE CapacityAssumption DEF PushWriteData, consVars, obsVars
<1>0. Slot(tail) \in Slots
  BY TailSlotIsFree
<1>1. TypeOK'
  BY <1>0 DEF IndInv, TypeOK
<1>2. CountersInv' /\ SizeInv'
  BY DEF IndInv, CountersInv, SizeInv
<1>3. ProducerInv'
  BY <1>0 DEF IndInv, TypeOK, ProducerInv, Slot
<1>4. ConsumerInv'
  BY DEF IndInv, ConsumerInv, Holds, Writing, Slot
<1>5. FlagsInv'
  BY DEF IndInv, FlagsInv, Holds, Slot, Slots
<1>. QED BY <1>1, <1>2, <1>3, <1>4, <1>5 DEF IndInv

LEMMA PushStoreReadyInv ==
    ASSUME IndInv, PushStoreReady
    PROVE  IndInv'
<1>. USE CapacityAssumption DEF PushStoreReady, consVars, obsVars
<1>0. Slot(tail) \in Slots
  BY TailSlotIsFree
<1>1. TypeOK'
  BY <1>0 DEF IndInv, TypeOK
<1>2. CountersInv' /\ SizeInv'
  BY DEF IndInv, CountersInv, SizeInv
<1>3. ProducerInv'
  BY <1>0 DEF IndInv, TypeOK, ProducerInv, Slot
<1>4. ConsumerInv'
  BY <1>0 DEF IndInv, TypeOK, ConsumerInv, Holds, Writing, Slot
<1>5. FlagsInv'
  <2>1. \A p \in head .. (tail - 1) : ready'[Slot(p)]
    BY <1>0, SlotInRing DEF IndInv, TypeOK, FlagsInv
  <2>2. ASSUME NEW s \in Slots, ready'[s], s # Slot(tail)
        PROVE  \/ \E p \in head .. (tail - 1) : Slot(p) = s
               \/ \E c \in Consumers : Holds(c) /\ Slot(chead[c]) = s
    BY <2>2, <1>0 DEF IndInv, TypeOK, FlagsInv
  <2>. QED BY <2>1, <2>2 DEF FlagsInv, Holds, Slot
<1>. QED BY <1>1, <1>2, <1>3, <1>4, <1>5 DEF IndInv

LEMMA PushStoreTailInv ==
    ASSUME IndInv, PushStoreTail
    PROVE  IndInv'
<1>. USE CapacityAssumption DEF PushStoreTail, consVars, obsVars
<1>0. Capacity > 0 /\ tail < head + Capacity /\ ready[Slot(tail)]
  BY TailSlotIsFree DEF IndInv, ProducerInv
<1>1. TypeOK'
  BY DEF IndInv, TypeOK
<1>2. CountersInv' /\ SizeInv'
  BY <1>0 DEF IndInv, TypeOK, CountersInv, SizeInv
<1>3. ProducerInv'
  BY DEF IndInv, ProducerInv
<1>4. ConsumerInv'
  BY DEF IndInv, TypeOK, ConsumerInv, Holds, Writing
<1>5. FlagsInv'
  <2>1. \A p \in head .. tail : ready[Slot(p)]
    BY <1>0 DEF IndInv, TypeOK, FlagsInv
  <2>2. ASSUME NEW s \in Slots, ready[s]
        PROVE  \/ \E p \in head .. tail : Slot(p) = s
               \/ \E c \in Consumers : Holds(c) /\ Slot(chead[c]) = s
    BY <2>2 DEF IndInv, TypeOK, CountersInv, FlagsInv
  <2>. QED BY <2>1, <2>2 DEF IndInv, TypeOK, FlagsInv, Holds
<1>. QED BY <1>1, <1>2, <1>3, <1>4, <1>5 DEF IndInv

\* The local head is head_ itself: no claim is ahead of the producer.
LEMMA PopLoadHeadInv ==
    ASSUME IndInv, NEW c \in Consumers, PopLoadHead(c)
    PROVE  IndInv'
<1>. USE CapacityAssumption DEF PopLoadHead, prodVars, obsVars
<1>1. TypeOK'
  BY DEF IndInv, TypeOK
<1>2. CountersInv' /\ SizeInv' /\ ProducerInv'
  BY DEF IndInv, CountersInv, SizeInv, ProducerInv, Slot
<1>3. \A d \in Consumers : Holds(d)' <=> Holds(d)
  BY DEF IndInv, TypeOK, Holds
<1>4. ConsumerInv'
  BY <1>3 DEF IndInv, TypeOK, CountersInv, ConsumerInv, Holds, Writing, Slot
<1>5. FlagsInv'
  BY <1>3 DEF IndInv, TypeOK, FlagsInv, Holds, Slot
<1>. QED BY <1>1, <1>2, <1>4, <1>5 DEF IndInv

LEMMA PopLoadTailInv ==
    ASSUME IndInv, NEW c \in Consumers, PopLoadTail(c)
    PROVE  IndInv'
<1>. USE CapacityAssumption DEF PopLoadTail, prodVars, obsVars
<1>1. TypeOK'
  BY DEF IndInv, TypeOK
<1>2. CountersInv' /\ SizeInv' /\ ProducerInv'
  BY DEF IndInv, CountersInv, SizeInv, ProducerInv, Slot
<1>3. \A d \in Consumers : Holds(d)' <=> Holds(d)
  BY DEF IndInv, TypeOK, Holds
<1>4. ConsumerInv'
  BY <1>3 DEF IndInv, TypeOK, CountersInv, ConsumerInv, Holds, Writing, Slot
<1>5. FlagsInv'
  BY <1>3 DEF IndInv, TypeOK, FlagsInv, Holds, Slot
<1>. QED BY <1>1, <1>2, <1>4, <1>5 DEF IndInv

LEMMA PopCheckReadyInv ==
    ASSUME IndInv, NEW c \in Consumers, PopCheckReady(c)
    PROVE  IndInv'
<1>. USE CapacityAssumption DEF PopCheckReady, prodVars, obsVars
<1>1. TypeOK'
  BY DEF IndInv, TypeOK
<1>2. CountersInv' /\ SizeInv' /\ ProducerInv'
  BY DEF IndInv, CountersInv, SizeInv, ProducerInv, Slot
<1>3. \A d \in Consumers : Holds(d)' <=> Holds(d)
  BY DEF IndInv, TypeOK, Holds
<1>4. ConsumerInv'
  BY <1>3 DEF IndInv, TypeOK, CountersInv, ConsumerInv, Holds, Writing, Slot
<1>5. FlagsInv'
  BY <1>3 DEF IndInv, TypeOK, FlagsInv, Holds, Slot
<1>. QED BY <1>1, <1>2, <1>4, <1>5 DEF IndInv

\* The claimed position was waiting, so its flag is set, it is less than a lap
\* behind the producer, and no other consumer holds it.
LEMMA PopClaimInv ==
    ASSUME IndInv, NEW c \in Consumers, PopClaim(c)
    PROVE  IndInv'
<1>. USE CapacityAssumption DEF PopClaim, prodVars, obsVars
<1>0. /\ chead[c] = head /\ head \in Nat /\ tail \in Nat /\ head < tail
      /\ ready[Slot(head)] /\ ~Holds(c)
  <2>1. chead[c] = head /\ head \in Nat /\ tail \in Nat /\ head < tail
    BY DEF IndInv, TypeOK, ConsumerInv
  <2>. QED BY <2>1 DEF IndInv, FlagsInv, Holds
<1>1. TypeOK'
  BY DEF IndInv, TypeOK
<1>2. CountersInv' /\ SizeInv'
  BY <1>0 DEF IndInv, TypeOK, CountersInv, SizeInv
<1>3. ProducerInv'
  BY <1>0 DEF IndInv, TypeOK, ProducerInv, Slot
<1>4. \A d \in Consumers : Holds(d)' <=> (Holds(d) \/ d = c)
  BY DEF IndInv, TypeOK, Holds
<1>5. ConsumerInv'
  <2>1. \A d \in Consumers :
          chead[d] <= head' /\ (cpc'[d] \in {"check", "cas"} => chead[d] < tail)
    BY <1>0 DEF IndInv, TypeOK, ConsumerInv
  <2>2. ASSUME NEW d \in Consumers, Holds(d)'
        PROVE  /\ chead[d] < head'
               /\ tail <= chead[d] + Capacity
               /\ Writing => tail < chead[d] + Capacity
               /\ ready[Slot(chead[d])]
    <3>1. CASE d = c
      BY <3>1, <1>0 DEF IndInv, TypeOK, CountersInv, ProducerInv, Writing
    <3>2. CASE d # c
      BY <3>2, <2>2, <1>4, <1>0 DEF IndInv, TypeOK, ConsumerInv
    <3>. QED BY <3>1, <3>2
  <2>3. ASSUME NEW d \in Consumers, NEW e \in Consumers \ {d}, Holds(d)', Holds(e)'
        PROVE  chead[e] # chead[d]
    BY <2>3, <1>4, <1>0 DEF IndInv, TypeOK, ConsumerInv
  <2>. QED BY <2>1, <2>2, <2>3 DEF ConsumerInv, Writing, Slot, Holds
<1>6. FlagsInv'
  <2>1. \A p \in head' .. (tail - 1) : ready[Slot(p)]
    BY <1>0 DEF IndInv, TypeOK, FlagsInv
  <2>2. ASSUME NEW s \in Slots, ready[s]
        PROVE  \/ \E p \in head' .. (tail - 1) : Slot(p) = s
               \/ \E d \in Consumers : Holds(d)' /\ Slot(chead[d]) = s
               \/ ppc = "publish" /\ Slot(tail) = s
    <3>1. CASE \E p \in head .. (tail - 1) : Slot(p) = s
      <4>1. PICK p \in head .. (tail - 1) : Slot(p) = s
        BY <3>1
      <4>2. CASE p = head
        BY <4>1, <4>2, <1>0, <1>4
      <4>3. CASE p # head
        BY <4>1, <4>3, <1>0
      <4>. QED BY <4>2, <4>3
    <3>. QED BY <2>2, <3>1, <1>4 DEF IndInv, FlagsInv
  <2>. QED BY <2>1, <2>2 DEF FlagsInv, Holds, Slot
<1>. QED BY <1>1, <1>2, <1>3, <1>5, <1>6 DEF IndInv

LEMMA PopRetryInv ==
    ASSUME IndInv, NEW c \in Consumers, PopRetry(c)
    PROVE  IndInv'
<1>. USE CapacityAssumption DEF PopRetry, prodVars, obsVars
<1>1. TypeOK'
  BY DEF IndInv, TypeOK
<1>2. CountersInv' /\ SizeInv' /\ ProducerInv'
  BY DEF IndInv, CountersInv, SizeInv, ProducerInv, Slot
<1>3. \A d \in Consumers : Holds(d)' <=> Holds(d)
  BY DEF IndInv, TypeOK, Holds
<1>4. ConsumerInv'
  BY <1>3 DEF IndInv, TypeOK, CountersInv, ConsumerInv, Holds, Writing, Slot
<1>5. FlagsInv'
  BY <1>3 DEF IndInv, TypeOK, FlagsInv, Holds, Slot
<1>. QED BY <1>1, <1>2, <1>4, <1>5 DEF IndInv

\* The slot moved from is not the one the producer wrote last.
LEMMA PopMoveInv ==
    ASSUME IndInv, NEW c \in Consumers, PopMove(c)
    PROVE  IndInv'
<1>. USE CapacityAssumption DEF PopMove, prodVars, obsVars
<1>0. /\ Holds(c) /\ Slot(chead[c]) \in Slots
      /\ Writing => Slot(tail) # Slot(chead[c])
  BY HeldSlotIsOwn DEF Holds
<1>1. TypeOK'
  BY <1>0 DEF IndInv, TypeOK
<1>2. CountersInv' /\ SizeInv'
  BY DEF IndInv, CountersInv, SizeInv
<1>3. ProducerInv'
  <2>1. ppc \in {"setready", "publish"} => data'[Slot(tail)] = data[Slot(tail)]
    BY <1>0 DEF IndInv, TypeOK, Writing
  <2>. QED BY <2>1 DEF IndInv, ProducerInv, Slot
<1>4. \A d \in Consumers : Holds(d)' <=> Holds(d)
  BY DEF IndInv, TypeOK, Holds
<1>5. ConsumerInv'
  BY <1>4 DEF IndInv, TypeOK, ConsumerInv, Holds, Writing, Slot
<1>6. FlagsInv'
  BY <1>4 DEF IndInv, TypeOK, FlagsInv, Holds, Slot
<1>. QED BY <1>1, <1>2, <1>3, <1>5, <1>6 DEF IndInv

\* Clearing the flag clears no other item's.
LEMMA PopReleaseInv ==
    ASSUME IndInv, NEW c \in Consumers, PopRelease(c)
    PROVE  IndInv'
<1>. USE CapacityAssumption DEF PopRelease, prodVars, obsVars
<1>0. /\ Holds(c) /\ Slot(chead[c]) \in Slots
      /\ \A p \in head .. (tail - 1) : Slot(p) # Slot(chead[c])
      /\ Writing => Slot(tail) # Slot(chead[c])
      /\ \A d \in Consumers \ {c} : Holds(d) => Slot(chead[d]) # Slot(chead[c])
  BY HeldSlotIsOwn DEF Holds
<1>1. TypeOK'
  BY <1>0 DEF IndInv, TypeOK
<1>2. CountersInv' /\ SizeInv'
  BY DEF IndInv, CountersInv, SizeInv
<1>3. \A s : s # Slot(chead[c]) => ready'[s] = ready[s]
  BY DEF IndInv, TypeOK
<1>4. \A d \in Consumers : Holds(d)' <=> (Holds(d) /\ d # c)
  BY DEF IndInv, TypeOK, Holds
<1>5. ProducerInv'
  <2>1. ppc = "publish" => ready'[Slot(tail)]
    BY <1>0, <1>3 DEF IndInv, ProducerInv, Writing
  <2>2. ppc \in {"write", "setready"} => ~ready'[Slot(tail)]
    BY <1>0, <1>3 DEF IndInv, ProducerInv, Writing
  <2>. QED BY <2>1, <2>2 DEF IndInv, ProducerInv, Slot
<1>6. ConsumerInv'
  <2>1. \A d \in Consumers : cpc'[d] \in {"check", "cas"} => cpc[d] = cpc'[d]
    BY DEF IndInv, TypeOK
  <2>2. \A d \in Consumers : Holds(d)' => ready'[Slot(chead[d])]
    BY <1>0, <1>3, <1>4 DEF IndInv, ConsumerInv
  <2>. QED BY <2>1, <2>2, <1>4 DEF IndInv, ConsumerInv, Holds, Writing, Slot
<1>7. FlagsInv'
  <2>1. \A p \in head .. (tail - 1) : ready'[Slot(p)]
    BY <1>0, <1>3 DEF IndInv, FlagsInv
  <2>2. ASSUME NEW s \in Slots, ready'[s]
        PROVE  \/ \E p \in head .. (tail - 1) : Slot(p) = s
               \/ \E d \in Consumers : Holds(d)' /\ Slot(chead[d]) = s
               \/ ppc = "publish" /\ Slot(tail) = s
    <3>1. s # Slot(chead[c]) /\ ready[s]
      BY <2>2, <1>0, <1>3 DEF IndInv, TypeOK
    <3>. QED BY <3>1, <1>4 DEF IndInv, FlagsInv
  <2>. QED BY <2>1, <2>2 DEF FlagsInv, Holds, Slot
<1>. QED BY <1>1, <1>2, <1>5, <1>6, <1>7 DEF IndInv

\* The difference the observer computes is at most the number of items that
\* waited when it loaded tail_.
LEMMA SizeActionInv ==
    ASSUME IndInv, Size
    PROVE  IndInv'
<1>. USE CapacityAssumption DEF prodVars, consVars
<1>0. UNCHANGED <<data, ready, head, tail, ppc, pitem, cpc, chead, citem>>
  BY DEF Size, SizeLoadTail, SizeLoadHead
<1>1. SizeInv' /\ opc' \in {"idle", "loadhead"} /\ otail' \in Nat /\ osize' \in Nat
  <2>1. CASE SizeLoadTail
    BY <2>1 DEF SizeLoadTail, IndInv, TypeOK, SizeInv
  <2>2. CASE SizeLoadHead
    BY <2>2 DEF SizeLoadHead, IndInv, TypeOK, CountersInv, SizeInv
  <2>. QED BY <2>1, <2>2 DEF Size
<1>2. TypeOK'
  BY <1>0, <1>1 DEF IndInv, TypeOK
<1>3. CountersInv' /\ ProducerInv' /\ ConsumerInv' /\ FlagsInv'
  BY <1>0 DEF IndInv, CountersInv, ProducerInv, ConsumerInv, FlagsInv,
              Holds, Writing, Slot
<1>. QED BY <1>1, <1>2, <1>3 DEF IndInv

LEMMA StutterInv == IndInv /\ UNCHANGED vars => IndInv'
BY DEF vars, prodVars, consVars, obsVars, IndInv, TypeOK, CountersInv,
       ProducerInv, ConsumerInv, FlagsInv, SizeInv, Holds, Writing, Slot

-----------------------------------------------------------------------------
(* The theorems. *)

\* IndInv holds in every reachable state of the ring, for every capacity,
\* every set of items, every set of consumers and every bound on the pushes.
THEOREM InvariantHolds == Spec => []IndInv
<1>1. Init => IndInv
  BY InitInv
<1>2. IndInv /\ [Next]_vars => IndInv'
  <2>. SUFFICES ASSUME IndInv, [Next]_vars PROVE IndInv'
    OBVIOUS
  <2>1. CASE Push
    BY <2>1, PushLoadHeadInv, PushCheckReadyInv, PushWriteDataInv,
       PushStoreReadyInv, PushStoreTailInv DEF Push
  <2>2. ASSUME NEW c \in Consumers, Pop(c) PROVE IndInv'
    BY <2>2, PopLoadHeadInv, PopLoadTailInv, PopCheckReadyInv, PopClaimInv,
       PopRetryInv, PopMoveInv, PopReleaseInv DEF Pop
  <2>3. CASE Size
    BY <2>3, SizeActionInv
  <2>4. CASE UNCHANGED vars
    BY <2>4, StutterInv
  <2>. QED BY <2>1, <2>2, <2>3, <2>4 DEF Next
<1>. QED BY <1>1, <1>2, PTL DEF Spec

\* The ring's variables keep their types.
THEOREM TypeCorrect == Spec => []TypeOK
<1>1. IndInv => TypeOK
  BY DEF IndInv
<1>. QED BY <1>1, InvariantHolds, PTL

\* try_push and try_pop never touch one slot at the same time, however far the
\* producer runs ahead of a consumer that is still moving an item out.
THEOREM SlotsNeverShared == Spec => []NoSlotShared
<1>1. IndInv => NoSlotShared
  BY HeldSlotIsOwn DEF NoSlotShared
<1>. QED BY <1>1, InvariantHolds, PTL

\* try_pop finds a slot below tail_ not ready only if it lost the race for it.
THEOREM UnreadyOnlyOvertaken == Spec => []UnreadyMeansOvertaken
<1>1. IndInv => UnreadyMeansOvertaken
  <2>. SUFFICES ASSUME IndInv, NEW c \in Consumers, cpc[c] = "check",
                       ~ready[Slot(chead[c])]
                PROVE  chead[c] < head
    BY DEF UnreadyMeansOvertaken
  <2>. QED BY DEF IndInv, TypeOK, ConsumerInv, FlagsInv
<1>. QED BY <1>1, InvariantHolds, PTL

\* try_push refuses a slot that is still ready only while a consumer is moving
\* the item of one lap ago out of it: no slot is ever lost to a stale flag.
THEOREM RefusalOnlyWhileHeld == Spec => []RefusalMeansHeld
<1>1. IndInv => RefusalMeansHeld
  <2>. SUFFICES ASSUME IndInv, ppc = "check", ready[Slot(tail)]
                PROVE  \E c \in Consumers : Holds(c) /\ chead[c] = tail - Capacity
    BY DEF RefusalMeansHeld
  <2>1. PICK c \in Consumers : Holds(c) /\ Slot(chead[c]) = Slot(tail)
    BY TailSlotIsFree DEF IndInv, FlagsInv
  <2>2. /\ chead[c] \in Nat /\ tail \in Nat /\ Capacity \in Nat
        /\ chead[c] < tail /\ tail <= chead[c] + Capacity
    BY <2>1, CapacityAssumption DEF IndInv, TypeOK, CountersInv, ConsumerInv
  <2>3. ~(tail < chead[c] + Capacity)
    BY <2>1, <2>2, SlotInjective
  <2>. QED BY <2>1, <2>2, <2>3
<1>. QED BY <1>1, InvariantHolds, PTL

\* size() never exceeds the capacity.
THEOREM SizeBounded == Spec => []SizeWithinCapacity
<1>1. IndInv => SizeWithinCapacity
  BY DEF IndInv, SizeInv, SizeWithinCapacity
<1>. QED BY <1>1, InvariantHolds, PTL
-----------------------------------------------------------------------------
(* RingBuffer implements FifoQueue: storing tail_ is Enqueue, a successful   *)
(* compare-exchange is Dequeue, every other access is a stuttering step.     *)

\* The waiting items, one by one.
LEMMA WaitingItems ==
    ASSUME IndInv
    PROVE  /\ tail - head \in Nat
           /\ Waiting \in Seq(Items \cup {NoItem})
           /\ Len(Waiting) = tail - head
           /\ \A k \in 1 .. (tail - head) : Waiting[k] = data[Slot(head + k - 1)]
<1>1. head \in Nat /\ tail \in Nat /\ head <= tail
  BY DEF IndInv, TypeOK, CountersInv
<1>2. \A k \in 1 .. (tail - head) : data[Slot(head + k - 1)] \in Items \cup {NoItem}
  <2>. SUFFICES ASSUME NEW k \in 1 .. (tail - head)
                PROVE  data[Slot(head + k - 1)] \in Items \cup {NoItem}
    OBVIOUS
  <2>1. head + k - 1 \in head .. (tail - 1)
    BY <1>1
  <2>2. Slot(head + k - 1) \in Slots
    BY <2>1, SlotInRing
  <2>. QED BY <2>2 DEF IndInv, TypeOK
<1>. QED BY <1>1, <1>2 DEF Waiting

\* A step that moves neither counter and changes the data of no waiting item
\* and of no item being moved out is invisible in the queue.
LEMMA Invisible ==
    ASSUME IndInv, UNCHANGED <<head, tail, chead, citem>>,
           \A p \in head .. (tail - 1) : data'[Slot(p)] = data[Slot(p)],
           \A c \in Consumers : cpc'[c] = "move" <=> cpc[c] = "move",
           \A c \in Consumers :
              cpc[c] = "move" => data'[Slot(chead[c])] = data[Slot(chead[c])]
    PROVE  UNCHANGED <<Waiting, Received>>
<1>1. head \in Nat /\ tail \in Nat
  BY DEF IndInv, TypeOK
<1>2. \A k \in 1 .. (tail - head) : head + k - 1 \in head .. (tail - 1)
  BY <1>1
<1>3. Waiting' = Waiting
  BY <1>2 DEF Waiting, Slot
<1>4. Received' = Received
  BY DEF Received, Slot
<1>. QED BY <1>3, <1>4

LEMMA EnqueueStep ==
    ASSUME IndInv, PushStoreTail
    PROVE  Fifo!Enqueue(pitem) /\ pitem \in Items
<1>1. /\ head \in Nat /\ tail \in Nat /\ head <= tail /\ tail < head + Capacity
      /\ pitem \in Items /\ data[Slot(tail)] = pitem
  BY DEF PushStoreTail, IndInv, TypeOK, CountersInv, ProducerInv
<1>2. Capacity \in Nat
  BY CapacityAssumption
<1>3. /\ Waiting \in Seq(Items \cup {NoItem}) /\ Len(Waiting) = tail - head
      /\ \A k \in 1 .. (tail - head) : Waiting[k] = data[Slot(head + k - 1)]
  BY WaitingItems
<1>4. UNCHANGED <<data, head, cpc, chead, citem>> /\ tail' = tail + 1
  BY DEF PushStoreTail, consVars
<1>5. Waiting' = [k \in 1 .. (tail - head + 1) |-> data[Slot(head + k - 1)]]
  BY <1>1, <1>4 DEF Waiting, Slot
<1>6. Append(Waiting, pitem) = [k \in 1 .. (tail - head + 1) |-> data[Slot(head + k - 1)]]
  <2>1. /\ Append(Waiting, pitem) \in Seq(Items \cup {NoItem})
        /\ Len(Append(Waiting, pitem)) = tail - head + 1
        /\ \A k \in 1 .. (tail - head) : Append(Waiting, pitem)[k] = Waiting[k]
        /\ Append(Waiting, pitem)[tail - head + 1] = pitem
    BY <1>1, <1>3, AppendProperties
  <2>2. ASSUME NEW k \in 1 .. (tail - head + 1)
        PROVE  Append(Waiting, pitem)[k] = data[Slot(head + k - 1)]
    <3>1. CASE k \in 1 .. (tail - head)
      BY <3>1, <1>3, <2>1
    <3>2. CASE k = tail - head + 1
      <4>1. head + k - 1 = tail
        BY <1>1, <3>2
      <4>2. Append(Waiting, pitem)[k] = pitem
        BY <3>2, <2>1, Zenon
      <4>3. data[Slot(head + k - 1)] = data[Slot(tail)]
        BY <4>1, Zenon
      <4>. QED BY <4>2, <4>3, <1>1, Zenon
    <3>3. k \in 1 .. (tail - head) \/ k = tail - head + 1
      BY <1>1
    <3>. QED BY <3>1, <3>2, <3>3
  <2>3. Append(Waiting, pitem)
           = [k \in 1 .. (tail - head + 1) |-> Append(Waiting, pitem)[k]]
    BY <2>1, LenProperties, Zenon
  <2>. QED BY <2>2, <2>3, Zenon
<1>7. Received' = Received
  BY <1>4 DEF Received, Slot
<1>. QED BY <1>1, <1>2, <1>3, <1>5, <1>6, <1>7 DEF Fifo!Enqueue

LEMMA DequeueStep ==
    ASSUME IndInv, NEW c \in Consumers, PopClaim(c)
    PROVE  Fifo!Dequeue(c)
<1>1. /\ head \in Nat /\ tail \in Nat /\ head < tail /\ chead[c] = head
      /\ cpc[c] = "cas"
  BY DEF PopClaim, IndInv, TypeOK, ConsumerInv
<1>2. /\ Waiting \in Seq(Items \cup {NoItem}) /\ Len(Waiting) = tail - head
      /\ \A k \in 1 .. (tail - head) : Waiting[k] = data[Slot(head + k - 1)]
  BY WaitingItems
<1>3. /\ UNCHANGED <<data, tail, chead, citem>> /\ head' = head + 1
      /\ cpc' = [cpc EXCEPT ![c] = "move"]
  BY DEF PopClaim, prodVars
<1>4. Waiting # <<>> /\ Head(Waiting) = data[Slot(head)]
  BY <1>1, <1>2
<1>5. Waiting' = Tail(Waiting)
  <2>1. Waiting' = [k \in 1 .. (tail - head - 1) |-> data[Slot(head + k)]]
    <3>1. \A k \in 1 .. (tail - head - 1) : head + 1 + k - 1 = head + k
      BY <1>1
    <3>2. tail - (head + 1) = tail - head - 1
      BY <1>1
    <3>. QED BY <1>3, <3>1, <3>2 DEF Waiting, Slot
  <2>2. /\ Tail(Waiting) \in Seq(Items \cup {NoItem})
        /\ Len(Tail(Waiting)) = tail - head - 1
        /\ \A k \in 1 .. (tail - head - 1) : Tail(Waiting)[k] = Waiting[k + 1]
    BY <1>1, <1>2, <1>4, HeadTailProperties
  <2>3. \A k \in 1 .. (tail - head - 1) : Tail(Waiting)[k] = data[Slot(head + k)]
    <3>. SUFFICES ASSUME NEW k \in 1 .. (tail - head - 1)
                  PROVE  Tail(Waiting)[k] = data[Slot(head + k)]
      OBVIOUS
    <3>1. k + 1 \in 1 .. (tail - head) /\ head + (k + 1) - 1 = head + k
      BY <1>1
    <3>. QED BY <3>1, <2>2, <1>2
  <2>4. Tail(Waiting) = [k \in 1 .. (tail - head - 1) |-> Tail(Waiting)[k]]
    BY <2>2, LenProperties, Zenon
  <2>. QED BY <2>1, <2>3, <2>4, Zenon
<1>6. Received' = [Received EXCEPT ![c] = data[Slot(head)]]
  BY <1>1, <1>3 DEF Received, Slot, IndInv, TypeOK
<1>. QED BY <1>4, <1>5, <1>6 DEF Fifo!Dequeue

\* The producer's other steps.  Only the copy changes data, and its slot is
\* neither a waiting item's nor a held one.
LEMMA PushStutters ==
    ASSUME IndInv,
           \/ \E item \in Items : PushLoadHead(item)
           \/ PushCheckReady \/ PushWriteData \/ PushStoreReady
    PROVE  UNCHANGED <<Waiting, Received>>
<1>1. UNCHANGED <<head, tail, cpc, chead, citem>>
  BY DEF PushLoadHead, PushCheckReady, PushWriteData, PushStoreReady, consVars
<1>2. CASE PushWriteData
  <2>1. \A s : s # Slot(tail) => data'[s] = data[s]
    BY <1>2 DEF PushWriteData, IndInv, TypeOK
  <2>2. \A p \in head .. (tail - 1) : Slot(p) # Slot(tail)
    BY <1>2, TailSlotIsFree DEF PushWriteData
  <2>3. \A c \in Consumers : Holds(c) => Slot(chead[c]) # Slot(tail)
    BY <1>2, HeldSlotIsOwn DEF PushWriteData, Writing
  <2>. QED BY <1>1, <2>1, <2>2, <2>3, Invisible DEF Holds
<1>3. CASE UNCHANGED data
  BY <1>1, <1>3, Invisible
<1>. QED
  BY <1>2, <1>3 DEF PushLoadHead, PushCheckReady, PushStoreReady

\* The consumers' other steps.  Only the move out changes data, and its slot is
\* the mover's own; from then on citem holds the item.
LEMMA PopStutters ==
    ASSUME IndInv, NEW c \in Consumers,
           \/ PopLoadHead(c) \/ PopLoadTail(c) \/ PopCheckReady(c)
           \/ PopRetry(c) \/ PopMove(c) \/ PopRelease(c)
    PROVE  UNCHANGED <<Waiting, Received>>
<1>1. UNCHANGED <<head, tail>> /\ head \in Nat /\ tail \in Nat
  BY DEF PopLoadHead, PopLoadTail, PopCheckReady, PopRetry, PopMove, PopRelease,
         IndInv, TypeOK
<1>2. CASE PopMove(c)
  <2>1. /\ \A s : s # Slot(chead[c]) => data'[s] = data[s]
        /\ citem' = [citem EXCEPT ![c] = data[Slot(chead[c])]]
        /\ cpc' = [cpc EXCEPT ![c] = "release"] /\ cpc[c] = "move"
        /\ chead' = chead
    BY <1>2 DEF PopMove, IndInv, TypeOK
  <2>2. /\ \A p \in head .. (tail - 1) : Slot(p) # Slot(chead[c])
        /\ \A d \in Consumers \ {c} : cpc[d] = "move" => Slot(chead[d]) # Slot(chead[c])
    BY <2>1, HeldSlotIsOwn DEF Holds
  <2>3. \A k \in 1 .. (tail - head) : head + k - 1 \in head .. (tail - 1)
    BY <1>1
  <2>4. Waiting' = Waiting
    BY <1>1, <2>1, <2>2, <2>3 DEF Waiting, Slot
  <2>5. \A d \in Consumers : Received'[d] = Received[d]
    BY <2>1, <2>2 DEF Received, Slot, IndInv, TypeOK
  <2>. QED BY <2>4, <2>5 DEF Received
<1>3. CASE \/ PopLoadHead(c) \/ PopLoadTail(c) \/ PopCheckReady(c)
           \/ PopRetry(c) \/ PopRelease(c)
  <2>1. /\ UNCHANGED <<data, citem>> /\ cpc[c] # "move" /\ cpc'[c] # "move"
        /\ \A d \in Consumers \ {c} : cpc'[d] = cpc[d] /\ chead'[d] = chead[d]
    BY <1>3 DEF PopLoadHead, PopLoadTail, PopCheckReady, PopRetry, PopRelease,
                IndInv, TypeOK
  <2>2. Waiting' = Waiting
    BY <1>1, <2>1 DEF Waiting, Slot
  <2>3. \A d \in Consumers : Received'[d] = Received[d]
    BY <2>1 DEF Received, Slot
  <2>. QED BY <2>2, <2>3 DEF Received
<1>. QED BY <1>2, <1>3

\* Every behaviour of the ring is one of a bounded first-in first-out queue:
\* items come out once each, in the order they were accepted, none is lost and
\* at most Capacity wait.
THEOREM RingImplementsFifo == Spec => ImplementsFifo
<1>1. Init => Fifo!Init
  <2>. SUFFICES ASSUME Init PROVE Fifo!Init
    OBVIOUS
  <2>1. Waiting = <<>>
    <3>1. Waiting = [k \in 1 .. 0 |-> data[Slot(head + k - 1)]]
      BY DEF Init, Waiting
    <3>. QED BY <3>1
  <2>2. Received = [c \in Consumers |-> NoItem]
    BY DEF Init, Received
  <2>. QED BY <2>1, <2>2 DEF Fifo!Init
<1>2. IndInv /\ [Next]_vars => [Fifo!Next]_(Fifo!vars)
  <2>. SUFFICES ASSUME IndInv, [Next]_vars
                PROVE  Fifo!Next \/ UNCHANGED <<Waiting, Received>>
    BY DEF Fifo!vars
  <2>1. CASE Push
    BY <2>1, EnqueueStep, PushStutters DEF Push, Fifo!Next
  <2>2. ASSUME NEW c \in Consumers, Pop(c)
        PROVE  Fifo!Next \/ UNCHANGED <<Waiting, Received>>
    BY <2>2, DequeueStep, PopStutters DEF Pop, Fifo!Next
  <2>3. CASE Size \/ UNCHANGED vars
    BY <2>3, Invisible DEF Size, SizeLoadTail, SizeLoadHead, vars, prodVars, consVars
  <2>. QED BY <2>1, <2>2, <2>3 DEF Next
<1>. QED BY <1>1, <1>2, InvariantHolds, PTL DEF Spec, ImplementsFifo, Fifo!Spec
===============================================================================
