------------------------ MODULE ThresholdEngineProofs ------------------------
(***************************************************************************)
(* Proofs about ThresholdEngine and its parts: the adaptive threshold, for *)
(* every resolution of the scores and any number of updates; the queue of  *)
(* alerts, for every limit and set of severities; the optimizer, for every *)
(* window; and that the engine implements the abstract threshold.          *)
(***************************************************************************)
EXTENDS ThresholdEngine, Induction, SequenceTheorems

(* The adaptive threshold *)

\* What EchoIsQuiet rests on: a score that moved the mean is now within 7/3 of
\* the mean deviation, and the deviation is not zero.
StrayInv ==
    strayed => /\ initialized
               /\ last * scale # ema
               /\ 3 * Abs(last * scale - ema) <= 7 * dev

IndInv == TypeOK /\ StrayInv

\* The products of a score and the scale, as numbers without a product.
LEMMA ScoreScaled ==
    ASSUME TypeOK, NEW score \in Scores
    PROVE  /\ score * scale \in 0 .. Unit
           /\ Unit \in Nat /\ One * (10 * scale) = 10 * Unit
           /\ score * (10 * scale) = 10 * (score * scale)
           /\ 3 * score * scale = 3 * (score * scale)
           /\ score = One <=> score * scale = Unit
<1>1. One \in Nat \ {0} /\ scale \in Nat \ {0} /\ score \in Nat /\ score <= One
  BY OneAssumption DEF TypeOK, Scores
<1>2. PICK rest \in Nat : One = score + rest
  <2>1. One - score \in Nat /\ One = score + (One - score)
    BY <1>1
  <2>. QED BY <2>1
<1>3. One * scale = score * scale + rest * scale
  BY <1>1, <1>2
<1>4. rest * scale \in Nat /\ score * scale \in Nat
  BY <1>1, <1>2
<1>5. rest = 0 <=> rest * scale = 0
  BY <1>1, <1>2
<1>6. /\ One * (10 * scale) = 10 * (One * scale)
      /\ score * (10 * scale) = 10 * (score * scale)
      /\ 3 * score * scale = 3 * (score * scale)
  BY <1>1
<1>. QED BY <1>1, <1>2, <1>3, <1>4, <1>5, <1>6 DEF Unit

\* The state after an update that is not the first one, in the new units.
LEMMA LaterUpdate ==
    ASSUME TypeOK, NEW score \in Scores, Update(score), initialized
    PROVE  /\ scale' = 10 * scale /\ Unit' = 10 * Unit
           /\ ema' = 3 * (score * scale) + 7 * ema
           /\ dev' = 3 * Abs(score * scale - ema) + 7 * dev
           /\ ema' \in 0 .. Unit' /\ dev' \in 0 .. Unit'
           /\ threshold' = Clamp(ema' + 2 * dev', Unit')
           /\ score * scale' = 10 * (score * scale)
<1>1. /\ score * scale \in 0 .. Unit /\ Unit \in Nat
      /\ One * (10 * scale) = 10 * Unit
      /\ score * (10 * scale) = 10 * (score * scale)
      /\ 3 * score * scale = 3 * (score * scale)
  BY ScoreScaled
<1>2. /\ scale' = 10 * scale
      /\ ema' = 3 * score * scale + 7 * ema
      /\ dev' = 3 * Abs(score * scale - ema) + 7 * dev
      /\ threshold' = Clamp(ema' + 2 * dev', One * scale')
  BY DEF Update, EmaUpdate
<1>3. Unit' = 10 * Unit /\ Unit' = One * scale'
  BY <1>1, <1>2 DEF Unit
<1>4. ema \in 0 .. Unit /\ dev \in 0 .. Unit
  BY DEF TypeOK
<1>5. ema' = 3 * (score * scale) + 7 * ema
  BY <1>1, <1>2
<1>6. ema' \in 0 .. Unit'
  BY <1>1, <1>3, <1>4, <1>5
<1>7. Abs(score * scale - ema) \in 0 .. Unit
  BY <1>1, <1>4 DEF Abs
<1>8. dev' \in 0 .. Unit'
  BY <1>1, <1>2, <1>3, <1>4, <1>7
<1>. QED BY <1>1, <1>2, <1>3, <1>5, <1>6, <1>8

LEMMA FirstUpdate ==
    ASSUME TypeOK, NEW score \in Scores, Update(score), ~initialized
    PROVE  /\ scale' = scale /\ ema' = score * scale /\ dev' = 0
           /\ threshold' = score * scale /\ Unit' = Unit
<1>1. score * scale \in 0 .. Unit /\ Unit \in Nat
  BY ScoreScaled
<1>2. scale' = scale /\ ema' = score * scale /\ dev' = 0
      /\ threshold' = Clamp(ema' + 2 * dev', One * scale')
  BY DEF Update, EmaUpdate
<1>3. One * scale' = Unit /\ Unit' = Unit
  BY <1>2 DEF Unit
<1>4. Clamp(score * scale + 2 * 0, Unit) = score * scale
  BY <1>1 DEF Clamp
<1>. QED BY <1>2, <1>3, <1>4

-----------------------------------------------------------------------------
\* The averages and the threshold stay within [0, 1] and StrayInv holds, for
\* every sequence of updates, recalculations and resets.
THEOREM InvariantHolds == Spec => []IndInv
<1>1. Init => IndInv
  <2>. SUFFICES ASSUME Init PROVE IndInv
    OBVIOUS
  <2>1. Unit = One /\ 3 * (One \div 4) \in 0 .. One
    BY OneAssumption DEF Init, Unit
  <2>2. scale = 1 /\ ema = 0 /\ dev = 0 /\ last = 0 /\ threshold = 3 * (One \div 4)
    BY DEF Init
  <2>3. /\ scale \in Nat \ {0} /\ ema \in 0 .. Unit /\ dev \in 0 .. Unit
        /\ threshold \in 0 .. Unit /\ last \in Scores
    BY <2>1, <2>2, OneAssumption DEF Scores
  <2>4. initialized = FALSE /\ strayed = FALSE
    BY DEF Init
  <2>. QED BY <2>3, <2>4, Zenon DEF IndInv, TypeOK, StrayInv
<1>2. IndInv /\ [Next]_vars => IndInv'
  <2>. SUFFICES ASSUME IndInv, [Next]_vars PROVE IndInv'
    OBVIOUS
  <2>0. TypeOK /\ StrayInv
    BY DEF IndInv
  <2>1. ASSUME NEW score \in Scores, Update(score) PROVE IndInv'
    <3>0. score * scale \in 0 .. Unit /\ Unit \in Nat
      BY <2>0, ScoreScaled
    <3>1. /\ initialized' = TRUE /\ last' = score
          /\ strayed' = (initialized /\ score * scale # ema)
      BY <2>1 DEF Update
    <3>2. CASE ~initialized
      <4>1. /\ scale' = scale /\ ema' = score * scale /\ dev' = 0
            /\ threshold' = score * scale /\ Unit' = Unit
        BY <3>2, <2>0, <2>1, FirstUpdate
      <4>. QED BY <4>1, <3>0, <3>1, <3>2, <2>0 DEF IndInv, TypeOK, StrayInv
    <3>3. CASE initialized
      <4>1. /\ scale' = 10 * scale /\ Unit' = 10 * Unit
            /\ ema' = 3 * (score * scale) + 7 * ema
            /\ dev' = 3 * Abs(score * scale - ema) + 7 * dev
            /\ ema' \in 0 .. Unit' /\ dev' \in 0 .. Unit'
            /\ threshold' = Clamp(ema' + 2 * dev', Unit')
            /\ score * scale' = 10 * (score * scale)
        BY <3>3, <2>0, <2>1, LaterUpdate
      <4>2. threshold' \in 0 .. Unit'
        BY <4>1, <3>0 DEF Clamp
      <4>3. TypeOK'
        BY <4>1, <4>2, <3>1, <2>0 DEF TypeOK
      <4>4. ema \in Int /\ dev \in Nat
        BY <3>0, <2>0 DEF TypeOK
      <4>5. PICK p \in Int : p = score * scale
        BY <3>0
      <4>6. /\ last' * scale' = 10 * p
            /\ ema' = 3 * p + 7 * ema /\ dev' = 3 * Abs(p - ema) + 7 * dev
            /\ strayed' => p # ema
        BY <4>1, <4>5, <3>1
      <4>7. p # ema => 10 * p # 3 * p + 7 * ema
        BY <4>4
      <4>8. 3 * Abs(10 * p - (3 * p + 7 * ema)) <= 7 * (3 * Abs(p - ema) + 7 * dev)
        BY <4>4 DEF Abs
      <4>9. StrayInv'
        BY <4>6, <4>7, <4>8, <3>1 DEF StrayInv
      <4>. QED BY <4>3, <4>9 DEF IndInv
    <3>. QED BY <3>2, <3>3
  <2>2. ASSUME NEW best \in Scores, Recalculate(best) PROVE IndInv'
    <3>1. best * scale \in 0 .. Unit
      BY <2>0, ScoreScaled
    <3>. QED BY <2>0, <2>2, <3>1 DEF Recalculate, IndInv, TypeOK, StrayInv, Unit
  <2>3. CASE Reset
    <3>1. Unit' = One /\ 3 * (One \div 4) \in 0 .. One
      BY <2>3, OneAssumption DEF Reset, Unit
    <3>2. /\ scale' = 1 /\ ema' = 0 /\ dev' = 0 /\ last' = 0
          /\ threshold' = 3 * (One \div 4)
      BY <2>3 DEF Reset
    <3>3. /\ scale' \in Nat \ {0} /\ ema' \in 0 .. Unit' /\ dev' \in 0 .. Unit'
          /\ threshold' \in 0 .. Unit' /\ last' \in Scores
      BY <3>1, <3>2, OneAssumption DEF Scores
    <3>4. initialized' = FALSE /\ strayed' = FALSE
      BY <2>3 DEF Reset
    <3>. QED BY <3>3, <3>4, Zenon DEF IndInv, TypeOK, StrayInv
  <2>4. CASE UNCHANGED vars
    BY <2>0, <2>4 DEF vars, IndInv, TypeOK, StrayInv, Unit
  <2>. QED BY <2>1, <2>2, <2>3, <2>4 DEF Next
<1>. QED BY <1>1, <1>2, PTL DEF Spec

\* The types of the state, and with them the range [0, 1] of the threshold.
THEOREM TypeCorrect == Spec => []TypeOK
<1>1. IndInv => TypeOK
  BY DEF IndInv
<1>. QED BY <1>1, InvariantHolds, PTL

\* update followed by exceeds_threshold is the comparison of the score's
\* distance from the mean with 14 mean deviations, for every history of scores.
THEOREM AlertRuleHolds == Spec => AlertRule
<1>1. ASSUME TypeOK, NEW score \in Scores, Update(score)
      PROVE  Exceeds(score)' <=>
                \/ ~initialized
                \/ score = One
                \/ score * scale - ema >= 14 * dev
  <2>0. /\ score * scale \in 0 .. Unit /\ Unit \in Nat
        /\ score = One <=> score * scale = Unit
    BY <1>1, ScoreScaled
  <2>1. Exceeds(score)' <=> score * scale' >= threshold'
    BY DEF Exceeds
  <2>2. CASE ~initialized
    <3>1. scale' = scale /\ threshold' = score * scale
      BY <1>1, <2>2, FirstUpdate
    <3>. QED BY <2>0, <2>1, <2>2, <3>1
  <2>3. CASE initialized
    <3>1. /\ Unit' = 10 * Unit
          /\ ema' = 3 * (score * scale) + 7 * ema
          /\ dev' = 3 * Abs(score * scale - ema) + 7 * dev
          /\ threshold' = Clamp(ema' + 2 * dev', Unit')
          /\ score * scale' = 10 * (score * scale)
      BY <1>1, <2>3, LaterUpdate
    <3>2. ema \in 0 .. Unit /\ dev \in 0 .. Unit
      BY <1>1 DEF TypeOK
    <3>3. 10 * (score * scale) >= threshold' <=>
             \/ score * scale = Unit
             \/ score * scale - ema >= 14 * dev
      BY <2>0, <3>1, <3>2 DEF Clamp, Abs
    <3>. QED BY <2>0, <2>1, <2>3, <3>1, <3>3
  <2>. QED BY <2>2, <2>3
<1>2. TypeOK /\ [Next]_vars =>
        [\A score \in Scores :
           Update(score) =>
              (Exceeds(score)' <=>
                  \/ ~initialized
                  \/ score = One
                  \/ score * scale - ema >= 14 * dev)]_vars
  BY <1>1
<1>. QED BY <1>2, TypeCorrect, PTL DEF Spec, AlertRule

\* A repeated stray score is quiet, for every history of scores.
THEOREM EchoIsQuietHolds == Spec => EchoIsQuiet
<1>1. ASSUME IndInv, NEW score \in Scores, Update(score), strayed, score = last,
             score # One
      PROVE  ~Exceeds(score)'
  <2>0. /\ score * scale \in 0 .. Unit /\ Unit \in Nat
        /\ score # One => score * scale # Unit
    BY <1>1, ScoreScaled DEF IndInv
  <2>1. Exceeds(score)' <=> score * scale' >= threshold'
    BY DEF Exceeds
  <2>2. /\ initialized /\ score * scale # ema
        /\ 3 * Abs(score * scale - ema) <= 7 * dev
    BY <1>1 DEF IndInv, StrayInv
  <2>3. /\ Unit' = 10 * Unit
        /\ ema' = 3 * (score * scale) + 7 * ema
        /\ dev' = 3 * Abs(score * scale - ema) + 7 * dev
        /\ threshold' = Clamp(ema' + 2 * dev', Unit')
        /\ score * scale' = 10 * (score * scale)
    BY <1>1, <2>2, LaterUpdate DEF IndInv
  <2>4. ema \in 0 .. Unit /\ dev \in 0 .. Unit
    BY <1>1 DEF IndInv, TypeOK
  <2>5. PICK p \in 0 .. Unit : p = score * scale
    BY <2>0
  <2>6. p # Unit /\ p # ema /\ 3 * Abs(p - ema) <= 7 * dev
    BY <1>1, <2>0, <2>2, <2>5
  <2>7. threshold' = Clamp(3 * p + 7 * ema + 2 * (3 * Abs(p - ema) + 7 * dev), 10 * Unit)
    BY <2>3, <2>5
  <2>8. 10 * p < threshold'
    BY <2>0, <2>4, <2>6, <2>7 DEF Clamp, Abs
  <2>9. ~(10 * p >= threshold')
    BY <2>0, <2>4, <2>7, <2>8 DEF Clamp, Abs
  <2>10. score * scale' = 10 * p
    BY <2>3, <2>5
  <2>. QED BY <2>1, <2>9, <2>10, Zenon
<1>2. IndInv /\ [Next]_vars =>
        [\A score \in Scores :
           Update(score) /\ strayed /\ score = last /\ score # One =>
              ~Exceeds(score)']_vars
  BY <1>1
<1>. QED BY <1>2, InvariantHolds, PTL DEF Spec, EchoIsQuiet

-----------------------------------------------------------------------------
(* The queue of alerts: the operations on the heap *)
\* The places of severity s in a heap, and how many there are.
Occurs(h, s) == {i \in DOMAIN h : h[i] = s}
Kept(h, s) == Cardinality(Occurs(h, s))

\* Every severity is in g as often as in h.
SameAlerts(g, h) == \A s : Cardinality(Occurs(g, s)) = Cardinality(Occurs(h, s))

\* MaxHeap of any sequence.
MaxHeapOf(h) == \A i \in 2 .. Len(h) : h[i] <= h[i \div 2]

\* The parent of a place of the heap is a place before it.
LEMMA Half ==
    ASSUME NEW i \in Nat, i > 1
    PROVE  i \div 2 \in Nat /\ 1 <= i \div 2 /\ i \div 2 < i
OBVIOUS

\* A function on 1 .. n is a sequence.
LEMMA HeapLength ==
    ASSUME NEW n \in Nat, NEW h \in [1 .. n -> Nat]
    PROVE  h \in Seq(Nat) /\ Len(h) = n /\ DOMAIN h = 1 .. n
OBVIOUS

\* g is h with its elements i and j exchanged.
Exchanged(g, h, i, j, n) ==
    /\ g \in [1 .. n -> Nat]
    /\ SameAlerts(g, h)
    /\ g[j] = h[i] /\ g[i] = h[j]
    /\ \A k \in 1 .. n : k # i /\ k # j => g[k] = h[k]

\* A swap of two elements keeps all alerts and moves no other.
LEMMA SwapKeeps ==
    ASSUME NEW n \in Nat, NEW h \in [1 .. n -> Nat], NEW i \in 1 .. n, NEW j \in 1 .. n
    PROVE  Exchanged(Swapped(h, i, j), h, i, j, n)
<1>. DEFINE g == Swapped(h, i, j)
<1>1. g \in [1 .. n -> Nat]
  BY DEF Swapped
<1>2. /\ g[j] = h[i] /\ g[i] = h[j]
      /\ \A k \in 1 .. n : k # i /\ k # j => g[k] = h[k]
  BY DEF Swapped
<1>. HIDE DEF g
<1>3. ASSUME NEW s PROVE Cardinality(Occurs(g, s)) = Cardinality(Occurs(h, s))
  <2>. DEFINE A == Occurs(g, s)
              B == Occurs(h, s)
              f == [k \in A |-> IF k = i THEN j ELSE IF k = j THEN i ELSE k]
  <2>1. A = {k \in 1 .. n : g[k] = s} /\ B = {k \in 1 .. n : h[k] = s}
    BY <1>1 DEF Occurs
  <2>2. IsFiniteSet(A)
    BY <2>1, FS_Interval, FS_Subset
  <2>3. \A k \in A : f[k] \in B
    BY <1>2, <2>1
  <2>4. \A k, l \in A : f[k] = f[l] => k = l
    BY <1>2, <2>1
  <2>5. \A l \in B : \E k \in A : f[k] = l
    BY <1>2, <2>1
  <2>6. f \in [A -> B]
    BY <2>3
  <2>. HIDE DEF A, B, f
  <2>7. f \in Injection(A, B)
    BY <2>4, <2>6 DEF Injection, IsInjective
  <2>8. f \in Surjection(A, B)
    BY <2>5, <2>6 DEF Surjection
  <2>9. ExistsBijection(A, B)
    BY <2>7, <2>8 DEF ExistsBijection, Bijection
  <2>10. Cardinality(B) = Cardinality(A)
    BY <2>2, <2>9, FS_Bijection
  <2>. QED BY <2>10 DEF A, B
<1>. QED BY <1>1, <1>2, <1>3 DEF SameAlerts, Exchanged, g

\* The root of a heap is a most severe alert of it.
LEMMA Root ==
    ASSUME NEW h \in Seq(Nat), MaxHeapOf(h), NEW i \in 1 .. Len(h)
    PROVE  h[i] <= h[1]
<1>. DEFINE S == {k \in Nat : k \in 1 .. Len(h) => h[k] <= h[1]}
<1>1. ASSUME NEW k \in Nat, \A m \in Nat : m < k => m \in S PROVE k \in S
  <2>1. SUFFICES ASSUME k \in 1 .. Len(h), k > 1 PROVE h[k] <= h[1]
    OBVIOUS
  <2>. DEFINE m == k \div 2
  <2>2. m \in Nat /\ 1 <= m /\ m < k
    BY <2>1, Half
  <2>3. h[k] <= h[m]
    BY <2>1 DEF MaxHeapOf
  <2>. HIDE DEF m
  <2>4. m \in 1 .. Len(h)
    BY <2>1, <2>2
  <2>5. h[m] <= h[1]
    BY <1>1, <2>2, <2>4
  <2>6. h[m] \in Nat /\ h[k] \in Nat /\ h[1] \in Nat
    BY <2>1, <2>4
  <2>. QED BY <2>3, <2>5, <2>6
<1>2. Nat \subseteq S
  <2>. HIDE DEF S
  <2>. QED BY <1>1, StrongInduction
<1>. QED BY <1>2

\* The recursive function within heapify_up, for heaps of n elements.
SiftsUp(sift, n) ==
    sift = [j \in 1 .. n |-> [h \in [1 .. n -> Nat] |->
              IF j > 1 /\ h[j] > h[j \div 2]
              THEN sift[j \div 2][Swapped(h, j, j \div 2)]
              ELSE h]]

\* HeapifyUp is defined: there is such a function, since parents come first.
LEMMA HeapifyUpSifts ==
    ASSUME NEW n \in Nat, NEW h0 \in [1 .. n -> Nat], NEW i \in 1 .. n
    PROVE  \E sift : SiftsUp(sift, n) /\ HeapifyUp(h0, i) = sift[i][h0]
<1>. DEFINE D == 1 .. n
            H == [1 .. n -> Nat]
            Z == D \X H
            done == {z \in Z : ~(z[1] > 1 /\ z[2][z[1]] > z[2][z[1] \div 2])}
            next == [z \in Z |-> IF z \in done THEN z
                                 ELSE <<z[1] \div 2, Swapped(z[2], z[1], z[1] \div 2)>>]
            out == [z \in Z |-> z[2]]
            size == [z \in Z |-> z[1]]
            C == CHOOSE sift : SiftsUp(sift, n)
<1>1. \A j \in D, h \in H :
         /\ <<j, h>> \in Z
         /\ <<j, h>> \in done <=> ~(j > 1 /\ h[j] > h[j \div 2])
         /\ next[<<j, h>>] = IF <<j, h>> \in done THEN <<j, h>>
                             ELSE <<j \div 2, Swapped(h, j, j \div 2)>>
         /\ out[<<j, h>>] = h
         /\ size[<<j, h>>] = j
  OBVIOUS
<1>2. \A j \in D : j > 1 => j \div 2 \in D /\ j \div 2 < j
  BY Half
<1>3. \A j \in D, h \in H : j > 1 => Swapped(h, j, j \div 2) \in H
  BY <1>2, SwapKeeps DEF Exchanged
<1>4. out \in [Z -> H] /\ size \in [Z -> Nat]
  OBVIOUS
<1>5. next \in [Z -> Z]
  <2>1. SUFFICES ASSUME NEW j \in D, NEW h \in H PROVE next[<<j, h>>] \in Z
    OBVIOUS
  <2>. HIDE DEF next, done, out, size, D, H
  <2>2. CASE j > 1 /\ h[j] > h[j \div 2]
    <3>1. next[<<j, h>>] = <<j \div 2, Swapped(h, j, j \div 2)>>
      BY <1>1, <2>2
    <3>. QED BY <1>2, <1>3, <2>2, <3>1
  <2>3. CASE ~(j > 1 /\ h[j] > h[j \div 2])
    <3>1. <<j, h>> \in Z /\ <<j, h>> \in done
      BY <1>1, <2>3
    <3>2. next[<<j, h>>] = <<j, h>>
      BY <1>1, <3>1
    <3>. QED BY <3>1, <3>2
  <2>. QED BY <2>2, <2>3
<1>6. Descends(next, done, size, Z)
  <2>1. SUFFICES ASSUME NEW j \in D, NEW h \in H, <<j, h>> \notin done
                 PROVE  size[next[<<j, h>>]] < size[<<j, h>>]
    BY <1>4, <1>5 DEF Descends
  <2>2. j > 1 /\ next[<<j, h>>] = <<j \div 2, Swapped(h, j, j \div 2)>>
    BY <1>1, <2>1
  <2>. HIDE DEF next, done, out, size, D, H
  <2>3. j \div 2 \in D /\ Swapped(h, j, j \div 2) \in H
    BY <1>2, <1>3, <2>2
  <2>4. size[<<j \div 2, Swapped(h, j, j \div 2)>>] = j \div 2
    BY <1>1, <2>3
  <2>. QED BY <1>1, <1>2, <2>2, <2>4
<1>7. PICK f : Iterates(f, next, done, out, Z, H)
  <2>. HIDE DEF Z, H, done, next, out, size
  <2>1. h0 \in H
    BY DEF H
  <2>. QED BY <1>4, <1>6, <2>1, Loop
<1>. DEFINE sift == [j \in D |-> [h \in H |-> f[<<j, h>>]]]
<1>8. \A j \in D, h \in H : sift[j][h] = f[<<j, h>>]
  OBVIOUS
<1>9. \A j \in D, h \in H : sift[j][h] = IF j > 1 /\ h[j] > h[j \div 2]
                                       THEN sift[j \div 2][Swapped(h, j, j \div 2)] ELSE h
  <2>1. SUFFICES ASSUME NEW j \in D, NEW h \in H
                 PROVE  sift[j][h] = IF j > 1 /\ h[j] > h[j \div 2]
                                     THEN sift[j \div 2][Swapped(h, j, j \div 2)] ELSE h
    OBVIOUS
  <2>. HIDE DEF next, done, out, size, D, H, sift, Z
  <2>2. CASE j > 1 /\ h[j] > h[j \div 2]
    <3>1. f[<<j, h>>] = f[<<j \div 2, Swapped(h, j, j \div 2)>>]
      BY <1>1, <1>7, <2>2 DEF Iterates
    <3>2. sift[j \div 2][Swapped(h, j, j \div 2)] = f[<<j \div 2, Swapped(h, j, j \div 2)>>]
      BY <1>2, <1>3, <1>8, <2>2
    <3>. QED BY <1>8, <2>2, <3>1, <3>2
  <2>3. CASE ~(j > 1 /\ h[j] > h[j \div 2])
    <3>1. <<j, h>> \in Z /\ <<j, h>> \in done /\ out[<<j, h>>] = h
      BY <1>1, <2>3
    <3>2. f[<<j, h>>] = h
      BY <1>7, <3>1 DEF Iterates
    <3>. QED BY <1>8, <2>3, <3>2
  <2>. QED BY <2>2, <2>3
<1>10. SiftsUp(sift, n)
  <2>1. sift = [j \in D |-> [h \in H |-> sift[j][h]]]
    OBVIOUS
  <2>2. sift = [j \in D |-> [h \in H |-> IF j > 1 /\ h[j] > h[j \div 2]
                                       THEN sift[j \div 2][Swapped(h, j, j \div 2)] ELSE h]]
    <3>. HIDE DEF sift, D, H
    <3>. QED BY <1>9, <2>1
  <2>. HIDE DEF sift
  <2>. QED BY <2>2 DEF SiftsUp
<1>11. SiftsUp(C, n)
  <2>. HIDE DEF sift
  <2>. QED BY <1>10
<1>12. DOMAIN h0 = 1 .. n
  OBVIOUS
<1>. HIDE DEF C
<1>13. HeapifyUp(h0, i) = C[i][h0]
  <2>. DEFINE E(m) == CHOOSE rec : rec = [j \in m |-> [h \in [m -> Nat] |->
              IF j > 1 /\ h[j] > h[j \div 2]
              THEN rec[j \div 2][Swapped(h, j, j \div 2)]
              ELSE h]]
  <2>1. HeapifyUp(h0, i) = E(DOMAIN h0)[i][h0]
    BY Zenon DEF HeapifyUp
  <2>2. C = E(1 .. n)
    BY Zenon DEF C, SiftsUp
  <2>3. E(DOMAIN h0) = E(1 .. n)
    <3>. HIDE DEF E
    <3>. QED BY <1>12
  <2>. QED BY <2>1, <2>2, <2>3, Zenon
<1>. QED BY <1>11, <1>13

\* h is a heap but for its element j, which may be larger than its parent, though not
\* its children larger than that parent.
UpHole(h, j) ==
    /\ \A i \in 2 .. Len(h) : i # j => h[i] <= h[i \div 2]
    /\ \A i \in 2 .. Len(h) : i \div 2 = j /\ j > 1 => h[i] <= h[j \div 2]

\* heapify_up makes a heap again of one with a wrong element, and loses no alert.
LEMMA HeapifyUpRestores ==
    ASSUME NEW n \in Nat, NEW h0 \in [1 .. n -> Nat], NEW i \in 1 .. n, UpHole(h0, i)
    PROVE  /\ HeapifyUp(h0, i) \in [1 .. n -> Nat]
           /\ MaxHeapOf(HeapifyUp(h0, i))
           /\ SameAlerts(HeapifyUp(h0, i), h0)
<1>1. PICK sift : SiftsUp(sift, n) /\ HeapifyUp(h0, i) = sift[i][h0]
  BY HeapifyUpSifts
<1>. DEFINE H == [1 .. n -> Nat]
            Good(g, h) == g \in H /\ MaxHeapOf(g) /\ SameAlerts(g, h)
            S == {j \in Nat : j \in 1 .. n => \A h \in H : UpHole(h, j) => Good(sift[j][h], h)}
<1>2. \A j \in 1 .. n, h \in H : sift[j][h] = IF j > 1 /\ h[j] > h[j \div 2]
                                   THEN sift[j \div 2][Swapped(h, j, j \div 2)] ELSE h
  <2>1. \A j \in 1 .. n : sift[j] = [h \in H |-> IF j > 1 /\ h[j] > h[j \div 2]
                                   THEN sift[j \div 2][Swapped(h, j, j \div 2)] ELSE h]
    BY <1>1 DEF SiftsUp
  <2>2. SUFFICES ASSUME NEW j \in 1 .. n, NEW h \in H
                 PROVE  sift[j][h] = IF j > 1 /\ h[j] > h[j \div 2]
                                     THEN sift[j \div 2][Swapped(h, j, j \div 2)] ELSE h
    OBVIOUS
  <2>3. sift[j] = [g \in H |-> IF j > 1 /\ g[j] > g[j \div 2]
                              THEN sift[j \div 2][Swapped(g, j, j \div 2)] ELSE g]
    BY <2>1
  <2>. HIDE DEF H
  <2>. QED BY <2>3
<1>3. \A h \in H : Len(h) = n
  BY HeapLength
<1>4. ASSUME NEW j \in Nat, \A k \in Nat : k < j => k \in S PROVE j \in S
  <2>1. SUFFICES ASSUME j \in 1 .. n, NEW h \in H, UpHole(h, j) PROVE Good(sift[j][h], h)
    OBVIOUS
  <2>2. CASE j > 1 /\ h[j] > h[j \div 2]
    <3>. DEFINE p == j \div 2
                g == Swapped(h, j, p)
    <3>1. p \in Nat /\ 1 <= p /\ p < j /\ p \in 1 .. n
      BY <2>1, <2>2, Half
    <3>2. /\ g \in H /\ SameAlerts(g, h)
          /\ g[p] = h[j] /\ g[j] = h[p]
          /\ \A k \in 1 .. n : k # j /\ k # p => g[k] = h[k]
      <4>1. p \in 1 .. n /\ j \in 1 .. n /\ h \in [1 .. n -> Nat]
        BY <2>1, <3>1
      <4>. HIDE DEF p
      <4>2. Exchanged(Swapped(h, j, p), h, j, p, n)
        BY <4>1, SwapKeeps
      <4>. QED BY <4>2 DEF Exchanged
    <3>3. Len(g) = n /\ Len(h) = n
      BY <1>3, <3>2
    <3>4. h[j] > h[p] /\ p = j \div 2
      BY <2>2
    <3>5. \A k \in 1 .. n : h[k] \in Nat
      OBVIOUS
    <3>6. /\ \A k \in 2 .. n : k # j => h[k] <= h[k \div 2]
          /\ \A k \in 2 .. n : k \div 2 = j => h[k] <= h[p]
      BY <2>1, <2>2, <3>3 DEF UpHole
    <3>. HIDE DEF g, p
    <3>7. ASSUME NEW k \in 2 .. n, k # p PROVE g[k] <= g[k \div 2]
      <4>. DEFINE q == k \div 2
      <4>0. SUFFICES g[k] <= g[q]
        OBVIOUS
      <4>1. q \in Nat /\ 1 <= q /\ q < k /\ q \in 1 .. n
        BY Half
      <4>2. k # j => h[k] <= h[q]
        BY <3>6
      <4>3. q = j => h[k] <= h[p]
        BY <3>6
      <4>4. k = j => q = p
        BY <3>4
      <4>. HIDE DEF q
      <4>5. CASE k = j
        BY <3>2, <3>4, <3>5, <3>7, <4>4, <4>5, <2>1, <3>1
      <4>6. CASE k # j
        <5>1. g[k] = h[k] /\ h[k] <= h[q]
          BY <3>2, <3>7, <4>2, <4>6
        <5>2. CASE q = p
          BY <2>1, <3>1, <3>2, <3>4, <3>5, <4>1, <5>1, <5>2
        <5>3. CASE q = j
          BY <3>2, <4>3, <5>1, <5>3
        <5>4. CASE q # p /\ q # j
          BY <3>2, <4>1, <5>1, <5>4
        <5>. QED BY <5>2, <5>3, <5>4
      <4>. QED BY <4>5, <4>6
    <3>8. ASSUME NEW k \in 2 .. n, k \div 2 = p, p > 1 PROVE g[k] <= g[p \div 2]
      <4>. DEFINE r == p \div 2
      <4>1. r \in Nat /\ 1 <= r /\ r < p /\ r \in 1 .. n /\ p < k
        BY <3>1, <3>8, Half
      <4>2. h[p] <= h[r]
        <5>1. p \in 2 .. n /\ p # j
          BY <3>1, <3>8
        <5>. QED BY <3>6, <5>1
      <4>3. k # j => h[k] <= h[p]
        BY <3>6, <3>8
      <4>. HIDE DEF r
      <4>4. g[r] = h[r]
        BY <3>1, <3>2, <4>1
      <4>5. k \in 1 .. n /\ h[k] \in Nat /\ h[p] \in Nat /\ h[r] \in Nat
        BY <3>1, <3>5, <4>1
      <4>6. g[k] = IF k = j THEN h[p] ELSE h[k]
        BY <3>2, <4>1, <4>5
      <4>7. g[k] <= g[r]
        BY <4>2, <4>3, <4>4, <4>5, <4>6
      <4>. QED BY <4>7 DEF r
    <3>9. UpHole(g, p)
      BY <3>3, <3>7, <3>8 DEF UpHole
    <3>10. Good(sift[p][g], g)
      BY <1>4, <3>1, <3>2, <3>9
    <3>11. sift[j][h] = sift[p][g]
      BY <1>2, <2>1, <2>2 DEF p, g
    <3>. QED BY <3>2, <3>10, <3>11 DEF SameAlerts
  <2>3. CASE ~(j > 1 /\ h[j] > h[j \div 2])
    <3>1. sift[j][h] = h
      BY <1>2, <2>1, <2>3
    <3>2. \A k \in 2 .. n : h[k] <= h[k \div 2]
      <4>1. SUFFICES ASSUME NEW k \in 2 .. n PROVE h[k] <= h[k \div 2]
        OBVIOUS
      <4>2. k \div 2 \in 1 .. n
        BY Half
      <4>3. h[k] \in Nat /\ h[k \div 2] \in Nat
        BY <4>2
      <4>4. CASE k = j
        <5>1. ~(h[k] > h[k \div 2])
          BY <2>3, <4>4
        <5>. QED BY <4>3, <5>1
      <4>5. CASE k # j
        BY <1>3, <2>1, <4>5 DEF UpHole
      <4>. QED BY <4>4, <4>5
    <3>. QED BY <1>3, <2>1, <3>1, <3>2 DEF MaxHeapOf, SameAlerts
  <2>. QED BY <2>2, <2>3
<1>5. Nat \subseteq S
  <2>. HIDE DEF S
  <2>. QED BY <1>4, StrongInduction
<1>6. Good(sift[i][h0], h0)
  BY <1>5
<1>. QED BY <1>1, <1>6

\* What one step of heapify_down compares: where the largest of an element and its
\* children is.
LEMMA LargestOfThree ==
    ASSUME NEW n \in Nat, NEW h \in [1 .. n -> Nat], NEW j \in Nat \ {0}
    PROVE  /\ Largest(h, j) \in Nat \ {0}
           /\ Largest(h, j) = j => \A i \in 2 .. n : i \div 2 = j => h[i] <= h[j]
           /\ Largest(h, j) # j =>
                /\ Largest(h, j) \in 2 .. n /\ j \in 1 .. n
                /\ j < Largest(h, j) /\ Largest(h, j) \div 2 = j
                /\ h[j] < h[Largest(h, j)]
                /\ \A i \in 2 .. n : i \div 2 = j => h[i] <= h[Largest(h, j)]
<1>1. Len(h) = n
  BY HeapLength
<1>2. 2 * j \in Nat /\ 2 * j + 1 \in Nat /\ j < 2 * j /\ 2 * j >= 2
  OBVIOUS
<1>3. (2 * j) \div 2 = j /\ (2 * j + 1) \div 2 = j
  OBVIOUS
<1>4. \A i \in 2 .. n : i \div 2 = j => i = 2 * j \/ i = 2 * j + 1
  OBVIOUS
<1>5. \A i \in 1 .. n : h[i] \in Nat
  OBVIOUS
<1>. DEFINE left == IF 2 * j <= n /\ h[2 * j] > h[j] THEN 2 * j ELSE j
            l == IF 2 * j + 1 <= n /\ h[2 * j + 1] > h[left] THEN 2 * j + 1 ELSE left
<1>6. Largest(h, j) = l
  BY <1>1 DEF Largest
<1>7. /\ l = j \/ l = 2 * j \/ l = 2 * j + 1
      /\ l # j => l <= n
  BY <1>2
<1>8. l = j => (2 * j <= n => h[2 * j] <= h[j]) /\ (2 * j + 1 <= n => h[2 * j + 1] <= h[j])
  BY <1>2, <1>5
<1>9. l # j => /\ h[j] < h[l]
               /\ 2 * j <= n => h[2 * j] <= h[l]
               /\ 2 * j + 1 <= n => h[2 * j + 1] <= h[l]
  BY <1>2, <1>5, <1>7
<1>. HIDE DEF left, l
<1>10. l \in Nat \ {0}
  BY <1>2, <1>7
<1>11. ASSUME l = j, NEW i \in 2 .. n, i \div 2 = j PROVE h[i] <= h[j]
  <2>1. i <= n /\ (i = 2 * j \/ i = 2 * j + 1)
    BY <1>4, <1>11
  <2>2. (2 * j <= n => h[2 * j] <= h[j]) /\ (2 * j + 1 <= n => h[2 * j + 1] <= h[j])
    BY <1>8, <1>11
  <2>. QED BY <2>1, <2>2
<1>12. ASSUME l # j
       PROVE  /\ l \in 2 .. n /\ j \in 1 .. n /\ j < l /\ l \div 2 = j
              /\ h[j] < h[l]
  <2>1. (l = 2 * j \/ l = 2 * j + 1) /\ l <= n /\ h[j] < h[l]
    BY <1>7, <1>9, <1>12
  <2>2. l \in Nat /\ l >= 2 /\ j < l /\ l \div 2 = j
    BY <1>2, <1>3, <2>1
  <2>. QED BY <2>1, <2>2
<1>13. ASSUME l # j, NEW i \in 2 .. n, i \div 2 = j PROVE h[i] <= h[l]
  <2>1. i <= n /\ (i = 2 * j \/ i = 2 * j + 1)
    BY <1>4, <1>13
  <2>2. (2 * j <= n => h[2 * j] <= h[l]) /\ (2 * j + 1 <= n => h[2 * j + 1] <= h[l])
    BY <1>9, <1>13
  <2>. QED BY <2>1, <2>2
<1>. QED BY <1>6, <1>10, <1>11, <1>12, <1>13

\* The recursive function within heapify_down.
SiftsDown(sift, n) ==
    sift = [j \in Nat \ {0} |-> [h \in [1 .. n -> Nat] |->
              IF Largest(h, j) = j
              THEN h
              ELSE sift[Largest(h, j)][Swapped(h, j, Largest(h, j))]]]

\* HeapifyDown is defined: the element sinks until it is at the end.
LEMMA HeapifyDownSifts ==
    ASSUME NEW n \in Nat, NEW h0 \in [1 .. n -> Nat], NEW i \in Nat \ {0}
    PROVE  \E sift : SiftsDown(sift, n) /\ HeapifyDown(h0, i) = sift[i][h0]
<1>. DEFINE D == Nat \ {0}
            H == [1 .. n -> Nat]
            Z == D \X H
            done == {z \in Z : Largest(z[2], z[1]) = z[1]}
            next == [z \in Z |-> IF z \in done THEN z
                                 ELSE <<Largest(z[2], z[1]), Swapped(z[2], z[1], Largest(z[2], z[1]))>>]
            out == [z \in Z |-> z[2]]
            size == [z \in Z |-> IF z[1] <= n THEN n - z[1] ELSE 0]
            C == CHOOSE sift : SiftsDown(sift, n)
<1>1. \A j \in D, h \in H :
         /\ <<j, h>> \in Z
         /\ <<j, h>> \in done <=> Largest(h, j) = j
         /\ next[<<j, h>>] = IF <<j, h>> \in done THEN <<j, h>>
                             ELSE <<Largest(h, j), Swapped(h, j, Largest(h, j))>>
         /\ out[<<j, h>>] = h
         /\ size[<<j, h>>] = IF j <= n THEN n - j ELSE 0
  OBVIOUS
<1>2. \A j \in D, h \in H : Largest(h, j) # j =>
         /\ Largest(h, j) \in 1 .. n /\ j \in 1 .. n /\ j < Largest(h, j)
         /\ Largest(h, j) \in D
  <2>1. SUFFICES ASSUME NEW j \in D, NEW h \in H, Largest(h, j) # j
                 PROVE  /\ Largest(h, j) \in 1 .. n /\ j \in 1 .. n /\ j < Largest(h, j)
                        /\ Largest(h, j) \in D
    OBVIOUS
  <2>2. Largest(h, j) \in Nat \ {0} /\ Largest(h, j) \in 2 .. n /\ j \in 1 .. n /\ j < Largest(h, j)
    BY <2>1, LargestOfThree
  <2>. QED BY <2>2
<1>3. \A j \in D, h \in H : Largest(h, j) # j => Swapped(h, j, Largest(h, j)) \in H
  BY <1>2, SwapKeeps DEF Exchanged
<1>4. out \in [Z -> H] /\ size \in [Z -> Nat]
  OBVIOUS
<1>5. next \in [Z -> Z]
  <2>1. SUFFICES ASSUME NEW j \in D, NEW h \in H PROVE next[<<j, h>>] \in Z
    OBVIOUS
  <2>. HIDE DEF next, done, out, size, D, H
  <2>2. CASE Largest(h, j) # j
    <3>1. next[<<j, h>>] = <<Largest(h, j), Swapped(h, j, Largest(h, j))>>
      BY <1>1, <2>2
    <3>. QED BY <1>2, <1>3, <2>2, <3>1
  <2>3. CASE Largest(h, j) = j
    <3>1. <<j, h>> \in Z /\ <<j, h>> \in done
      BY <1>1, <2>3
    <3>2. next[<<j, h>>] = <<j, h>>
      BY <1>1, <3>1
    <3>. QED BY <3>1, <3>2
  <2>. QED BY <2>2, <2>3
<1>6. Descends(next, done, size, Z)
  <2>1. SUFFICES ASSUME NEW j \in D, NEW h \in H, <<j, h>> \notin done
                 PROVE  size[next[<<j, h>>]] < size[<<j, h>>]
    BY <1>4, <1>5 DEF Descends
  <2>2. /\ Largest(h, j) # j
        /\ next[<<j, h>>] = <<Largest(h, j), Swapped(h, j, Largest(h, j))>>
    BY <1>1, <2>1
  <2>3. /\ Largest(h, j) \in D /\ Swapped(h, j, Largest(h, j)) \in H
        /\ Largest(h, j) \in 1 .. n /\ j \in 1 .. n /\ j < Largest(h, j)
    BY <1>2, <1>3, <2>2
  <2>. HIDE DEF next, done, out, size, D, H
  <2>4. size[next[<<j, h>>]] = n - Largest(h, j) /\ size[<<j, h>>] = n - j
    <3>1. \A k \in D, g \in H : k <= n => size[<<k, g>>] = n - k
      BY <1>1
    <3>2. size[<<j, h>>] = n - j
      BY <2>3, <3>1
    <3>3. size[<<Largest(h, j), Swapped(h, j, Largest(h, j))>>] = n - Largest(h, j)
      BY <2>3, <3>1
    <3>. QED BY <2>2, <3>2, <3>3
  <2>. QED BY <2>3, <2>4
<1>7. PICK f : Iterates(f, next, done, out, Z, H)
  <2>. HIDE DEF Z, H, done, next, out, size
  <2>1. h0 \in H
    BY DEF H
  <2>. QED BY <1>4, <1>6, <2>1, Loop
<1>. DEFINE sift == [j \in D |-> [h \in H |-> f[<<j, h>>]]]
<1>8. \A j \in D, h \in H : sift[j][h] = f[<<j, h>>]
  OBVIOUS
<1>9. \A j \in D, h \in H : sift[j][h] = IF Largest(h, j) = j THEN h
                                       ELSE sift[Largest(h, j)][Swapped(h, j, Largest(h, j))]
  <2>1. SUFFICES ASSUME NEW j \in D, NEW h \in H
                 PROVE  sift[j][h] = IF Largest(h, j) = j THEN h
                                     ELSE sift[Largest(h, j)][Swapped(h, j, Largest(h, j))]
    OBVIOUS
  <2>. HIDE DEF next, done, out, size, D, H, sift, Z
  <2>2. CASE Largest(h, j) # j
    <3>1. f[<<j, h>>] = f[<<Largest(h, j), Swapped(h, j, Largest(h, j))>>]
      BY <1>1, <1>7, <2>2 DEF Iterates
    <3>2. sift[Largest(h, j)][Swapped(h, j, Largest(h, j))]
             = f[<<Largest(h, j), Swapped(h, j, Largest(h, j))>>]
      BY <1>2, <1>3, <1>8, <2>2
    <3>. QED BY <1>8, <2>2, <3>1, <3>2
  <2>3. CASE Largest(h, j) = j
    <3>1. <<j, h>> \in Z /\ <<j, h>> \in done /\ out[<<j, h>>] = h
      BY <1>1, <2>3
    <3>2. f[<<j, h>>] = h
      BY <1>7, <3>1 DEF Iterates
    <3>. QED BY <1>8, <2>3, <3>2
  <2>. QED BY <2>2, <2>3
<1>10. SiftsDown(sift, n)
  <2>1. sift = [j \in D |-> [h \in H |-> sift[j][h]]]
    OBVIOUS
  <2>2. sift = [j \in D |-> [h \in H |-> IF Largest(h, j) = j THEN h
                                       ELSE sift[Largest(h, j)][Swapped(h, j, Largest(h, j))]]]
    <3>. HIDE DEF sift, D, H
    <3>. QED BY <1>9, <2>1
  <2>. HIDE DEF sift
  <2>. QED BY <2>2 DEF SiftsDown
<1>11. SiftsDown(C, n)
  <2>. HIDE DEF sift
  <2>. QED BY <1>10
<1>12. DOMAIN h0 = 1 .. n
  OBVIOUS
<1>. HIDE DEF C
<1>13. HeapifyDown(h0, i) = C[i][h0]
  <2>. DEFINE E(m) == CHOOSE rec : rec = [j \in Nat \ {0} |-> [h \in [m -> Nat] |->
              IF Largest(h, j) = j
              THEN h
              ELSE rec[Largest(h, j)][Swapped(h, j, Largest(h, j))]]]
  <2>1. HeapifyDown(h0, i) = E(DOMAIN h0)[i][h0]
    BY Zenon DEF HeapifyDown
  <2>2. C = E(1 .. n)
    BY Zenon DEF C, SiftsDown
  <2>3. E(DOMAIN h0) = E(1 .. n)
    <3>. HIDE DEF E
    <3>. QED BY <1>12
  <2>. QED BY <2>1, <2>2, <2>3, Zenon
<1>. QED BY <1>11, <1>13

\* h is a heap but for its element j, which may be smaller than its children, though
\* these are not larger than the parent of j.
DownHole(h, j) ==
    /\ \A i \in 2 .. Len(h) : i \div 2 # j => h[i] <= h[i \div 2]
    /\ \A i \in 2 .. Len(h) : i \div 2 = j /\ j > 1 => h[i] <= h[j \div 2]

\* heapify_down loses no alert, and makes a heap again of one with a wrong element.
LEMMA HeapifyDownRestores ==
    ASSUME NEW n \in Nat, NEW h0 \in [1 .. n -> Nat], NEW i \in Nat \ {0}
    PROVE  /\ HeapifyDown(h0, i) \in [1 .. n -> Nat]
           /\ SameAlerts(HeapifyDown(h0, i), h0)
           /\ DownHole(h0, i) => MaxHeapOf(HeapifyDown(h0, i))
<1>1. PICK sift : SiftsDown(sift, n) /\ HeapifyDown(h0, i) = sift[i][h0]
  BY HeapifyDownSifts
<1>. DEFINE H == [1 .. n -> Nat]
            Good(g, h, j) == g \in H /\ SameAlerts(g, h) /\ (DownHole(h, j) => MaxHeapOf(g))
            Height(j) == IF j <= n THEN n - j ELSE 0
            S == {k \in Nat : \A j \in Nat \ {0} : Height(j) = k =>
                                \A h \in H : Good(sift[j][h], h, j)}
<1>2. \A j \in Nat \ {0}, h \in H : sift[j][h] =
         IF Largest(h, j) = j THEN h ELSE sift[Largest(h, j)][Swapped(h, j, Largest(h, j))]
  <2>1. \A j \in Nat \ {0} : sift[j] = [h \in H |->
           IF Largest(h, j) = j THEN h ELSE sift[Largest(h, j)][Swapped(h, j, Largest(h, j))]]
    BY <1>1 DEF SiftsDown
  <2>2. SUFFICES ASSUME NEW j \in Nat \ {0}, NEW h \in H
                 PROVE  sift[j][h] = IF Largest(h, j) = j THEN h
                                     ELSE sift[Largest(h, j)][Swapped(h, j, Largest(h, j))]
    OBVIOUS
  <2>3. sift[j] = [g \in H |->
           IF Largest(g, j) = j THEN g ELSE sift[Largest(g, j)][Swapped(g, j, Largest(g, j))]]
    BY <2>1
  <2>. HIDE DEF H
  <2>. QED BY <2>3
<1>3. \A h \in H : Len(h) = n
  BY HeapLength
<1>4. ASSUME NEW k \in Nat, \A m \in Nat : m < k => m \in S PROVE k \in S
  <2>1. SUFFICES ASSUME NEW j \in Nat \ {0}, Height(j) = k, NEW h \in H
                 PROVE  Good(sift[j][h], h, j)
    OBVIOUS
  <2>2. CASE Largest(h, j) # j
    <3>. DEFINE l == Largest(h, j)
                g == Swapped(h, j, l)
    <3>1. /\ l \in 2 .. n /\ j \in 1 .. n /\ j < l /\ l \div 2 = j
          /\ h[j] < h[l]
          /\ \A m \in 2 .. n : m \div 2 = j => h[m] <= h[l]
      BY <2>2, LargestOfThree
    <3>. HIDE DEF l
    <3>0. Exchanged(g, h, j, l, n)
      <4>1. j \in 1 .. n /\ l \in 1 .. n /\ h \in [1 .. n -> Nat]
        BY <3>1
      <4>. QED BY <4>1, SwapKeeps
    <3>2. /\ g \in H /\ SameAlerts(g, h)
          /\ g[l] = h[j] /\ g[j] = h[l]
      BY <3>0 DEF Exchanged
    <3>3. \A m \in 1 .. n : m # j /\ m # l => g[m] = h[m]
      BY <3>0 DEF Exchanged
    <3>4. Len(g) = n /\ Len(h) = n
      BY <1>3, <3>2
    <3>5. \A m \in 1 .. n : h[m] \in Nat
      OBVIOUS
    <3>. HIDE DEF g
    <3>9. ASSUME DownHole(h, j) PROVE DownHole(g, l)
      <4>6. /\ \A m \in 2 .. n : m \div 2 # j => h[m] <= h[m \div 2]
            /\ \A m \in 2 .. n : m \div 2 = j /\ j > 1 => h[m] <= h[j \div 2]
        BY <3>9, <3>4 DEF DownHole
      <4>7. ASSUME NEW m \in 2 .. n, m \div 2 # l PROVE g[m] <= g[m \div 2]
        <5>. DEFINE q == m \div 2
        <5>0. SUFFICES g[m] <= g[q]
          OBVIOUS
        <5>1. q \in Nat /\ 1 <= q /\ q < m /\ q \in 1 .. n /\ q # l
          BY <4>7, Half
        <5>2. q # j => h[m] <= h[q]
          BY <4>6
        <5>3. q = j => h[m] <= h[l]
          BY <3>1
        <5>4. m = l => q = j
          BY <3>1
        <5>5. m = j /\ j > 1 => h[l] <= h[q]
          BY <3>1, <4>6
        <5>. HIDE DEF q
        <5>6. CASE m = l
          BY <3>1, <3>2, <3>5, <5>4, <5>6
        <5>7. CASE m = j
          <6>1. q # j /\ q # l /\ j > 1
            BY <5>1, <5>7
          <6>. QED BY <3>2, <3>3, <5>1, <5>5, <5>7, <6>1
        <5>8. CASE m # l /\ m # j
          <6>1. g[m] = h[m]
            BY <3>3, <5>8
          <6>2. CASE q = j
            BY <3>2, <5>3, <6>1, <6>2
          <6>3. CASE q # j
            BY <3>3, <5>1, <5>2, <6>1, <6>3
          <6>. QED BY <6>2, <6>3
        <5>. QED BY <5>6, <5>7, <5>8
      <4>8. ASSUME NEW m \in 2 .. n, m \div 2 = l PROVE g[m] <= g[l \div 2]
        <5>1. l < m
          BY <3>1, <4>8, Half
        <5>2. h[m] <= h[l]
          BY <3>1, <4>6, <4>8
        <5>3. g[m] = h[m]
          BY <3>1, <3>3, <5>1
        <5>. QED BY <3>1, <3>2, <5>2, <5>3
      <4>. QED BY <3>4, <4>7, <4>8 DEF DownHole
    <3>10. Height(l) \in Nat /\ Height(l) < k
      BY <2>1, <3>1
    <3>11. Good(sift[l][g], g, l)
      <4>1. l \in Nat \ {0} /\ Height(l) \in S
        <5>1. l \in Nat \ {0}
          BY <3>1
        <5>. HIDE DEF S, Height
        <5>. QED BY <1>4, <3>10, <5>1
      <4>. QED BY <3>2, <4>1
    <3>12. sift[j][h] = sift[l][g]
      BY <1>2, <2>1, <2>2 DEF l, g
    <3>. QED BY <3>2, <3>9, <3>11, <3>12 DEF SameAlerts
  <2>3. CASE Largest(h, j) = j
    <3>1. sift[j][h] = h
      BY <1>2, <2>1, <2>3
    <3>2. \A m \in 2 .. n : m \div 2 = j => h[m] <= h[j]
      BY <2>3, LargestOfThree
    <3>3. DownHole(h, j) => \A m \in 2 .. n : h[m] <= h[m \div 2]
      BY <1>3, <3>2 DEF DownHole
    <3>. QED BY <1>3, <3>1, <3>3 DEF MaxHeapOf, SameAlerts
  <2>. QED BY <2>2, <2>3
<1>5. Nat \subseteq S
  <2>. HIDE DEF S
  <2>. QED BY <1>4, StrongInduction
<1>6. Good(sift[i][h0], h0, i)
  <2>1. Height(i) \in Nat
    OBVIOUS
  <2>. QED BY <1>5, <2>1
<1>. QED BY <1>1, <1>6

\* pop removes exactly the root, and leaves a heap.
LEMMA PoppedLosesRoot ==
    ASSUME NEW h0 \in Seq(Nat), h0 # <<>>
    PROVE  /\ Popped(h0) \in Seq(Nat)
           /\ Len(Popped(h0)) = Len(h0) - 1
           /\ MaxHeapOf(h0) => MaxHeapOf(Popped(h0))
           /\ \A s : Cardinality(Occurs(Popped(h0), s)) =
                        Cardinality(Occurs(h0, s)) - (IF s = h0[1] THEN 1 ELSE 0)
<1>. DEFINE n == Len(h0)
            g == Swapped(h0, 1, n)
            h == SubSeq(g, 1, n - 1)
            r == HeapifyDown(h, 1)
<1>0. n \in Nat /\ n >= 1 /\ h0 \in [1 .. n -> Nat] /\ n - 1 \in Nat
  OBVIOUS
<1>1. /\ g \in [1 .. n -> Nat] /\ SameAlerts(g, h0)
      /\ g[n] = h0[1] /\ g[1] = h0[n]
      /\ \A k \in 1 .. n : k # 1 /\ k # n => g[k] = h0[k]
  <2>1. 1 \in 1 .. n /\ n \in 1 .. n
    BY <1>0
  <2>2. Exchanged(g, h0, 1, n, n)
    <3>. HIDE DEF n
    <3>. QED BY <1>0, <2>1, SwapKeeps
  <2>. QED BY <2>2 DEF Exchanged
<1>. HIDE DEF g
<1>2. h \in Seq(Nat) /\ Len(h) = n - 1 /\ \A k \in 1 .. n - 1 : h[k] = g[k]
  <2>. HIDE DEF n
  <2>1. \A k \in 1 .. (n - 1) : g[k] \in Nat
    BY <1>0, <1>1
  <2>2. h \in Seq(Nat) /\ Len(h) = IF 1 <= n - 1 THEN (n - 1) - 1 + 1 ELSE 0
    BY <1>0, <2>1, SubSeqProperties
  <2>3. \A k \in 1 .. ((n - 1) - 1 + 1) : SubSeq(g, 1, n - 1)[k] = g[1 + k - 1]
    BY <1>0, <2>1, SubSeqProperties
  <2>. QED BY <1>0, <2>2, <2>3
<1>. HIDE DEF h, n
<1>3. h \in [1 .. n - 1 -> Nat]
  BY <1>0, <1>2
<1>4. /\ r \in [1 .. n - 1 -> Nat] /\ SameAlerts(r, h)
      /\ DownHole(h, 1) => MaxHeapOf(r)
  <2>1. 1 \in Nat \ {0}
    OBVIOUS
  <2>. QED BY <1>0, <1>3, <2>1, HeapifyDownRestores
<1>5. ASSUME MaxHeapOf(h0) PROVE DownHole(h, 1)
  <2>1. ASSUME NEW i \in 2 .. n - 1, i \div 2 # 1 PROVE h[i] <= h[i \div 2]
    <3>. DEFINE q == i \div 2
    <3>1. q \in Nat /\ 1 <= q /\ q < i /\ q # 1
      BY <2>1, Half
    <3>2. h0[i] <= h0[q]
      BY <1>0, <1>5 DEF MaxHeapOf, n
    <3>. HIDE DEF q
    <3>3. h[i] = h0[i] /\ h[q] = h0[q]
      BY <1>0, <1>1, <1>2, <3>1
    <3>. QED BY <3>2, <3>3 DEF q
  <2>. QED BY <1>2, <2>1 DEF DownHole
<1>6. Popped(h0) = r
  BY DEF Popped, r, h, g, n
<1>7. ASSUME NEW s
      PROVE  Cardinality(Occurs(h, s)) = Cardinality(Occurs(h0, s)) - (IF s = h0[1] THEN 1 ELSE 0)
  <2>1. Occurs(g, s) = {k \in 1 .. n : g[k] = s} /\ IsFiniteSet(Occurs(g, s))
    <3>1. Occurs(g, s) = {k \in 1 .. n : g[k] = s}
      BY <1>1 DEF Occurs
    <3>2. IsFiniteSet(1 .. n) /\ Occurs(g, s) \in SUBSET (1 .. n)
      BY <1>0, <3>1, FS_Interval
    <3>. QED BY <3>1, <3>2, FS_Subset
  <2>2. Occurs(h, s) = {k \in 1 .. n - 1 : h[k] = s}
    BY <1>3 DEF Occurs
  <2>3. Occurs(h, s) = Occurs(g, s) \ {n}
    BY <1>0, <1>2, <2>1, <2>2
  <2>4. n \in Occurs(g, s) <=> s = h0[1]
    BY <1>0, <1>1, <2>1
  <2>5. Cardinality(Occurs(g, s)) = Cardinality(Occurs(h0, s)) /\ Cardinality(Occurs(g, s)) \in Nat
    BY <1>1, <2>1, FS_CardinalityType DEF SameAlerts
  <2>6. Cardinality(Occurs(g, s) \ {n}) =
           IF n \in Occurs(g, s) THEN Cardinality(Occurs(g, s)) - 1 ELSE Cardinality(Occurs(g, s))
    BY <2>1, FS_RemoveElement
  <2>. QED BY <2>3, <2>4, <2>5, <2>6
<1>8. \A s : Cardinality(Occurs(r, s)) = Cardinality(Occurs(h, s))
  BY <1>4 DEF SameAlerts
<1>9. r \in Seq(Nat) /\ Len(r) = n - 1
  <2>. HIDE DEF r
  <2>. QED BY <1>0, <1>4, HeapLength
<1>. HIDE DEF r
<1>. QED BY <1>4, <1>5, <1>6, <1>7, <1>8, <1>9 DEF n

\* The loop of evict.
Evicts(f) == f = [h \in Seq(Nat) |-> IF Len(h) > MaxAlerts THEN f[Popped(h)] ELSE h]

\* evict after a push: at most one pop.
LEMMA EvictedAtMostOne ==
    ASSUME NEW h0 \in Seq(Nat), Len(h0) <= MaxAlerts + 1
    PROVE  Evicted(h0) = IF Len(h0) > MaxAlerts THEN Popped(h0) ELSE h0
<1>. USE MaxAlertsAssumption
<1>. DEFINE Z == Seq(Nat)
            done == {h \in Z : ~(Len(h) > MaxAlerts)}
            next == [h \in Z |-> IF h \in done THEN h ELSE Popped(h)]
            out == [h \in Z |-> h]
            size == [h \in Z |-> Len(h)]
            C == CHOOSE f : Evicts(f)
<1>1. \A h \in Z : Len(h) > MaxAlerts => Popped(h) \in Z /\ Len(Popped(h)) = Len(h) - 1
  <2>1. SUFFICES ASSUME NEW h \in Z, Len(h) > MaxAlerts
                 PROVE  Popped(h) \in Z /\ Len(Popped(h)) = Len(h) - 1
    OBVIOUS
  <2>2. h # <<>>
    BY <2>1
  <2>. QED BY <2>2, PoppedLosesRoot
<1>2. \A h \in Z : /\ h \in done <=> ~(Len(h) > MaxAlerts)
                   /\ next[h] = IF h \in done THEN h ELSE Popped(h)
                   /\ out[h] = h /\ size[h] = Len(h) /\ size[h] \in Nat
  OBVIOUS
<1>3. out \in [Z -> Z]
  OBVIOUS
<1>4. Descends(next, done, size, Z)
  <2>1. next \in [Z -> Z]
    BY <1>1
  <2>2. size \in [Z -> Nat]
    OBVIOUS
  <2>. HIDE DEF Z, done, next, out, size
  <2>3. \A h \in Z : h \notin done => size[next[h]] < size[h]
    BY <1>1, <1>2
  <2>. QED BY <2>1, <2>2, <2>3 DEF Descends
<1>5. PICK f : Iterates(f, next, done, out, Z, Z)
  <2>1. h0 \in Z
    OBVIOUS
  <2>. HIDE DEF Z, done, next, out, size
  <2>. QED BY <1>3, <1>4, <2>1, Loop
<1>6. f = [h \in Z |-> f[h]]
  BY <1>5 DEF Iterates
<1>7. \A h \in Z : f[h] = IF Len(h) > MaxAlerts THEN f[Popped(h)] ELSE h
  <2>. HIDE DEF Z, done, next, out, size
  <2>. QED BY <1>2, <1>5 DEF Iterates
<1>8. Evicts(f)
  <2>1. f = [h \in Z |-> IF Len(h) > MaxAlerts THEN f[Popped(h)] ELSE h]
    <3>. HIDE DEF Z, done, next, out, size
    <3>. QED BY <1>6, <1>7
  <2>. QED BY <2>1 DEF Evicts
<1>9. Evicts(C)
  BY <1>8
<1>10. Evicted(h0) = C[h0]
  BY Zenon DEF Evicted, Evicts
<1>. HIDE DEF C
<1>11. \A h \in Z : C[h] = IF Len(h) > MaxAlerts THEN C[Popped(h)] ELSE h
  <2>1. C = [h \in Z |-> IF Len(h) > MaxAlerts THEN C[Popped(h)] ELSE h]
    BY <1>9 DEF Evicts
  <2>. HIDE DEF Z
  <2>. QED BY <2>1
<1>12. CASE Len(h0) > MaxAlerts
  <2>1. Popped(h0) \in Z /\ ~(Len(Popped(h0)) > MaxAlerts)
    BY <1>1, <1>12
  <2>. QED BY <1>10, <1>11, <1>12, <2>1
<1>13. CASE ~(Len(h0) > MaxAlerts)
  BY <1>10, <1>11, <1>13
<1>. QED BY <1>12, <1>13

\* The alerts of one severity are a number, and 0 only if there is none.
LEMMA OccursCount ==
    ASSUME NEW h \in Seq(Nat), NEW s
    PROVE  /\ Cardinality(Occurs(h, s)) \in Nat
           /\ Cardinality(Occurs(h, s)) = 0 <=> \A i \in 1 .. Len(h) : h[i] # s
<1>1. Occurs(h, s) \in SUBSET (1 .. Len(h)) /\ Len(h) \in Nat
  BY DEF Occurs
<1>2. IsFiniteSet(Occurs(h, s))
  <2>1. IsFiniteSet(1 .. Len(h))
    BY <1>1, FS_Interval
  <2>. QED BY <1>1, <2>1, FS_Subset
<1>3. Occurs(h, s) = {} <=> \A i \in 1 .. Len(h) : h[i] # s
  BY DEF Occurs
<1>. QED BY <1>2, <1>3, FS_CardinalityType, FS_EmptySet

\* 1 if b, else 0.
Once(b) == IF b THEN 1 ELSE 0

\* What push(v) makes of the heap h: v is added, and in a full queue an alert r goes
\* that no other of them is more severe than.
PushOutcome(h, g, v) ==
    /\ g \in Seq(Nat) /\ MaxHeapOf(g)
    /\ Len(h) < MaxAlerts =>
         /\ Len(g) = Len(h) + 1
         /\ \A s : Kept(g, s) = Kept(h, s) + Once(s = v)
    /\ Len(h) = MaxAlerts =>
         /\ Len(g) = MaxAlerts
         /\ \E r \in Nat :
              /\ \A s : Kept(g, s) = Kept(h, s) + Once(s = v) - Once(s = r)
              /\ Kept(h, r) + Once(r = v) > 0
              /\ \A s \in Nat : Kept(h, s) + Once(s = v) > 0 => s <= r

\* push has that outcome, for every heap within the limit.
LEMMA PushedAlerts ==
    ASSUME NEW h \in Seq(Nat), MaxHeapOf(h), Len(h) <= MaxAlerts, NEW v \in Nat
    PROVE  PushOutcome(h, Pushed(h, v), v)
<1>. USE MaxAlertsAssumption
<1>. DEFINE n == Len(h) + 1
            a == Append(h, v)
            u == HeapifyUp(a, n)
<1>1. /\ a \in [1 .. n -> Nat] /\ n \in Nat /\ n \in 1 .. n
      /\ a[n] = v /\ \A i \in 1 .. Len(h) : a[i] = h[i]
  <2>1. Len(h) \in Nat
    OBVIOUS
  <2>2. a \in Seq(Nat) /\ Len(a) = n /\ a[n] = v
    OBVIOUS
  <2>3. \A i \in 1 .. Len(h) : a[i] = h[i]
    OBVIOUS
  <2>4. a \in [1 .. n -> Nat]
    <3>. HIDE DEF a, n
    <3>. QED BY <2>2
  <2>. QED BY <2>1, <2>2, <2>3, <2>4
<1>2. \A s : Kept(a, s) = Kept(h, s) + Once(s = v)
  <2>1. SUFFICES ASSUME NEW s PROVE Cardinality(Occurs(a, s)) = Cardinality(Occurs(h, s)) + Once(s = v)
    BY DEF Kept
  <2>2. Occurs(h, s) = {i \in 1 .. Len(h) : h[i] = s} /\ Occurs(a, s) = {i \in 1 .. n : a[i] = s}
    BY <1>1 DEF Occurs
  <2>3. Occurs(h, s) \in SUBSET (1 .. Len(h)) /\ IsFiniteSet(1 .. Len(h))
    BY <2>2, FS_Interval
  <2>4. IsFiniteSet(Occurs(h, s))
    BY <2>3, FS_Subset
  <2>5. n \notin Occurs(h, s) /\ Cardinality(Occurs(h, s)) \in Nat
    BY <2>2, <2>4, FS_CardinalityType
  <2>6. CASE s = v
    <3>1. Occurs(a, s) = Occurs(h, s) \cup {n}
      BY <1>1, <2>2, <2>6
    <3>2. Cardinality(Occurs(h, s) \cup {n}) = Cardinality(Occurs(h, s)) + 1
      BY <2>4, <2>5, FS_AddElement
    <3>. QED BY <2>6, <3>1, <3>2 DEF Once
  <2>7. CASE s # v
    <3>1. Occurs(a, s) = Occurs(h, s)
      BY <1>1, <2>2, <2>7
    <3>. QED BY <2>5, <2>7, <3>1 DEF Once
  <2>. QED BY <2>6, <2>7
<1>3. UpHole(a, n)
  <2>1. Len(a) = n
    OBVIOUS
  <2>2. \A i \in 2 .. n : i # n => a[i] <= a[i \div 2]
    <3>1. SUFFICES ASSUME NEW i \in 2 .. n, i # n PROVE a[i] <= a[i \div 2]
      OBVIOUS
    <3>2. i \div 2 \in 1 .. Len(h) /\ i \in 2 .. Len(h)
      BY <3>1, Half
    <3>. QED BY <1>1, <3>2 DEF MaxHeapOf
  <2>3. \A i \in 2 .. n : i \div 2 # n
    BY Half
  <2>. QED BY <2>1, <2>2, <2>3 DEF UpHole
<1>. HIDE DEF a, n
<1>4. u \in [1 .. n -> Nat] /\ MaxHeapOf(u) /\ SameAlerts(u, a)
  BY <1>1, <1>3, HeapifyUpRestores
<1>5. u \in Seq(Nat) /\ Len(u) = n
  <2>. HIDE DEF u
  <2>. QED BY <1>1, <1>4, HeapLength
<1>6. Pushed(h, v) = Evicted(u)
  BY DEF Pushed, u, a, n
<1>7. \A s : Kept(u, s) = Kept(h, s) + Once(s = v)
  BY <1>2, <1>4 DEF SameAlerts, Kept
<1>. HIDE DEF u
<1>8. Evicted(u) = IF n > MaxAlerts THEN Popped(u) ELSE u
  <2>1. Len(u) <= MaxAlerts + 1
    BY <1>5 DEF n
  <2>. QED BY <1>5, <2>1, EvictedAtMostOne
<1>9. CASE Len(h) < MaxAlerts
  <2>1. Pushed(h, v) = u
    BY <1>6, <1>8, <1>9 DEF n
  <2>. QED BY <1>4, <1>5, <1>7, <1>9, <2>1 DEF n, PushOutcome
<1>10. CASE Len(h) = MaxAlerts
  <2>1. Pushed(h, v) = Popped(u)
    BY <1>6, <1>8, <1>10 DEF n
  <2>2. u # <<>> /\ 1 \in 1 .. n
    BY <1>5, <1>1 DEF n
  <2>3. /\ Popped(u) \in Seq(Nat)
        /\ Len(Popped(u)) = Len(u) - 1
        /\ MaxHeapOf(Popped(u))
    BY <1>4, <1>5, <2>2, PoppedLosesRoot
  <2>4. \A s : Kept(Popped(u), s) = Kept(u, s) - Once(s = u[1])
    <3>1. \A s : Cardinality(Occurs(Popped(u), s)) =
                    Cardinality(Occurs(u, s)) - (IF s = u[1] THEN 1 ELSE 0)
      BY <1>5, <2>2, PoppedLosesRoot
    <3>. QED BY <3>1 DEF Kept, Once
  <2>5. Len(Popped(u)) = MaxAlerts
    BY <1>5, <1>10, <2>3 DEF n
  <2>6. u[1] \in Nat
    BY <1>4, <2>2
  <2>7. ASSUME NEW s \in Nat, Kept(u, s) > 0 PROVE s <= u[1]
    <3>1. PICK i \in 1 .. Len(u) : u[i] = s
      BY <1>5, <2>7, OccursCount DEF Kept
    <3>. QED BY <1>4, <1>5, <3>1, Root
  <2>8. Kept(u, u[1]) > 0
    <3>1. 1 \in 1 .. Len(u)
      BY <1>5, <2>2
    <3>2. Kept(u, u[1]) \in Nat /\ Kept(u, u[1]) # 0
      BY <1>5, <3>1, OccursCount DEF Kept
    <3>. QED BY <3>2
  <2>9. \A s : Kept(Popped(u), s) = Kept(h, s) + Once(s = v) - Once(s = u[1])
    <3>1. SUFFICES ASSUME NEW s
                   PROVE  Kept(Popped(u), s) = Kept(h, s) + Once(s = v) - Once(s = u[1])
      OBVIOUS
    <3>2. Kept(Popped(u), s) = Kept(u, s) - Once(s = u[1]) /\ Kept(u, s) = Kept(h, s) + Once(s = v)
      BY <1>7, <2>4
    <3>3. Kept(u, s) \in Nat /\ Kept(h, s) \in Nat
      BY <1>5, OccursCount DEF Kept
    <3>4. Once(s = v) \in Nat /\ Once(s = u[1]) \in Nat
      BY DEF Once
    <3>. QED BY <3>2, <3>3, <3>4
  <2>10. Kept(h, u[1]) + Once(u[1] = v) > 0
    BY <1>7, <2>8
  <2>11. \A s \in Nat : Kept(h, s) + Once(s = v) > 0 => s <= u[1]
    BY <1>7, <2>7
  <2>. QED BY <1>10, <2>1, <2>3, <2>5, <2>6, <2>9, <2>10, <2>11 DEF PushOutcome
<1>11. Len(h) < MaxAlerts \/ Len(h) = MaxAlerts
  OBVIOUS
<1>. QED BY <1>9, <1>10, <1>11

-----------------------------------------------------------------------------
(* The queue of alerts in the engine *)
\* AlertHeap and EvictsHighest are inductive with this: only severities are in the queue, and nothing is
\* lost before it overflows.
QueueInv ==
    /\ heap \in Seq(Nat)
    /\ pushed \in [Severities -> Nat]
    /\ AlertHeap
    /\ EvictsHighest
    /\ \A i \in DOMAIN heap : heap[i] \in Severities
    /\ SumFunctionOnSet(pushed, Severities) <= MaxAlerts =>
          \A s \in Severities : Kept(heap, s) = pushed[s]

\* All the alerts pushed since the reset.
Total == SumFunctionOnSet(pushed, Severities)

\* QueueInv of the heap h and the history p, with total alerts in it.
QueueOf(h, p, total) ==
    /\ h \in Seq(Nat)
    /\ p \in [Severities -> Nat]
    /\ MaxHeapOf(h)
    /\ Len(h) = IF total <= MaxAlerts THEN total ELSE MaxAlerts
    /\ \A s \in Severities :
         /\ Kept(h, s) <= p[s]
         /\ Kept(h, s) < p[s] => \A i \in DOMAIN h : h[i] <= s
    /\ \A i \in DOMAIN h : h[i] \in Severities
    /\ total <= MaxAlerts => \A s \in Severities : Kept(h, s) = p[s]

\* QueueInv, and QueueInv after a step, in these terms.
LEMMA QueueInvIs == QueueInv <=> QueueOf(heap, pushed, Total)
BY DEF QueueInv, AlertHeap, EvictsHighest, InQueue, MaxHeap, MaxHeapOf, Total, Kept, Occurs, QueueOf

LEMMA QueueInvWillBe == QueueInv' <=> QueueOf(heap', pushed', Total')
BY DEF QueueInv, AlertHeap, EvictsHighest, InQueue, MaxHeap, MaxHeapOf, Total, Kept, Occurs, QueueOf

\* A push keeps QueueInv: if the alert r that goes was more severe than s, and less of s is
\* kept than was pushed, then s was evicted before and r could not have been there.
LEMMA PushAlertKeepsQueueInv ==
    ASSUME QueueInv, NEW severity \in Severities, PushAlert(severity)
    PROVE  QueueInv'
<1>. USE MaxAlertsAssumption, SeveritiesAssumption
<1>. DEFINE v == severity
            h == Pushed(heap, v)
<1>0. v \in Nat
  OBVIOUS
<1>1. /\ heap \in Seq(Nat) /\ pushed \in [Severities -> Nat] /\ MaxHeapOf(heap)
      /\ Len(heap) = IF Total <= MaxAlerts THEN Total ELSE MaxAlerts
      /\ \A s \in Severities :
            /\ Kept(heap, s) <= pushed[s]
            /\ Kept(heap, s) < pushed[s] => \A i \in DOMAIN heap : heap[i] <= s
      /\ \A i \in DOMAIN heap : heap[i] \in Severities
      /\ Total <= MaxAlerts => \A s \in Severities : Kept(heap, s) = pushed[s]
  BY QueueInvIs DEF QueueOf
<1>2. heap' = h /\ pushed' = [pushed EXCEPT ![v] = @ + 1]
  BY DEF PushAlert
<1>3. pushed' \in [Severities -> Nat] /\ \A s \in Severities : pushed'[s] = pushed[s] + Once(s = v)
  BY <1>1, <1>2 DEF Once
<1>4. Total \in Nat /\ Total' = Total + 1
  <2>1. Total \in Nat
    BY <1>1, SumNat DEF Total
  <2>2. Total' = SumFunctionOnSet(pushed', Severities)
    BY DEF Total
  <2>3. SumFunctionOnSet(pushed', Severities) = SumFunctionOnSet(pushed, Severities) + 1
    <3>1. /\ \A s \in Severities : pushed[s] \in Nat
          /\ pushed'[v] = pushed[v] + 1
          /\ \A s \in Severities \ {v} : pushed'[s] = pushed[s]
      BY <1>1, <1>2
    <3>2. IsFiniteSet(Severities) /\ v \in Severities
      OBVIOUS
    <3>. HIDE DEF v
    <3>. QED BY <3>1, <3>2, SumIncremented
  <2>. QED BY <2>1, <2>2, <2>3 DEF Total
<1>5. Len(heap) \in Nat /\ Len(heap) <= MaxAlerts
  BY <1>1, <1>4
<1>6. /\ h \in Seq(Nat) /\ MaxHeapOf(h)
      /\ Len(heap) < MaxAlerts =>
           /\ Len(h) = Len(heap) + 1
           /\ \A s : Kept(h, s) = Kept(heap, s) + Once(s = v)
      /\ Len(heap) = MaxAlerts =>
           /\ Len(h) = MaxAlerts
           /\ \E r \in Nat :
                /\ \A s : Kept(h, s) = Kept(heap, s) + Once(s = v) - Once(s = r)
                /\ Kept(heap, r) + Once(r = v) > 0
                /\ \A s \in Nat : Kept(heap, s) + Once(s = v) > 0 => s <= r
  <2>1. PushOutcome(heap, h, v)
    <3>. HIDE DEF v
    <3>1. heap \in Seq(Nat) /\ MaxHeapOf(heap) /\ Len(heap) <= MaxAlerts /\ v \in Nat
      BY <1>0, <1>1, <1>5
    <3>. QED BY <3>1, PushedAlerts
  <2>. HIDE DEF h, v
  <2>. QED BY <2>1 DEF PushOutcome
<1>. HIDE DEF h, v
<1>7. /\ \A s : Kept(h, s) \in Nat /\ Kept(heap, s) \in Nat
      /\ \A s, t : Once(s = t) \in {0, 1} /\ (Once(s = t) = 1 <=> s = t)
  BY <1>1, <1>6, OccursCount DEF Kept, Once
<1>8. \A i \in DOMAIN h : Kept(h, h[i]) > 0 /\ h[i] \in Nat
  <2>1. SUFFICES ASSUME NEW i \in DOMAIN h PROVE Kept(h, h[i]) > 0 /\ h[i] \in Nat
    OBVIOUS
  <2>2. i \in 1 .. Len(h) /\ h[i] \in Nat
    BY <1>6
  <2>3. Kept(h, h[i]) # 0
    BY <1>6, <2>2, OccursCount DEF Kept
  <2>4. Kept(h, h[i]) \in Nat
    BY <1>7
  <2>. QED BY <2>2, <2>3, <2>4
<1>9. \A s : Kept(heap, s) > 0 => \E i \in DOMAIN heap : heap[i] = s
  <2>1. SUFFICES ASSUME NEW s, Kept(heap, s) > 0 PROVE \E i \in DOMAIN heap : heap[i] = s
    OBVIOUS
  <2>2. Kept(heap, s) # 0
    BY <1>7, <2>1
  <2>3. \E i \in 1 .. Len(heap) : heap[i] = s
    BY <1>1, <2>2, OccursCount DEF Kept
  <2>. QED BY <1>1, <2>3
<1>10. CASE Len(heap) < MaxAlerts
  <2>1. Total < MaxAlerts /\ Len(heap) = Total
    BY <1>1, <1>4, <1>10
  <2>2. Len(h) = Total' /\ Total' <= MaxAlerts
    BY <1>4, <1>6, <1>10, <2>1
  <2>3. \A s \in Severities : Kept(h, s) = pushed'[s]
    BY <1>1, <1>3, <1>6, <1>10, <2>1
  <2>4. \A i \in DOMAIN h : h[i] \in Severities
    <3>1. SUFFICES ASSUME NEW i \in DOMAIN h PROVE h[i] \in Severities
      OBVIOUS
    <3>2. Kept(heap, h[i]) > 0 \/ h[i] = v
      <4>1. Kept(h, h[i]) = Kept(heap, h[i]) + Once(h[i] = v)
        BY <1>6, <1>10
      <4>2. Kept(heap, h[i]) \in Nat /\ Once(h[i] = v) \in {0, 1} /\ (Once(h[i] = v) = 1 <=> h[i] = v)
        BY <1>7
      <4>3. Kept(h, h[i]) > 0
        BY <1>8
      <4>. QED BY <4>1, <4>2, <4>3
    <3>. QED BY <1>1, <1>9, <3>2 DEF v
  <2>5. \A s \in Severities : pushed'[s] \in Nat
    BY <1>3
  <2>6. QueueInv'
    <3>1. /\ h \in Seq(Nat) /\ pushed' \in [Severities -> Nat] /\ MaxHeapOf(h)
          /\ Len(h) = IF Total' <= MaxAlerts THEN Total' ELSE MaxAlerts
          /\ \A s \in Severities :
                /\ Kept(h, s) <= pushed'[s]
                /\ Kept(h, s) < pushed'[s] => \A i \in DOMAIN h : h[i] <= s
          /\ \A i \in DOMAIN h : h[i] \in Severities
          /\ \A s \in Severities : Kept(h, s) = pushed'[s]
      BY <1>3, <1>6, <2>2, <2>3, <2>4, <2>5
    <3>2. QueueOf(h, pushed', Total')
      BY <3>1 DEF QueueOf
    <3>. QED BY <1>2, <3>2, QueueInvWillBe
  <2>. QED BY <2>6
<1>11. CASE Len(heap) = MaxAlerts
  <2>1. PICK r \in Nat :
           /\ \A s : Kept(h, s) = Kept(heap, s) + Once(s = v) - Once(s = r)
           /\ Kept(heap, r) + Once(r = v) > 0
           /\ \A s \in Nat : Kept(heap, s) + Once(s = v) > 0 => s <= r
    BY <1>6, <1>11
  <2>2. Len(h) = MaxAlerts /\ Total' > MaxAlerts
    BY <1>1, <1>4, <1>6, <1>11
  <2>3. \A i \in DOMAIN h : /\ Kept(heap, h[i]) > 0 \/ h[i] = v
                            /\ h[i] <= r
    <3>1. SUFFICES ASSUME NEW i \in DOMAIN h PROVE (Kept(heap, h[i]) > 0 \/ h[i] = v) /\ h[i] <= r
      OBVIOUS
    <3>2. Kept(h, h[i]) > 0 /\ h[i] \in Nat
      BY <1>8
    <3>3. /\ Kept(h, h[i]) = Kept(heap, h[i]) + Once(h[i] = v) - Once(h[i] = r)
          /\ Kept(heap, h[i]) \in Nat
          /\ Once(h[i] = v) \in {0, 1} /\ (Once(h[i] = v) = 1 <=> h[i] = v)
          /\ Once(h[i] = r) \in {0, 1}
      BY <1>7, <2>1
    <3>4. (Kept(heap, h[i]) > 0 \/ h[i] = v) /\ Kept(heap, h[i]) + Once(h[i] = v) > 0
      BY <3>2, <3>3
    <3>. QED BY <2>1, <3>2, <3>4
  <2>4. \A i \in DOMAIN h : h[i] \in Severities
    BY <1>1, <1>9, <2>3 DEF v
  <2>5. ASSUME NEW s \in Severities
        PROVE  /\ Kept(h, s) <= pushed'[s]
               /\ Kept(h, s) < pushed'[s] => \A i \in DOMAIN h : h[i] <= s
    <3>1. /\ Kept(h, s) = Kept(heap, s) + Once(s = v) - Once(s = r)
          /\ pushed'[s] = pushed[s] + Once(s = v)
          /\ Kept(heap, s) <= pushed[s]
          /\ Kept(heap, s) < pushed[s] => \A i \in DOMAIN heap : heap[i] <= s
          /\ pushed[s] \in Nat /\ s \in Nat
      BY <1>1, <1>3, <2>1
    <3>0. /\ Kept(heap, s) \in Nat /\ Kept(h, s) \in Nat
          /\ Once(s = v) \in {0, 1} /\ (Once(s = v) = 1 <=> s = v)
          /\ Once(s = r) \in {0, 1} /\ (Once(s = r) = 1 <=> s = r)
      BY <1>7
    <3>2. Kept(h, s) <= pushed'[s]
      BY <3>0, <3>1
    <3>3. ASSUME Kept(h, s) < pushed'[s], NEW i \in DOMAIN h PROVE h[i] <= s
      <4>1. CASE s = r
        BY <2>3, <4>1
      <4>2. CASE s # r
        <5>1. \A k \in DOMAIN heap : heap[k] <= s
          BY <3>0, <3>1, <3>3, <4>2
        <5>2. CASE Kept(heap, h[i]) > 0
          BY <1>9, <5>1, <5>2
        <5>3. CASE h[i] = v
          <6>1. SUFFICES ASSUME ~(v <= s) PROVE FALSE
            BY <5>3
          <6>2. v \in Nat /\ v > s
            BY <1>0, <3>1, <6>1
          <6>3. Kept(heap, v) = 0
            <7>1. ~(Kept(heap, v) > 0)
              BY <1>9, <5>1, <6>1
            <7>. QED BY <1>7, <7>1
          <6>4. Kept(h, v) > 0
            BY <1>8, <5>3
          <6>5. v # r
            <7>1. Kept(h, v) = Kept(heap, v) + Once(v = v) - Once(v = r)
              BY <2>1
            <7>2. Once(v = v) = 1 /\ Once(v = r) \in {0, 1} /\ (Once(v = r) = 1 <=> v = r)
              BY <1>7
            <7>. QED BY <6>3, <6>4, <7>1, <7>2
          <6>6. Kept(heap, r) > 0
            <7>1. Once(r = v) = 0 /\ Kept(heap, r) \in Nat
              BY <1>7, <6>5
            <7>. QED BY <2>1, <7>1
          <6>7. r <= s
            BY <1>9, <5>1, <6>6
          <6>8. v <= r
            <7>1. Kept(heap, v) + Once(v = v) > 0
              <8>1. Kept(heap, v) \in Nat /\ Once(v = v) = 1
                BY <1>7
              <8>. QED BY <8>1
            <7>. QED BY <2>1, <6>2, <7>1
          <6>. QED BY <3>1, <6>2, <6>7, <6>8
        <5>. QED BY <2>3, <5>2, <5>3
      <4>. QED BY <4>1, <4>2
    <3>. QED BY <3>2, <3>3
  <2>6. QueueInv'
    <3>1. /\ h \in Seq(Nat) /\ pushed' \in [Severities -> Nat] /\ MaxHeapOf(h)
          /\ Len(h) = IF Total' <= MaxAlerts THEN Total' ELSE MaxAlerts
          /\ \A s \in Severities :
                /\ Kept(h, s) <= pushed'[s]
                /\ Kept(h, s) < pushed'[s] => \A i \in DOMAIN h : h[i] <= s
          /\ \A i \in DOMAIN h : h[i] \in Severities
          /\ ~(Total' <= MaxAlerts)
      BY <1>3, <1>4, <1>6, <2>2, <2>4, <2>5
    <3>2. QueueOf(h, pushed', Total')
      BY <3>1 DEF QueueOf
    <3>. QED BY <1>2, <3>2, QueueInvWillBe
  <2>. QED BY <2>6
<1>. QED BY <1>5, <1>10, <1>11

\* The queue without alerts.
LEMMA EmptyQueue ==
    ASSUME NEW h, h = <<>>, NEW p, p = [s \in Severities |-> 0]
    PROVE  QueueOf(h, p, SumFunctionOnSet(p, Severities))
<1>. USE MaxAlertsAssumption, SeveritiesAssumption
<1>1. SumFunctionOnSet(p, Severities) = 0
  BY SumOfZeros
<1>2. h \in Seq(Nat) /\ Len(h) = 0 /\ DOMAIN h = {}
  OBVIOUS
<1>3. \A s : Kept(h, s) = 0
  BY <1>2, FS_EmptySet DEF Kept, Occurs
<1>. QED BY <1>1, <1>2, <1>3 DEF QueueOf, MaxHeapOf

\* QueueInv holds for every sequence of calls: the two heap loops restore the heap, the
\* eviction removes a largest alert and the counts add up.
THEOREM QueueInvariant == EngineSpec => []QueueInv
<1>1. EngineInit => QueueInv
  BY EmptyQueue, QueueInvIs DEF EngineInit, Total
<1>2. QueueInv /\ [EngineNext]_allVars => QueueInv'
  <2>. SUFFICES ASSUME QueueInv, [EngineNext]_allVars PROVE QueueInv'
    OBVIOUS
  <2>1. ASSUME UNCHANGED queueVars PROVE QueueInv'
    BY <2>1 DEF queueVars, QueueInv, AlertHeap, EvictsHighest, InQueue, MaxHeap, Kept, Occurs
  <2>2. ASSUME NEW score \in UpdateScores, UpdateScore(score) PROVE QueueInv'
    BY <2>1, <2>2 DEF UpdateScore
  <2>3. ASSUME NEW score \in SampleScores, NEW label \in BOOLEAN, AddLabelledSample(score, label)
        PROVE  QueueInv'
    BY <2>1, <2>3 DEF AddLabelledSample
  <2>4. ASSUME RecalculateThreshold PROVE QueueInv'
    BY <2>1, <2>4 DEF RecalculateThreshold
  <2>5. ASSUME NEW severity \in Severities, PushAlert(severity) PROVE QueueInv'
    BY <2>5, PushAlertKeepsQueueInv
  <2>6. ASSUME ResetAll PROVE QueueInv'
    <3>1. heap' = <<>> /\ pushed' = [s \in Severities |-> 0] /\ Total' = SumFunctionOnSet(pushed', Severities)
      BY <2>6 DEF ResetAll, Total
    <3>2. QueueOf(heap', pushed', Total')
      BY <3>1, EmptyQueue
    <3>. QED BY <3>2, QueueInvWillBe
  <2>7. ASSUME UNCHANGED allVars PROVE QueueInv'
    BY <2>1, <2>7 DEF allVars
  <2>. QED BY <2>2, <2>3, <2>4, <2>5, <2>6, <2>7 DEF EngineNext
<1>. QED BY <1>1, <1>2, PTL DEF EngineSpec

\* The queue is a heap of as many of the pushed alerts as it may hold, for every limit, set of
\* severities and sequence of calls.
THEOREM AlertHeapHolds == EngineSpec => []AlertHeap
<1>1. QueueInv => AlertHeap
  BY DEF QueueInv
<1>. QED BY <1>1, QueueInvariant, PTL

\* What evict (threshold_engine.cpp:111) takes out is never milder than what stays.
THEOREM EvictsHighestHolds == EngineSpec => []EvictsHighest
<1>1. QueueInv => EvictsHighest
  BY DEF QueueInv
<1>. QED BY <1>1, QueueInvariant, PTL

-----------------------------------------------------------------------------
(* The optimizer *)
\* The threshold t labels every sample of the window as it is labelled.
Perfect(w, t) == \A i \in DOMAIN w : w[i].is_anomaly <=> Predicted(w[i], t)

\* A window of labelled scores up to top.
Window(w, top) == w \in [0 .. (WindowSize - 1) -> [score : 0 .. top, is_anomaly : BOOLEAN]]

\* best scans the thresholds 0 .. top of the window w.
Scans(best, w, top) ==
    /\ best \in [0 .. top -> 0 .. top]
    /\ best[0] = 0
    /\ \A t \in 1 .. top :
          best[t] = IF t \in Candidates /\ Better(F1(w, t), F1(w, best[t - 1])) THEN t ELSE best[t - 1]

\* Optimum is defined: it ends a scan of the thresholds in their order.
LEMMA OptimumScans ==
    ASSUME NEW w, NEW top \in Nat
    PROVE  \E best : Scans(best, w, top) /\ Optimum(w, top) = best[top]
<1>. DEFINE D == 0 .. top
            size == [t \in D |-> t]
            h == [p \in D \X [D -> D] |->
                    IF p[1] = 0 THEN 0
                    ELSE IF p[1] \in Candidates /\ Better(F1(w, p[1]), F1(w, p[2][p[1] - 1]))
                         THEN p[1] ELSE p[2][p[1] - 1]]
            R(f) == f = [t \in D |->
                          IF t = 0 THEN 0
                          ELSE IF t \in Candidates /\ Better(F1(w, t), F1(w, f[t - 1])) THEN t ELSE f[t - 1]]
            C == CHOOSE f : R(f)
<1>1. \A t \in D : t # 0 => t - 1 \in D
  OBVIOUS
<1>2. \A t \in D, f \in [D -> D] :
         h[<<t, f>>] = IF t = 0 THEN 0
                       ELSE IF t \in Candidates /\ Better(F1(w, t), F1(w, f[t - 1])) THEN t ELSE f[t - 1]
  OBVIOUS
<1>3. h \in [D \X [D -> D] -> D] /\ size \in [D -> Nat]
  <2>1. SUFFICES ASSUME NEW t \in D, NEW f \in [D -> D] PROVE h[<<t, f>>] \in D
    OBVIOUS
  <2>2. 0 \in D
    OBVIOUS
  <2>3. t # 0 => f[t - 1] \in D
    BY <1>1
  <2>. QED BY <1>2, <2>2, <2>3
<1>4. ASSUME NEW t \in D, NEW f \in [D -> D], NEW g \in [D -> D],
             \A y \in D : size[y] < size[t] => f[y] = g[y]
      PROVE  h[<<t, f>>] = h[<<t, g>>]
  <2>1. t # 0 => t - 1 \in D /\ size[t - 1] < size[t]
    OBVIOUS
  <2>2. t # 0 => f[t - 1] = g[t - 1]
    BY <1>4, <2>1
  <2>. HIDE DEF h
  <2>. QED BY <1>2, <2>2
<1>. HIDE DEF size, h
<1>5. PICK f : Solves(f, h, D, D)
  <2>1. LooksBack(h, size, D, D)
    <3>. HIDE DEF D
    <3>. QED BY <1>3, <1>4 DEF LooksBack
  <2>2. 0 \in D
    OBVIOUS
  <2>. HIDE DEF D, R, C
  <2>. QED BY <2>1, <2>2, Recursion
<1>6. R(f)
  BY <1>2, <1>5 DEF Solves
<1>7. R(C)
  <2>. HIDE DEF R
  <2>. QED BY <1>6
<1>8. Optimum(w, top) = C[top]
  BY Zenon DEF Optimum
<1>. HIDE DEF C
<1>9. \A t \in D : C[t] = IF t = 0 THEN 0
                          ELSE IF t \in Candidates /\ Better(F1(w, t), F1(w, C[t - 1])) THEN t ELSE C[t - 1]
  BY <1>7
<1>10. \A t \in D : C[t] \in D
  <2>. DEFINE N == {n \in Nat : n \in D => C[n] \in D}
  <2>1. 0 \in N
    BY <1>9
  <2>2. ASSUME NEW n \in Nat, n \in N PROVE n + 1 \in N
    <3>1. SUFFICES ASSUME n + 1 \in D PROVE C[n + 1] \in D
      OBVIOUS
    <3>2. C[n + 1] \in {n + 1, C[n]}
      <4>1. n + 1 # 0 /\ (n + 1) - 1 = n
        OBVIOUS
      <4>. QED BY <1>9, <3>1, <4>1
    <3>. QED BY <2>2, <3>1, <3>2
  <2>3. Nat \subseteq N
    <3>. HIDE DEF N
    <3>. QED BY <2>1, <2>2, SetInduction
  <2>. QED BY <2>3
<1>11. C \in [D -> D]
  <2>1. C = [t \in D |-> C[t]]
    BY <1>7
  <2>. QED BY <1>10, <2>1
<1>12. Scans(C, w, top)
  <2>1. C[0] = 0
    BY <1>9
  <2>2. \A t \in 1 .. top : t \in D /\ t # 0
    OBVIOUS
  <2>3. \A t \in 1 .. top :
          C[t] = IF t \in Candidates /\ Better(F1(w, t), F1(w, C[t - 1])) THEN t ELSE C[t - 1]
    BY <1>9, <2>2
  <2>. QED BY <1>11, <2>1, <2>3 DEF Scans
<1>. QED BY <1>8, <1>12

\* optimize returns one of the thresholds it tries.
LEMMA OptimumIsThreshold ==
    ASSUME NEW w, NEW top \in Nat
    PROVE  Optimum(w, top) \in Candidates /\ Optimum(w, top) \in 0 .. top
<1>1. PICK best : Scans(best, w, top) /\ Optimum(w, top) = best[top]
  BY OptimumScans
<1>2. /\ best \in [0 .. top -> 0 .. top] /\ best[0] = 0
      /\ \A t \in 1 .. top :
            best[t] = IF t \in Candidates /\ Better(F1(w, t), F1(w, best[t - 1])) THEN t ELSE best[t - 1]
  BY <1>1 DEF Scans
<1>. DEFINE N == {n \in Nat : n \in 0 .. top => best[n] \in Candidates}
<1>3. 0 \in N
  BY <1>2, CandidatesAssumption
<1>4. ASSUME NEW n \in Nat, n \in N PROVE n + 1 \in N
  <2>1. SUFFICES ASSUME n + 1 \in 0 .. top PROVE best[n + 1] \in Candidates
    OBVIOUS
  <2>2. n + 1 \in 1 .. top /\ n \in 0 .. top /\ (n + 1) - 1 = n
    BY <2>1
  <2>3. best[n] \in Candidates
    BY <1>4, <2>2
  <2>4. (best[n + 1] = n + 1 /\ n + 1 \in Candidates) \/ best[n + 1] = best[n]
    BY <1>2, <2>2
  <2>. QED BY <2>3, <2>4
<1>5. Nat \subseteq N
  <2>. HIDE DEF N
  <2>. QED BY <1>3, <1>4, SetInduction
<1>. QED BY <1>1, <1>2, <1>5

-----------------------------------------------------------------------------

\* What the counts of compute_f1 tell of the threshold t.
F1Counts(w, t) ==
    /\ TruePositives(w, t) \in Nat
    /\ Mistakes(w, t) \in Nat
    /\ Mistakes(w, t) = 0 <=> Perfect(w, t)
    /\ (\E i \in DOMAIN w : w[i].is_anomaly) /\ Perfect(w, t) => TruePositives(w, t) > 0

\* They do, in every window.
LEMMA CountsOfWindow ==
    ASSUME NEW top \in Nat, NEW w, Window(w, top), NEW t \in 0 .. top
    PROVE  F1Counts(w, t)
<1>. USE WindowAssumption
<1>1. DOMAIN w = 0 .. (WindowSize - 1) /\ IsFiniteSet(DOMAIN w)
  BY FS_Interval DEF Window
<1>. DEFINE A == {i \in DOMAIN w : w[i].is_anomaly /\ Predicted(w[i], t)}
            B == {i \in DOMAIN w : w[i].is_anomaly # Predicted(w[i], t)}
<1>2. A \in SUBSET DOMAIN w /\ B \in SUBSET DOMAIN w
  OBVIOUS
<1>3. B = {} <=> Perfect(w, t)
  <2>1. \A i \in DOMAIN w : w[i].is_anomaly \in BOOLEAN /\ Predicted(w[i], t) \in BOOLEAN
    BY DEF Window, Predicted
  <2>. QED BY <2>1 DEF Perfect
<1>4. (\E i \in DOMAIN w : w[i].is_anomaly) /\ Perfect(w, t) => A # {}
  BY DEF Perfect
<1>5. TruePositives(w, t) = Cardinality(A) /\ Mistakes(w, t) = Cardinality(B)
  BY DEF TruePositives, Mistakes
<1>. HIDE DEF A, B
<1>6. IsFiniteSet(A) /\ IsFiniteSet(B)
  BY <1>1, <1>2, FS_Subset
<1>7. Cardinality(A) \in Nat /\ Cardinality(B) \in Nat
      /\ (Cardinality(A) = 0 <=> A = {}) /\ (Cardinality(B) = 0 <=> B = {})
  BY <1>6, FS_CardinalityType, FS_EmptySet
<1>. QED BY <1>3, <1>4, <1>5, <1>7 DEF F1Counts

\* A perfect threshold beats one that is not, and is beaten by none.
LEMMA PerfectIsBest ==
    ASSUME NEW top \in Nat, NEW w, Window(w, top), \E i \in DOMAIN w : w[i].is_anomaly,
           NEW t \in 0 .. top, NEW u \in 0 .. top
    PROVE  /\ Perfect(w, t) /\ ~Perfect(w, u) => Better(F1(w, t), F1(w, u))
           /\ Perfect(w, u) => ~Better(F1(w, t), F1(w, u))
<1>1. F1Counts(w, t) /\ F1Counts(w, u)
  BY CountsOfWindow
<1>. DEFINE a == TruePositives(w, t)
            b == TruePositives(w, u)
            m == Mistakes(w, t)
            n == Mistakes(w, u)
<1>2. /\ a \in Nat /\ b \in Nat /\ m \in Nat /\ n \in Nat
      /\ Perfect(w, t) => m = 0 /\ a > 0
      /\ Perfect(w, u) => n = 0 /\ b > 0
      /\ ~Perfect(w, u) => n > 0
  BY <1>1 DEF F1Counts
<1>3. F1(w, t) = (IF a = 0 THEN <<0, 1>> ELSE <<2 * a, 2 * a + m>>)
      /\ F1(w, u) = (IF b = 0 THEN <<0, 1>> ELSE <<2 * b, 2 * b + n>>)
  BY DEF F1
<1>. HIDE DEF a, b, m, n
<1>4. ASSUME Perfect(w, t), ~Perfect(w, u) PROVE Better(F1(w, t), F1(w, u))
  <2>1. m = 0 /\ a > 0 /\ n > 0 /\ F1(w, t) = <<2 * a, 2 * a>>
    BY <1>2, <1>3, <1>4
  <2>2. CASE b = 0
    BY <1>2, <1>3, <2>1, <2>2 DEF Better
  <2>3. CASE b > 0
    <3>1. F1(w, u) = <<2 * b, 2 * b + n>>
      BY <1>2, <1>3, <2>3
    <3>2. (2 * a) * (2 * b + n) = (2 * a) * (2 * b) + (2 * a) * n
      BY <1>2
    <3>3. (2 * b) * (2 * a) = (2 * a) * (2 * b)
      BY <1>2
    <3>4. (2 * a) * n > 0 /\ (2 * a) * n \in Nat /\ (2 * a) * (2 * b) \in Nat
      BY <1>2, <2>1
    <3>5. (2 * a) * (2 * b + n) > (2 * b) * (2 * a)
      BY <3>2, <3>3, <3>4
    <3>. QED BY <2>1, <3>1, <3>5 DEF Better
  <2>. QED BY <1>2, <2>2, <2>3
<1>5. ASSUME Perfect(w, u) PROVE ~Better(F1(w, t), F1(w, u))
  <2>1. n = 0 /\ b > 0 /\ F1(w, u) = <<2 * b, 2 * b>>
    BY <1>2, <1>3, <1>5
  <2>2. CASE a = 0
    BY <1>2, <1>3, <2>1, <2>2 DEF Better
  <2>3. CASE a > 0
    <3>1. F1(w, t) = <<2 * a, 2 * a + m>>
      BY <1>2, <1>3, <2>3
    <3>2. (2 * b) * (2 * a + m) = (2 * b) * (2 * a) + (2 * b) * m
      BY <1>2
    <3>3. (2 * b) * (2 * a) = (2 * a) * (2 * b)
      BY <1>2
    <3>4. (2 * b) * m >= 0 /\ (2 * b) * m \in Nat /\ (2 * a) * (2 * b) \in Nat
      BY <1>2, <2>1
    <3>5. ~((2 * a) * (2 * b) > (2 * b) * (2 * a + m))
      BY <3>2, <3>3, <3>4
    <3>. QED BY <2>1, <3>1, <3>5 DEF Better
  <2>. QED BY <1>2, <2>2, <2>3
<1>. QED BY <1>4, <1>5

\* optimize ends at a perfect threshold if it tries one.
LEMMA OptimumIsPerfect ==
    ASSUME NEW top \in Nat, NEW w, Window(w, top), \E i \in DOMAIN w : w[i].is_anomaly,
           NEW u \in 0 .. top, u \in Candidates, Perfect(w, u)
    PROVE  Perfect(w, Optimum(w, top))
<1>1. PICK best : Scans(best, w, top) /\ Optimum(w, top) = best[top]
  BY OptimumScans
<1>2. /\ best \in [0 .. top -> 0 .. top] /\ best[0] = 0
      /\ \A t \in 1 .. top :
            best[t] = IF t \in Candidates /\ Better(F1(w, t), F1(w, best[t - 1])) THEN t ELSE best[t - 1]
  BY <1>1 DEF Scans
<1>. DEFINE N == {n \in Nat : n \in 0 .. top /\ u <= n => Perfect(w, best[n])}
<1>3. 0 \in N
  <2>1. SUFFICES ASSUME u <= 0 PROVE Perfect(w, best[0])
    OBVIOUS
  <2>2. u = best[0]
    BY <1>2, <2>1
  <2>. QED BY <2>2
<1>4. ASSUME NEW n \in Nat, n \in N PROVE n + 1 \in N
  <2>1. SUFFICES ASSUME n + 1 \in 0 .. top, u <= n + 1 PROVE Perfect(w, best[n + 1])
    OBVIOUS
  <2>2. /\ n + 1 \in 1 .. top /\ n \in 0 .. top /\ (n + 1) - 1 = n
        /\ best[n] \in 0 .. top
    BY <1>2, <2>1
  <2>3. best[n + 1] = IF n + 1 \in Candidates /\ Better(F1(w, n + 1), F1(w, best[n]))
                      THEN n + 1 ELSE best[n]
    BY <1>2, <2>2
  <2>4. CASE Perfect(w, best[n])
    <3>1. ~Better(F1(w, n + 1), F1(w, best[n]))
      BY <2>1, <2>2, <2>4, PerfectIsBest
    <3>. QED BY <2>3, <2>4, <3>1
  <2>5. CASE ~Perfect(w, best[n])
    <3>1. ~(u <= n)
      BY <1>4, <2>2, <2>5
    <3>2. u = n + 1
      BY <2>1, <3>1
    <3>3. Better(F1(w, n + 1), F1(w, best[n]))
      BY <2>1, <2>2, <2>5, <3>2, PerfectIsBest
    <3>. QED BY <2>3, <3>2, <3>3
  <2>. QED BY <2>4, <2>5
<1>5. Nat \subseteq N
  <2>. HIDE DEF N
  <2>. QED BY <1>3, <1>4, SetInduction
<1>. QED BY <1>1, <1>5

-----------------------------------------------------------------------------
(* The engine *)
\* The engine implements the abstract threshold: update, recalculate_threshold and reset are
\* its steps, whatever the optimizer found, and all the rest are stutters.
THEOREM EngineImplementsAdaptiveThreshold == EngineSpec => Spec
<1>1. EngineInit => Init
  BY DEF EngineInit
<1>2. [EngineNext]_allVars => [Next]_vars
  <2>. SUFFICES ASSUME [EngineNext]_allVars PROVE [Next]_vars
    OBVIOUS
  <2>1. ASSUME NEW score \in UpdateScores, UpdateScore(score) PROVE Next
    <3>1. score \in Scores
      BY SampleScoresAssumption
    <3>. QED BY <2>1, <3>1 DEF UpdateScore, Next
  <2>2. ASSUME NEW score \in SampleScores, NEW label \in BOOLEAN, AddLabelledSample(score, label)
        PROVE  UNCHANGED vars
    BY <2>2 DEF AddLabelledSample
  <2>3. ASSUME RecalculateThreshold PROVE Next
    <3>1. Optimum(window, One) \in Scores
      BY OptimumIsThreshold, OneAssumption DEF Scores
    <3>. QED BY <2>3, <3>1 DEF RecalculateThreshold, Next
  <2>4. ASSUME NEW severity \in Severities, PushAlert(severity) PROVE UNCHANGED vars
    BY <2>4 DEF PushAlert
  <2>5. ASSUME ResetAll PROVE Next
    BY <2>5 DEF ResetAll, Next
  <2>6. ASSUME UNCHANGED allVars PROVE UNCHANGED vars
    BY <2>6 DEF allVars
  <2>. QED BY <2>1, <2>2, <2>3, <2>4, <2>5, <2>6 DEF EngineNext
<1>. QED BY <1>1, <1>2, PTL DEF EngineSpec, Spec

\* AlertRule for the whole engine, with its optimizer.
THEOREM EngineAlertRule == EngineSpec => AlertRule
BY EngineImplementsAdaptiveThreshold, AlertRuleHolds, PTL

\* EchoIsQuiet for the whole engine, with its optimizer.
THEOREM EngineEchoIsQuiet == EngineSpec => EchoIsQuiet
BY EngineImplementsAdaptiveThreshold, EchoIsQuietHolds, PTL

\* The window is full of scores and the place of the next sample lies in it.
WindowInv == Window(window, One) /\ insert_idx \in 0 .. (WindowSize - 1)

\* WindowInv holds for every sequence of calls.
THEOREM WindowInvariant == EngineSpec => []WindowInv
<1>. USE WindowAssumption, OneAssumption
<1>0. Window(EmptyWindow, One) /\ 0 \in 0 .. (WindowSize - 1)
  BY DEF Window, EmptyWindow, NoSample
<1>1. EngineInit => WindowInv
  BY <1>0 DEF EngineInit, WindowInv
<1>2. WindowInv /\ [EngineNext]_allVars => WindowInv'
  <2>. SUFFICES ASSUME WindowInv, [EngineNext]_allVars PROVE WindowInv'
    OBVIOUS
  <2>1. ASSUME UNCHANGED optimizerVars PROVE WindowInv'
    BY <2>1 DEF optimizerVars, WindowInv
  <2>2. ASSUME NEW score \in SampleScores, NEW label \in BOOLEAN, AddLabelledSample(score, label)
        PROVE  WindowInv'
    <3>. DEFINE sample == [score |-> score, is_anomaly |-> label]
    <3>1. score \in 0 .. One
      BY SampleScoresAssumption DEF Scores
    <3>2. sample \in [score : 0 .. One, is_anomaly : BOOLEAN]
      BY <3>1
    <3>3. window' = [window EXCEPT ![insert_idx] = sample] /\ insert_idx' = (insert_idx + 1) % WindowSize
      BY <2>2 DEF AddLabelledSample
    <3>. HIDE DEF sample
    <3>4. Window(window', One)
      BY <3>2, <3>3 DEF WindowInv, Window
    <3>5. insert_idx' \in 0 .. (WindowSize - 1)
      BY <3>3 DEF WindowInv
    <3>. QED BY <3>4, <3>5 DEF WindowInv
  <2>3. ASSUME ResetAll PROVE WindowInv'
    BY <1>0, <2>3 DEF ResetAll, WindowInv
  <2>. QED BY <2>1, <2>2, <2>3 DEF EngineNext, UpdateScore, RecalculateThreshold, PushAlert, allVars
<1>. QED BY <1>1, <1>2, PTL DEF EngineSpec

\* recalculate_threshold sets a threshold that was tried, and separates what one of these can
\* separate, for every size of the window, scores, thresholds and history.
THEOREM OptimumSeparatesHolds == EngineSpec => OptimumSeparates
<1>. DEFINE best == Optimum(window, One)
            Set == \E t \in Candidates : threshold' = t * scale
            Parts == (\E t \in Candidates : Separates(t)) =>
                        \A i \in DOMAIN window : Exceeds(window[i].score)' <=> window[i].is_anomaly
<1>1. ASSUME WindowInv, TypeOK, RecalculateThreshold PROVE Set /\ Parts
  <2>1. One \in Nat /\ Window(window, One) /\ best \in 0 .. One /\ best \in Candidates
    BY <1>1, OneAssumption, OptimumIsThreshold DEF WindowInv
  <2>2. window' = window /\ threshold' = best * scale /\ scale' = scale
    BY <1>1 DEF RecalculateThreshold, Recalculate, optimizerVars
  <2>3. ASSUME NEW t \in Candidates, Separates(t), NEW i \in DOMAIN window
        PROVE  Exceeds(window[i].score)' <=> window[i].is_anomaly
    <3>1. t \in 0 .. One
      BY OneIsNotTried DEF Scores
    <3>2. (\E k \in DOMAIN window : window[k].is_anomaly) /\ Perfect(window, t)
      BY <2>3 DEF Separates, Perfect, Predicted
    <3>. HIDE DEF best
    <3>3. Perfect(window, Optimum(window, One))
      BY <2>1, <3>1, <3>2, OptimumIsPerfect
    <3>4. Perfect(window, best)
      BY <3>3 DEF best
    <3>5. Exceeds(window[i].score)' <=> window[i].score * scale >= best * scale
      BY <2>2 DEF Exceeds
    <3>6. window[i].score \in Nat /\ best \in Nat /\ scale \in Nat \ {0}
      BY <1>1, <2>1 DEF Window, TypeOK
    <3>7. window[i].score * scale >= best * scale <=> window[i].score >= best
      BY <3>6
    <3>8. window[i].is_anomaly <=> window[i].score >= best
      BY <3>4 DEF Perfect, Predicted
    <3>. QED BY <3>5, <3>7, <3>8
  <2>. HIDE DEF best
  <2>. QED BY <2>1, <2>2, <2>3
<1>2. WindowInv /\ TypeOK /\ [EngineNext]_allVars => [RecalculateThreshold => Set /\ Parts]_allVars
  BY <1>1
<1>3. EngineSpec => []TypeOK
  BY EngineImplementsAdaptiveThreshold, TypeCorrect, PTL
<1>. QED BY <1>2, <1>3, WindowInvariant, PTL DEF EngineSpec, OptimumSeparates
=============================================================================
