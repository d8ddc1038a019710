---------------------------- MODULE DetectorProofs ----------------------------
(***************************************************************************)
(* Proofs about the detectors in CompositeDetector, for any hashes, sizes  *)
(* and events.                                                             *)
(***************************************************************************)
EXTENDS CompositeDetector, Induction, SequenceTheorems

\* The types of what the proofs look at.
Typing ==
    /\ counters \in [Bits -> 0 .. (CounterMod - 1)]
    /\ wrapped \in BOOLEAN
    /\ table \in [Rows -> [Columns -> Nat]]
    /\ seen \in [Kinds -> [Events -> Nat]]

\* Every counter of an event counts at least one.
BloomInv ==
    "bloom" \in Kinds /\ ~wrapped =>
        \A e \in Events : seen["bloom"][e] > 0 => \A i \in BloomSeeds : counters[BloomHash[e][i]] > 0

\* Every counter of an event counts at least its occurrences.
CmsInv ==
    "cms" \in Kinds =>
        \A e \in Events, i \in Rows : seen["cms"][e] <= table[i][CmsHash[e][i]]

\* A bit is met by some of the hashes of an event, and by at most all of them.
LEMMA HitsPositive ==
    ASSUME NEW e \in Events
    PROVE  /\ \A b \in Bits : Hits(e, b) \in Nat
           /\ \A i \in BloomSeeds : Hits(e, BloomHash[e][i]) > 0
<1>1. IsFiniteSet(BloomSeeds)
  BY BloomSizeAssumption, FS_Interval DEF BloomSeeds
<1>2. ASSUME NEW b \in Bits PROVE Hits(e, b) \in Nat
  <2>1. IsFiniteSet({i \in BloomSeeds : BloomHash[e][i] = b})
    BY <1>1, FS_Subset
  <2>. QED BY <2>1, FS_CardinalityType DEF Hits
<1>3. ASSUME NEW i \in BloomSeeds PROVE Hits(e, BloomHash[e][i]) > 0
  <2>. DEFINE Same == {j \in BloomSeeds : BloomHash[e][j] = BloomHash[e][i]}
  <2>1. IsFiniteSet(Same) /\ Same # {}
    BY <1>1, FS_Subset
  <2>2. Cardinality(Same) \in Nat /\ Cardinality(Same) # 0
    BY <2>1, FS_CardinalityType, FS_EmptySet
  <2>3. Hits(e, BloomHash[e][i]) = Cardinality(Same)
    BY DEF Hits
  <2>. QED BY <2>2, <2>3
<1>. QED BY <1>2, <1>3

\* An 8-bit sum is exact as long as it does not wrap.
LEMMA Remainder ==
    ASSUME NEW n \in Nat
    PROVE  /\ n % CounterMod \in 0 .. (CounterMod - 1)
           /\ n < CounterMod => n % CounterMod = n
BY BloomSizeAssumption

\* Quotient and remainder of the place of an element in rows of w.
LEMMA PlaceInRow ==
    ASSUME NEW w \in Nat \ {0}, NEW i \in Nat, NEW j \in 0 .. (w - 1)
    PROVE  (i * w + j) \div w = i /\ (i * w + j) % w = j
BY Z3

\* The rows of the sketch are read back from their concatenation.
LEMMA CmsRoundTrip ==
    ASSUME table \in [Rows -> [Columns -> Nat]]
    PROVE  CmsTableRead(CmsSerialized) = table
<1>. DEFINE Values == [n \in 1 .. (Depth * Width) |-> table[(n - 1) \div Width][(n - 1) % Width]]
<1>1. ASSUME NEW i \in Rows, NEW j \in Columns
      PROVE  Values[i * Width + j + 1] = table[i][j]
  <2>1. i \in Nat /\ j \in 0 .. (Width - 1) /\ Width \in Nat \ {0} /\ Depth \in Nat
    BY CmsSizeAssumption DEF Rows, Columns
  <2>2. i * Width + j + 1 \in 1 .. (Depth * Width)
    <3>1. i + 1 <= Depth
      BY <2>1 DEF Rows
    <3>2. i * Width \in Nat /\ (i + 1) * Width = i * Width + Width /\ Depth * Width \in Nat
      BY <2>1
    <3>3. (i + 1) * Width <= Depth * Width
      BY <2>1, <3>1
    <3>. QED BY <2>1, <3>2, <3>3
  <2>3. (i * Width + j + 1) - 1 = i * Width + j
    BY <2>1
  <2>4. (i * Width + j) \div Width = i /\ (i * Width + j) % Width = j
    BY <2>1, PlaceInRow
  <2>. QED BY <2>2, <2>3, <2>4
<1>2. CmsTableRead(CmsSerialized) = [i \in Rows |-> [j \in Columns |-> Values[i * Width + j + 1]]]
  BY DEF CmsTableRead, CmsSerialized, Rows, Columns
<1>3. \A i \in Rows : table[i] = [j \in Columns |-> table[i][j]]
  OBVIOUS
<1>4. \A i \in Rows : [j \in Columns |-> Values[i * Width + j + 1]] = table[i]
  BY <1>1, <1>3
<1>5. table = [i \in Rows |-> table[i]]
  OBVIOUS
<1>. HIDE DEF Values
<1>. QED BY <1>2, <1>4, <1>5

\* What is rebuilt has the filter and the sketch of what it was read from.
LEMMA RebuildKeeps ==
    ASSUME Typing, Rebuild
    PROVE  UNCHANGED <<bloomVars, table, seen>>
BY CmsRoundTrip DEF Typing, Rebuild, BloomDeserialize, BloomSerialized, CmsDeserialize, bloomVars

-----------------------------------------------------------------------------
(* Types *)

\* Every call keeps the types; a counter stays below its limit because its sum is taken modulo it.
LEMMA TypingNext == Typing /\ [Next]_vars => Typing'
<1>. SUFFICES ASSUME Typing, [Next]_vars PROVE Typing'
  OBVIOUS
<1>. USE DEF Typing
<1>1. ASSUME NEW kind \in Kinds, AddDetector(kind) PROVE Typing'
  BY <1>1 DEF AddDetector, bloomVars, cmsVars
<1>2. CASE ResetDetectors
  <2>1. 0 \in 0 .. (CounterMod - 1)
    BY BloomSizeAssumption
  <2>. QED BY <1>2, <2>1 DEF ResetDetectors, BloomReset, CmsReset, EmptyTable, NeverSeen
<1>3. ASSUME NEW e \in Events, Update(e) PROVE Typing'
  <2>1. counters' \in [Bits -> 0 .. (CounterMod - 1)] /\ wrapped' \in BOOLEAN
    <3>1. CASE BloomUpdate(e)
      <4>1. \A b \in Bits : counters[b] + Hits(e, b) \in Nat
        BY HitsPositive, BloomSizeAssumption
      <4>2. \A b \in Bits : (counters[b] + Hits(e, b)) % CounterMod \in 0 .. (CounterMod - 1)
        BY <4>1, Remainder
      <4>. QED BY <3>1, <4>2 DEF BloomUpdate
    <3>2. CASE UNCHANGED bloomVars
      BY <3>2 DEF bloomVars
    <3>. QED BY <1>3, <3>1, <3>2 DEF Update
  <2>2. table' \in [Rows -> [Columns -> Nat]]
    <3>1. CASE CmsUpdate(e)
      <4>1. ASSUME NEW i \in Rows
            PROVE  [table[i] EXCEPT ![CmsHash[e][i]] = @ + 1] \in [Columns -> Nat]
        <5>1. table[i] \in [Columns -> Nat] /\ CmsHash[e][i] \in Columns
          BY CmsHashAssumption
        <5>. QED BY <5>1
      <4>2. table' = [i \in Rows |-> [table[i] EXCEPT ![CmsHash[e][i]] = @ + 1]]
        BY <3>1 DEF CmsUpdate, Incremented
      <4>. QED BY <4>1, <4>2
    <3>2. CASE UNCHANGED cmsVars
      BY <3>2 DEF cmsVars
    <3>. QED BY <1>3, <3>1, <3>2 DEF Update
  <2>3. seen' \in [Kinds -> [Events -> Nat]]
    BY <1>3 DEF Update
  <2>. QED BY <2>1, <2>2, <2>3
<1>4. CASE Rebuild
  BY <1>4, RebuildKeeps DEF bloomVars
<1>5. CASE UNCHANGED vars
  BY <1>5 DEF vars, bloomVars, cmsVars
<1>. QED BY <1>1, <1>2, <1>3, <1>4, <1>5 DEF Next, ClearDetectors, Reset

\* New detectors have them.
LEMMA TypingInit == Init => Typing
<1>1. 0 \in 0 .. (CounterMod - 1)
  BY BloomSizeAssumption
<1>2. Init => counters \in [Bits -> 0 .. (CounterMod - 1)] /\ wrapped \in BOOLEAN
  BY <1>1 DEF Init, BloomInit
<1>3. Init => table \in [Rows -> [Columns -> Nat]]
  BY DEF Init, CmsInit, EmptyTable
<1>4. Init => seen \in [Kinds -> [Events -> Nat]]
  BY DEF Init, NeverSeen
<1>. QED BY <1>2, <1>3, <1>4 DEF Typing

-----------------------------------------------------------------------------
(* The Bloom filter *)

\* No counter falls while none wraps, and those of the new event rise.
LEMMA BloomUpdateExact ==
    ASSUME Typing, NEW e \in Events, BloomUpdate(e), ~wrapped'
    PROVE  /\ ~wrapped
           /\ \A b \in Bits : counters'[b] >= counters[b]
           /\ \A i \in BloomSeeds : counters'[BloomHash[e][i]] > 0
<1>1. ~wrapped /\ \A b \in Bits : ~(counters[b] + Hits(e, b) >= CounterMod)
  BY DEF BloomUpdate, Typing
<1>2. \A b \in Bits : counters[b] \in Nat /\ Hits(e, b) \in Nat
  BY HitsPositive, BloomSizeAssumption DEF Typing
<1>3. \A b \in Bits : counters'[b] = counters[b] + Hits(e, b)
  <2>. SUFFICES ASSUME NEW b \in Bits PROVE counters'[b] = counters[b] + Hits(e, b)
    OBVIOUS
  <2>1. counters[b] + Hits(e, b) \in Nat /\ counters[b] + Hits(e, b) < CounterMod
    BY <1>1, <1>2, BloomSizeAssumption
  <2>2. counters'[b] = (counters[b] + Hits(e, b)) % CounterMod
    BY DEF BloomUpdate
  <2>. QED BY <2>1, <2>2, Remainder
<1>4. \A i \in BloomSeeds : BloomHash[e][i] \in Bits
  BY BloomHashAssumption
<1>5. ASSUME NEW i \in BloomSeeds PROVE counters'[BloomHash[e][i]] > 0
  BY <1>2, <1>3, <1>4, HitsPositive
<1>6. \A b \in Bits : counters'[b] >= counters[b]
  BY <1>2, <1>3
<1>. QED BY <1>1, <1>5, <1>6

\* An update raises what the filter counts of its event and lowers nothing before a wrap; a reset
\* forgets events and counters alike.
LEMMA BloomNext == Typing /\ BloomInv /\ [Next]_vars => BloomInv'
<1>. SUFFICES ASSUME Typing, BloomInv, [Next]_vars, "bloom" \in Kinds, ~wrapped',
                     NEW f \in Events, seen'["bloom"][f] > 0, NEW i \in BloomSeeds
              PROVE  counters'[BloomHash[f][i]] > 0
  BY DEF BloomInv
<1>0. BloomHash[f][i] \in Bits
  BY BloomHashAssumption
<1>1. ASSUME UNCHANGED <<bloomVars, seen>> PROVE counters'[BloomHash[f][i]] > 0
  BY <1>1 DEF bloomVars, BloomInv
<1>2. CASE ResetDetectors
  BY <1>2 DEF ResetDetectors, NeverSeen
<1>3. ASSUME NEW e \in Events, Update(e) PROVE counters'[BloomHash[f][i]] > 0
  <2>1. CASE "bloom" \in Present
    <3>1. BloomUpdate(e) /\ seen'["bloom"] = [seen["bloom"] EXCEPT ![e] = @ + 1]
      BY <1>3, <2>1 DEF Update
    <3>2. /\ ~wrapped
          /\ \A b \in Bits : counters'[b] >= counters[b]
          /\ \A j \in BloomSeeds : counters'[BloomHash[e][j]] > 0
      BY <3>1, BloomUpdateExact
    <3>3. CASE f = e
      BY <3>2, <3>3
    <3>4. CASE f # e
      <4>1. seen["bloom"][f] > 0
        BY <3>1, <3>4 DEF Typing
      <4>2. counters[BloomHash[f][i]] > 0 /\ counters[BloomHash[f][i]] \in Nat
        BY <1>0, <3>2, <4>1, BloomSizeAssumption DEF BloomInv, Typing
      <4>3. counters'[BloomHash[f][i]] \in Int
        BY <1>0, <1>3, TypingNext DEF Typing, Next
      <4>. QED BY <1>0, <3>2, <4>2, <4>3
    <3>. QED BY <3>3, <3>4
  <2>2. CASE "bloom" \notin Present
    <3>1. UNCHANGED bloomVars /\ seen'["bloom"] = seen["bloom"]
      BY <1>3, <2>2 DEF Update
    <3>. QED BY <3>1 DEF bloomVars, BloomInv
  <2>. QED BY <2>1, <2>2
<1>4. ASSUME NEW kind \in Kinds, AddDetector(kind) PROVE counters'[BloomHash[f][i]] > 0
  BY <1>1, <1>4 DEF AddDetector
<1>5. CASE Rebuild
  BY <1>1, <1>5, RebuildKeeps
<1>6. CASE UNCHANGED vars
  BY <1>1, <1>6 DEF vars
<1>. QED BY <1>2, <1>3, <1>4, <1>5, <1>6 DEF Next, ClearDetectors, Reset

\* The filter has no false negative before a counter wraps.
THEOREM KnownUnlessWrappedHolds == Spec => []KnownUnlessWrapped
<1>1. Init => Typing /\ BloomInv
  <2>1. Init => BloomInv
    BY DEF Init, BloomInv, NeverSeen
  <2>. QED BY <2>1, TypingInit
<1>2. Typing /\ BloomInv /\ [Next]_vars => Typing' /\ BloomInv'
  BY TypingNext, BloomNext
<1>3. Typing /\ BloomInv => KnownUnlessWrapped
  <2>. SUFFICES ASSUME Typing, BloomInv, "bloom" \in Kinds, ~wrapped, NEW e \in Events,
                       seen["bloom"][e] > 0, NEW i \in BloomSeeds
                PROVE  counters[BloomHash[e][i]] # 0
    BY DEF KnownUnlessWrapped, BloomContains
  <2>1. counters[BloomHash[e][i]] > 0
    BY DEF BloomInv
  <2>. QED BY <2>1
<1>. QED BY <1>1, <1>2, <1>3, PTL DEF Spec

-----------------------------------------------------------------------------
(* The sketch *)

\* An update raises one counter of each row, among them those of its event.
LEMMA CmsNext == Typing /\ CmsInv /\ [Next]_vars => CmsInv'
<1>. SUFFICES ASSUME Typing, CmsInv, [Next]_vars, "cms" \in Kinds,
                     NEW f \in Events, NEW i \in Rows
              PROVE  seen'["cms"][f] <= table'[i][CmsHash[f][i]]
  BY DEF CmsInv
<1>0. /\ CmsHash[f][i] \in Columns /\ seen["cms"][f] \in Nat
      /\ table[i][CmsHash[f][i]] \in Nat
      /\ seen["cms"][f] <= table[i][CmsHash[f][i]]
  BY CmsHashAssumption DEF Typing, CmsInv
<1>1. ASSUME UNCHANGED <<table, seen>> PROVE seen'["cms"][f] <= table'[i][CmsHash[f][i]]
  BY <1>0, <1>1
<1>2. CASE ResetDetectors
  BY <1>0, <1>2 DEF ResetDetectors, CmsReset, EmptyTable, NeverSeen
<1>3. ASSUME NEW e \in Events, Update(e) PROVE seen'["cms"][f] <= table'[i][CmsHash[f][i]]
  <2>1. CASE "cms" \in Present
    <3>1. /\ seen'["cms"] = [seen["cms"] EXCEPT ![e] = @ + 1]
          /\ table'[i] = [table[i] EXCEPT ![CmsHash[e][i]] = @ + 1]
      BY <1>3, <2>1 DEF Update, CmsUpdate, Incremented
    <3>2. CASE f = e
      BY <1>0, <3>1, <3>2 DEF Typing
    <3>3. CASE f # e
      BY <1>0, <3>1, <3>3 DEF Typing
    <3>. QED BY <3>2, <3>3
  <2>2. CASE "cms" \notin Present
    <3>1. UNCHANGED cmsVars /\ seen'["cms"] = seen["cms"]
      BY <1>3, <2>2 DEF Update
    <3>. QED BY <1>0, <3>1 DEF cmsVars
  <2>. QED BY <2>1, <2>2
<1>4. ASSUME NEW kind \in Kinds, AddDetector(kind)
      PROVE  seen'["cms"][f] <= table'[i][CmsHash[f][i]]
  BY <1>1, <1>4 DEF AddDetector, cmsVars
<1>5. CASE Rebuild
  BY <1>1, <1>5, RebuildKeeps
<1>6. CASE UNCHANGED vars
  BY <1>1, <1>6 DEF vars, cmsVars
<1>. QED BY <1>2, <1>3, <1>4, <1>5, <1>6 DEF Next, ClearDetectors, Reset

\* No counter of the sketch counts more than there was.
SumInv ==
    "cms" \in Kinds =>
        \A i \in Rows, j \in Columns : table[i][j] <= SumFunctionOnSet(seen["cms"], Events)

\* No event but e, of those that were counted, falls on the column of e in row i.
Alone(count, e, i) ==
    \A f \in Events \ {e} : count[f] = 0 \/ CmsHash[f][i] # CmsHash[e][i]

\* Where an event is alone, its counter is right.
AloneInv ==
    "cms" \in Kinds =>
        \A e \in Events, i \in Rows :
            Alone(seen["cms"], e, i) => table[i][CmsHash[e][i]] = seen["cms"][e]

\* The number of all updates before and after one, and after none.
LEMMA SumOfSeen ==
    ASSUME Typing, "cms" \in Kinds
    PROVE  /\ SumFunctionOnSet(seen["cms"], Events) \in Nat
           /\ \A e \in Events : seen'["cms"] = [seen["cms"] EXCEPT ![e] = @ + 1]
                 => SumFunctionOnSet(seen'["cms"], Events) = SumFunctionOnSet(seen["cms"], Events) + 1
<1>. DEFINE count == seen["cms"]
            more == seen'["cms"]
<1>1. count \in [Events -> Nat]
  BY DEF Typing
<1>2. \A e \in Events : count[e] \in Nat
  BY <1>1
<1>3. ASSUME NEW e \in Events, more = [count EXCEPT ![e] = @ + 1]
      PROVE  more[e] = count[e] + 1 /\ \A f \in Events \ {e} : more[f] = count[f]
  BY <1>1, <1>3
<1>. HIDE DEF count, more
<1>4. SumFunctionOnSet(count, Events) \in Nat
  BY <1>2, SumNat, EventsAssumption
<1>5. ASSUME NEW e \in Events, more = [count EXCEPT ![e] = @ + 1]
      PROVE  SumFunctionOnSet(more, Events) = SumFunctionOnSet(count, Events) + 1
  <2>1. more[e] = count[e] + 1 /\ \A f \in Events \ {e} : more[f] = count[f]
    BY <1>3, <1>5
  <2>. QED BY <1>2, <2>1, SumIncremented, EventsAssumption
<1>. QED BY <1>4, <1>5 DEF count, more

\* Every counter starts at zero; an update adds one to a counter of each row.
LEMMA SumNext == Typing /\ SumInv /\ [Next]_vars => SumInv'
<1>. SUFFICES ASSUME Typing, SumInv, [Next]_vars, "cms" \in Kinds,
                     NEW i \in Rows, NEW j \in Columns
              PROVE  table'[i][j] <= SumFunctionOnSet(seen'["cms"], Events)
  BY DEF SumInv
<1>. DEFINE all == SumFunctionOnSet(seen["cms"], Events)
<1>0. table[i] \in [Columns -> Nat] /\ table[i][j] \in Nat /\ table[i][j] <= all /\ all \in Nat
  BY SumOfSeen DEF Typing, SumInv
<1>1. ASSUME table' = table, seen'["cms"] = seen["cms"]
      PROVE  table'[i][j] <= SumFunctionOnSet(seen'["cms"], Events)
  BY <1>0, <1>1
<1>2. CASE ResetDetectors
  <2>1. table'[i][j] = 0 /\ seen'["cms"] = NeverSeen
    BY <1>2 DEF ResetDetectors, CmsReset, EmptyTable
  <2>2. \A e \in Events : NeverSeen[e] = 0
    BY DEF NeverSeen
  <2>3. SumFunctionOnSet(NeverSeen, Events) = 0
    BY <2>2, SumOfZeros, EventsAssumption
  <2>. QED BY <2>1, <2>3
<1>3. ASSUME NEW e \in Events, Update(e)
      PROVE  table'[i][j] <= SumFunctionOnSet(seen'["cms"], Events)
  <2>1. CASE "cms" \in Present
    <3>1. /\ seen'["cms"] = [seen["cms"] EXCEPT ![e] = @ + 1]
          /\ table'[i] = [table[i] EXCEPT ![CmsHash[e][i]] = @ + 1]
      BY <1>3, <2>1 DEF Update, CmsUpdate, Incremented
    <3>2. SumFunctionOnSet(seen'["cms"], Events) = all + 1
      BY <3>1, SumOfSeen
    <3>3. table'[i][j] \in {table[i][j], table[i][j] + 1}
      BY <1>0, <3>1
    <3>. HIDE DEF all
    <3>. QED BY <1>0, <3>2, <3>3
  <2>2. CASE "cms" \notin Present
    <3>1. table' = table /\ seen'["cms"] = seen["cms"]
      BY <1>3, <2>2 DEF Update, cmsVars
    <3>. QED BY <1>1, <3>1
  <2>. QED BY <2>1, <2>2
<1>4. ASSUME NEW kind \in Kinds, AddDetector(kind)
      PROVE  table'[i][j] <= SumFunctionOnSet(seen'["cms"], Events)
  BY <1>1, <1>4 DEF AddDetector, cmsVars
<1>5. CASE Rebuild
  BY <1>1, <1>5, RebuildKeeps
<1>6. CASE UNCHANGED vars
  BY <1>1, <1>6 DEF vars, cmsVars
<1>. QED BY <1>2, <1>3, <1>4, <1>5, <1>6 DEF Next, ClearDetectors, Reset

\* Who is alone after an update was alone before, and only it falls on its counter.
LEMMA AloneNext == Typing /\ AloneInv /\ [Next]_vars => AloneInv'
<1>. SUFFICES ASSUME Typing, AloneInv, [Next]_vars, "cms" \in Kinds,
                     NEW f \in Events, NEW i \in Rows, Alone(seen'["cms"], f, i)
              PROVE  table'[i][CmsHash[f][i]] = seen'["cms"][f]
  BY DEF AloneInv, Alone
<1>0. /\ CmsHash[f][i] \in Columns /\ seen["cms"] \in [Events -> Nat]
      /\ table[i] \in [Columns -> Nat]
      /\ Alone(seen["cms"], f, i) => table[i][CmsHash[f][i]] = seen["cms"][f]
  BY CmsHashAssumption DEF Typing, AloneInv
<1>1. ASSUME table' = table, seen'["cms"] = seen["cms"]
      PROVE  table'[i][CmsHash[f][i]] = seen'["cms"][f]
  BY <1>0, <1>1
<1>2. CASE ResetDetectors
  BY <1>0, <1>2 DEF ResetDetectors, CmsReset, EmptyTable, NeverSeen
<1>3. ASSUME NEW e \in Events, Update(e) PROVE table'[i][CmsHash[f][i]] = seen'["cms"][f]
  <2>1. CASE "cms" \in Present
    <3>1. /\ seen'["cms"] = [seen["cms"] EXCEPT ![e] = @ + 1]
          /\ table'[i] = [table[i] EXCEPT ![CmsHash[e][i]] = @ + 1]
      BY <1>3, <2>1 DEF Update, CmsUpdate, Incremented
    <3>2. \A g \in Events : seen'["cms"][g] = 0 => seen["cms"][g] = 0
      BY <1>0, <3>1
    <3>3. table[i][CmsHash[f][i]] = seen["cms"][f]
      BY <1>0, <3>2 DEF Alone
    <3>4. CASE f = e
      BY <1>0, <3>1, <3>3, <3>4
    <3>5. CASE f # e
      <4>1. seen'["cms"][e] # 0
        BY <1>0, <3>1
      <4>2. CmsHash[e][i] # CmsHash[f][i]
        BY <3>5, <4>1 DEF Alone
      <4>. QED BY <1>0, <3>1, <3>3, <3>5, <4>2
    <3>. QED BY <3>4, <3>5
  <2>2. CASE "cms" \notin Present
    <3>1. table' = table /\ seen'["cms"] = seen["cms"]
      BY <1>3, <2>2 DEF Update, cmsVars
    <3>. QED BY <1>1, <3>1
  <2>. QED BY <2>1, <2>2
<1>4. ASSUME NEW kind \in Kinds, AddDetector(kind)
      PROVE  table'[i][CmsHash[f][i]] = seen'["cms"][f]
  BY <1>1, <1>4 DEF AddDetector, cmsVars
<1>5. CASE Rebuild
  BY <1>1, <1>5, RebuildKeeps
<1>6. CASE UNCHANGED vars
  BY <1>1, <1>6 DEF vars, cmsVars
<1>. QED BY <1>2, <1>3, <1>4, <1>5, <1>6 DEF Next, ClearDetectors, Reset

\* The estimate is the counter of one row, and none of another row is smaller.
LEMMA EstimateIs ==
    ASSUME Typing, NEW e \in Events
    PROVE  /\ \E i \in Rows : Estimate(e) = table[i][CmsHash[e][i]]
           /\ \A i \in Rows : Estimate(e) <= table[i][CmsHash[e][i]]
<1>. DEFINE T == {table[i][CmsHash[e][i]] : i \in Rows}
<1>1. \A i \in Rows : table[i][CmsHash[e][i]] \in Nat
  BY CmsHashAssumption DEF Typing
<1>2. 0 \in Rows
  BY CmsSizeAssumption DEF Rows
<1>3. T \in SUBSET Nat /\ T # {}
  BY <1>1, <1>2
<1>4. \E n \in T : \A m \in T : n <= m
  <2>. HIDE DEF T
  <2>. QED BY <1>3, LeastNatural
<1>5. Min(T) \in T /\ \A m \in T : Min(T) <= m
  <2>. HIDE DEF T
  <2>. QED BY <1>4 DEF Min
<1>. QED BY <1>5 DEF Estimate

\* The estimate of an event is never below the number of its occurrences, never above the number of
\* all updates, and right when in some row no other event fell on its column,
\* for every hash and size of the sketch.
THEOREM EstimateBoundsHolds == Spec => []EstimateBounds
<1>1. Init => Typing /\ CmsInv /\ SumInv /\ AloneInv
  <2>. SUFFICES ASSUME Init PROVE CmsInv /\ SumInv /\ AloneInv
    BY TypingInit
  <2>1. ASSUME "cms" \in Kinds
        PROVE  /\ seen["cms"] = NeverSeen /\ \A e \in Events : NeverSeen[e] = 0
               /\ \A i \in Rows, j \in Columns : table[i][j] = 0
               /\ \A e \in Events, i \in Rows : CmsHash[e][i] \in Columns
    BY <2>1, CmsHashAssumption DEF Init, CmsInit, EmptyTable, NeverSeen
  <2>2. SumFunctionOnSet(NeverSeen, Events) = 0
    BY SumOfZeros, EventsAssumption DEF NeverSeen
  <2>. QED BY <2>1, <2>2 DEF CmsInv, SumInv, AloneInv
<1>2. Typing /\ CmsInv /\ SumInv /\ AloneInv /\ [Next]_vars
        => Typing' /\ CmsInv' /\ SumInv' /\ AloneInv'
  BY TypingNext, CmsNext, SumNext, AloneNext
<1>3. Typing /\ CmsInv /\ SumInv /\ AloneInv => EstimateBounds
  <2>. SUFFICES ASSUME Typing, CmsInv, SumInv, AloneInv, "cms" \in Kinds, NEW e \in Events
                PROVE  /\ seen["cms"][e] <= Estimate(e)
                       /\ Estimate(e) <= SumFunctionOnSet(seen["cms"], Events)
                       /\ (\E i \in Rows : Alone(seen["cms"], e, i)) => Estimate(e) = seen["cms"][e]
    BY DEF EstimateBounds, Alone
  <2>1. PICK i \in Rows : Estimate(e) = table[i][CmsHash[e][i]]
    BY EstimateIs
  <2>2. CmsHash[e][i] \in Columns /\ Estimate(e) \in Nat /\ seen["cms"][e] \in Nat
    BY <2>1, CmsHashAssumption DEF Typing
  <2>3. seen["cms"][e] <= Estimate(e) /\ Estimate(e) <= SumFunctionOnSet(seen["cms"], Events)
    BY <2>1, <2>2 DEF CmsInv, SumInv
  <2>4. ASSUME NEW k \in Rows, Alone(seen["cms"], e, k) PROVE Estimate(e) <= seen["cms"][e]
    BY <2>4, EstimateIs DEF AloneInv
  <2>. QED BY <2>2, <2>3, <2>4
<1>. QED BY <1>1, <1>2, <1>3, PTL DEF Spec

-----------------------------------------------------------------------------
\* What insert keeps: the tree is one, and holds what was inserted.

\* Below node n of t are n and what is below its children, apart from each other, and every
\* other one is on the side where its point belongs.  Children come later.
TreeAt(t, sub, n) ==
    /\ {t[n].left, t[n].right} \subseteq {0} \cup (n + 1) .. Len(t)
    /\ sub[n] = {n} \cup sub[t[n].left] \cup sub[t[n].right]
    /\ n \notin sub[t[n].left] \cup sub[t[n].right]
    /\ sub[t[n].left] \cap sub[t[n].right] = {}
    /\ \A m \in sub[n] \ {n} : m \in sub[Near(t[n], t[m].point)]

\* t is a tree with root 1, and sub[n] are the nodes below n.
IsTree(t, sub) ==
    /\ t \in Seq(Nodes)
    /\ sub \in [0 .. Len(t) -> SUBSET (1 .. Len(t))]
    /\ sub[0] = {} /\ (t # <<>> => sub[1] = 1 .. Len(t))
    /\ \A n \in 1 .. Len(t) : TreeAt(t, sub, n)
    /\ \A n \in 2 .. Len(t) : \E m \in 1 .. (n - 1) : n \in {t[m].left, t[m].right}

\* What of IsTree is needed again and again.
LEMMA TreeNodes ==
    ASSUME NEW t, NEW sub, IsTree(t, sub)
    PROVE  /\ Len(t) \in Nat /\ DOMAIN t = 1 .. Len(t) /\ (t # <<>> <=> Len(t) > 0)
           /\ \A n \in 1 .. Len(t) :
                /\ t[n] \in Nodes /\ t[n].point \in Nat \X Nat /\ t[n].axis \in 1 .. 2
                /\ t[n].left \in 0 .. Len(t) /\ t[n].right \in 0 .. Len(t)
                /\ t[n].left # 0 => n < t[n].left
                /\ t[n].right # 0 => n < t[n].right
<1>1. t \in Seq(Nodes)
  BY DEF IsTree
<1>2. Len(t) \in Nat /\ DOMAIN t = 1 .. Len(t) /\ (t # <<>> <=> Len(t) > 0)
  <2>. DEFINE N == Nodes
  <2>1. t \in Seq(N)
    BY <1>1
  <2>. HIDE DEF N
  <2>. QED BY <2>1, EmptySeq
<1>3. ASSUME NEW n \in 1 .. Len(t)
      PROVE  /\ t[n] \in Nodes /\ t[n].point \in Nat \X Nat /\ t[n].axis \in 1 .. 2
             /\ t[n].left \in 0 .. Len(t) /\ t[n].right \in 0 .. Len(t)
             /\ t[n].left # 0 => n < t[n].left
             /\ t[n].right # 0 => n < t[n].right
  <2>1. t[n] \in Nodes
    BY <1>1, <1>2
  <2>2. {t[n].left, t[n].right} \subseteq {0} \cup (n + 1) .. Len(t)
    BY DEF IsTree, TreeAt
  <2>3. t[n].point \in Nat \X Nat /\ t[n].axis \in 1 .. 2
    BY <2>1 DEF Nodes
  <2>. QED BY <1>2, <2>1, <2>2, <2>3
<1>. QED BY <1>2, <1>3

\* a and b are the two children of node n.
Parted(t, sub, n, a, b) ==
    /\ t[n].left \in {a, b} /\ t[n].right \in {a, b}
    /\ a \in {0} \cup (n + 1) .. Len(t) /\ b \in {0} \cup (n + 1) .. Len(t)
    /\ sub[n] = {n} \cup sub[a] \cup sub[b]
    /\ sub[a] \cap sub[b] = {} /\ n \notin sub[a] /\ n \notin sub[b]

\* They are the one near to a point and the other one.
LEMMA NearOrOther ==
    ASSUME NEW t, NEW sub, IsTree(t, sub), NEW n \in 1 .. Len(t), NEW p
    PROVE  Parted(t, sub, n, Near(t[n], p), Other(t[n], p))
<1>1. TreeAt(t, sub, n)
  BY DEF IsTree
<1>. QED BY <1>1 DEF TreeAt, Near, Other, Parted

\* place is the recursive function in Inserted(p).
Descent(place, p) ==
    place = [n \in DOMAIN tree |-> IF Near(tree[n], p) = 0 THEN n ELSE place[Near(tree[n], p)]]

\* insert_recursive goes from the root to the node below which the new one is put; that recursion
\* has a solution, and Inserted is defined by one.
LEMMA InsertedIs ==
    ASSUME NEW sub, IsTree(tree, sub), tree # <<>>, NEW p
    PROVE  \E place :
             /\ Descent(place, p) /\ place \in [1 .. Len(tree) -> 1 .. Len(tree)]
             /\ Inserted(p) =
                  Append([tree EXCEPT ![place[1]] =
                             IF GoesLeft(@, p) THEN [@ EXCEPT !.left = Len(tree) + 1]
                                               ELSE [@ EXCEPT !.right = Len(tree) + 1]],
                         [point |-> p, axis |-> 3 - tree[place[1]].axis, left |-> 0, right |-> 0])
<1>. DEFINE R(f) == Descent(f, p)
            C == CHOOSE f : R(f)
            D == 1 .. Len(tree)
            size == [n \in D |-> Len(tree) - n]
            h == [x \in D \X [D -> D] |->
                     IF Near(tree[x[1]], p) = 0 THEN x[1] ELSE x[2][Near(tree[x[1]], p)]]
<1>1. /\ Len(tree) \in Nat /\ DOMAIN tree = D /\ 1 \in D
      /\ \A n \in D : Near(tree[n], p) \in 0 .. Len(tree)
                      /\ (Near(tree[n], p) # 0 => Near(tree[n], p) \in D /\ n < Near(tree[n], p))
  BY TreeNodes DEF Near
<1>2. \A n \in D, f \in [D -> D] :
          h[<<n, f>>] = IF Near(tree[n], p) = 0 THEN n ELSE f[Near(tree[n], p)]
  OBVIOUS
<1>3. size \in [D -> Nat] /\ \A n \in D : size[n] = Len(tree) - n
  BY <1>1
<1>4. h \in [D \X [D -> D] -> D]
  <2>1. SUFFICES ASSUME NEW n \in D, NEW f \in [D -> D] PROVE h[<<n, f>>] \in D
    OBVIOUS
  <2>. HIDE DEF h, D
  <2>. QED BY <1>1, <1>2
<1>5. ASSUME NEW n \in D, NEW f \in [D -> D], NEW g \in [D -> D],
             \A y \in D : size[y] < size[n] => f[y] = g[y]
      PROVE  h[<<n, f>>] = h[<<n, g>>]
  <2>1. Near(tree[n], p) # 0 => Near(tree[n], p) \in D /\ size[Near(tree[n], p)] < size[n]
    BY <1>1, <1>3
  <2>2. Near(tree[n], p) # 0 => f[Near(tree[n], p)] = g[Near(tree[n], p)]
    BY <1>5, <2>1
  <2>3. /\ h[<<n, f>>] = IF Near(tree[n], p) = 0 THEN n ELSE f[Near(tree[n], p)]
        /\ h[<<n, g>>] = IF Near(tree[n], p) = 0 THEN n ELSE g[Near(tree[n], p)]
    BY <1>2
  <2>. QED BY <2>2, <2>3
<1>. HIDE DEF size, h
<1>6. PICK f : Solves(f, h, D, D)
  <2>1. LooksBack(h, size, D, D)
    <3>. HIDE DEF D
    <3>. QED BY <1>3, <1>4, <1>5 DEF LooksBack
  <2>. HIDE DEF D, R, C
  <2>. QED BY <1>1, <2>1, Recursion
<1>7. R(f)
  <2>1. f \in [D -> D] /\ \A n \in D : f[n] = IF Near(tree[n], p) = 0 THEN n ELSE f[Near(tree[n], p)]
    BY <1>2, <1>6 DEF Solves
  <2>. HIDE DEF D
  <2>2. f = [n \in D |-> IF Near(tree[n], p) = 0 THEN n ELSE f[Near(tree[n], p)]]
    BY <2>1
  <2>. QED BY <1>1, <2>2 DEF Descent
<1>8. R(C)
  <2>. HIDE DEF R
  <2>. QED BY <1>7
<1>9. \A n \in D : C[n] \in D
  <2>. DEFINE N == {k \in Nat : \A n \in D : Len(tree) - n = k => C[n] \in D}
  <2>1. \A n \in D : C[n] = IF Near(tree[n], p) = 0 THEN n ELSE C[Near(tree[n], p)]
    <3>. HIDE DEF C, D
    <3>. QED BY <1>1, <1>8 DEF Descent
  <2>. HIDE DEF C
  <2>2. ASSUME NEW k \in Nat, \A m \in Nat : m < k => m \in N PROVE k \in N
    <3>1. SUFFICES ASSUME NEW n \in D, Len(tree) - n = k PROVE C[n] \in D
      OBVIOUS
    <3>2. CASE Near(tree[n], p) # 0
      <4>1. Near(tree[n], p) \in D /\ Len(tree) - Near(tree[n], p) \in Nat
            /\ Len(tree) - Near(tree[n], p) < k
        BY <1>1, <3>1, <3>2
      <4>2. Len(tree) - Near(tree[n], p) \in N
        BY <2>2, <4>1
      <4>3. C[Near(tree[n], p)] \in D
        BY <4>1, <4>2
      <4>. QED BY <2>1, <3>2, <4>3
    <3>. QED BY <2>1, <3>2
  <2>. HIDE DEF N
  <2>3. Nat \subseteq N
    BY <2>2, StrongInduction
  <2>4. \A n \in D : Len(tree) - n \in Nat
    BY <1>1
  <2>. QED BY <2>3, <2>4 DEF N
<1>10. C \in [D -> D]
  <2>. HIDE DEF C, D
  <2>1. C = [n \in D |-> C[n]]
    BY <1>1, <1>8 DEF Descent
  <2>. QED BY <1>9, <2>1
<1>11. Inserted(p) =
         Append([tree EXCEPT ![C[1]] =
                    IF GoesLeft(@, p) THEN [@ EXCEPT !.left = Len(tree) + 1]
                                      ELSE [@ EXCEPT !.right = Len(tree) + 1]],
                [point |-> p, axis |-> 3 - tree[C[1]].axis, left |-> 0, right |-> 0])
  <2>1. tree # <<>>
    OBVIOUS
  <2>. QED BY Zenon, <2>1 DEF Inserted, Descent
<1>. QED BY <1>8, <1>10, <1>11

\* The descent ends below where it began, at a node without a child on the point's side.
LEMMA DescentEnds ==
    ASSUME NEW sub, IsTree(tree, sub), NEW p, NEW place, Descent(place, p),
           place \in [1 .. Len(tree) -> 1 .. Len(tree)]
    PROVE  \A n \in 1 .. Len(tree) : place[n] \in sub[n] /\ Near(tree[place[n]], p) = 0
<1>. DEFINE D == 1 .. Len(tree)
            N == {k \in Nat : \A n \in D : Len(tree) - n = k =>
                                 place[n] \in sub[n] /\ Near(tree[place[n]], p) = 0}
<1>1. Len(tree) \in Nat /\ DOMAIN tree = D
  BY TreeNodes
<1>2. \A n \in D : place[n] = IF Near(tree[n], p) = 0 THEN n ELSE place[Near(tree[n], p)]
  <2>. HIDE DEF D
  <2>. QED BY <1>1 DEF Descent
<1>3. \A n \in D : n \in sub[n] /\ sub[Near(tree[n], p)] \subseteq sub[n]
                   /\ Near(tree[n], p) \in {0} \cup (n + 1) .. Len(tree)
  <2>. SUFFICES ASSUME NEW n \in D
                PROVE  n \in sub[n] /\ sub[Near(tree[n], p)] \subseteq sub[n]
                       /\ Near(tree[n], p) \in {0} \cup (n + 1) .. Len(tree)
    OBVIOUS
  <2>1. Parted(tree, sub, n, Near(tree[n], p), Other(tree[n], p))
    BY NearOrOther
  <2>. QED BY <2>1 DEF Parted
<1>4. ASSUME NEW k \in Nat, \A m \in Nat : m < k => m \in N PROVE k \in N
  <2>1. SUFFICES ASSUME NEW n \in D, Len(tree) - n = k
                 PROVE  place[n] \in sub[n] /\ Near(tree[place[n]], p) = 0
    OBVIOUS
  <2>2. CASE Near(tree[n], p) = 0
    BY <1>2, <1>3, <2>2
  <2>3. CASE Near(tree[n], p) # 0
    <3>1. Near(tree[n], p) \in D /\ Len(tree) - Near(tree[n], p) \in Nat
          /\ Len(tree) - Near(tree[n], p) < k
      BY <1>1, <1>3, <2>1, <2>3
    <3>2. Len(tree) - Near(tree[n], p) \in N
      BY <1>4, <3>1
    <3>3. place[Near(tree[n], p)] \in sub[Near(tree[n], p)]
          /\ Near(tree[place[Near(tree[n], p)]], p) = 0
      BY <3>1, <3>2
    <3>. QED BY <1>2, <1>3, <2>3, <3>3
  <2>. QED BY <2>2, <2>3
<1>. HIDE DEF N
<1>5. Nat \subseteq N
  BY <1>4, StrongInduction
<1>6. \A n \in D : Len(tree) - n \in Nat
  BY <1>1
<1>. QED BY <1>5, <1>6 DEF N

\* Whoever has the end of the descent below itself was on the way there.
LEMMA DescentPasses ==
    ASSUME NEW sub, IsTree(tree, sub), tree # <<>>, NEW p, NEW place, Descent(place, p),
           place \in [1 .. Len(tree) -> 1 .. Len(tree)]
    PROVE  \A n \in 1 .. Len(tree) : place[1] \in sub[n] => place[n] = place[1]
<1>. DEFINE D == 1 .. Len(tree)
            N == {n \in Nat : n \in D /\ place[1] \in sub[n] => place[n] = place[1]}
<1>1. Len(tree) \in Nat /\ DOMAIN tree = D /\ 1 \in D
  BY TreeNodes
<1>2. \A n \in D : place[n] = IF Near(tree[n], p) = 0 THEN n ELSE place[Near(tree[n], p)]
  <2>. HIDE DEF D
  <2>. QED BY <1>1 DEF Descent
<1>3. ASSUME NEW n \in Nat, \A m \in Nat : m < n => m \in N PROVE n \in N
  <2>1. SUFFICES ASSUME n \in D, place[1] \in sub[n], n # 1 PROVE place[n] = place[1]
    OBVIOUS
  <2>2. PICK m \in 1 .. (n - 1) : n \in {tree[m].left, tree[m].right}
    BY <1>1, <2>1 DEF IsTree
  <2>3. m \in D /\ m \in Nat /\ m < n /\ m \in N
    BY <1>1, <1>3, <2>1
  <2>. DEFINE near == Near(tree[m], p)
              other == Other(tree[m], p)
  <2>4. /\ n \in {near, other} /\ sub[m] = {m} \cup sub[near] \cup sub[other]
        /\ sub[near] \cap sub[other] = {} /\ near \in {0} \cup (m + 1) .. Len(tree)
        /\ m \notin sub[near] /\ m \notin sub[other]
    <3>1. m \in 1 .. Len(tree)
      BY <2>3
    <3>2. Parted(tree, sub, m, near, other)
      BY <3>1, NearOrOther
    <3>. QED BY <2>2, <3>2 DEF Parted
  <2>. HIDE DEF near, other
  <2>5. place[m] = place[1] /\ place[1] \in sub[m]
    BY <2>1, <2>3, <2>4
  <2>6. near # 0
    <3>1. SUFFICES ASSUME near = 0 PROVE FALSE
      OBVIOUS
    <3>2. place[m] = m
      BY <1>2, <2>3, <3>1 DEF near
    <3>. QED BY <2>1, <2>4, <2>5, <3>2
  <2>7. near \in D /\ place[m] = place[near]
    BY <1>1, <1>2, <2>3, <2>4, <2>6 DEF near
  <2>8. place[near] \in sub[near]
    BY <2>7, DescentEnds
  <2>9. n = near
    BY <2>1, <2>4, <2>5, <2>7, <2>8
  <2>. QED BY <2>5, <2>7, <2>9
<1>. HIDE DEF N
<1>4. Nat \subseteq N
  BY <1>3, StrongInduction
<1>. QED BY <1>1, <1>4 DEF N

\* An inserted point is a new node below all nodes on its way, on its side of each.
LEMMA InsertedIsTree ==
    ASSUME NEW sub, IsTree(tree, sub), NEW p \in Nat \X Nat
    PROVE  /\ \E below : IsTree(Inserted(p), below)
           /\ Len(Inserted(p)) = Len(tree) + 1
           /\ \A n \in 1 .. Len(tree) : Inserted(p)[n].point = tree[n].point
           /\ Inserted(p)[Len(tree) + 1].point = p
<1>1. CASE tree = <<>>
  <2>. DEFINE node == [point |-> p, axis |-> 1, left |-> 0, right |-> 0]
              below == [n \in 0 .. 1 |-> IF n = 0 THEN {} ELSE {1}]
  <2>1. Inserted(p) = <<node>>
    BY <1>1 DEF Inserted
  <2>2. node \in Nodes /\ node.left = 0 /\ node.right = 0 /\ node.point = p
    BY DEF Nodes
  <2>. HIDE DEF node
  <2>3. <<node>> \in Seq(Nodes) /\ Len(<<node>>) = 1 /\ <<node>>[1] = node /\ <<node>> # <<>>
    BY <2>2
  <2>4. TreeAt(<<node>>, below, 1)
    BY <2>2, <2>3 DEF TreeAt
  <2>5. below \in [0 .. 1 -> SUBSET (1 .. 1)] /\ below[0] = {} /\ below[1] = 1 .. 1
    OBVIOUS
  <2>. DEFINE t == <<node>>
  <2>6. /\ \A n \in 1 .. Len(t) : TreeAt(t, below, n)
        /\ \A n \in 2 .. Len(t) : \E m \in 1 .. (n - 1) : n \in {t[m].left, t[m].right}
    BY <2>3, <2>4
  <2>7. IsTree(t, below)
    <3>. HIDE DEF t, below
    <3>1. t \in Seq(Nodes) /\ Len(t) = 1
      BY <2>3 DEF t
    <3>. QED BY <2>5, <2>6, <3>1 DEF IsTree
  <2>8. Len(tree) = 0
    BY <1>1
  <2>. QED BY <2>1, <2>2, <2>3, <2>7, <2>8
<1>2. CASE tree # <<>>
  <2>1. PICK place : /\ Descent(place, p) /\ place \in [1 .. Len(tree) -> 1 .. Len(tree)]
                     /\ Inserted(p) =
                          Append([tree EXCEPT ![place[1]] =
                                     IF GoesLeft(@, p) THEN [@ EXCEPT !.left = Len(tree) + 1]
                                                       ELSE [@ EXCEPT !.right = Len(tree) + 1]],
                                 [point |-> p, axis |-> 3 - tree[place[1]].axis, left |-> 0, right |-> 0])
    BY <1>2, InsertedIs
  <2>. DEFINE len == Len(tree)
              new == len + 1
              par == place[1]
              changed == IF GoesLeft(tree[par], p) THEN [tree[par] EXCEPT !.left = new]
                                                   ELSE [tree[par] EXCEPT !.right = new]
              node == [point |-> p, axis |-> 3 - tree[par].axis, left |-> 0, right |-> 0]
              t == Inserted(p)
              below == [n \in 0 .. new |-> IF n = new THEN {new}
                                           ELSE IF par \in sub[n] THEN sub[n] \cup {new} ELSE sub[n]]
  <2>2. /\ len \in Nat /\ len > 0 /\ DOMAIN tree = 1 .. len /\ tree \in Seq(Nodes) /\ par \in 1 .. len
        /\ tree[par] \in Nodes /\ tree[par].axis \in 1 .. 2
    BY <1>2, <2>1, TreeNodes DEF IsTree
  <2>3. /\ changed \in Nodes /\ changed.point = tree[par].point /\ changed.axis = tree[par].axis
        /\ changed.left = (IF GoesLeft(tree[par], p) THEN new ELSE tree[par].left)
        /\ changed.right = (IF GoesLeft(tree[par], p) THEN tree[par].right ELSE new)
    <3>. DEFINE x == tree[par]
    <3>1. x \in Nodes /\ new \in Nat
      BY <2>2
    <3>. HIDE DEF x, new, par, len
    <3>2. CASE GoesLeft(x, p)
      <4>1. changed = [x EXCEPT !.left = new]
        BY <3>2 DEF x
      <4>. HIDE DEF changed
      <4>. QED BY <3>1, <3>2, <4>1 DEF x, Nodes
    <3>3. CASE ~GoesLeft(x, p)
      <4>1. changed = [x EXCEPT !.right = new]
        BY <3>3 DEF x
      <4>. HIDE DEF changed
      <4>. QED BY <3>1, <3>3, <4>1 DEF x, Nodes
    <3>. QED BY <3>2, <3>3
  <2>4. node \in Nodes /\ node.left = 0 /\ node.right = 0 /\ node.point = p
    <3>1. 3 - tree[par].axis \in 1 .. 2
      BY <2>2
    <3>. QED BY <3>1 DEF Nodes
  <2>5. /\ t \in Seq(Nodes) /\ Len(t) = new /\ t[new] = node /\ t[par] = changed
        /\ \A n \in 1 .. len : n # par => t[n] = tree[n]
    <3>. DEFINE u == [tree EXCEPT ![par] = changed]
                S == Nodes
    <3>1. t = Append(u, node)
      BY <2>1
    <3>2. tree \in Seq(S) /\ changed \in S /\ node \in S
      BY <2>2, <2>3, <2>4
    <3>. HIDE DEF S, changed, node, t, par, len
    <3>3. u \in Seq(S) /\ Len(u) = Len(tree) /\ \A n \in 1 .. Len(tree) : u[n] = IF n = par THEN changed ELSE tree[n]
      BY <2>2, <3>2 DEF len
    <3>. HIDE DEF u
    <3>. QED BY <2>2, <3>1, <3>2, <3>3 DEF S, len
  <2>6. par \in sub[1] /\ Near(tree[par], p) = 0 /\ \A n \in 1 .. len : par \in sub[n] => place[n] = par
    <3>1. \A n \in 1 .. len : place[n] \in sub[n] /\ Near(tree[place[n]], p) = 0
      BY <2>1, DescentEnds
    <3>2. \A n \in 1 .. len : place[1] \in sub[n] => place[n] = place[1]
      BY <1>2, <2>1, DescentPasses
    <3>. QED BY <2>2, <3>1, <3>2
  <2>7. /\ below \in [0 .. new -> SUBSET (1 .. new)] /\ below[0] = {} /\ below[new] = {new}
        /\ \A n \in 0 .. len : below[n] = IF par \in sub[n] THEN sub[n] \cup {new} ELSE sub[n]
    BY <2>2 DEF IsTree
  <2>8. /\ \A n \in 1 .. len : t[n].point = tree[n].point
        /\ \A n \in 0 .. len : sub[n] \subseteq 1 .. len
        /\ new \notin 1 .. len /\ sub[0] = {}
    <3>1. \A n \in 1 .. len : t[n].point = tree[n].point
      <4>. HIDE DEF t, changed, par, new
      <4>. QED BY <2>3, <2>5
    <3>2. sub \in [0 .. len -> SUBSET (1 .. len)] /\ sub[0] = {}
      BY DEF IsTree
    <3>3. new \notin 1 .. len
      BY <2>2
    <3>. QED BY <3>1, <3>2, <3>3
  <2>9. ASSUME NEW n \in 1 .. len, n # par PROVE TreeAt(t, below, n)
    <3>. DEFINE a == tree[n].left
                b == tree[n].right
    <3>1. t[n] = tree[n] /\ TreeAt(tree, sub, n)
      BY <2>5, <2>9 DEF IsTree
    <3>2. a \in 0 .. len /\ b \in 0 .. len /\ {a, b} \subseteq {0} \cup (n + 1) .. new
      <4>1. {a, b} \subseteq {0} \cup (n + 1) .. len
        BY <3>1 DEF TreeAt
      <4>. QED BY <2>2, <4>1
    <3>3. /\ sub[n] = {n} \cup sub[a] \cup sub[b] /\ n \notin sub[a] \cup sub[b]
          /\ sub[a] \cap sub[b] = {}
          /\ \A m \in sub[n] \ {n} : m \in sub[Near(tree[n], tree[m].point)]
      BY <3>1 DEF TreeAt
    <3>4. ASSUME NEW m \in below[n] \ {n} PROVE m \in below[Near(t[n], t[m].point)]
      <4>1. CASE m = new
        <5>1. par \in sub[n]
          BY <2>7, <2>8, <4>1
        <5>2. place[n] = par /\ place[n] = IF Near(tree[n], p) = 0 THEN n ELSE place[Near(tree[n], p)]
          BY <2>1, <2>2, <2>6, <5>1 DEF Descent
        <5>3. Near(tree[n], p) \in 1 .. len /\ par = place[Near(tree[n], p)]
          BY <2>9, <3>2, <5>2 DEF Near
        <5>4. par \in sub[Near(tree[n], p)]
          BY <2>1, <5>3, DescentEnds
        <5>5. t[m].point = p /\ new \in below[Near(tree[n], p)]
          BY <2>2, <2>4, <2>5, <2>7, <4>1, <5>3, <5>4
        <5>. QED BY <3>1, <4>1, <5>5
      <4>2. CASE m # new
        <5>1. m \in sub[n] \ {n}
          BY <2>7, <4>2
        <5>2. m \in sub[Near(tree[n], tree[m].point)] /\ t[m].point = tree[m].point
          BY <2>8, <3>3, <5>1
        <5>3. Near(tree[n], tree[m].point) \in 0 .. len
          BY <3>2 DEF Near
        <5>. QED BY <2>7, <3>1, <5>2, <5>3
      <4>. QED BY <4>1, <4>2
    <3>5. below[n] = {n} \cup below[a] \cup below[b] /\ n \notin below[a] \cup below[b]
          /\ below[a] \cap below[b] = {}
      <4>1. /\ below[n] = (IF par \in sub[n] THEN sub[n] \cup {new} ELSE sub[n])
            /\ below[a] = (IF par \in sub[a] THEN sub[a] \cup {new} ELSE sub[a])
            /\ below[b] = (IF par \in sub[b] THEN sub[b] \cup {new} ELSE sub[b])
        BY <2>2, <2>7, <3>2
      <4>2. new \notin sub[a] /\ new \notin sub[b] /\ n # new
        BY <2>8, <3>2
      <4>. HIDE DEF a, b, par, new, below
      <4>. QED BY <2>9, <3>3, <4>1, <4>2
    <3>. HIDE DEF below, t
    <3>. QED BY <2>5, <3>1, <3>2, <3>4, <3>5 DEF TreeAt
  <2>10. TreeAt(t, below, par)
    <3>. DEFINE a == tree[par].left
                b == tree[par].right
    <3>1. TreeAt(tree, sub, par)
      BY <2>2 DEF IsTree
    <3>2. a \in {0} \cup (par + 1) .. len /\ b \in {0} \cup (par + 1) .. len
          /\ a \in 0 .. len /\ b \in 0 .. len /\ new \in (par + 1) .. new
      <4>1. {a, b} \subseteq {0} \cup (par + 1) .. len
        BY <3>1 DEF TreeAt
      <4>. QED BY <2>2, <4>1
    <3>3. /\ sub[par] = {par} \cup sub[a] \cup sub[b] /\ par \notin sub[a] \cup sub[b]
          /\ \A m \in sub[par] \ {par} : m \in sub[Near(tree[par], tree[m].point)]
      BY <3>1 DEF TreeAt
    <3>4. /\ below[par] = sub[par] \cup {new} /\ below[a] = sub[a] /\ below[b] = sub[b]
          /\ below[new] = {new}
      BY <2>2, <2>7, <3>2, <3>3
    <3>5. new # par /\ new \notin sub[a] /\ new \notin sub[b]
      BY <2>2, <2>8, <3>2
    <3>6. \A q : GoesLeft(changed, q) = GoesLeft(tree[par], q)
      BY <2>3 DEF GoesLeft
    <3>7. \A m \in sub[par] : t[m].point = tree[m].point
      BY <2>2, <2>8
    <3>8. CASE GoesLeft(tree[par], p)
      <4>1. a = 0 /\ changed.left = new /\ changed.right = b
        BY <2>3, <2>6, <3>8 DEF Near
      <4>2. ASSUME NEW m \in below[par] \ {par} PROVE m \in below[Near(t[par], t[m].point)]
        <5>1. CASE m = new
          <6>1. t[m].point = p /\ t[par] = changed /\ m \in below[new]
            BY <2>4, <2>5, <3>4, <5>1
          <6>2. Near(changed, p) = new
            BY <3>6, <3>8, <4>1 DEF Near
          <6>. QED BY <6>1, <6>2
        <5>2. CASE m # new
          <6>1. m \in sub[par] \ {par}
            BY <3>4, <5>2
          <6>2. m \in sub[Near(tree[par], tree[m].point)] /\ t[m].point = tree[m].point
            BY <3>3, <3>7, <6>1
          <6>3. ~GoesLeft(tree[par], tree[m].point) /\ m \in sub[b]
            BY <2>8, <4>1, <6>2 DEF Near
          <6>4. Near(changed, tree[m].point) = b
            BY <3>6, <4>1, <6>3 DEF Near
          <6>. QED BY <2>5, <3>4, <6>2, <6>3, <6>4
        <5>. QED BY <5>1, <5>2
      <4>3. /\ below[par] = {par} \cup below[new] \cup below[b]
            /\ par \notin below[new] \cup below[b] /\ below[new] \cap below[b] = {}
        <5>1. sub[0] = {}
          BY <2>8
        <5>. HIDE DEF below, a, b, new, par
        <5>. QED BY <3>3, <3>4, <3>5, <4>1, <5>1
      <4>4. t[par].left = new /\ t[par].right = b
            /\ {new, b} \subseteq {0} \cup (par + 1) .. Len(t)
        BY <2>2, <2>5, <3>2, <4>1
      <4>. HIDE DEF below, t, changed, new, par, a, b
      <4>. QED BY <4>2, <4>3, <4>4 DEF TreeAt
    <3>9. CASE ~GoesLeft(tree[par], p)
      <4>1. b = 0 /\ changed.left = a /\ changed.right = new
        BY <2>3, <2>6, <3>9 DEF Near
      <4>2. ASSUME NEW m \in below[par] \ {par} PROVE m \in below[Near(t[par], t[m].point)]
        <5>1. CASE m = new
          <6>1. t[m].point = p /\ t[par] = changed /\ m \in below[new]
            BY <2>4, <2>5, <3>4, <5>1
          <6>2. Near(changed, p) = new
            BY <3>6, <3>9, <4>1 DEF Near
          <6>. QED BY <6>1, <6>2
        <5>2. CASE m # new
          <6>1. m \in sub[par] \ {par}
            BY <3>4, <5>2
          <6>2. m \in sub[Near(tree[par], tree[m].point)] /\ t[m].point = tree[m].point
            BY <3>3, <3>7, <6>1
          <6>3. GoesLeft(tree[par], tree[m].point) /\ m \in sub[a]
            BY <2>8, <4>1, <6>2 DEF Near
          <6>4. Near(changed, tree[m].point) = a
            BY <3>6, <4>1, <6>3 DEF Near
          <6>. QED BY <2>5, <3>4, <6>2, <6>3, <6>4
        <5>. QED BY <5>1, <5>2
      <4>3. /\ below[par] = {par} \cup below[a] \cup below[new]
            /\ par \notin below[a] \cup below[new] /\ below[a] \cap below[new] = {}
        <5>1. sub[0] = {}
          BY <2>8
        <5>. HIDE DEF below, a, b, new, par
        <5>. QED BY <3>3, <3>4, <3>5, <4>1, <5>1
      <4>4. t[par].left = a /\ t[par].right = new
            /\ {a, new} \subseteq {0} \cup (par + 1) .. Len(t)
        BY <2>2, <2>5, <3>2, <4>1
      <4>. HIDE DEF below, t, changed, new, par, a, b
      <4>. QED BY <4>2, <4>3, <4>4 DEF TreeAt
    <3>. QED BY <3>8, <3>9
  <2>11. TreeAt(t, below, new)
    <3>. HIDE DEF below, t, node, new
    <3>1. t[new].left = 0 /\ t[new].right = 0
      BY <2>4, <2>5
    <3>. QED BY <2>7, <3>1 DEF TreeAt
  <2>12. ASSUME NEW n \in 2 .. new PROVE \E m \in 1 .. (n - 1) : n \in {t[m].left, t[m].right}
    <3>1. CASE n = new
      <4>1. par \in 1 .. (n - 1)
        BY <2>2, <3>1
      <4>2. n \in {t[par].left, t[par].right}
        BY <2>3, <2>5, <3>1
      <4>. QED BY <4>1, <4>2
    <3>2. CASE n # new
      <4>1. n \in 2 .. len /\ n # 0
        BY <2>2, <3>2
      <4>2. PICK m \in 1 .. (n - 1) : n \in {tree[m].left, tree[m].right}
        BY <4>1 DEF IsTree
      <4>3. m \in 1 .. len
        BY <2>2, <4>1
      <4>4. CASE m = par
        BY <2>3, <2>5, <2>6, <4>1, <4>2, <4>4 DEF Near
      <4>5. CASE m # par
        BY <2>5, <4>2, <4>3, <4>5
      <4>. QED BY <4>4, <4>5
    <3>. QED BY <3>1, <3>2
  <2>13. IsTree(t, below)
    <3>1. \A n \in 1 .. Len(t) : TreeAt(t, below, n)
      <4>1. \A n \in 1 .. Len(t) : n = new \/ n \in 1 .. len
        BY <2>2, <2>5
      <4>. HIDE DEF t, below, new
      <4>. QED BY <2>9, <2>10, <2>11, <4>1
    <3>2. below[1] = 1 .. Len(t)
      <4>1. sub[1] = 1 .. len /\ 1 \in 0 .. len /\ 1 # new
        BY <1>2, <2>2 DEF IsTree
      <4>2. below[1] = (1 .. len) \cup {new}
        BY <2>6, <2>7, <4>1
      <4>3. (1 .. len) \cup {new} = 1 .. new
        <5>. HIDE DEF len
        <5>. QED BY <2>2
      <4>. HIDE DEF below, t, new
      <4>. QED BY <2>5, <4>2, <4>3
    <3>. HIDE DEF t, below
    <3>. QED BY <2>5, <2>7, <2>12, <3>1, <3>2 DEF IsTree
  <2>. HIDE DEF below
  <2>. QED BY <2>4, <2>5, <2>8, <2>13
<1>. QED BY <1>1, <1>2

\* The nodes whose points are in P, and the events whose points are.
Points(t, P) == {n \in 1 .. Len(t) : t[n].point \in P}
EventsIn(P) == {e \in Events : Feature[e] \in P}

\* The tree has as many nodes of any points as there were events of these points.
Counted(t, count) ==
    \A P \in SUBSET (Nat \X Nat) :
        Cardinality(Points(t, P)) = SumFunctionOnSet(count, EventsIn(P))

\* recent_points_ is as long as it may be.
Recalled(points, updates) ==
    /\ points \in Seq(Nat \X Nat)
    /\ Len(points) = IF updates < MaxPoints THEN updates ELSE MaxPoints

\* The inductive invariant of the KD-tree detector.
TreeInv ==
    "kdtree" \in Kinds =>
        /\ \E sub : IsTree(tree, sub)
        /\ Counted(tree, seen["kdtree"])
        /\ Recalled(recent, Updates("kdtree"))

\* One more node has the point of one more event.
LEMMA InsertedCounted ==
    ASSUME NEW sub, IsTree(tree, sub), NEW e \in Events,
           NEW count \in [Events -> Nat], Counted(tree, count)
    PROVE  Counted(Inserted(Feature[e]), [count EXCEPT ![e] = @ + 1])
<1>. DEFINE t == Inserted(Feature[e])
            more == [count EXCEPT ![e] = @ + 1]
            new == Len(tree) + 1
<1>1. Feature[e] \in Nat \X Nat
  BY FeatureAssumption
<1>2. /\ Len(tree) \in Nat /\ Len(t) = new /\ t[new].point = Feature[e]
      /\ \A n \in 1 .. Len(tree) : t[n].point = tree[n].point
  BY <1>1, InsertedIsTree, TreeNodes
<1>3. SUFFICES ASSUME NEW P \in SUBSET (Nat \X Nat)
               PROVE  Cardinality(Points(t, P)) = SumFunctionOnSet(more, EventsIn(P))
  BY DEF Counted
<1>4. /\ \A x \in Events : count[x] \in Nat
      /\ more[e] = count[e] + 1 /\ \A x \in Events \ {e} : more[x] = count[x]
  OBVIOUS
<1>. HIDE DEF t, more
<1>5. IsFiniteSet(EventsIn(P)) /\ EventsIn(P) \subseteq Events
  BY EventsAssumption, FS_Subset DEF EventsIn
<1>6. SumFunctionOnSet(more, EventsIn(P))
        = SumFunctionOnSet(count, EventsIn(P)) + IF e \in EventsIn(P) THEN 1 ELSE 0
  <2>1. /\ \A x \in EventsIn(P) : count[x] \in Nat
        /\ e \in EventsIn(P) => more[e] = count[e] + 1
        /\ \A x \in EventsIn(P) \ {e} : more[x] = count[x]
    BY <1>4, <1>5
  <2>. QED BY <1>5, <2>1, SumOneMore
<1>7. IsFiniteSet(Points(tree, P))
  <2>1. IsFiniteSet(1 .. Len(tree))
    BY <1>2, FS_Interval
  <2>2. Points(tree, P) \subseteq 1 .. Len(tree)
    BY DEF Points
  <2>. QED BY <2>1, <2>2, FS_Subset
<1>8. new \notin Points(tree, P)
  BY <1>2 DEF Points
<1>9. CASE Feature[e] \in P
  <2>1. Points(t, P) = Points(tree, P) \cup {new}
    BY <1>2, <1>9 DEF Points
  <2>2. Cardinality(Points(t, P)) = Cardinality(Points(tree, P)) + 1
    BY <1>7, <1>8, <2>1, FS_AddElement
  <2>. QED BY <1>6, <1>9, <2>2 DEF Counted, EventsIn
<1>10. CASE Feature[e] \notin P
  <2>1. Points(t, P) = Points(tree, P)
    BY <1>2, <1>10 DEF Points
  <2>2. SumFunctionOnSet(more, EventsIn(P)) = SumFunctionOnSet(count, EventsIn(P))
    <3>1. SumFunctionOnSet(count, EventsIn(P)) \in Nat
      BY <1>4, <1>5, SumNat
    <3>. QED BY <1>6, <1>10, <3>1 DEF EventsIn
  <2>. QED BY <2>1, <2>2 DEF Counted
<1>. QED BY <1>9, <1>10

\* recent_points_ drops its first point when it is full.
LEMMA RecalledOneMore ==
    ASSUME NEW updates \in Nat, Recalled(recent, updates), NEW p \in Nat \X Nat
    PROVE  Recalled(Append(IF Len(recent) >= MaxPoints THEN Tail(recent) ELSE recent, p), updates + 1)
<1>. DEFINE N == Nat \X Nat
<1>1. MaxPoints \in Nat /\ MaxPoints > 0
  BY NeighboursAssumption
<1>2. recent \in Seq(N) /\ Len(recent) = IF updates < MaxPoints THEN updates ELSE MaxPoints
  BY DEF Recalled
<1>3. p \in N
  OBVIOUS
<1>. HIDE DEF N
<1>4. CASE Len(recent) >= MaxPoints
  <2>1. ~(updates < MaxPoints) /\ Len(recent) = MaxPoints /\ recent # <<>>
    BY <1>1, <1>2, <1>4, EmptySeq
  <2>2. Append(Tail(recent), p) \in Seq(N) /\ Len(Append(Tail(recent), p)) = MaxPoints
    BY <1>1, <1>2, <1>3, <2>1
  <2>. QED BY <1>1, <1>4, <2>1, <2>2 DEF Recalled, N
<1>5. CASE ~(Len(recent) >= MaxPoints)
  <2>1. updates < MaxPoints /\ Len(recent) = updates
    BY <1>1, <1>2, <1>5
  <2>2. Append(recent, p) \in Seq(N) /\ Len(Append(recent, p)) = updates + 1
    BY <1>2, <1>3, <2>1
  <2>. QED BY <1>1, <1>5, <2>1, <2>2 DEF Recalled, N
<1>. QED BY <1>4, <1>5

\* Nothing is in an empty tree.
LEMMA EmptyTree ==
    /\ \E sub : IsTree(<<>>, sub)
    /\ Counted(<<>>, NeverSeen)
    /\ Recalled(<<>>, SumFunctionOnSet(NeverSeen, Events))
<1>1. \A e \in Events : NeverSeen[e] = 0
  BY DEF NeverSeen
<1>2. SumFunctionOnSet(NeverSeen, Events) = 0
  BY <1>1, SumOfZeros, EventsAssumption
<1>3. Counted(<<>>, NeverSeen)
  <2>1. SUFFICES ASSUME NEW P \in SUBSET (Nat \X Nat)
                 PROVE  Cardinality(Points(<<>>, P)) = SumFunctionOnSet(NeverSeen, EventsIn(P))
    BY DEF Counted
  <2>2. Points(<<>>, P) = {}
    BY DEF Points
  <2>3. IsFiniteSet(EventsIn(P)) /\ EventsIn(P) \subseteq Events
    BY EventsAssumption, FS_Subset DEF EventsIn
  <2>4. SumFunctionOnSet(NeverSeen, EventsIn(P)) = 0
    BY <1>1, <2>3, SumOfZeros
  <2>. QED BY <2>2, <2>4, FS_EmptySet
<1>4. IsTree(<<>>, [n \in {0} |-> {}])
  <2>. DEFINE sub == [n \in {0} |-> {}]
              t == <<>>
  <2>1. t \in Seq(Nodes) /\ Len(t) = 0 /\ 0 .. 0 = {0}
    OBVIOUS
  <2>2. sub \in [{0} -> SUBSET (1 .. 0)] /\ sub[0] = {}
    OBVIOUS
  <2>3. t = <<>>
    OBVIOUS
  <2>. HIDE DEF sub, t
  <2>. QED BY <2>1, <2>2, <2>3 DEF IsTree
<1>5. Recalled(<<>>, 0)
  <2>1. 0 < MaxPoints
    BY NeighboursAssumption
  <2>2. <<>> \in Seq(Nat \X Nat) /\ Len(<<>>) = 0
    OBVIOUS
  <2>. QED BY <2>1, <2>2 DEF Recalled
<1>. QED BY <1>2, <1>3, <1>4, <1>5

-----------------------------------------------------------------------------
\* What nearest_recursive finds: no subtree it leaves out could have changed the list.

\* How many of the distances found are at most x, and no more than K.
Within(best, x) == Cardinality({i \in 1 .. K : best[i] <= x})
Capped(n) == IF n < K THEN n ELSE K

\* There are K distances; when the last one is small enough, all are.
LEMMA WithinBounds ==
    ASSUME NEW best \in Best, NEW x \in Nat
    PROVE  /\ best \in [1 .. K -> Nat] /\ K \in Nat /\ K >= 1 /\ K \in 1 .. K
           /\ Within(best, x) \in 0 .. K
           /\ best[K] <= x => Within(best, x) = K
<1>1. K \in Nat /\ K >= 1 /\ K \in 1 .. K /\ best \in [1 .. K -> Nat]
  BY NeighboursAssumption DEF Best
<1>2. IsFiniteSet(1 .. K) /\ Cardinality(1 .. K) = K
  BY <1>1, FS_Interval
<1>. DEFINE A == {i \in 1 .. K : best[i] <= x}
<1>3. A \subseteq 1 .. K
  OBVIOUS
<1>4. Cardinality(A) \in Nat /\ Cardinality(A) <= K
  BY <1>2, <1>3, FS_Subset, FS_CardinalityType
<1>5. ASSUME best[K] <= x PROVE A = 1 .. K
  <2>1. SUFFICES ASSUME NEW i \in 1 .. K PROVE best[i] <= x
    OBVIOUS
  <2>2. best[i] <= best[K] /\ best[i] \in Nat /\ best[K] \in Nat
    BY <1>1 DEF Best
  <2>. QED BY <1>5, <2>2
<1>6. Within(best, x) = Cardinality(A)
  BY DEF Within
<1>. HIDE DEF A
<1>. QED BY <1>1, <1>2, <1>4, <1>5, <1>6

\* The places of a list into which one element is put at place m, taken from the end.
LEMMA Moved ==
    ASSUME NEW k \in Nat, NEW m \in 1 .. k
    PROVE  [i \in 1 .. k |-> IF i < m THEN i ELSE IF i = m THEN k ELSE i - 1]
              \in Bijection(1 .. k, 1 .. k)
<1>. DEFINE q == [i \in 1 .. k |-> IF i < m THEN i ELSE IF i = m THEN k ELSE i - 1]
<1>1. q \in [1 .. k -> 1 .. k]
  OBVIOUS
<1>2. ASSUME NEW i \in 1 .. k, NEW j \in 1 .. k, q[i] = q[j] PROVE i = j
  BY <1>2
<1>3. ASSUME NEW j \in 1 .. k PROVE \E i \in 1 .. k : q[i] = j
  <2>1. CASE j < m
    <3>1. q[j] = j
      BY <2>1
    <3>. QED BY <3>1
  <2>2. CASE j = k
    <3>1. q[m] = j
      BY <2>2
    <3>. QED BY <3>1
  <2>3. CASE ~(j < m) /\ j # k
    <3>1. j + 1 \in 1 .. k /\ q[j + 1] = j
      BY <2>3
    <3>. QED BY <3>1
  <2>. QED BY <2>1, <2>2, <2>3
<1>. HIDE DEF q
<1>. QED BY <1>1, <1>2, <1>3 DEF Bijection, Injection, Surjection, IsInjective, q

\* t has the K distances of s, and rises.
SortsInto(s, t) ==
    /\ t \in Best
    /\ \E p \in Bijection(1 .. K, 1 .. K) : t = [i \in 1 .. K |-> s[p[i]]]

\* A distance in the last place of the list can be sorted into it.
LEMMA SortedIs ==
    ASSUME NEW best \in Best, NEW d \in Nat, d < best[K]
    PROVE  SortsInto([best EXCEPT ![K] = d], Sorted([best EXCEPT ![K] = d]))
<1>. DEFINE s == [best EXCEPT ![K] = d]
            B == Bijection(1 .. K, 1 .. K)
            Orders == {[i \in DOMAIN s |-> s[p[i]]] : p \in Bijection(DOMAIN s, DOMAIN s)}
            Rises(t) == \A i, j \in 1 .. K : i <= j => t[i] <= t[j]
<1>1. K \in Nat /\ K >= 1 /\ K \in 1 .. K /\ best \in [1 .. K -> Nat]
  BY WithinBounds
<1>2. \A i, j \in 1 .. K : i <= j => best[i] <= best[j]
  BY DEF Best
<1>3. s \in [1 .. K -> Nat] /\ DOMAIN s = 1 .. K /\ s[K] = d /\ \A i \in 1 .. K : i # K => s[i] = best[i]
  BY <1>1
<1>. HIDE DEF s
<1>4. PICK m \in 1 .. K : (m = K \/ best[m] > d) /\ \A i \in 1 .. K : i < m => best[i] <= d
  <2>. DEFINE T == {i \in 1 .. K : i = K \/ best[i] > d}
  <2>1. T \in SUBSET Nat /\ T # {}
    BY <1>1
  <2>. HIDE DEF T
  <2>2. PICK m \in T : \A i \in T : m <= i
    BY <2>1, LeastNatural
  <2>3. \A i \in 1 .. K : i < m => best[i] <= d
    <3>1. SUFFICES ASSUME NEW i \in 1 .. K, i < m PROVE best[i] <= d
      OBVIOUS
    <3>2. i \notin T
      BY <2>1, <2>2, <3>1
    <3>3. best[i] \in Nat
      BY <1>1
    <3>. QED BY <3>2, <3>3 DEF T
  <2>. QED BY <2>2, <2>3 DEF T
<1>. DEFINE q == [i \in 1 .. K |-> IF i < m THEN i ELSE IF i = m THEN K ELSE i - 1]
            u == [i \in 1 .. K |-> s[q[i]]]
<1>5. q \in B
  BY <1>1, Moved
<1>6. \A i \in 1 .. K : u[i] = IF i < m THEN best[i] ELSE IF i = m THEN d ELSE best[i - 1]
  BY <1>1, <1>3
<1>7. Rises(u)
  <2>1. SUFFICES ASSUME NEW i \in 1 .. K, NEW j \in 1 .. K, i <= j PROVE u[i] <= u[j]
    OBVIOUS
  <2>2. \A k \in 1 .. K : best[k] \in Nat
    BY <1>1
  <2>3. /\ u[i] = IF i < m THEN best[i] ELSE IF i = m THEN d ELSE best[i - 1]
        /\ u[j] = IF j < m THEN best[j] ELSE IF j = m THEN d ELSE best[j - 1]
    BY <1>6
  <2>. HIDE DEF u, q
  <2>4. CASE i < m
    BY <1>1, <1>2, <1>4, <2>1, <2>2, <2>3, <2>4
  <2>5. CASE i = m
    <3>1. CASE j = m
      BY <2>3, <2>5, <3>1
    <3>2. CASE j # m
      <4>1. m < j /\ m < K /\ best[m] > d /\ j - 1 \in 1 .. K /\ m <= j - 1
        BY <1>1, <1>4, <2>1, <2>5, <3>2
      <4>2. best[m] <= best[j - 1]
        BY <1>2, <4>1
      <4>. QED BY <2>2, <2>3, <2>5, <4>1, <4>2
    <3>. QED BY <3>1, <3>2
  <2>6. CASE i > m
    <3>1. j > m /\ i - 1 \in 1 .. K /\ j - 1 \in 1 .. K /\ i - 1 <= j - 1
      BY <1>1, <2>1, <2>6
    <3>. QED BY <1>2, <2>2, <2>3, <2>6, <3>1
  <2>. QED BY <2>4, <2>5, <2>6
<1>8. u \in Orders
  <2>. HIDE DEF q
  <2>. QED BY <1>3, <1>5
<1>9. Sorted(s) = CHOOSE t \in Orders : Rises(t)
  BY <1>3 DEF Sorted
<1>10. Sorted(s) \in Orders /\ Rises(Sorted(s))
  <2>. HIDE DEF u, Orders, Rises
  <2>. QED BY <1>7, <1>8, <1>9
<1>11. PICK p \in B : Sorted(s) = [i \in 1 .. K |-> s[p[i]]]
  BY <1>3, <1>10
<1>12. p \in [1 .. K -> 1 .. K]
  BY <1>11 DEF Bijection, Injection
<1>13. Sorted(s) \in [1 .. K -> Nat]
  BY <1>3, <1>11, <1>12
<1>14. SortsInto(s, Sorted(s))
  BY <1>10, <1>11, <1>13 DEF Best, SortsInto
<1>. QED BY <1>14 DEF s

\* One more candidate counts, as long as there are not enough that are as close.
LEMMA NotedCounts ==
    ASSUME NEW best \in Best, NEW d \in Nat
    PROVE  /\ Noted(best, d) \in Best
           /\ \A x \in Nat : Within(Noted(best, d), x) = Capped(Within(best, x) + IF d <= x THEN 1 ELSE 0)
<1>1. K \in Nat /\ K >= 1 /\ K \in 1 .. K /\ best \in [1 .. K -> Nat] /\ best[K] \in Nat
  BY WithinBounds
<1>2. CASE ~(d < best[K])
  <2>1. Noted(best, d) = best
    BY <1>2 DEF Noted
  <2>2. SUFFICES ASSUME NEW x \in Nat
                 PROVE  Within(best, x) = Capped(Within(best, x) + IF d <= x THEN 1 ELSE 0)
    BY <2>1
  <2>3. Within(best, x) \in 0 .. K /\ (best[K] <= x => Within(best, x) = K)
    BY WithinBounds
  <2>. QED BY <1>1, <1>2, <2>3 DEF Capped
<1>3. CASE d < best[K]
  <2>. DEFINE s == [best EXCEPT ![K] = d]
              t == Noted(best, d)
  <2>1. t = Sorted(s)
    BY <1>3 DEF Noted
  <2>2. PICK p \in Bijection(1 .. K, 1 .. K) : t = [i \in 1 .. K |-> s[p[i]]] /\ t \in Best
    <3>1. SortsInto(s, Sorted(s))
      BY <1>3, SortedIs
    <3>. HIDE DEF s
    <3>. QED BY <2>1, <3>1 DEF SortsInto
  <2>3. s[K] = d /\ \A i \in 1 .. K : i # K => s[i] = best[i]
    BY <1>1
  <2>4. SUFFICES ASSUME NEW x \in Nat
                 PROVE  Within(t, x) = Capped(Within(best, x) + IF d <= x THEN 1 ELSE 0)
    BY <2>2
  <2>. HIDE DEF s, t
  <2>. DEFINE S == {i \in 1 .. K : s[i] <= x}
              T == {i \in 1 .. K : t[i] <= x}
              A == {i \in 1 .. K : i # K /\ best[i] <= x}
  <2>5. IsFiniteSet(1 .. K) /\ Cardinality(1 .. K) = K
    BY <1>1, FS_Interval
  <2>6. IsFiniteSet(T) /\ IsFiniteSet(S) /\ IsFiniteSet(A)
    <3>1. T \subseteq 1 .. K /\ S \subseteq 1 .. K /\ A \subseteq 1 .. K
      OBVIOUS
    <3>. HIDE DEF S, T, A
    <3>. QED BY <2>5, <3>1, FS_Subset
  <2>7. Cardinality(T) = Cardinality(S)
    <3>. DEFINE r == [i \in T |-> p[i]]
    <3>1. p \in [1 .. K -> 1 .. K] /\ IsInjective(p) /\ \A j \in 1 .. K : \E i \in 1 .. K : p[i] = j
      BY DEF Bijection, Injection, Surjection
    <3>2. \A i \in 1 .. K : t[i] = s[p[i]]
      BY <2>2
    <3>3. r \in [T -> S]
      BY <3>1, <3>2
    <3>4. \A i, j \in T : r[i] = r[j] => i = j
      BY <3>1 DEF IsInjective
    <3>5. \A j \in S : \E i \in T : r[i] = j
      <4>1. SUFFICES ASSUME NEW j \in S PROVE \E i \in T : r[i] = j
        OBVIOUS
      <4>2. PICK i \in 1 .. K : p[i] = j
        BY <3>1
      <4>3. i \in T
        BY <3>2, <4>2
      <4>. QED BY <4>2, <4>3
    <3>. HIDE DEF r, S, T
    <3>6. r \in Bijection(T, S)
      BY <3>3, <3>4, <3>5 DEF Bijection, Injection, Surjection, IsInjective
    <3>. QED BY <2>6, <3>6, FS_Bijection DEF ExistsBijection
  <2>8. Cardinality(A) \in Nat /\ Cardinality(A) <= K - 1 /\ K \notin A
    <3>. DEFINE B == (1 .. K) \ {K}
    <3>1. A \subseteq B /\ K \notin A
      OBVIOUS
    <3>2. IsFiniteSet(B) /\ Cardinality(B) = K - 1
      <4>. DEFINE I == 1 .. K
      <4>1. K \in I /\ IsFiniteSet(I) /\ Cardinality(I) = K
        BY <1>1, <2>5
      <4>. HIDE DEF I
      <4>2. IsFiniteSet(I \ {K}) /\ Cardinality(I \ {K}) = Cardinality(I) - 1
        BY <4>1, FS_RemoveElement
      <4>. QED BY <4>1, <4>2 DEF I
    <3>. HIDE DEF A, B
    <3>. QED BY <2>6, <3>1, <3>2, FS_Subset, FS_CardinalityType
  <2>9. S = (IF d <= x THEN A \cup {K} ELSE A)
    BY <1>1, <2>3
  <2>10. {i \in 1 .. K : best[i] <= x} = IF best[K] <= x THEN A \cup {K} ELSE A
    BY <1>1
  <2>11. Cardinality(A \cup {K}) = Cardinality(A) + 1
    BY <2>6, <2>8, FS_AddElement
  <2>12. Within(t, x) = Cardinality(A) + IF d <= x THEN 1 ELSE 0
    <3>. HIDE DEF S, A
    <3>1. Cardinality(S) = Cardinality(A) + IF d <= x THEN 1 ELSE 0
      BY <2>8, <2>9, <2>11
    <3>. QED BY <2>7, <3>1 DEF Within
  <2>13. Within(best, x) = Cardinality(A) + IF best[K] <= x THEN 1 ELSE 0
    <3>1. Within(best, x) = Cardinality(IF best[K] <= x THEN A \cup {K} ELSE A)
      BY <2>10 DEF Within
    <3>. HIDE DEF A
    <3>. QED BY <2>8, <2>11, <3>1
  <2>14. best[K] <= x => Within(best, x) = K
    BY WithinBounds
  <2>. HIDE DEF A, S, T
  <2>. QED BY <1>1, <1>3, <2>8, <2>12, <2>13, <2>14 DEF Capped
<1>. QED BY <1>2, <1>3

\* The squared distances of a point from a node's point and from its dividing plane.
ToPoint(n, p) == Squared(p, tree[n].point)
ToPlane(n, p) == (p[tree[n].axis] - tree[n].point[tree[n].axis])
                     * (p[tree[n].axis] - tree[n].point[tree[n].axis])

\* What is found with the far side of node n, after its near side.
Beyond(visit, n, found, p) ==
    IF CrossesPlane(found, ToPlane(n, p)) THEN visit[Other(tree[n], p)][found] ELSE found

\* visit is the recursive function in Nearest(p).
Visits(visit, p) ==
    visit = [n \in 0 .. Len(tree) |-> [best \in Best |->
                IF n = 0 THEN best
                ELSE [found \in Best |-> Beyond(visit, n, found, p)]
                         [visit[Near(tree[n], p)][Noted(best, ToPoint(n, p))]]]]

\* Distances are numbers.
LEMMA SquaredNat ==
    ASSUME NEW p \in Nat \X Nat, NEW q \in Nat \X Nat
    PROVE  Squared(p, q) \in Nat
<1>1. p[1] \in Nat /\ p[2] \in Nat /\ q[1] \in Nat /\ q[2] \in Nat
  OBVIOUS
<1>2. \A a, b \in Nat : (a - b) * (a - b) \in Nat
  OBVIOUS
<1>3. (p[1] - q[1]) * (p[1] - q[1]) \in Nat /\ (p[2] - q[2]) * (p[2] - q[2]) \in Nat
  BY <1>1, <1>2
<1>. QED BY <1>3 DEF Squared

\* nearest_recursive returns for every node and list, and Nearest is what it returns for the root
\* and a list of K times Far.
LEMMA NearestIs ==
    ASSUME NEW sub, IsTree(tree, sub), NEW p \in Nat \X Nat
    PROVE  \E visit :
             /\ Visits(visit, p)
             /\ Nearest(p) = visit[IF tree = <<>> THEN 0 ELSE 1][[i \in 1 .. K |-> Far]]
<1>. DEFINE R(f) == Visits(f, p)
            C == CHOOSE f : R(f)
            L == 0 .. Len(tree)
            D == L \X Best
            next(n, b) == <<Near(tree[n], p), Noted(b, ToPoint(n, p))>>
            size == [x \in D |-> IF x[1] = 0 THEN 0 ELSE Len(tree) - x[1] + 1]
            after(f, n, found) ==
                IF CrossesPlane(found, ToPlane(n, p)) THEN f[<<Other(tree[n], p), found>>] ELSE found
            h == [x \in D \X [D -> Best] |->
                     IF x[1][1] = 0 THEN x[1][2]
                     ELSE after(x[2], x[1][1], x[2][next(x[1][1], x[1][2])])]
<1>1. /\ Len(tree) \in Nat
      /\ \A n \in L : n # 0 => n \in 1 .. Len(tree) /\ tree[n].point \in Nat \X Nat
  <2>1. Len(tree) \in Nat /\ \A n \in 1 .. Len(tree) : tree[n].point \in Nat \X Nat
    BY TreeNodes
  <2>. QED BY <2>1
<1>2. ASSUME NEW n \in L, n # 0
      PROVE  /\ Near(tree[n], p) \in {0} \cup (n + 1) .. Len(tree)
             /\ Other(tree[n], p) \in {0} \cup (n + 1) .. Len(tree)
             /\ Near(tree[n], p) \in L /\ Other(tree[n], p) \in L
  <2>1. n \in 1 .. Len(tree)
    BY <1>1, <1>2
  <2>2. Parted(tree, sub, n, Near(tree[n], p), Other(tree[n], p))
    BY <2>1, NearOrOther
  <2>. QED BY <1>1, <2>1, <2>2 DEF Parted
<1>3. \A n \in L, b \in Best : n # 0 => Noted(b, ToPoint(n, p)) \in Best
  <2>. SUFFICES ASSUME NEW n \in L, NEW b \in Best, n # 0 PROVE Noted(b, ToPoint(n, p)) \in Best
    OBVIOUS
  <2>1. ToPoint(n, p) \in Nat
    BY <1>1, SquaredNat DEF ToPoint
  <2>. QED BY <2>1, NotedCounts
<1>4. \A n \in L, b \in Best : n # 0 => next(n, b) \in D
  BY <1>2, <1>3
<1>5. \A n \in L, b \in Best : size[<<n, b>>] = IF n = 0 THEN 0 ELSE Len(tree) - n + 1
  OBVIOUS
<1>6. size \in [D -> Nat]
  <2>1. \A n \in L : Len(tree) - n + 1 \in Nat
    BY <1>1
  <2>. QED BY <2>1
<1>7. \A n \in L, b \in Best, f \in [D -> Best] :
         h[<<<<n, b>>, f>>] = IF n = 0 THEN b ELSE after(f, n, f[next(n, b)])
  <2>. HIDE DEF next, after, L
  <2>. QED OBVIOUS
<1>8. \A n \in L, f \in [D -> Best], found \in Best : n # 0 => after(f, n, found) \in Best
  BY <1>2
<1>. HIDE DEF size, h, after, next
<1>9. h \in [D \X [D -> Best] -> Best]
  <2>1. ASSUME NEW n \in L, NEW b \in Best, NEW f \in [D -> Best] PROVE h[<<<<n, b>>, f>>] \in Best
    <3>1. CASE n = 0
      BY <1>7, <3>1
    <3>2. CASE n # 0
      <4>1. f[next(n, b)] \in Best
        BY <1>4, <3>2
      <4>. HIDE DEF D, L
      <4>2. after(f, n, f[next(n, b)]) \in Best
        BY <1>8, <3>2, <4>1
      <4>. QED BY <1>7, <3>2, <4>2
    <3>. QED BY <3>1, <3>2
  <2>2. \A x \in D, f \in [D -> Best] : h[<<x, f>>] \in Best
    <3>. SUFFICES ASSUME NEW x \in D, NEW f \in [D -> Best] PROVE h[<<x, f>>] \in Best
      OBVIOUS
    <3>1. PICK n \in L, b \in Best : x = <<n, b>>
      OBVIOUS
    <3>. QED BY <2>1, <3>1
  <2>3. h = [x \in D \X [D -> Best] |-> h[x]]
    BY DEF h
  <2>4. \A x \in D \X [D -> Best] : h[x] \in Best
    <3>. HIDE DEF D
    <3>. QED BY <2>2
  <2>. HIDE DEF D
  <2>. QED BY <2>3, <2>4
<1>10. ASSUME NEW x \in D, NEW f \in [D -> Best], NEW g \in [D -> Best],
              \A y \in D : size[y] < size[x] => f[y] = g[y]
       PROVE  h[<<x, f>>] = h[<<x, g>>]
  <2>1. PICK n \in L, b \in Best : x = <<n, b>>
    OBVIOUS
  <2>2. CASE n = 0
    <3>1. h[<<<<n, b>>, f>>] = b /\ h[<<<<n, b>>, g>>] = b
      <4>. HIDE DEF D, L
      <4>. QED BY <1>7, <2>2
    <3>. QED BY <2>1, <3>1
  <2>3. CASE n # 0
    <3>1. next(n, b) \in D /\ f[next(n, b)] \in Best
      BY <1>4, <2>3
    <3>2. \A c \in Best : /\ <<Near(tree[n], p), c>> \in D /\ <<Other(tree[n], p), c>> \in D
                          /\ size[<<Near(tree[n], p), c>>] < size[x]
                          /\ size[<<Other(tree[n], p), c>>] < size[x]
      <4>1. \A k \in L, c \in Best : (k = 0 \/ n < k) => size[<<k, c>>] < size[<<n, b>>]
        BY <1>1, <1>5, <2>3
      <4>2. ASSUME NEW k \in L, k \in {0} \cup (n + 1) .. Len(tree) PROVE k = 0 \/ n < k
        BY <1>1, <4>2
      <4>3. /\ Near(tree[n], p) = 0 \/ n < Near(tree[n], p)
            /\ Other(tree[n], p) = 0 \/ n < Other(tree[n], p)
        BY <1>2, <2>3, <4>2
      <4>. HIDE DEF L
      <4>. QED BY <1>2, <2>1, <2>3, <4>1, <4>3
    <3>3. \A c \in Best : /\ f[<<Near(tree[n], p), c>>] = g[<<Near(tree[n], p), c>>]
                          /\ f[<<Other(tree[n], p), c>>] = g[<<Other(tree[n], p), c>>]
      BY <1>10, <3>2
    <3>4. f[next(n, b)] = g[next(n, b)]
      BY <1>3, <2>3, <3>3 DEF next
    <3>5. after(f, n, f[next(n, b)]) = after(g, n, f[next(n, b)])
      BY <3>1, <3>3 DEF after
    <3>6. /\ h[<<x, f>>] = after(f, n, f[next(n, b)])
          /\ h[<<x, g>>] = after(g, n, g[next(n, b)])
      BY <1>7, <2>1, <2>3
    <3>. QED BY <3>4, <3>5, <3>6
  <2>. QED BY <2>2, <2>3
<1>11. [i \in 1 .. K |-> 0] \in Best
  BY NeighboursAssumption DEF Best
<1>12. PICK f : Solves(f, h, D, Best)
  <2>1. LooksBack(h, size, D, Best)
    <3>. HIDE DEF D
    <3>. QED BY <1>6, <1>9, <1>10 DEF LooksBack
  <2>. HIDE DEF D, R, C
  <2>. QED BY <1>11, <2>1, Recursion
<1>. DEFINE v == [n \in L |-> [b \in Best |-> f[<<n, b>>]]]
<1>13. R(v)
  <2>1. f \in [D -> Best] /\ \A x \in D : f[x] = h[<<x, f>>]
    BY <1>12 DEF Solves
  <2>2. ASSUME NEW n \in L, NEW b \in Best
        PROVE  v[n][b] = IF n = 0 THEN b
                         ELSE [found \in Best |-> Beyond(v, n, found, p)]
                                 [v[Near(tree[n], p)][Noted(b, ToPoint(n, p))]]
    <3>1. <<n, b>> \in D /\ v[n][b] = f[<<n, b>>]
      OBVIOUS
    <3>2. f[<<n, b>>] = IF n = 0 THEN b ELSE after(f, n, f[next(n, b)])
      BY <1>7, <2>1, <3>1
    <3>3. CASE n = 0
      BY <3>1, <3>2, <3>3
    <3>4. CASE n # 0
      <4>1. v[Near(tree[n], p)][Noted(b, ToPoint(n, p))] = f[next(n, b)]
        BY <1>2, <1>3, <3>4 DEF next
      <4>2. f[next(n, b)] \in Best
        BY <1>4, <2>1, <3>4
      <4>3. Beyond(v, n, f[next(n, b)], p) = after(f, n, f[next(n, b)])
        BY <1>2, <3>4, <4>2 DEF Beyond, after
      <4>. HIDE DEF v
      <4>. QED BY <3>1, <3>2, <3>4, <4>1, <4>2, <4>3
    <3>. QED BY <3>3, <3>4
  <2>3. v = [n \in L |-> [b \in Best |-> v[n][b]]]
    OBVIOUS
  <2>. HIDE DEF v
  <2>. QED BY <2>2, <2>3 DEF Visits
<1>14. R(C)
  <2>. HIDE DEF R
  <2>. QED BY <1>13
<1>15. Nearest(p) = C[IF tree = <<>> THEN 0 ELSE 1][[i \in 1 .. K |-> Far]]
  BY Zenon DEF Nearest, Visits, Beyond, ToPoint, ToPlane
<1>. QED BY <1>14, <1>15

\* One call of nearest_recursive: the null pointer changes nothing, a node is noted before its near
\* side is visited, and the other side after it.
LEMMA VisitIs ==
    ASSUME NEW sub, IsTree(tree, sub), NEW p, NEW visit, Visits(visit, p)
    PROVE  /\ \A best \in Best : visit[0][best] = best
           /\ \A n \in 1 .. Len(tree), best \in Best, found \in Best :
                 found = visit[Near(tree[n], p)][Noted(best, ToPoint(n, p))]
                    => visit[n][best] = Beyond(visit, n, found, p)
<1>. DEFINE L == 0 .. Len(tree)
<1>1. /\ Len(tree) \in Nat /\ 0 \in L /\ 1 .. Len(tree) \subseteq L
      /\ \A n \in 1 .. Len(tree) : n # 0
  BY TreeNodes
<1>. DEFINE value(n, best) ==
         IF n = 0 THEN best
         ELSE [found \in Best |-> Beyond(visit, n, found, p)]
                 [visit[Near(tree[n], p)][Noted(best, ToPoint(n, p))]]
<1>2. visit = [n \in L |-> [best \in Best |-> value(n, best)]]
  BY Zenon DEF Visits
<1>. HIDE DEF value, L
<1>3. \A n \in L, best \in Best : visit[n][best] = value(n, best)
  BY <1>2
<1>4. \A best \in Best : visit[0][best] = best
  BY <1>1, <1>3 DEF value
<1>5. ASSUME NEW n \in 1 .. Len(tree), NEW best \in Best, NEW found \in Best,
             found = visit[Near(tree[n], p)][Noted(best, ToPoint(n, p))]
      PROVE  visit[n][best] = Beyond(visit, n, found, p)
  <2>1. n \in L /\ n # 0
    BY <1>1
  <2>2. visit[n][best] = value(n, best)
    BY <1>3, <2>1
  <2>3. value(n, best) = [c \in Best |-> Beyond(visit, n, c, p)][found]
    BY <1>5, <2>1 DEF value
  <2>. QED BY <2>2, <2>3
<1>. QED BY <1>4, <1>5

\* Squares of differences.
LEMMA Squares ==
    ASSUME NEW a \in Nat, NEW b \in Nat
    PROVE  (a - b) * (a - b) \in Nat /\ (a - b) * (a - b) = (b - a) * (b - a)
OBVIOUS

\* A number between two others is not farther from each than they are from each other.
LEMMA Between ==
    ASSUME NEW a \in Nat, NEW b \in Nat, NEW c \in Nat, a <= b, b <= c
    PROVE  /\ (b - a) * (b - a) <= (c - a) * (c - a)
           /\ (c - b) * (c - b) <= (c - a) * (c - a)
<1>1. \A i, j \in Nat : i <= j => i * i <= j * j
  OBVIOUS
<1>2. b - a \in Nat /\ c - a \in Nat /\ c - b \in Nat /\ b - a <= c - a /\ c - b <= c - a
  OBVIOUS
<1>. QED BY <1>1, <1>2

\* A point on the far side of a node's plane is at least as far as the plane.
LEMMA FarSide ==
    ASSUME NEW sub, IsTree(tree, sub), NEW n \in 1 .. Len(tree), NEW p \in Nat \X Nat,
           NEW m \in sub[Other(tree[n], p)]
    PROVE  m \in 1 .. Len(tree) /\ ToPlane(n, p) <= Squared(p, tree[m].point)
<1>. DEFINE a == tree[n].axis
            q == tree[m].point
            c == tree[n].point
<1>1. /\ sub[n] = {n} \cup sub[Near(tree[n], p)] \cup sub[Other(tree[n], p)]
      /\ n \notin sub[Other(tree[n], p)]
  BY NearOrOther DEF Parted
<1>2. /\ m \in sub[Near(tree[n], q)]
      /\ sub[tree[n].left] \cap sub[tree[n].right] = {}
  BY <1>1 DEF IsTree, TreeAt
<1>3. n \in 0 .. Len(tree) /\ m \in 1 .. Len(tree)
  <2>1. Len(tree) \in Nat /\ sub \in [0 .. Len(tree) -> SUBSET (1 .. Len(tree))]
    BY TreeNodes DEF IsTree
  <2>2. n \in 0 .. Len(tree) /\ m \in sub[n]
    BY <1>1, <2>1
  <2>. QED BY <2>1, <2>2
<1>4. q \in Nat \X Nat /\ c \in Nat \X Nat /\ a \in 1 .. 2
  BY <1>3, TreeNodes
<1>5. p[a] \in Nat /\ q[a] \in Nat /\ c[a] \in Nat
  <2>. HIDE DEF q, c, a
  <2>. QED BY <1>4
<1>6. GoesLeft(tree[n], p) <=> ~GoesLeft(tree[n], q)
  BY <1>2 DEF Near, Other
<1>7. (p[a] - c[a]) * (p[a] - c[a]) <= (p[a] - q[a]) * (p[a] - q[a])
  <2>1. (p[a] < c[a] /\ c[a] <= q[a]) \/ (q[a] < c[a] /\ c[a] <= p[a])
    BY <1>5, <1>6 DEF GoesLeft
  <2>. DEFINE x == p[a]
              y == q[a]
              z == c[a]
  <2>2. x \in Nat /\ y \in Nat /\ z \in Nat /\ ((x < z /\ z <= y) \/ (y < z /\ z <= x))
    BY <1>5, <2>1
  <2>. HIDE DEF x, y, z
  <2>3. (x - z) * (x - z) <= (x - y) * (x - y)
    <3>1. CASE x < z /\ z <= y
      <4>1. (z - x) * (z - x) <= (y - x) * (y - x)
        BY <2>2, <3>1, Between
      <4>2. (z - x) * (z - x) = (x - z) * (x - z)
        BY <2>2, Squares
      <4>3. (y - x) * (y - x) = (x - y) * (x - y)
        BY <2>2, Squares
      <4>. QED BY <4>1, <4>2, <4>3
    <3>2. CASE y < z /\ z <= x
      BY <2>2, <3>2, Between
    <3>. QED BY <2>2, <3>1, <3>2
  <2>. QED BY <2>3 DEF x, y, z
<1>8. (p[a] - q[a]) * (p[a] - q[a]) <= Squared(p, q)
  <2>. HIDE DEF q, a
  <2>1. p[1] \in Nat /\ p[2] \in Nat /\ q[1] \in Nat /\ q[2] \in Nat
    BY <1>4
  <2>2. (p[1] - q[1]) * (p[1] - q[1]) \in Nat /\ (p[2] - q[2]) * (p[2] - q[2]) \in Nat
    BY <2>1, Squares
  <2>3. a = 1 \/ a = 2
    BY <1>4
  <2>. QED BY <2>2, <2>3 DEF Squared
<1>9. Squared(p, q) \in Nat /\ (p[a] - q[a]) * (p[a] - q[a]) \in Nat /\ (p[a] - c[a]) * (p[a] - c[a]) \in Nat
  <2>. HIDE DEF q, a, c
  <2>. QED BY <1>4, <1>5, SquaredNat, Squares
<1>10. (p[a] - c[a]) * (p[a] - c[a]) <= Squared(p, q)
  <2>. HIDE DEF q, a, c
  <2>. DEFINE u == (p[a] - c[a]) * (p[a] - c[a])
              v == (p[a] - q[a]) * (p[a] - q[a])
  <2>1. u \in Nat /\ v \in Nat /\ Squared(p, q) \in Nat /\ u <= v /\ v <= Squared(p, q)
    BY <1>7, <1>8, <1>9
  <2>. HIDE DEF u, v
  <2>2. u <= Squared(p, q)
    BY <2>1
  <2>. QED BY <2>2 DEF u
<1>. QED BY <1>3, <1>10 DEF ToPlane

\* The nodes of a set whose points are at most the distance x from p.
Close(nodes, p, x) == {m \in nodes : Squared(p, tree[m].point) <= x}

\* What no more than K means.
LEMMA CappedIs ==
    ASSUME NEW a \in Nat
    PROVE  /\ K \in Nat /\ Capped(a) \in 0 .. K
           /\ a <= K => Capped(a) = a
           /\ a >= K => Capped(a) = K
           /\ Capped(a) = K => a >= K
BY NeighboursAssumption DEF Capped

\* Candidates that come after the list is full count no more than those that came before.
LEMMA CappedTwice ==
    ASSUME NEW a \in Nat, NEW b \in Nat
    PROVE  Capped(Capped(a) + b) = Capped(a + b)
BY NeighboursAssumption DEF Capped

\* The close nodes of a node are itself and those of its children.
LEMMA CloseApart ==
    ASSUME NEW sub, IsTree(tree, sub), NEW n \in 1 .. Len(tree), NEW p \in Nat \X Nat, NEW x \in Nat
    PROVE  /\ Cardinality(Close(sub[Near(tree[n], p)], p, x)) \in Nat
           /\ Cardinality(Close(sub[Other(tree[n], p)], p, x)) \in Nat
           /\ Cardinality(Close(sub[n], p, x)) =
                 (IF ToPoint(n, p) <= x THEN 1 ELSE 0)
                   + Cardinality(Close(sub[Near(tree[n], p)], p, x))
                   + Cardinality(Close(sub[Other(tree[n], p)], p, x))
<1>. DEFINE A == Close(sub[Near(tree[n], p)], p, x)
            B == Close(sub[Other(tree[n], p)], p, x)
            N == Close(sub[n], p, x)
<1>1. Parted(tree, sub, n, Near(tree[n], p), Other(tree[n], p))
  BY NearOrOther
<1>2. n \notin A \cup B /\ A \cap B = {}
  BY <1>1 DEF Parted, Close
<1>3. N = IF ToPoint(n, p) <= x THEN (A \cup B) \cup {n} ELSE A \cup B
  BY <1>1 DEF Parted, Close, ToPoint
<1>4. IsFiniteSet(A) /\ IsFiniteSet(B)
  <2>1. n \in 0 .. Len(tree) /\ IsFiniteSet(1 .. Len(tree)) /\ sub[n] \subseteq 1 .. Len(tree)
    <3>1. Len(tree) \in Nat /\ sub \in [0 .. Len(tree) -> SUBSET (1 .. Len(tree))]
      BY TreeNodes DEF IsTree
    <3>2. n \in 0 .. Len(tree)
      BY <3>1
    <3>3. IsFiniteSet(1 .. Len(tree))
      BY <3>1, FS_Interval
    <3>4. sub[n] \in SUBSET (1 .. Len(tree))
      <4>. DEFINE U == 1 .. Len(tree)
      <4>1. sub \in [0 .. Len(tree) -> SUBSET U]
        BY <3>1
      <4>. HIDE DEF U
      <4>2. sub[n] \in SUBSET U
        BY <3>2, <4>1
      <4>. QED BY <4>2 DEF U
    <3>. QED BY <3>2, <3>3, <3>4
  <2>2. A \subseteq 1 .. Len(tree) /\ B \subseteq 1 .. Len(tree)
    BY <1>1, <2>1 DEF Parted, Close
  <2>. HIDE DEF A, B
  <2>. QED BY <2>1, <2>2, FS_Subset
<1>. HIDE DEF A, B, N
<1>5. /\ IsFiniteSet(A \cup B)
      /\ Cardinality(A \cup B) = Cardinality(A) + Cardinality(B) - Cardinality(A \cap B)
  BY <1>4, FS_Union
<1>6. Cardinality(A) \in Nat /\ Cardinality(B) \in Nat /\ Cardinality(A \cap B) = 0
  BY <1>2, <1>4, FS_CardinalityType, FS_EmptySet
<1>7. Cardinality((A \cup B) \cup {n}) = Cardinality(A \cup B) + 1
  BY <1>2, <1>5, FS_AddElement
<1>8. Cardinality(N) = (IF ToPoint(n, p) <= x THEN 1 ELSE 0) + Cardinality(A) + Cardinality(B)
  <2>1. CASE ToPoint(n, p) <= x
    BY <1>3, <1>5, <1>6, <1>7, <2>1
  <2>2. CASE ~(ToPoint(n, p) <= x)
    BY <1>3, <1>5, <1>6, <2>2
  <2>. QED BY <2>1, <2>2
<1>. QED BY <1>6, <1>8 DEF A, B, N

\* What a visit adds: the closest nodes below n, as many as there is room for.
Adds(sub, p, n, best, found) ==
    /\ found \in Best
    /\ \A x \in Nat : Within(found, x) = Capped(Within(best, x) + Cardinality(Close(sub[n], p, x)))

\* The visit of a node, when the visits of its children are right.
LEMMA VisitNode ==
    ASSUME NEW sub, IsTree(tree, sub), NEW p \in Nat \X Nat, NEW visit, Visits(visit, p),
           NEW n \in 1 .. Len(tree),
           \A c \in {Near(tree[n], p), Other(tree[n], p)}, b \in Best : Adds(sub, p, c, b, visit[c][b]),
           NEW best \in Best
    PROVE  Adds(sub, p, n, best, visit[n][best])
<1>. DEFINE near == Near(tree[n], p)
            other == Other(tree[n], p)
            noted == Noted(best, ToPoint(n, p))
            found == visit[near][noted]
            all == visit[n][best]
<1>1. ToPoint(n, p) \in Nat
  BY TreeNodes, SquaredNat DEF ToPoint
<1>2. ToPlane(n, p) \in Nat
  <2>1. tree[n].axis \in 1 .. 2 /\ tree[n].point \in Nat \X Nat
    BY TreeNodes
  <2>2. p[tree[n].axis] \in Nat /\ tree[n].point[tree[n].axis] \in Nat
    BY <2>1
  <2>. QED BY <2>2, Squares DEF ToPlane
<1>3. /\ noted \in Best
      /\ \A x \in Nat : Within(noted, x) = Capped(Within(best, x) + IF ToPoint(n, p) <= x THEN 1 ELSE 0)
  BY <1>1, NotedCounts
<1>4. Adds(sub, p, near, noted, found)
  BY <1>3
<1>5. found \in Best
  BY <1>4 DEF Adds
<1>6. all = Beyond(visit, n, found, p)
  BY <1>3, <1>5, VisitIs
<1>7. all = IF ToPlane(n, p) < found[K] THEN visit[other][found] ELSE found
  BY <1>6 DEF Beyond, CrossesPlane
<1>8. ToPlane(n, p) < found[K] => Adds(sub, p, other, found, all)
  BY <1>5, <1>7
<1>9. all \in Best
  BY <1>5, <1>7, <1>8 DEF Adds
<1>10. ASSUME NEW x \in Nat
       PROVE  Within(all, x) = Capped(Within(best, x) + Cardinality(Close(sub[n], p, x)))
  <2>. DEFINE w == Within(best, x)
              i == IF ToPoint(n, p) <= x THEN 1 ELSE 0
              a == Cardinality(Close(sub[near], p, x))
              b == Cardinality(Close(sub[other], p, x))
  <2>1. a \in Nat /\ b \in Nat /\ i \in Nat /\ Cardinality(Close(sub[n], p, x)) = i + a + b
    <3>1. a \in Nat /\ b \in Nat /\ Cardinality(Close(sub[n], p, x)) = i + a + b
      BY ZenonT(30), CloseApart
    <3>2. i \in Nat
      OBVIOUS
    <3>. QED BY <3>1, <3>2
  <2>2. w \in Nat
    <3>1. w \in 0 .. K /\ K \in Nat
      BY Zenon, WithinBounds
    <3>. QED BY <3>1
  <2>3. Within(noted, x) = Capped(w + i) /\ Within(found, x) = Capped(Within(noted, x) + a)
    BY <1>3, <1>4 DEF Adds
  <2>4. ToPlane(n, p) < found[K] => Within(all, x) = Capped(Within(found, x) + b)
    BY <1>8 DEF Adds
  <2>5. ~(ToPlane(n, p) < found[K]) => all = found
    BY <1>7
  <2>6. found[K] <= x => Within(found, x) = K
    BY <1>5, WithinBounds
  <2>7. found[K] \in Nat /\ K \in Nat
    BY <1>5, WithinBounds
  <2>8. ~(ToPlane(n, p) < found[K]) /\ ~(found[K] <= x) => b = 0
    <3>1. SUFFICES ASSUME ~(ToPlane(n, p) < found[K]), ~(found[K] <= x) PROVE b = 0
      OBVIOUS
    <3>2. x < ToPlane(n, p)
      BY <1>2, <2>7, <3>1
    <3>3. \A m \in sub[other] : ~(Squared(p, tree[m].point) <= x)
      <4>1. SUFFICES ASSUME NEW m \in sub[other] PROVE ~(Squared(p, tree[m].point) <= x)
        OBVIOUS
      <4>2. m \in 1 .. Len(tree) /\ ToPlane(n, p) <= Squared(p, tree[m].point)
        BY FarSide
      <4>3. Squared(p, tree[m].point) \in Nat
        BY <4>2, TreeNodes, SquaredNat
      <4>. QED BY <1>2, <3>2, <4>2, <4>3
    <3>4. Close(sub[other], p, x) = {}
      BY <3>3 DEF Close
    <3>. QED BY <3>4, FS_EmptySet
  <2>. HIDE DEF w, i, a, b, near, other, noted, found, all
  <2>9. Within(found, x) = Capped(w + i + a)
    <3>1. w + i \in Nat
      BY <2>1, <2>2
    <3>2. Capped(Capped(w + i) + a) = Capped(w + i + a)
      BY <2>1, <3>1, CappedTwice
    <3>. QED BY <2>3, <3>2
  <2>. DEFINE u == w + i + a
  <2>10. u \in Nat /\ u + b \in Nat /\ u + b = w + Cardinality(Close(sub[n], p, x))
    BY <2>1, <2>2
  <2>. HIDE DEF u
  <2>11. CASE ToPlane(n, p) < found[K]
    <3>1. Within(all, x) = Capped(Capped(u) + b)
      BY <2>4, <2>9, <2>11 DEF u
    <3>2. Capped(Capped(u) + b) = Capped(u + b)
      BY <2>1, <2>10, CappedTwice
    <3>. QED BY <2>10, <3>1, <3>2 DEF w
  <2>12. CASE ~(ToPlane(n, p) < found[K]) /\ found[K] <= x
    <3>1. Capped(u) = K /\ Within(all, x) = K
      BY <2>5, <2>6, <2>9, <2>12 DEF u
    <3>2. u >= K
      BY <2>10, <3>1, CappedIs
    <3>3. Capped(u + b) = K
      <4>1. u + b >= K
        BY <2>1, <2>7, <2>10, <3>2
      <4>. QED BY <2>10, <4>1, CappedIs
    <3>. QED BY <2>10, <3>1, <3>3 DEF w
  <2>13. CASE ~(ToPlane(n, p) < found[K]) /\ ~(found[K] <= x)
    <3>1. all = found /\ b = 0 /\ u + b = u
      BY <2>5, <2>8, <2>10, <2>13
    <3>. QED BY <2>9, <2>10, <3>1 DEF u, w
  <2>. QED BY <2>11, <2>12, <2>13
<1>. QED BY <1>9, <1>10 DEF Adds

\* The visit of any node adds what is close below it: from the last node to the first.
LEMMA VisitAdds ==
    ASSUME NEW sub, IsTree(tree, sub), NEW p \in Nat \X Nat, NEW visit, Visits(visit, p)
    PROVE  \A n \in 0 .. Len(tree), best \in Best : Adds(sub, p, n, best, visit[n][best])
<1>. DEFINE L == 0 .. Len(tree)
            size(n) == IF n = 0 THEN 0 ELSE Len(tree) - n + 1
            Right(n) == \A best \in Best : Adds(sub, p, n, best, visit[n][best])
            S == {k \in Nat : \A n \in L : size(n) = k => Right(n)}
<1>1. Len(tree) \in Nat /\ \A n \in L : size(n) \in Nat
  BY TreeNodes
<1>2. Right(0)
  <2>1. SUFFICES ASSUME NEW best \in Best PROVE Adds(sub, p, 0, best, visit[0][best])
    OBVIOUS
  <2>2. visit[0][best] = best
    BY VisitIs
  <2>3. \A x \in Nat : Cardinality(Close(sub[0], p, x)) = 0
    <3>1. sub[0] = {}
      BY DEF IsTree
    <3>2. \A x \in Nat : Close(sub[0], p, x) = {}
      BY <3>1 DEF Close
    <3>. QED BY <3>2, FS_EmptySet
  <2>4. ASSUME NEW x \in Nat PROVE Within(best, x) = Capped(Within(best, x) + 0)
    <3>1. Within(best, x) \in 0 .. K /\ K \in Nat
      BY WithinBounds
    <3>. DEFINE w == Within(best, x)
    <3>2. w \in Nat /\ w <= K
      BY <3>1
    <3>. HIDE DEF w
    <3>3. Capped(w) = w
      BY <3>2, CappedIs
    <3>. QED BY <3>2, <3>3 DEF w
  <2>. QED BY <2>2, <2>3, <2>4 DEF Adds
<1>3. ASSUME NEW k \in Nat, \A j \in Nat : j < k => j \in S PROVE k \in S
  <2>1. SUFFICES ASSUME NEW n \in L, size(n) = k PROVE Right(n)
    OBVIOUS
  <2>2. CASE n # 0
    <3>1. n \in 1 .. Len(tree) /\ k = Len(tree) - n + 1
      BY <1>1, <2>1, <2>2
    <3>2. ASSUME NEW c \in {Near(tree[n], p), Other(tree[n], p)} PROVE Right(c)
      <4>1. c \in {0} \cup (n + 1) .. Len(tree)
        <5>1. Parted(tree, sub, n, Near(tree[n], p), Other(tree[n], p))
          BY <3>1, NearOrOther
        <5>. QED BY <5>1 DEF Parted
      <4>2. CASE c # 0
        <5>1. c \in L /\ size(c) \in Nat /\ size(c) < k
          BY <1>1, <3>1, <4>1, <4>2
        <5>2. size(c) \in S
          BY <1>3, <5>1
        <5>. HIDE DEF size, Right, L
        <5>. QED BY <5>1, <5>2
      <4>. HIDE DEF Right
      <4>. QED BY <1>2, <4>2
    <3>. QED BY <3>1, <3>2, VisitNode
  <2>. HIDE DEF Right
  <2>. QED BY <1>2, <2>2
<1>4. Nat \subseteq S
  <2>. HIDE DEF S
  <2>. QED BY <1>3, StrongInduction
<1>5. ASSUME NEW n \in L PROVE Right(n)
  <2>1. size(n) \in Nat /\ size(n) \in S
    BY <1>1, <1>4
  <2>. HIDE DEF size, Right, L
  <2>. QED BY <2>1
<1>. QED BY <1>5

\* The list with which the search begins.
NoneFound == [i \in 1 .. K |-> Far]
\* The points at most as far as x from p.
UpTo(p, x) == {q \in Nat \X Nat : Squared(p, q) <= x}

\* At first no distance below Far is in the list.
LEMMA NoneFoundIs ==
    NoneFound \in Best /\ \A x \in Nat : x < Far => Within(NoneFound, x) = 0
<1>1. K \in Nat /\ K >= 1 /\ Far \in Nat
  BY NeighboursAssumption
<1>2. NoneFound \in Best
  BY <1>1 DEF Best, NoneFound
<1>3. ASSUME NEW x \in Nat, x < Far PROVE Within(NoneFound, x) = 0
  <2>1. {i \in 1 .. K : NoneFound[i] <= x} = {}
    BY <1>1, <1>3 DEF NoneFound
  <2>. QED BY <2>1, FS_EmptySet DEF Within
<1>. QED BY <1>2, <1>3

\* The search finds the nodes that are close, as many as it may.
LEMMA NearestFinds ==
    ASSUME NEW sub, IsTree(tree, sub), NEW p \in Nat \X Nat
    PROVE  /\ Nearest(p) \in Best
           /\ \A x \in Nat :
                Within(Nearest(p), x)
                  = Capped(Within(NoneFound, x) + Cardinality(Points(tree, UpTo(p, x))))
<1>. DEFINE root == IF tree = <<>> THEN 0 ELSE 1
<1>1. PICK visit : Visits(visit, p) /\ Nearest(p) = visit[root][NoneFound]
  BY NearestIs DEF NoneFound
<1>3. root \in 0 .. Len(tree) /\ sub[root] = 1 .. Len(tree)
  <2>1. /\ Len(tree) \in Nat /\ (tree # <<>> <=> Len(tree) > 0)
        /\ sub[0] = {} /\ (tree # <<>> => sub[1] = 1 .. Len(tree))
    BY TreeNodes DEF IsTree
  <2>2. CASE tree = <<>>
    <3>1. root = 0 /\ Len(tree) = 0 /\ 1 .. 0 = {}
      BY <2>2
    <3>. QED BY <2>1, <3>1
  <2>3. CASE tree # <<>>
    BY <2>1, <2>3
  <2>. QED BY <2>2, <2>3
<1>. HIDE DEF root
<1>4. Adds(sub, p, root, NoneFound, Nearest(p))
  BY <1>1, <1>3, NoneFoundIs, VisitAdds
<1>5. ASSUME NEW x \in Nat
      PROVE  Within(Nearest(p), x)
               = Capped(Within(NoneFound, x) + Cardinality(Points(tree, UpTo(p, x))))
  <2>1. \A m \in 1 .. Len(tree) : tree[m].point \in Nat \X Nat
    BY TreeNodes
  <2>2. Close(sub[root], p, x) = Points(tree, UpTo(p, x))
    BY <1>3, <2>1 DEF Close, Points, UpTo
  <2>. QED BY <1>4, <2>2 DEF Adds
<1>. QED BY <1>4, <1>5 DEF Adds

-----------------------------------------------------------------------------
\* What serialize writes and deserialize reads: a copy of the tree.

\* What stands in a serialized tree.
Token(node) == [flag |-> 1, point |-> node.point, axis |-> node.axis]
Tokens == {[flag |-> 0]} \cup {Token(node) : node \in Nodes}

\* nodes is the recursive function in Preorder.
Serializes(nodes) ==
    nodes = [n \in 0 .. Len(tree) |->
                IF n = 0 THEN <<[flag |-> 0]>>
                ELSE <<Token(tree[n])>> \o nodes[tree[n].left] \o nodes[tree[n].right]]

\* How far a node is from the last one; the null pointer is even behind that.
Sizes == [n \in 0 .. Len(tree) |-> IF n = 0 THEN 0 ELSE Len(tree) - n + 1]

\* Children come after their parent, so every recursion down the tree ends.
LEMMA SizesDecrease ==
    ASSUME NEW sub, IsTree(tree, sub)
    PROVE  /\ Sizes \in [0 .. Len(tree) -> Nat] /\ 0 \in 0 .. Len(tree)
           /\ \A n \in 0 .. Len(tree) : n # 0 =>
                 /\ n \in 1 .. Len(tree)
                 /\ tree[n].left \in 0 .. Len(tree) /\ tree[n].right \in 0 .. Len(tree)
                 /\ Sizes[tree[n].left] < Sizes[n] /\ Sizes[tree[n].right] < Sizes[n]
<1>1. Len(tree) \in Nat
  BY TreeNodes
<1>2. Sizes \in [0 .. Len(tree) -> Nat]
  BY <1>1 DEF Sizes
<1>3. ASSUME NEW n \in 0 .. Len(tree), n # 0
      PROVE  /\ n \in 1 .. Len(tree)
             /\ tree[n].left \in 0 .. Len(tree) /\ tree[n].right \in 0 .. Len(tree)
             /\ Sizes[tree[n].left] < Sizes[n] /\ Sizes[tree[n].right] < Sizes[n]
  <2>1. n \in 1 .. Len(tree)
    BY <1>1, <1>3
  <2>2. /\ tree[n].left \in 0 .. Len(tree) /\ tree[n].right \in 0 .. Len(tree)
        /\ tree[n].left # 0 => n < tree[n].left
        /\ tree[n].right # 0 => n < tree[n].right
    BY <2>1, TreeNodes
  <2>3. \A c \in 0 .. Len(tree) : (c # 0 => n < c) => Sizes[c] < Sizes[n]
    BY <1>1, <2>1 DEF Sizes
  <2>. QED BY <2>1, <2>2, <2>3
<1>. QED BY <1>1, <1>2, <1>3

\* The tokens of each subtree.
NodeTokens(nodes) ==
    /\ nodes \in [0 .. Len(tree) -> Seq(Tokens)]
    /\ nodes[0] = <<[flag |-> 0]>>
    /\ \A n \in 0 .. Len(tree) : n # 0 =>
          nodes[n] = <<Token(tree[n])>> \o nodes[tree[n].left] \o nodes[tree[n].right]

\* The recursion of KDTree::serialize has a solution, and Preorder is its value at the root.
LEMMA PreorderIs ==
    ASSUME NEW sub, IsTree(tree, sub)
    PROVE  \E nodes : NodeTokens(nodes) /\ Preorder = nodes[IF tree = <<>> THEN 0 ELSE 1]
<1>. DEFINE R(f) == Serializes(f)
            C == CHOOSE f : R(f)
            L == 0 .. Len(tree)
            V == Seq(Tokens)
            h == [x \in L \X [L -> V] |->
                     IF x[1] = 0 THEN <<[flag |-> 0]>>
                     ELSE <<Token(tree[x[1]])>> \o x[2][tree[x[1]].left] \o x[2][tree[x[1]].right]]
<1>1. /\ Sizes \in [L -> Nat] /\ 0 \in L
      /\ \A n \in L : n # 0 => /\ n \in 1 .. Len(tree) /\ tree[n].left \in L /\ tree[n].right \in L
                               /\ Sizes[tree[n].left] < Sizes[n] /\ Sizes[tree[n].right] < Sizes[n]
  BY SizesDecrease
<1>2. <<[flag |-> 0]>> \in V
  <2>1. [flag |-> 0] \in Tokens
    BY DEF Tokens
  <2>. HIDE DEF Tokens
  <2>. QED BY <2>1
<1>3. \A n \in L : n # 0 => <<Token(tree[n])>> \in V
  <2>. SUFFICES ASSUME NEW n \in L, n # 0 PROVE <<Token(tree[n])>> \in V
    OBVIOUS
  <2>1. tree[n] \in Nodes
    BY <1>1, TreeNodes
  <2>2. Token(tree[n]) \in Tokens
    BY <2>1 DEF Tokens
  <2>. HIDE DEF Tokens
  <2>. QED BY <2>2
<1>4. \A s, t, u \in V : s \o t \o u \in V
  <2>. DEFINE S == Tokens
  <2>1. \A s, t, u \in Seq(S) : s \o t \o u \in Seq(S)
    OBVIOUS
  <2>. QED BY <2>1
<1>5. \A n \in L, f \in [L -> V] :
         h[<<n, f>>] = IF n = 0 THEN <<[flag |-> 0]>>
                       ELSE <<Token(tree[n])>> \o f[tree[n].left] \o f[tree[n].right]
  OBVIOUS
<1>6. h \in [L \X [L -> V] -> V]
  <2>. HIDE DEF V, L, h
  <2>1. ASSUME NEW n \in L, NEW f \in [L -> V] PROVE h[<<n, f>>] \in V
    <3>1. CASE n = 0
      BY <1>2, <1>5, <3>1
    <3>2. CASE n # 0
      <4>1. f[tree[n].left] \in V /\ f[tree[n].right] \in V /\ <<Token(tree[n])>> \in V
        BY <1>1, <1>3, <3>2
      <4>2. h[<<n, f>>] = <<Token(tree[n])>> \o f[tree[n].left] \o f[tree[n].right]
        BY <1>5, <3>2
      <4>. QED BY <1>4, <4>1, <4>2
    <3>. QED BY <3>1, <3>2
  <2>2. h = [x \in L \X [L -> V] |-> h[x]]
    BY DEF h
  <2>3. \A x \in L \X [L -> V] : h[x] \in V
    BY <2>1
  <2>. QED BY <2>2, <2>3
<1>. HIDE DEF h
<1>7. ASSUME NEW n \in L, NEW f \in [L -> V], NEW g \in [L -> V],
             \A y \in L : Sizes[y] < Sizes[n] => f[y] = g[y]
      PROVE  h[<<n, f>>] = h[<<n, g>>]
  <2>. HIDE DEF V, L
  <2>1. CASE n = 0
    BY <1>5, <2>1
  <2>2. CASE n # 0
    <3>1. f[tree[n].left] = g[tree[n].left] /\ f[tree[n].right] = g[tree[n].right]
      BY <1>1, <1>7, <2>2
    <3>. QED BY <1>5, <2>2, <3>1
  <2>. QED BY <2>1, <2>2
<1>8. PICK f : Solves(f, h, L, V)
  <2>. HIDE DEF V, L, R, C
  <2>1. LooksBack(h, Sizes, L, V)
    BY <1>1, <1>6, <1>7 DEF LooksBack
  <2>. QED BY <1>2, <2>1, Recursion
<1>9. R(f)
  <2>. HIDE DEF V
  <2>1. f \in [L -> V] /\ \A n \in L : f[n] = h[<<n, f>>]
    BY <1>8 DEF Solves
  <2>2. \A n \in L : f[n] = IF n = 0 THEN <<[flag |-> 0]>>
                            ELSE <<Token(tree[n])>> \o f[tree[n].left] \o f[tree[n].right]
    <3>. HIDE DEF L
    <3>. QED BY <1>5, <2>1
  <2>. QED BY <2>1, <2>2 DEF Serializes
<1>10. R(C)
  <2>. HIDE DEF R
  <2>. QED BY <1>9
<1>11. Preorder = C[IF tree = <<>> THEN 0 ELSE 1]
  BY Zenon DEF Preorder, Serializes, Token
<1>. HIDE DEF C
<1>12. /\ C = [n \in L |-> C[n]]
       /\ \A n \in L : C[n] = IF n = 0 THEN <<[flag |-> 0]>>
                              ELSE <<Token(tree[n])>> \o C[tree[n].left] \o C[tree[n].right]
  BY <1>10 DEF Serializes
<1>13. C \in [L -> V]
  <2>. DEFINE S == {n \in L : C[n] \in V}
  <2>. HIDE DEF V, L
  <2>1. ASSUME NEW n \in L, \A m \in L : Sizes[m] < Sizes[n] => m \in S PROVE n \in S
    <3>1. CASE n = 0
      BY <1>2, <1>12, <3>1
    <3>2. CASE n # 0
      <4>1. C[tree[n].left] \in V /\ C[tree[n].right] \in V /\ <<Token(tree[n])>> \in V
        BY <1>1, <1>3, <2>1, <3>2
      <4>2. C[n] = <<Token(tree[n])>> \o C[tree[n].left] \o C[tree[n].right]
        BY <1>12, <3>2
      <4>. QED BY <1>4, <4>1, <4>2
    <3>. QED BY <3>1, <3>2
  <2>2. L \subseteq S
    <3>. HIDE DEF S
    <3>. QED BY <1>1, <2>1, SizeInduction
  <2>3. \A n \in L : C[n] \in V
    BY <2>2
  <2>. QED BY <1>12, <2>3
<1>14. C[0] = <<[flag |-> 0]>>
  BY <1>1, <1>12
<1>15. \A n \in L : n # 0 =>
          C[n] = <<Token(tree[n])>> \o C[tree[n].left] \o C[tree[n].right]
  <2>. HIDE DEF L
  <2>. QED BY <1>12
<1>. QED BY <1>11, <1>13, <1>14, <1>15 DEF NodeTokens

\* A node and the nodes below it, when known nodes are before it.
Joined(token, known, below, above) ==
    <<[point |-> token.point, axis |-> token.axis,
       left |-> IF below = <<>> THEN 0 ELSE known + 2,
       right |-> IF above = <<>> THEN 0 ELSE known + 2 + Len(below)]>>
        \o below \o above

\* read is the recursive function in TreeRead(data).
Reads(read, data) ==
    read = [from \in Nat \ {0} |-> [known \in Nat |->
              IF from > Len(data) \/ data[from].flag = 0 THEN <<>>
              ELSE [below \in Seq(Nodes) |->
                      [b \in Seq(Nodes) |-> [above \in Seq(Nodes) |-> Joined(data[from], known, b, above)]]
                        [below][read[from + 2 + 2 * Len(below)][known + 1 + Len(below)]]]
                     [read[from + 1][known + 1]]]]

\* Nothing is left to read, or the token is that of a null pointer.
Nothing(data, from) == from > Len(data) \/ data[from].flag = 0

\* What deserialize makes of a token and two subtrees are nodes.
LEMMA JoinedNodes ==
    ASSUME NEW data \in Seq(Tokens), NEW from \in Nat \ {0}, ~Nothing(data, from), NEW known \in Nat,
           NEW below \in Seq(Nodes), NEW above \in Seq(Nodes)
    PROVE  Joined(data[from], known, below, above) \in Seq(Nodes)
<1>1. data[from] \in Tokens /\ data[from].flag # 0
  <2>. DEFINE S == Tokens
  <2>1. data \in Seq(S)
    OBVIOUS
  <2>. HIDE DEF S
  <2>2. Len(data) \in Nat /\ ~(from > Len(data)) /\ data[from].flag # 0
    BY <2>1 DEF Nothing
  <2>3. from \in 1 .. Len(data)
    BY <2>2
  <2>4. data[from] \in S
    BY <2>1, <2>3
  <2>. QED BY <2>2, <2>4 DEF S
<1>2. PICK node \in Nodes : data[from] = Token(node)
  BY <1>1 DEF Tokens
<1>3. data[from].point \in Nat \X Nat /\ data[from].axis \in 1 .. 2
  BY <1>2 DEF Token, Nodes
<1>4. Len(below) \in Nat
  <2>. DEFINE S == Nodes
  <2>1. below \in Seq(S)
    OBVIOUS
  <2>. HIDE DEF S
  <2>. QED BY <2>1
<1>. DEFINE root == [point |-> data[from].point, axis |-> data[from].axis,
                     left |-> IF below = <<>> THEN 0 ELSE known + 2,
                     right |-> IF above = <<>> THEN 0 ELSE known + 2 + Len(below)]
<1>5. root \in Nodes
  <2>1. (IF below = <<>> THEN 0 ELSE known + 2) \in Nat /\ (IF above = <<>> THEN 0 ELSE known + 2 + Len(below)) \in Nat
    BY <1>4
  <2>. QED BY <1>3, <2>1 DEF Nodes
<1>6. Joined(data[from], known, below, above) = <<root>> \o below \o above
  BY DEF Joined
<1>. HIDE DEF root
<1>7. <<root>> \o below \o above \in Seq(Nodes)
  <2>. DEFINE S == Nodes
  <2>1. root \in S /\ below \in Seq(S) /\ above \in Seq(S)
    BY <1>5
  <2>. HIDE DEF S
  <2>2. <<root>> \in Seq(S)
    BY <2>1
  <2>3. <<root>> \o below \o above \in Seq(S)
    BY <2>1, <2>2
  <2>. QED BY <2>3 DEF S
<1>. QED BY <1>6, <1>7

\* What is read from each place.
NodesRead(read, data) ==
    \A from \in Nat \ {0}, known \in Nat :
       /\ read[from][known] \in Seq(Nodes)
       /\ Nothing(data, from) => read[from][known] = <<>>
       /\ \A below \in Seq(Nodes) :
             ~Nothing(data, from) /\ below = read[from + 1][known + 1] =>
                read[from][known] =
                  Joined(data[from], known, below,
                         read[from + 2 + 2 * Len(below)][known + 1 + Len(below)])

\* The recursion of KDTree::deserialize has a solution, and TreeRead is what it reads from the first
\* token on.
LEMMA ReadIs ==
    ASSUME NEW data \in Seq(Tokens)
    PROVE  \E read : NodesRead(read, data) /\ TreeRead(data) = read[1][0]
<1>. DEFINE R(f) == Reads(f, data)
            C == CHOOSE f : R(f)
            F == Nat \ {0}
            D == F \X Nat
            V == Seq(Nodes)
            size == [x \in D |-> IF x[1] > Len(data) THEN 0 ELSE Len(data) - x[1] + 1]
            after(from, known, below) == <<from + 2 + 2 * Len(below), known + 1 + Len(below)>>
            join(f, from, known, below) ==
                Joined(data[from], known, below, f[after(from, known, below)])
            h == [x \in D \X [D -> V] |->
                    IF Nothing(data, x[1][1]) THEN <<>>
                    ELSE join(x[2], x[1][1], x[1][2], x[2][<<x[1][1] + 1, x[1][2] + 1>>])]
<1>1. Len(data) \in Nat
  <2>. DEFINE S == Tokens
  <2>1. data \in Seq(S)
    OBVIOUS
  <2>. HIDE DEF S
  <2>. QED BY <2>1
<1>2. \A s \in V : Len(s) \in Nat
  <2>. DEFINE S == Nodes
  <2>1. \A s \in Seq(S) : Len(s) \in Nat
    OBVIOUS
  <2>. QED BY <2>1
<1>3. <<>> \in V
  OBVIOUS
<1>. HIDE DEF V
<1>4. \A from \in F, known \in Nat : /\ from + 1 \in F /\ known + 1 \in Nat
                                     /\ <<from + 1, known + 1>> \in D
  OBVIOUS
<1>5. \A from \in F, known \in Nat, below \in V :
         /\ from + 2 + 2 * Len(below) \in F /\ known + 1 + Len(below) \in Nat
         /\ after(from, known, below) \in D
  <2>. SUFFICES ASSUME NEW from \in F, NEW known \in Nat, NEW below \in V
                PROVE  /\ from + 2 + 2 * Len(below) \in F /\ known + 1 + Len(below) \in Nat
                       /\ after(from, known, below) \in D
    OBVIOUS
  <2>1. Len(below) \in Nat
    BY <1>2
  <2>2. from + 2 + 2 * Len(below) \in F /\ known + 1 + Len(below) \in Nat
    BY <2>1
  <2>. QED BY <2>2
<1>6. /\ size \in [D -> Nat]
      /\ \A from, next \in F, known, nextKnown \in Nat :
            from < next /\ ~Nothing(data, from) => size[<<next, nextKnown>>] < size[<<from, known>>]
  <2>1. \A from \in F, known \in Nat :
           size[<<from, known>>] = IF from > Len(data) THEN 0 ELSE Len(data) - from + 1
    OBVIOUS
  <2>2. size \in [D -> Nat]
    <3>1. \A from \in F : (IF from > Len(data) THEN 0 ELSE Len(data) - from + 1) \in Nat
      BY <1>1
    <3>. QED BY <3>1
  <2>3. ASSUME NEW from \in F, NEW next \in F, NEW known \in Nat, NEW nextKnown \in Nat,
               from < next, ~Nothing(data, from)
        PROVE  size[<<next, nextKnown>>] < size[<<from, known>>]
    BY <1>1, <2>1, <2>3 DEF Nothing
  <2>. QED BY <2>2, <2>3
<1>7. \A from \in F, known \in Nat, below \in V, above \in V :
         ~Nothing(data, from) => Joined(data[from], known, below, above) \in V
  BY JoinedNodes DEF V
<1>8. \A from \in F, known \in Nat, f \in [D -> V] :
         h[<<<<from, known>>, f>>] =
            IF Nothing(data, from) THEN <<>> ELSE join(f, from, known, f[<<from + 1, known + 1>>])
  <2>. HIDE DEF join, F
  <2>. QED OBVIOUS
<1>9. \A from \in F, known \in Nat, f \in [D -> V], below \in V :
         ~Nothing(data, from) => join(f, from, known, below) \in V
  <2>. SUFFICES ASSUME NEW from \in F, NEW known \in Nat, NEW f \in [D -> V], NEW below \in V,
                       ~Nothing(data, from)
                PROVE  join(f, from, known, below) \in V
    OBVIOUS
  <2>1. f[after(from, known, below)] \in V
    <3>1. after(from, known, below) \in D
      BY <1>5
    <3>. HIDE DEF after, D
    <3>. QED BY <3>1
  <2>. HIDE DEF after, F, D
  <2>. QED BY <1>7, <2>1
<1>. HIDE DEF size, h, after
<1>10. ASSUME NEW x \in D PROVE \E from \in F, known \in Nat : x = <<from, known>>
  OBVIOUS
<1>11. h \in [D \X [D -> V] -> V]
  <2>. HIDE DEF D, F, join
  <2>1. ASSUME NEW x \in D, NEW f \in [D -> V] PROVE h[<<x, f>>] \in V
    <3>1. PICK from \in F, known \in Nat : x = <<from, known>>
      BY <1>10
    <3>2. CASE Nothing(data, from)
      BY <1>3, <1>8, <3>1, <3>2
    <3>3. CASE ~Nothing(data, from)
      <4>1. f[<<from + 1, known + 1>>] \in V
        BY <1>4
      <4>2. join(f, from, known, f[<<from + 1, known + 1>>]) \in V
        BY <1>9, <3>3, <4>1
      <4>. QED BY <1>8, <3>1, <3>3, <4>2
    <3>. QED BY <3>2, <3>3
  <2>2. h = [x \in D \X [D -> V] |-> h[x]]
    BY DEF h
  <2>3. \A x \in D \X [D -> V] : h[x] \in V
    BY <2>1
  <2>. QED BY <2>2, <2>3
<1>12. ASSUME NEW x \in D, NEW f \in [D -> V], NEW g \in [D -> V],
              \A y \in D : size[y] < size[x] => f[y] = g[y]
       PROVE  h[<<x, f>>] = h[<<x, g>>]
  <2>1. PICK from \in F, known \in Nat : x = <<from, known>>
    BY <1>10
  <2>2. CASE Nothing(data, from)
    <3>. HIDE DEF D, F, join
    <3>. QED BY <1>8, <2>1, <2>2
  <2>3. CASE ~Nothing(data, from)
    <3>. DEFINE below == f[<<from + 1, known + 1>>]
    <3>1. <<from + 1, known + 1>> \in D /\ size[<<from + 1, known + 1>>] < size[x]
      <4>1. from + 1 \in F /\ known + 1 \in Nat /\ from < from + 1
        OBVIOUS
      <4>. HIDE DEF F
      <4>. QED BY <1>6, <2>1, <2>3, <4>1
    <3>2. below = g[<<from + 1, known + 1>>] /\ below \in V
      <4>. HIDE DEF D
      <4>. QED BY <1>12, <3>1
    <3>3. after(from, known, below) \in D /\ size[after(from, known, below)] < size[x]
      <4>1. after(from, known, below) \in D /\ from + 2 + 2 * Len(below) \in F /\ known + 1 + Len(below) \in Nat
        BY <1>5, <3>2
      <4>2. from < from + 2 + 2 * Len(below)
        <5>1. Len(below) \in Nat
          BY <1>2, <3>2
        <5>. HIDE DEF below
        <5>. QED BY <5>1
      <4>. HIDE DEF F, D
      <4>. QED BY <1>6, <2>1, <2>3, <4>1, <4>2 DEF after
    <3>4. f[after(from, known, below)] = g[after(from, known, below)]
      <4>. HIDE DEF D
      <4>. QED BY <1>12, <3>3
    <3>5. join(f, from, known, below) = join(g, from, known, below)
      BY <3>4
    <3>. HIDE DEF join, D, F
    <3>6. h[<<x, f>>] = join(f, from, known, below)
      BY <1>8, <2>1, <2>3
    <3>7. h[<<x, g>>] = join(g, from, known, below)
      BY <1>8, <2>1, <2>3, <3>2
    <3>. QED BY <3>5, <3>6, <3>7
  <2>. QED BY <2>2, <2>3
<1>13. PICK f : Solves(f, h, D, V)
  <2>. HIDE DEF D, R, C
  <2>1. LooksBack(h, size, D, V)
    BY <1>6, <1>11, <1>12 DEF LooksBack
  <2>. QED BY <1>3, <2>1, Recursion
<1>. DEFINE Equation(r, from, known) ==
         IF from > Len(data) \/ data[from].flag = 0 THEN <<>>
         ELSE [below \in Seq(Nodes) |->
                 [b \in Seq(Nodes) |-> [above \in Seq(Nodes) |-> Joined(data[from], known, b, above)]]
                   [below][r[from + 2 + 2 * Len(below)][known + 1 + Len(below)]]]
                [r[from + 1][known + 1]]
            v == [from \in F |-> [known \in Nat |-> f[<<from, known>>]]]
<1>14. ASSUME NEW r, NEW from \in F, NEW known \in Nat, NEW below \in V, NEW above \in V,
              ~Nothing(data, from), r[from + 1][known + 1] = below,
              r[from + 2 + 2 * Len(below)][known + 1 + Len(below)] = above
       PROVE  Equation(r, from, known) = Joined(data[from], known, below, above)
  BY <1>14 DEF Nothing, V
<1>15. \A r, from, known : Nothing(data, from) => Equation(r, from, known) = <<>>
  BY DEF Nothing
<1>16. R(v)
  <2>1. f \in [D -> V] /\ \A x \in D : f[x] = h[<<x, f>>]
    BY <1>13 DEF Solves
  <2>2. \A from \in F, known \in Nat : v[from][known] = f[<<from, known>>] /\ v[from][known] \in V
                                       /\ <<from, known>> \in D
    BY <2>1
  <2>3. v = [from \in F |-> [known \in Nat |-> v[from][known]]]
    OBVIOUS
  <2>. HIDE DEF v, Equation
  <2>4. ASSUME NEW from \in F, NEW known \in Nat PROVE v[from][known] = Equation(v, from, known)
    <3>1. v[from][known] = IF Nothing(data, from) THEN <<>> ELSE join(f, from, known, f[<<from + 1, known + 1>>])
      <4>1. h[<<<<from, known>>, f>>]
              = IF Nothing(data, from) THEN <<>> ELSE join(f, from, known, f[<<from + 1, known + 1>>])
        <5>. HIDE DEF D, F, join
        <5>. QED BY <1>8, <2>1, <2>2
      <4>. HIDE DEF D, F, join
      <4>. QED BY <2>1, <2>2, <4>1
    <3>2. CASE Nothing(data, from)
      BY <1>15, <3>1, <3>2
    <3>3. CASE ~Nothing(data, from)
      <4>. DEFINE below == v[from + 1][known + 1]
      <4>1. below = f[<<from + 1, known + 1>>] /\ below \in V
        BY <1>4, <2>2
      <4>2. /\ v[from + 2 + 2 * Len(below)][known + 1 + Len(below)] = f[after(from, known, below)]
            /\ v[from + 2 + 2 * Len(below)][known + 1 + Len(below)] \in V
        <5>1. from + 2 + 2 * Len(below) \in F /\ known + 1 + Len(below) \in Nat
          BY <1>5, <4>1
        <5>. HIDE DEF F
        <5>. QED BY <2>2, <5>1 DEF after
      <4>. HIDE DEF F, D
      <4>3. Equation(v, from, known) = Joined(data[from], known, below, f[after(from, known, below)])
        <5>. DEFINE above == v[from + 2 + 2 * Len(below)][known + 1 + Len(below)]
        <5>1. above \in V /\ above = f[after(from, known, below)]
          BY <4>2
        <5>2. from \in F /\ known \in Nat /\ below \in V /\ ~Nothing(data, from)
          BY <3>3, <4>1
        <5>3. Equation(v, from, known) = Joined(data[from], known, below, above)
          BY <1>14, <5>1, <5>2
        <5>. HIDE DEF above, below
        <5>. QED BY <5>1, <5>3
      <4>. QED BY <3>1, <3>3, <4>1, <4>3
    <3>. QED BY <3>2, <3>3
  <2>5. v = [from \in F |-> [known \in Nat |-> Equation(v, from, known)]]
    <3>. HIDE DEF F
    <3>. QED BY <2>3, <2>4
  <2>. QED BY <2>5 DEF Reads, Equation
<1>17. R(C)
  <2>. HIDE DEF R
  <2>. QED BY <1>16
<1>18. TreeRead(data) = C[1][0]
  BY Zenon DEF TreeRead, Reads, Joined
<1>. HIDE DEF C
<1>19. \A from \in F, known \in Nat : C[from][known] = Equation(C, from, known)
  <2>1. C = [from \in F |-> [known \in Nat |-> Equation(C, from, known)]]
    BY Zenon, <1>17 DEF Reads
  <2>. SUFFICES ASSUME NEW from \in F, NEW known \in Nat PROVE C[from][known] = Equation(C, from, known)
    OBVIOUS
  <2>. DEFINE e(n, k) == Equation(C, n, k)
  <2>2. C = [n \in F |-> [k \in Nat |-> e(n, k)]]
    BY <2>1
  <2>. HIDE DEF e, F
  <2>3. C[from][known] = e(from, known)
    BY <2>2
  <2>. QED BY <2>3 DEF e
<1>. HIDE DEF Equation
<1>20. \A from \in F, known \in Nat : C[from][known] \in V
  <2>. DEFINE S == {x \in D : C[x[1]][x[2]] \in V}
  <2>1. ASSUME NEW x \in D, \A y \in D : size[y] < size[x] => y \in S PROVE x \in S
    <3>1. PICK from \in F, known \in Nat : x = <<from, known>>
      BY <1>10
    <3>2. ASSUME NEW next \in F, NEW nextKnown \in Nat, from < next, ~Nothing(data, from)
          PROVE  C[next][nextKnown] \in V
      <4>1. <<next, nextKnown>> \in D /\ size[<<next, nextKnown>>] < size[x]
        BY <1>6, <3>1, <3>2
      <4>2. <<next, nextKnown>> \in S
        BY <2>1, <4>1
      <4>. QED BY <4>2
    <3>3. C[from][known] \in V
      <4>1. CASE Nothing(data, from)
        BY <1>3, <1>15, <1>19, <4>1
      <4>2. CASE ~Nothing(data, from)
        <5>. DEFINE below == C[from + 1][known + 1]
                    above == C[from + 2 + 2 * Len(below)][known + 1 + Len(below)]
        <5>1. below \in V
          BY <3>2, <4>2
        <5>2. above \in V
          <6>1. from + 2 + 2 * Len(below) \in F /\ known + 1 + Len(below) \in Nat
            BY <1>5, <5>1
          <6>2. from < from + 2 + 2 * Len(below)
            <7>1. Len(below) \in Nat
              BY <1>2, <5>1
            <7>. HIDE DEF below
            <7>. QED BY <7>1
          <6>. QED BY <3>2, <4>2, <6>1, <6>2
        <5>3. Equation(C, from, known) = Joined(data[from], known, below, above)
          <6>. HIDE DEF F
          <6>1. from \in F /\ known \in Nat /\ below \in V /\ above \in V /\ ~Nothing(data, from)
            BY <4>2, <5>1, <5>2
          <6>. QED BY <1>14, <6>1
        <5>. HIDE DEF below, above, F
        <5>. QED BY <1>7, <1>19, <4>2, <5>1, <5>2, <5>3
      <4>. QED BY <4>1, <4>2
    <3>. QED BY <3>1, <3>3
  <2>2. D \subseteq S
    <3>. HIDE DEF S, D
    <3>. QED BY <1>6, <2>1, SizeInduction
  <2>. SUFFICES ASSUME NEW from \in F, NEW known \in Nat PROVE C[from][known] \in V
    OBVIOUS
  <2>3. <<from, known>> \in S
    BY <2>2
  <2>. QED BY <2>3
<1>21. ASSUME NEW from \in F, NEW known \in Nat
       PROVE  /\ Nothing(data, from) => C[from][known] = <<>>
              /\ \A below \in V :
                   ~Nothing(data, from) /\ below = C[from + 1][known + 1] =>
                      C[from][known] =
                        Joined(data[from], known, below,
                               C[from + 2 + 2 * Len(below)][known + 1 + Len(below)])
  <2>1. Nothing(data, from) => C[from][known] = <<>>
    BY <1>15, <1>19
  <2>2. ASSUME NEW below \in V, ~Nothing(data, from), below = C[from + 1][known + 1]
        PROVE  C[from][known] =
                 Joined(data[from], known, below, C[from + 2 + 2 * Len(below)][known + 1 + Len(below)])
    <3>. DEFINE b == C[from + 1][known + 1]
                above == C[from + 2 + 2 * Len(b)][known + 1 + Len(b)]
    <3>1. b = below /\ b \in V
      BY <2>2
    <3>2. above \in V
      <4>1. from + 2 + 2 * Len(b) \in F /\ known + 1 + Len(b) \in Nat
        BY <1>5, <3>1
      <4>. HIDE DEF F
      <4>. QED BY <1>20, <4>1
    <3>3. Equation(C, from, known) = Joined(data[from], known, b, above)
      <4>. HIDE DEF F
      <4>1. from \in F /\ known \in Nat /\ ~Nothing(data, from)
        BY <2>2
      <4>. QED BY <1>14, <3>1, <3>2, <4>1
    <3>. QED BY <1>19, <3>1, <3>3
  <2>. QED BY <2>1, <2>2
<1>22. NodesRead(C, data)
  BY <1>20, <1>21 DEF V, NodesRead
<1>. QED BY <1>18, <1>22

\* c is the number of the copy of node old, behind place i of s; a null pointer stays one.
ChildAt(s, known, b, i, c, old) ==
    IF old = 0 THEN c = 0 ELSE c - known \in (i + 1) .. Len(s) /\ b[c - known] = old

\* Place i of s is a copy of node b[i].
CopyAt(s, known, b, i) ==
    /\ s[i].point = tree[b[i]].point /\ s[i].axis = tree[b[i]].axis
    /\ ChildAt(s, known, b, i, s[i].left, tree[b[i]].left)
    /\ ChildAt(s, known, b, i, s[i].right, tree[b[i]].right)

\* s is a copy of the nodes below n, b says which ones; known nodes are before it.
Copies(sub, n, s, known, b) ==
    /\ s \in Seq(Nodes) /\ (s = <<>> <=> n = 0)
    /\ b \in [1 .. Len(s) -> sub[n]]
    /\ \A i, j \in 1 .. Len(s) : b[i] = b[j] => i = j
    /\ \A m \in sub[n] : \E i \in 1 .. Len(s) : b[i] = m
    /\ n # 0 => b[1] = n
    /\ \A i \in 1 .. Len(s) : CopyAt(s, known, b, i)
    /\ \A j \in 2 .. Len(s) : \E i \in 1 .. (j - 1) : known + j \in {s[i].left, s[i].right}

\* The places of a node and the nodes on its sides.
JoinedAt(s, root, below, above) ==
    /\ s \in Seq(Nodes) /\ Len(below) \in Nat /\ Len(above) \in Nat
    /\ Len(s) = 1 + Len(below) + Len(above)
    /\ s[1] = root
    /\ \A j \in 1 .. Len(below) : s[1 + j] = below[j]
    /\ \A j \in 1 .. Len(above) : s[1 + Len(below) + j] = above[j]

\* u is s and then t.
Follows(u, s, t) ==
    /\ Len(s) \in Nat /\ Len(t) \in Nat /\ Len(u) = Len(s) + Len(t)
    /\ \A i \in 1 .. Len(s) : u[i] = s[i]
    /\ \A j \in 1 .. Len(t) : u[Len(s) + j] = t[j]

\* What stands where in a concatenation.
LEMMA ConcatFollows ==
    ASSUME NEW S, NEW s \in Seq(S), NEW t \in Seq(S)
    PROVE  s \o t \in Seq(S) /\ Follows(s \o t, s, t)
<1>. DEFINE u == s \o t
<1>1. Len(s) \in Nat /\ Len(t) \in Nat
  OBVIOUS
<1>2. /\ u \in Seq(S) /\ Len(u) = Len(s) + Len(t)
      /\ \A i \in 1 .. Len(s) + Len(t) : u[i] = IF i <= Len(s) THEN s[i] ELSE t[i - Len(s)]
  BY ConcatProperties
<1>. HIDE DEF u
<1>3. ASSUME NEW i \in 1 .. Len(s) PROVE u[i] = s[i]
  <2>1. i \in 1 .. Len(s) + Len(t) /\ i <= Len(s)
    BY <1>1
  <2>. QED BY <1>2, <2>1
<1>4. ASSUME NEW j \in 1 .. Len(t) PROVE u[Len(s) + j] = t[j]
  <2>. DEFINE i == Len(s) + j
  <2>1. i \in 1 .. Len(s) + Len(t) /\ ~(i <= Len(s)) /\ i - Len(s) = j
    BY <1>1
  <2>. HIDE DEF i
  <2>2. u[i] = t[j]
    BY <1>2, <2>1
  <2>. QED BY <2>2 DEF i
<1>5. u \in Seq(S) /\ Follows(u, s, t)
  BY <1>1, <1>2, <1>3, <1>4 DEF Follows
<1>. QED BY <1>5 DEF u

\* A node comes before what is on its left, and that before what is on its right.
LEMMA ConcatenatedAt ==
    ASSUME NEW root \in Nodes, NEW below \in Seq(Nodes), NEW above \in Seq(Nodes)
    PROVE  JoinedAt(<<root>> \o below \o above, root, below, above)
<1>. DEFINE S == Nodes
            r == <<root>>
            s == r \o below
            t == s \o above
<1>1. below \in Seq(S) /\ above \in Seq(S) /\ root \in S
  OBVIOUS
<1>. HIDE DEF S
<1>2. r \in Seq(S) /\ Len(r) = 1 /\ r[1] = root
  BY <1>1
<1>. HIDE DEF r
<1>3. s \in Seq(S) /\ Follows(s, r, below)
  BY <1>1, <1>2, ConcatFollows
<1>. HIDE DEF s
<1>4. t \in Seq(S) /\ Follows(t, s, above)
  BY <1>1, <1>3, ConcatFollows
<1>. HIDE DEF t
<1>5. /\ Len(below) \in Nat /\ Len(above) \in Nat
      /\ Len(s) = 1 + Len(below) /\ Len(t) = 1 + Len(below) + Len(above)
  BY <1>2, <1>3, <1>4 DEF Follows
<1>6. t[1] = root
  <2>1. 1 \in 1 .. Len(s) /\ 1 \in 1 .. Len(r)
    BY <1>2, <1>5
  <2>. QED BY <1>2, <1>3, <1>4, <2>1 DEF Follows
<1>7. ASSUME NEW j \in 1 .. Len(below) PROVE t[1 + j] = below[j]
  <2>1. 1 + j \in 1 .. Len(s)
    BY <1>5
  <2>2. s[1 + j] = below[j]
    BY <1>2, <1>3 DEF Follows
  <2>. QED BY <1>4, <2>1, <2>2 DEF Follows
<1>8. ASSUME NEW j \in 1 .. Len(above) PROVE t[1 + Len(below) + j] = above[j]
  <2>1. t[Len(s) + j] = above[j]
    BY <1>4 DEF Follows
  <2>. QED BY <1>5, <2>1
<1>9. JoinedAt(t, root, below, above)
  BY <1>4, <1>5, <1>6, <1>7, <1>8 DEF JoinedAt, S
<1>. QED BY <1>9 DEF r, s, t

\* s is a copy of what is below n, as long as the copies of the two sides and the node.
CopyOfBoth(sub, n, s, known, below, above) ==
    /\ Len(s) = 1 + Len(below) + Len(above)
    /\ \E b : Copies(sub, n, s, known, b)

\* Copies of what is on the two sides of a node make a copy of what is below it.
LEMMA JoinedCopies ==
    ASSUME NEW sub, IsTree(tree, sub), NEW n \in 1 .. Len(tree), NEW known \in Nat,
           NEW below, NEW bl, Copies(sub, tree[n].left, below, known + 1, bl),
           NEW above, NEW ba, Copies(sub, tree[n].right, above, known + 1 + Len(below), ba)
    PROVE  CopyOfBoth(sub, n, Joined(Token(tree[n]), known, below, above), known, below, above)
<1>. DEFINE left == tree[n].left
            right == tree[n].right
            toLeft == IF below = <<>> THEN 0 ELSE known + 2
            toRight == IF above = <<>> THEN 0 ELSE known + 2 + Len(below)
            root == [point |-> tree[n].point, axis |-> tree[n].axis, left |-> toLeft, right |-> toRight]
            s == Joined(Token(tree[n]), known, below, above)
            lb == Len(below)
            la == Len(above)
            b == [i \in 1 .. Len(s) |-> IF i = 1 THEN n
                                        ELSE IF i <= 1 + lb THEN bl[i - 1] ELSE ba[i - 1 - lb]]
<1>1. below \in Seq(Nodes) /\ above \in Seq(Nodes)
  BY DEF Copies
<1>2. /\ lb \in Nat /\ la \in Nat
      /\ (below = <<>> <=> lb = 0) /\ (above = <<>> <=> la = 0)
  <2>. DEFINE S == Nodes
  <2>1. below \in Seq(S) /\ above \in Seq(S)
    BY <1>1
  <2>. HIDE DEF S
  <2>. QED BY <2>1, EmptySeq
<1>3. toLeft \in Nat /\ toRight \in Nat
  BY <1>2
<1>4. /\ root \in Nodes /\ root.point = tree[n].point /\ root.axis = tree[n].axis
      /\ root.left = toLeft /\ root.right = toRight
  <2>1. tree[n].point \in Nat \X Nat /\ tree[n].axis \in 1 .. 2
    BY TreeNodes
  <2>. HIDE DEF toLeft, toRight
  <2>. QED BY <1>3, <2>1 DEF Nodes
<1>5. s = <<root>> \o below \o above
  BY DEF Joined, Token
<1>. HIDE DEF root, s
<1>6. JoinedAt(s, root, below, above)
  BY <1>1, <1>4, <1>5, ConcatenatedAt
<1>7. Len(s) = 1 + lb + la /\ s[1] = root /\ s \in Seq(Nodes)
  BY <1>6 DEF JoinedAt
<1>8. /\ 1 \in 1 .. Len(s) /\ b[1] = n
      /\ \A j \in 1 .. lb : 1 + j \in 1 .. Len(s) /\ s[1 + j] = below[j] /\ b[1 + j] = bl[j]
      /\ \A j \in 1 .. la : 1 + lb + j \in 1 .. Len(s) /\ s[1 + lb + j] = above[j] /\ b[1 + lb + j] = ba[j]
  <2>1. 1 \in 1 .. Len(s) /\ b[1] = n
    BY <1>2, <1>7
  <2>2. ASSUME NEW j \in 1 .. lb PROVE 1 + j \in 1 .. Len(s) /\ b[1 + j] = bl[j]
    <3>1. 1 + j \in 1 .. Len(s) /\ 1 + j # 1 /\ 1 + j <= 1 + lb /\ (1 + j) - 1 = j
      BY <1>2, <1>7
    <3>. QED BY <3>1
  <2>3. ASSUME NEW j \in 1 .. la PROVE 1 + lb + j \in 1 .. Len(s) /\ b[1 + lb + j] = ba[j]
    <3>1. 1 + lb + j \in 1 .. Len(s) /\ 1 + lb + j # 1 /\ ~(1 + lb + j <= 1 + lb) /\ (1 + lb + j) - 1 - lb = j
      BY <1>2, <1>7
    <3>. HIDE DEF lb
    <3>. QED BY <3>1
  <2>. QED BY <1>6, <2>1, <2>2, <2>3 DEF JoinedAt
<1>9. ASSUME NEW i \in 1 .. Len(s)
      PROVE  i = 1 \/ (\E j \in 1 .. lb : i = 1 + j) \/ (\E j \in 1 .. la : i = 1 + lb + j)
  <2>1. i = 1 \/ i - 1 \in 1 .. lb \/ i - 1 - lb \in 1 .. la
    BY <1>2, <1>7
  <2>2. i = 1 + (i - 1) /\ i = 1 + lb + (i - 1 - lb)
    BY <1>2, <1>7
  <2>. HIDE DEF lb, la
  <2>. QED BY <2>1, <2>2
<1>10. /\ sub[n] = {n} \cup sub[left] \cup sub[right] /\ n \notin sub[left] /\ n \notin sub[right]
       /\ sub[left] \cap sub[right] = {}
  BY DEF IsTree, TreeAt
<1>11. /\ \A j \in 1 .. lb : bl[j] \in sub[left]
       /\ \A i, j \in 1 .. lb : bl[i] = bl[j] => i = j
       /\ \A m \in sub[left] : \E i \in 1 .. lb : bl[i] = m
       /\ (below = <<>> <=> left = 0) /\ (left # 0 => bl[1] = left)
       /\ \A i \in 1 .. lb : CopyAt(below, known + 1, bl, i)
       /\ \A j \in 2 .. lb : \E i \in 1 .. (j - 1) : known + 1 + j \in {below[i].left, below[i].right}
  BY DEF Copies
<1>12. /\ \A j \in 1 .. la : ba[j] \in sub[right]
       /\ \A i, j \in 1 .. la : ba[i] = ba[j] => i = j
       /\ \A m \in sub[right] : \E i \in 1 .. la : ba[i] = m
       /\ (above = <<>> <=> right = 0) /\ (right # 0 => ba[1] = right)
       /\ \A i \in 1 .. la : CopyAt(above, known + 1 + lb, ba, i)
       /\ \A j \in 2 .. la : \E i \in 1 .. (j - 1) : known + 1 + lb + j \in {above[i].left, above[i].right}
  BY DEF Copies
<1>13. b = [i \in 1 .. Len(s) |-> b[i]]
  OBVIOUS
<1>. HIDE DEF b, lb, la, left, right, toLeft, toRight
<1>14. b \in [1 .. Len(s) -> sub[n]]
  <2>1. ASSUME NEW i \in 1 .. Len(s) PROVE b[i] \in sub[n]
    BY <1>8, <1>9, <1>10, <1>11, <1>12
  <2>. QED BY <1>13, <2>1
<1>15. ASSUME NEW i \in 1 .. Len(s), NEW j \in 1 .. Len(s), b[i] = b[j] PROVE i = j
  <2>1. CASE i = 1
    BY <1>8, <1>9, <1>10, <1>11, <1>12, <1>15, <2>1
  <2>2. CASE \E k \in 1 .. lb : i = 1 + k
    <3>1. PICK k \in 1 .. lb : i = 1 + k
      BY <2>2
    <3>2. b[i] = bl[k] /\ bl[k] \in sub[left]
      BY <1>8, <1>11, <3>1
    <3>3. ~(j = 1) /\ ~(\E l \in 1 .. la : j = 1 + lb + l)
      <4>1. b[j] \in sub[left] /\ b[j] # n /\ b[j] \notin sub[right]
        BY <1>10, <1>15, <3>2
      <4>2. \A l \in 1 .. la : b[1 + lb + l] \in sub[right]
        BY <1>8, <1>12
      <4>. QED BY <1>8, <4>1, <4>2
    <3>4. PICK l \in 1 .. lb : j = 1 + l
      BY <1>9, <3>3
    <3>5. b[j] = bl[l]
      BY <1>8, <3>4
    <3>6. bl[k] = bl[l]
      BY <1>15, <3>2, <3>5
    <3>7. k = l
      BY <1>11, <3>6
    <3>. QED BY <3>1, <3>4, <3>7
  <2>3. CASE \E k \in 1 .. la : i = 1 + lb + k
    <3>1. PICK k \in 1 .. la : i = 1 + lb + k
      BY <2>3
    <3>2. b[i] = ba[k] /\ ba[k] \in sub[right]
      BY <1>8, <1>12, <3>1
    <3>3. ~(j = 1) /\ ~(\E l \in 1 .. lb : j = 1 + l)
      <4>1. b[j] \in sub[right] /\ b[j] # n /\ b[j] \notin sub[left]
        BY <1>10, <1>15, <3>2
      <4>2. \A l \in 1 .. lb : b[1 + l] \in sub[left]
        BY <1>8, <1>11
      <4>. QED BY <1>8, <4>1, <4>2
    <3>4. PICK l \in 1 .. la : j = 1 + lb + l
      BY <1>9, <3>3
    <3>5. b[j] = ba[l]
      BY <1>8, <3>4
    <3>6. ba[k] = ba[l]
      BY <1>15, <3>2, <3>5
    <3>7. k = l
      BY <1>12, <3>6
    <3>. QED BY <3>1, <3>4, <3>7
  <2>. QED BY <1>9, <2>1, <2>2, <2>3
<1>16. ASSUME NEW m \in sub[n] PROVE \E i \in 1 .. Len(s) : b[i] = m
  <2>1. CASE m = n
    BY <1>8, <2>1
  <2>2. CASE m \in sub[left]
    <3>1. PICK k \in 1 .. lb : bl[k] = m
      BY <1>11, <2>2
    <3>2. 1 + k \in 1 .. Len(s) /\ b[1 + k] = m
      BY <1>8, <3>1
    <3>. QED BY <3>2
  <2>3. CASE m \in sub[right]
    <3>1. PICK k \in 1 .. la : ba[k] = m
      BY <1>12, <2>3
    <3>2. 1 + lb + k \in 1 .. Len(s) /\ b[1 + lb + k] = m
      BY <1>8, <3>1
    <3>. QED BY <3>2
  <2>. QED BY <1>10, <2>1, <2>2, <2>3
<1>17. ASSUME NEW i \in 1 .. Len(s) PROVE CopyAt(s, known, b, i)
  <2>1. CASE i = 1
    <3>1. ChildAt(s, known, b, 1, toLeft, left)
      <4>1. left # 0 => 2 \in 2 .. Len(s) /\ b[2] = left /\ toLeft = known + 2 /\ toLeft - known = 2
        <5>1. SUFFICES ASSUME left # 0 PROVE 2 \in 2 .. Len(s) /\ b[2] = left /\ toLeft = known + 2 /\ toLeft - known = 2
          OBVIOUS
        <5>2. lb > 0 /\ 1 \in 1 .. lb /\ toLeft = known + 2
          BY <1>2, <1>11, <5>1 DEF toLeft
        <5>3. 1 + 1 = 2 /\ b[1 + 1] = bl[1]
          BY <1>8, <5>2
        <5>. QED BY <1>2, <1>7, <1>11, <5>1, <5>2, <5>3
      <4>2. left = 0 => toLeft = 0
        BY <1>11 DEF toLeft
      <4>. QED BY <4>1, <4>2 DEF ChildAt
    <3>2. ChildAt(s, known, b, 1, toRight, right)
      <4>1. right # 0 => 2 + lb \in 2 .. Len(s) /\ b[2 + lb] = right /\ toRight - known = 2 + lb
        <5>1. SUFFICES ASSUME right # 0 PROVE 2 + lb \in 2 .. Len(s) /\ b[2 + lb] = right /\ toRight - known = 2 + lb
          OBVIOUS
        <5>2. la > 0 /\ 1 \in 1 .. la /\ toRight = known + 2 + lb
          BY <1>2, <1>12, <5>1 DEF toRight, lb
        <5>3. 1 + lb + 1 = 2 + lb /\ b[1 + lb + 1] = ba[1]
          BY <1>2, <1>8, <5>2
        <5>. QED BY <1>2, <1>7, <1>12, <5>1, <5>2, <5>3
      <4>2. right = 0 => toRight = 0
        BY <1>12 DEF toRight
      <4>. QED BY <4>1, <4>2 DEF ChildAt
    <3>. QED BY <1>4, <1>7, <1>8, <2>1, <3>1, <3>2 DEF CopyAt, left, right
  <2>2. ASSUME NEW j \in 1 .. lb, i = 1 + j PROVE CopyAt(s, known, b, i)
    <3>1. CopyAt(below, known + 1, bl, j) /\ s[i] = below[j] /\ b[i] = bl[j]
      BY <1>8, <1>11, <2>2
    <3>2. ASSUME NEW c \in Nat, NEW old, ChildAt(below, known + 1, bl, j, c, old)
          PROVE  ChildAt(s, known, b, i, c, old)
      <4>1. CASE old = 0
        BY <3>2, <4>1 DEF ChildAt
      <4>2. CASE old # 0
        <5>1. c - (known + 1) \in (j + 1) .. lb /\ bl[c - (known + 1)] = old
          BY <3>2, <4>2 DEF ChildAt, lb
        <5>. DEFINE d == c - (known + 1)
        <5>2. d \in 1 .. lb /\ c - known = 1 + d /\ c - known \in (i + 1) .. Len(s)
          BY <1>2, <1>7, <2>2, <5>1
        <5>. HIDE DEF d
        <5>3. b[1 + d] = bl[d]
          BY <1>8, <5>2
        <5>. QED BY <4>2, <5>1, <5>2, <5>3 DEF ChildAt, d
      <4>. QED BY <4>1, <4>2
    <3>3. below[j].left \in Nat /\ below[j].right \in Nat
      <4>1. below[j] \in Nodes
        <5>. DEFINE S == Nodes
        <5>1. below \in Seq(S)
          BY <1>1
        <5>. HIDE DEF S
        <5>2. below[j] \in S
          BY <5>1 DEF lb
        <5>. QED BY <5>2 DEF S
      <4>. QED BY <4>1 DEF Nodes
    <3>. QED BY <3>1, <3>2, <3>3 DEF CopyAt
  <2>3. ASSUME NEW j \in 1 .. la, i = 1 + lb + j PROVE CopyAt(s, known, b, i)
    <3>1. CopyAt(above, known + 1 + lb, ba, j) /\ s[i] = above[j] /\ b[i] = ba[j]
      BY <1>8, <1>12, <2>3
    <3>2. ASSUME NEW c \in Nat, NEW old, ChildAt(above, known + 1 + lb, ba, j, c, old)
          PROVE  ChildAt(s, known, b, i, c, old)
      <4>1. CASE old = 0
        BY <3>2, <4>1 DEF ChildAt
      <4>2. CASE old # 0
        <5>1. c - (known + 1 + lb) \in (j + 1) .. la /\ ba[c - (known + 1 + lb)] = old
          BY <3>2, <4>2 DEF ChildAt, la
        <5>. DEFINE d == c - (known + 1 + lb)
        <5>2. d \in 1 .. la /\ c - known = 1 + lb + d /\ c - known \in (i + 1) .. Len(s)
          BY <1>2, <1>7, <2>3, <5>1
        <5>. HIDE DEF d
        <5>3. b[1 + lb + d] = ba[d]
          BY <1>8, <5>2
        <5>. QED BY <4>2, <5>1, <5>2, <5>3 DEF ChildAt, d
      <4>. QED BY <4>1, <4>2
    <3>3. above[j].left \in Nat /\ above[j].right \in Nat
      <4>1. above[j] \in Nodes
        <5>. DEFINE S == Nodes
        <5>1. above \in Seq(S)
          BY <1>1
        <5>. HIDE DEF S
        <5>2. above[j] \in S
          BY <5>1 DEF la
        <5>. QED BY <5>2 DEF S
      <4>. QED BY <4>1 DEF Nodes
    <3>. QED BY <3>1, <3>2, <3>3 DEF CopyAt
  <2>. QED BY <1>9, <2>1, <2>2, <2>3
<1>18. ASSUME NEW i \in 2 .. Len(s)
       PROVE  \E k \in 1 .. (i - 1) : known + i \in {s[k].left, s[k].right}
  <2>0. i \in 1 .. Len(s) /\ i # 1
    BY <1>2, <1>7
  <2>1. ASSUME NEW j \in 1 .. lb, i = 1 + j
        PROVE  \E k \in 1 .. (i - 1) : known + i \in {s[k].left, s[k].right}
    <3>1. CASE j = 1
      <4>1. toLeft = known + i /\ 1 \in 1 .. (i - 1)
        BY <1>2, <2>1, <3>1 DEF toLeft
      <4>. QED BY <1>4, <1>7, <4>1
    <3>2. CASE j # 1
      <4>1. j \in 2 .. lb
        BY <1>2, <3>2
      <4>2. PICK k \in 1 .. (j - 1) : known + 1 + j \in {below[k].left, below[k].right}
        BY <1>11, <4>1
      <4>3. k \in 1 .. lb /\ 1 + k \in 1 .. (i - 1) /\ known + 1 + j = known + i
        BY <1>2, <2>1, <4>1
      <4>4. s[1 + k] = below[k]
        BY <1>8, <4>3
      <4>. QED BY <4>2, <4>3, <4>4
    <3>. QED BY <3>1, <3>2
  <2>2. ASSUME NEW j \in 1 .. la, i = 1 + lb + j
        PROVE  \E k \in 1 .. (i - 1) : known + i \in {s[k].left, s[k].right}
    <3>1. CASE j = 1
      <4>1. toRight = known + i /\ 1 \in 1 .. (i - 1)
        BY <1>2, <2>2, <3>1 DEF toRight, lb
      <4>. QED BY <1>4, <1>7, <4>1
    <3>2. CASE j # 1
      <4>1. j \in 2 .. la
        BY <1>2, <3>2
      <4>2. PICK k \in 1 .. (j - 1) : known + 1 + lb + j \in {above[k].left, above[k].right}
        BY <1>12, <4>1
      <4>3. k \in 1 .. la /\ 1 + lb + k \in 1 .. (i - 1) /\ known + 1 + lb + j = known + i
        BY <1>2, <2>2, <4>1
      <4>4. s[1 + lb + k] = above[k]
        BY <1>8, <4>3
      <4>. QED BY <4>2, <4>3, <4>4
    <3>. QED BY <3>1, <3>2
  <2>. QED BY <1>9, <2>0, <2>1, <2>2
<1>19. s # <<>> /\ n # 0
  BY <1>2, <1>7
<1>20. Copies(sub, n, s, known, b)
  BY <1>7, <1>8, <1>14, <1>15, <1>16, <1>17, <1>18, <1>19 DEF Copies
<1>21. Len(s) = 1 + Len(below) + Len(above)
  BY <1>7 DEF lb, la
<1>22. CopyOfBoth(sub, n, s, known, below, above)
  BY <1>20, <1>21 DEF CopyOfBoth
<1>. QED BY <1>22 DEF s

\* The tokens s stand in data, from the place from on.
Has(data, from, s) ==
    /\ from \in Nat \ {0} /\ from + Len(s) - 1 <= Len(data)
    /\ \A i \in 1 .. Len(s) : data[from + i - 1] = s[i]

\* Where two lists of tokens stand after each other, both stand.
LEMMA HasParts ==
    ASSUME NEW S, NEW data \in Seq(S), NEW from, NEW s \in Seq(S), NEW t \in Seq(S), Has(data, from, s \o t)
    PROVE  Has(data, from, s) /\ Has(data, from + Len(s), t)
<1>. DEFINE u == s \o t
<1>1. Follows(u, s, t)
  BY ConcatFollows
<1>. HIDE DEF u
<1>2. /\ Len(s) \in Nat /\ Len(t) \in Nat /\ Len(data) \in Nat /\ from \in Nat \ {0}
      /\ from + Len(u) - 1 <= Len(data) /\ Len(u) = Len(s) + Len(t)
      /\ \A i \in 1 .. Len(u) : data[from + i - 1] = u[i]
  BY <1>1 DEF Follows, Has, u
<1>3. Has(data, from, s)
  <2>1. from + Len(s) - 1 <= Len(data)
    BY <1>2
  <2>2. ASSUME NEW i \in 1 .. Len(s) PROVE data[from + i - 1] = s[i]
    <3>1. i \in 1 .. Len(u) /\ u[i] = s[i]
      BY <1>1, <1>2 DEF Follows
    <3>. QED BY <1>2, <3>1
  <2>. QED BY <1>2, <2>1, <2>2 DEF Has
<1>4. Has(data, from + Len(s), t)
  <2>1. from + Len(s) \in Nat \ {0} /\ from + Len(s) + Len(t) - 1 <= Len(data)
    BY <1>2
  <2>2. ASSUME NEW j \in 1 .. Len(t) PROVE data[from + Len(s) + j - 1] = t[j]
    <3>1. u[Len(s) + j] = t[j]
      BY <1>1 DEF Follows
    <3>. DEFINE i == Len(s) + j
    <3>2. i \in 1 .. Len(u) /\ from + i - 1 = from + Len(s) + j - 1
      BY <1>2
    <3>. HIDE DEF i
    <3>3. data[from + i - 1] = u[i]
      BY <1>2, <3>2
    <3>. QED BY <3>1, <3>2, <3>3 DEF i
  <2>. QED BY <2>1, <2>2 DEF Has
<1>. QED BY <1>3, <1>4

\* What is read where the tokens of a subtree stand is a copy of it.
ReadsCopy(sub, nodes, read, n, from, known) ==
    /\ Len(nodes[n]) = 2 * Len(read[from][known]) + 1
    /\ Len(read[from][known]) \in Nat
    /\ \E b : Copies(sub, n, read[from][known], known, b)

\* The token of a null pointer is read back as one.
LEMMA ReadsNull ==
    ASSUME NEW sub, IsTree(tree, sub), NEW nodes, NodeTokens(nodes),
           NEW data \in Seq(Tokens), NEW read, NodesRead(read, data),
           NEW from, NEW known \in Nat, Has(data, from, nodes[0])
    PROVE  ReadsCopy(sub, nodes, read, 0, from, known)
<1>. DEFINE s == read[from][known]
<1>1. nodes[0] = <<[flag |-> 0]>> /\ Len(nodes[0]) = 1
  BY DEF NodeTokens
<1>2. from \in Nat \ {0} /\ data[from] = [flag |-> 0]
  <2>1. from \in Nat \ {0} /\ data[from + 1 - 1] = nodes[0][1] /\ from + 1 - 1 = from
    BY <1>1 DEF Has
  <2>. QED BY <1>1, <2>1
<1>3. Nothing(data, from)
  BY <1>2 DEF Nothing
<1>4. s = <<>>
  BY <1>2, <1>3 DEF NodesRead
<1>5. Len(<<>>) = 0 /\ <<>> \in Seq(Nodes)
  OBVIOUS
<1>6. sub[0] = {}
  BY DEF IsTree
<1>7. Copies(sub, 0, <<>>, known, [i \in 1 .. 0 |-> 0])
  <2>. DEFINE e == <<>>
              b == [i \in 1 .. 0 |-> 0]
  <2>1. e = <<>> /\ e \in Seq(Nodes) /\ Len(e) = 0 /\ 1 .. 0 = {} /\ 2 .. 0 = {}
    BY <1>5
  <2>2. b \in [1 .. 0 -> {}]
    OBVIOUS
  <2>. HIDE DEF e, b
  <2>3. Copies(sub, 0, e, known, b)
    BY <1>6, <2>1, <2>2 DEF Copies
  <2>. QED BY <2>3 DEF e, b
<1>. QED BY <1>1, <1>4, <1>5, <1>7 DEF ReadsCopy

\* The tokens of a node are read back as a copy of it, when those of its children are.
LEMMA ReadsNode ==
    ASSUME NEW sub, IsTree(tree, sub), NEW nodes, NodeTokens(nodes),
           NEW data \in Seq(Tokens), NEW read, NodesRead(read, data),
           NEW n \in 1 .. Len(tree), NEW from, NEW known \in Nat, Has(data, from, nodes[n]),
           \A m \in {tree[n].left, tree[n].right} : \A f, k :
              k \in Nat /\ Has(data, f, nodes[m]) => ReadsCopy(sub, nodes, read, m, f, k)
    PROVE  ReadsCopy(sub, nodes, read, n, from, known)
<1>. DEFINE tok == <<Token(tree[n])>>
            left == nodes[tree[n].left]
            right == nodes[tree[n].right]
            s == read[from][known]
            below == read[from + 1][known + 1]
            above == read[from + 2 + 2 * Len(below)][known + 1 + Len(below)]
<1>1. n \in 0 .. Len(tree) /\ n # 0 /\ tree[n].left \in 0 .. Len(tree) /\ tree[n].right \in 0 .. Len(tree)
      /\ tree[n] \in Nodes
  <2>1. Len(tree) \in Nat
    BY TreeNodes
  <2>2. n \in 0 .. Len(tree) /\ n # 0
    BY <2>1
  <2>. QED BY <2>2, TreeNodes
<1>2. nodes[n] = tok \o left \o right
  BY <1>1 DEF NodeTokens
<1>3. tok \in Seq(Tokens) /\ left \in Seq(Tokens) /\ right \in Seq(Tokens) /\ Len(tok) = 1 /\ tok[1] = Token(tree[n])
  <2>. DEFINE S == Tokens
  <2>1. Token(tree[n]) \in S
    BY <1>1 DEF Tokens
  <2>2. nodes \in [0 .. Len(tree) -> Seq(S)]
    BY DEF NodeTokens
  <2>. HIDE DEF S
  <2>3. left \in Seq(S) /\ right \in Seq(S)
    BY <1>1, <2>2
  <2>4. tok \in Seq(S) /\ Len(tok) = 1 /\ tok[1] = Token(tree[n])
    BY <2>1
  <2>. QED BY <2>3, <2>4 DEF S
<1>. HIDE DEF tok, left, right
<1>4. tok \o left \in Seq(Tokens) /\ Len(tok \o left) = 1 + Len(left) /\ Len(left) \in Nat /\ Len(right) \in Nat
      /\ Len(nodes[n]) = 1 + Len(left) + Len(right)
  <2>. DEFINE u == tok \o left
  <2>1. u \in Seq(Tokens) /\ Follows(u, tok, left)
    BY <1>3, ConcatFollows
  <2>. HIDE DEF u
  <2>2. Follows(u \o right, u, right)
    BY <1>3, <2>1, ConcatFollows
  <2>. QED BY <1>2, <1>3, <2>1, <2>2 DEF Follows, u
<1>5. Has(data, from, tok) /\ Has(data, from + 1, left) /\ Has(data, from + (1 + Len(left)), right)
  <2>1. Has(data, from, tok \o left) /\ Has(data, from + Len(tok \o left), right)
    BY <1>2, <1>3, <1>4, HasParts
  <2>2. Has(data, from, tok) /\ Has(data, from + Len(tok), left)
    BY <1>3, <2>1, HasParts
  <2>. QED BY <1>3, <1>4, <2>1, <2>2
<1>6. from \in Nat \ {0} /\ data[from] = Token(tree[n]) /\ ~(from > Len(data))
  <2>1. from \in Nat \ {0} /\ from + 1 - 1 = from
    BY <1>5 DEF Has
  <2>2. from + 1 - 1 <= Len(data) /\ data[from + 1 - 1] = tok[1]
    <3>1. 1 \in 1 .. Len(tok)
      BY <1>3
    <3>. HIDE DEF tok
    <3>. QED BY <1>3, <1>5, <3>1 DEF Has
  <2>3. Len(data) \in Nat
    <3>. DEFINE S == Tokens
    <3>1. data \in Seq(S)
      OBVIOUS
    <3>. HIDE DEF S
    <3>. QED BY <3>1
  <2>. QED BY <1>3, <2>1, <2>2, <2>3
<1>7. ~Nothing(data, from)
  <2>1. Token(tree[n]).flag = 1
    BY DEF Token
  <2>. QED BY <1>6, <2>1 DEF Nothing
<1>8. /\ Len(left) = 2 * Len(below) + 1 /\ Len(below) \in Nat
      /\ \E b : Copies(sub, tree[n].left, below, known + 1, b)
  <2>1. known + 1 \in Nat
    OBVIOUS
  <2>2. ReadsCopy(sub, nodes, read, tree[n].left, from + 1, known + 1)
    BY <1>5, <2>1 DEF left
  <2>. QED BY <2>2 DEF ReadsCopy, left
<1>9. /\ Len(right) = 2 * Len(above) + 1 /\ Len(above) \in Nat
      /\ \E b : Copies(sub, tree[n].right, above, known + 1 + Len(below), b)
  <2>. HIDE DEF below
  <2>1. known + 1 + Len(below) \in Nat /\ from + (1 + Len(left)) = from + 2 + 2 * Len(below)
    BY <1>6, <1>8
  <2>2. Has(data, from + 2 + 2 * Len(below), right)
    BY <1>5, <2>1
  <2>3. ReadsCopy(sub, nodes, read, tree[n].right, from + 2 + 2 * Len(below), known + 1 + Len(below))
    BY <2>1, <2>2 DEF right
  <2>. QED BY <2>3 DEF ReadsCopy, right
<1>10. s = Joined(Token(tree[n]), known, below, above)
  <2>1. below \in Seq(Nodes)
    <3>1. from + 1 \in Nat \ {0} /\ known + 1 \in Nat
      BY <1>6
    <3>. QED BY <3>1 DEF NodesRead
  <2>2. s = Joined(data[from], known, below, above)
    BY <1>6, <1>7, <2>1 DEF NodesRead
  <2>. HIDE DEF s, below, above
  <2>. QED BY <1>6, <2>2
<1>. HIDE DEF below, above, s
<1>11. PICK bl : Copies(sub, tree[n].left, below, known + 1, bl)
  BY <1>8
<1>12. PICK ba : Copies(sub, tree[n].right, above, known + 1 + Len(below), ba)
  BY <1>9
<1>13. Len(s) = 1 + Len(below) + Len(above) /\ \E b : Copies(sub, n, s, known, b)
  <2>1. CopyOfBoth(sub, n, Joined(Token(tree[n]), known, below, above), known, below, above)
    BY <1>11, <1>12, JoinedCopies
  <2>. QED BY <1>10, <2>1 DEF CopyOfBoth
<1>14. Len(nodes[n]) = 2 * Len(s) + 1 /\ Len(s) \in Nat
  BY <1>4, <1>8, <1>9, <1>13
<1>. QED BY <1>13, <1>14 DEF ReadsCopy, s

\* So the whole tree is read back as a copy.
LEMMA TreeReadCopies ==
    ASSUME NEW sub, IsTree(tree, sub)
    PROVE  \E b : Copies(sub, IF tree = <<>> THEN 0 ELSE 1, TreeRead(Preorder), 0, b)
<1>. DEFINE L == 0 .. Len(tree)
            root == IF tree = <<>> THEN 0 ELSE 1
            data == Preorder
<1>1. PICK nodes : NodeTokens(nodes) /\ data = nodes[root]
  BY PreorderIs
<1>2. root \in L /\ Len(tree) \in Nat
  <2>1. Len(tree) \in Nat /\ (tree # <<>> <=> Len(tree) > 0)
    BY TreeNodes
  <2>. QED BY <2>1
<1>. HIDE DEF root, data
<1>3. data \in Seq(Tokens)
  <2>. DEFINE S == Tokens
  <2>1. nodes \in [0 .. Len(tree) -> Seq(S)]
    BY <1>1 DEF NodeTokens
  <2>. HIDE DEF S
  <2>2. data \in Seq(S)
    BY <1>1, <1>2, <2>1
  <2>. QED BY <2>2 DEF S
<1>4. PICK read : NodesRead(read, data) /\ TreeRead(data) = read[1][0]
  BY <1>3, ReadIs
<1>. DEFINE Right(n) == \A f, k : k \in Nat /\ Has(data, f, nodes[n]) => ReadsCopy(sub, nodes, read, n, f, k)
            N == {n \in L : Right(n)}
<1>5. ASSUME NEW n \in L, \A m \in L : Sizes[m] < Sizes[n] => m \in N PROVE n \in N
  <2>1. CASE n = 0
    <3>1. ASSUME NEW f, NEW k \in Nat, Has(data, f, nodes[0]) PROVE ReadsCopy(sub, nodes, read, 0, f, k)
      BY <1>1, <1>3, <1>4, <3>1, ReadsNull
    <3>2. Right(0)
      BY <3>1
    <3>. HIDE DEF Right
    <3>. QED BY <2>1, <3>2
  <2>2. CASE n # 0
    <3>1. n \in 1 .. Len(tree) /\ tree[n].left \in N /\ tree[n].right \in N
      <4>. HIDE DEF Right, N
      <4>. QED BY <1>5, <2>2, SizesDecrease
    <3>2. \A m \in {tree[n].left, tree[n].right} : \A f, k :
              k \in Nat /\ Has(data, f, nodes[m]) => ReadsCopy(sub, nodes, read, m, f, k)
      BY <3>1
    <3>3. ASSUME NEW f, NEW k \in Nat, Has(data, f, nodes[n]) PROVE ReadsCopy(sub, nodes, read, n, f, k)
      <4>. HIDE DEF Right, N
      <4>. QED BY <1>1, <1>3, <1>4, <3>1, <3>2, <3>3, ReadsNode
    <3>4. Right(n)
      BY <3>3
    <3>. HIDE DEF Right
    <3>. QED BY <3>4
  <2>. QED BY <2>1, <2>2
<1>6. L \subseteq N
  <2>1. Sizes \in [L -> Nat]
    BY SizesDecrease
  <2>. HIDE DEF N, L
  <2>. QED BY <1>5, <2>1, SizeInduction
<1>7. Has(data, 1, nodes[root])
  <2>. DEFINE S == Tokens
  <2>1. data \in Seq(S)
    BY <1>3
  <2>. HIDE DEF S
  <2>2. Len(data) \in Nat /\ 1 + Len(data) - 1 <= Len(data) /\ \A i \in 1 .. Len(data) : 1 + i - 1 = i
    BY <2>1
  <2>. QED BY <1>1, <2>2 DEF Has
<1>8. ReadsCopy(sub, nodes, read, root, 1, 0)
  <2>1. Right(root)
    BY <1>2, <1>6
  <2>. QED BY <1>7, <2>1
<1>. QED BY <1>4, <1>8 DEF ReadsCopy, data, root

\* A copy is a tree, with as many nodes of any points.
LEMMA CopyIsTree ==
    ASSUME NEW sub, IsTree(tree, sub), tree # <<>>, NEW t, NEW b, Copies(sub, 1, t, 0, b)
    PROVE  /\ \E below : IsTree(t, below)
           /\ \A count : Counted(tree, count) => Counted(t, count)
<1>. DEFINE inverse(m) == {j \in 1 .. Len(t) : b[j] \in sub[m]}
            below == [i \in 0 .. Len(t) |-> IF i = 0 THEN {} ELSE inverse(b[i])]
<1>1. t \in Seq(Nodes) /\ t # <<>>
  BY DEF Copies
<1>2. Len(t) \in Nat /\ 1 \in 1 .. Len(t) /\ \A i \in 1 .. Len(t) : t[i] \in Nodes
  <2>. DEFINE S == Nodes
  <2>1. t \in Seq(S)
    BY <1>1
  <2>. HIDE DEF S
  <2>2. Len(t) \in Nat /\ (t # <<>> => Len(t) # 0) /\ \A i \in 1 .. Len(t) : t[i] \in S
    BY <2>1, EmptySeq
  <2>. QED BY <1>1, <2>2 DEF S
<1>3. /\ Len(tree) \in Nat /\ sub \in [0 .. Len(tree) -> SUBSET (1 .. Len(tree))]
      /\ sub[0] = {} /\ sub[1] = 1 .. Len(tree) /\ 1 .. Len(tree) \subseteq 0 .. Len(tree)
  BY TreeNodes DEF IsTree
<1>4. /\ b \in [1 .. Len(t) -> 1 .. Len(tree)] /\ b[1] = 1
      /\ \A i, j \in 1 .. Len(t) : b[i] = b[j] => i = j
      /\ \A m \in 1 .. Len(tree) : \E i \in 1 .. Len(t) : b[i] = m
  BY <1>3 DEF Copies
<1>5. ASSUME NEW i \in 1 .. Len(t)
      PROVE  /\ t[i].point = tree[b[i]].point /\ t[i].axis = tree[b[i]].axis
             /\ t[i].left \in {0} \cup (i + 1) .. Len(t) /\ t[i].right \in {0} \cup (i + 1) .. Len(t)
             /\ IF tree[b[i]].left = 0 THEN t[i].left = 0 ELSE t[i].left # 0 /\ b[t[i].left] = tree[b[i]].left
             /\ IF tree[b[i]].right = 0 THEN t[i].right = 0 ELSE t[i].right # 0 /\ b[t[i].right] = tree[b[i]].right
  <2>1. CopyAt(t, 0, b, i)
    BY DEF Copies
  <2>2. ASSUME NEW c \in Nat, NEW old, ChildAt(t, 0, b, i, c, old)
        PROVE  c \in {0} \cup (i + 1) .. Len(t) /\ IF old = 0 THEN c = 0 ELSE c # 0 /\ b[c] = old
    <3>1. c - 0 = c
      OBVIOUS
    <3>. QED BY <1>2, <2>2, <3>1 DEF ChildAt
  <2>3. t[i].left \in Nat /\ t[i].right \in Nat
    BY <1>2 DEF Nodes
  <2>. QED BY <2>1, <2>2, <2>3 DEF CopyAt
<1>6. /\ below \in [0 .. Len(t) -> SUBSET (1 .. Len(t))] /\ below[0] = {}
      /\ \A i \in 1 .. Len(t) : below[i] = inverse(b[i])
  <2>1. /\ 0 \in 0 .. Len(t)
        /\ \A i \in 1 .. Len(t) : i \in 0 .. Len(t) /\ i # 0
    BY <1>2
  <2>. QED BY <2>1
<1>7. below[1] = 1 .. Len(t)
  BY <1>2, <1>3, <1>4, <1>6
<1>8. ASSUME NEW i \in 1 .. Len(t) PROVE TreeAt(t, below, i)
  <2>. DEFINE n == b[i]
              left == tree[n].left
              right == tree[n].right
  <2>1. n \in 1 .. Len(tree) /\ TreeAt(tree, sub, n)
    BY <1>4 DEF IsTree
  <2>2. /\ sub[n] = {n} \cup sub[left] \cup sub[right] /\ n \notin sub[left] \cup sub[right]
        /\ sub[left] \cap sub[right] = {}
        /\ \A m \in sub[n] \ {n} : m \in sub[Near(tree[n], tree[m].point)]
    BY <2>1 DEF TreeAt
  <2>3. below[i] = inverse(n) /\ below[t[i].left] = inverse(left) /\ below[t[i].right] = inverse(right)
    <3>1. ASSUME NEW c \in {0} \cup (i + 1) .. Len(t), NEW old,
                 IF old = 0 THEN c = 0 ELSE c # 0 /\ b[c] = old
          PROVE  below[c] = inverse(old)
      <4>1. CASE old = 0
        BY <1>3, <1>6, <3>1, <4>1
      <4>2. CASE old # 0
        <5>1. c \in 1 .. Len(t) /\ b[c] = old
          BY <1>2, <3>1, <4>2
        <5>. HIDE DEF below, inverse
        <5>. QED BY <1>6, <5>1
      <4>. QED BY <4>1, <4>2
    <3>. HIDE DEF below, inverse
    <3>. QED BY <1>5, <1>6, <3>1
  <2>4. \A q : Near(t[i], q) = IF GoesLeft(tree[n], q) THEN t[i].left ELSE t[i].right
    BY <1>5 DEF Near, GoesLeft
  <2>5. ASSUME NEW m \in below[i] \ {i} PROVE m \in below[Near(t[i], t[m].point)]
    <3>1. m \in 1 .. Len(t) /\ b[m] \in sub[n] /\ b[m] # n
      BY <1>4, <2>3, <2>5
    <3>2. b[m] \in sub[Near(tree[n], tree[b[m]].point)] /\ t[m].point = tree[b[m]].point
      BY <1>5, <2>2, <3>1
    <3>3. CASE GoesLeft(tree[n], t[m].point)
      <4>1. m \in inverse(left) /\ Near(t[i], t[m].point) = t[i].left
        BY <2>4, <3>1, <3>2, <3>3 DEF Near
      <4>. HIDE DEF below, inverse
      <4>. QED BY <2>3, <4>1
    <3>4. CASE ~GoesLeft(tree[n], t[m].point)
      <4>1. m \in inverse(right) /\ Near(t[i], t[m].point) = t[i].right
        BY <2>4, <3>1, <3>2, <3>4 DEF Near
      <4>. HIDE DEF below, inverse
      <4>. QED BY <2>3, <4>1
    <3>. QED BY <3>3, <3>4
  <2>6. /\ inverse(n) = {i} \cup inverse(left) \cup inverse(right)
        /\ i \notin inverse(left) \cup inverse(right) /\ inverse(left) \cap inverse(right) = {}
    <3>1. \A j \in 1 .. Len(t) : b[j] = n <=> j = i
      BY <1>4
    <3>. HIDE DEF left, right, n
    <3>2. inverse(n) = {i} \cup inverse(left) \cup inverse(right)
      BY <2>2, <3>1
    <3>3. i \notin inverse(left) \cup inverse(right) /\ inverse(left) \cap inverse(right) = {}
      BY <2>2, <3>1
    <3>. QED BY <3>2, <3>3
  <2>7. {t[i].left, t[i].right} \subseteq {0} \cup (i + 1) .. Len(t)
    BY <1>5
  <2>. HIDE DEF below, inverse, left, right, n
  <2>8. below[i] = {i} \cup below[t[i].left] \cup below[t[i].right]
        /\ i \notin below[t[i].left] \cup below[t[i].right]
        /\ below[t[i].left] \cap below[t[i].right] = {}
    BY <2>3, <2>6
  <2>. QED BY <2>5, <2>7, <2>8 DEF TreeAt
<1>9. ASSUME NEW j \in 2 .. Len(t) PROVE \E i \in 1 .. (j - 1) : j \in {t[i].left, t[i].right}
  <2>1. PICK i \in 1 .. (j - 1) : 0 + j \in {t[i].left, t[i].right}
    BY DEF Copies
  <2>2. 0 + j = j
    OBVIOUS
  <2>. QED BY <2>1, <2>2
<1>. HIDE DEF below, inverse
<1>10. IsTree(t, below)
  BY <1>1, <1>6, <1>7, <1>8, <1>9 DEF IsTree
<1>11. ASSUME NEW P \in SUBSET (Nat \X Nat)
       PROVE  Cardinality(Points(t, P)) = Cardinality(Points(tree, P))
  <2>. DEFINE A == Points(t, P)
              B == Points(tree, P)
              r == [i \in A |-> b[i]]
  <2>1. IsFiniteSet(A) /\ IsFiniteSet(B)
    <3>1. IsFiniteSet(1 .. Len(t)) /\ IsFiniteSet(1 .. Len(tree))
      BY <1>2, <1>3, FS_Interval
    <3>2. A \subseteq 1 .. Len(t) /\ B \subseteq 1 .. Len(tree)
      BY DEF Points
    <3>. HIDE DEF A, B
    <3>. QED BY <3>1, <3>2, FS_Subset
  <2>2. \A i \in 1 .. Len(t) : i \in A <=> b[i] \in B
    BY <1>4, <1>5 DEF Points
  <2>3. A \subseteq 1 .. Len(t) /\ B \subseteq 1 .. Len(tree)
    BY DEF Points
  <2>. HIDE DEF A, B
  <2>4. r \in [A -> B]
    BY <2>2, <2>3
  <2>5. \A i, j \in A : r[i] = r[j] => i = j
    BY <1>4, <2>3
  <2>6. \A m \in B : \E i \in A : r[i] = m
    <3>1. SUFFICES ASSUME NEW m \in B PROVE \E i \in A : r[i] = m
      OBVIOUS
    <3>2. PICK i \in 1 .. Len(t) : b[i] = m
      BY <1>4, <2>3
    <3>3. i \in A /\ r[i] = m
      BY <2>2, <3>2
    <3>. QED BY <3>3
  <2>. HIDE DEF r
  <2>7. r \in Bijection(A, B)
    BY <2>4, <2>5, <2>6 DEF Bijection, Injection, Surjection, IsInjective
  <2>8. Cardinality(A) = Cardinality(B)
    BY <2>1, <2>7, FS_Bijection DEF ExistsBijection
  <2>. QED BY <2>8 DEF A, B
<1>12. ASSUME NEW count, Counted(tree, count) PROVE Counted(t, count)
  <2>1. SUFFICES ASSUME NEW P \in SUBSET (Nat \X Nat)
                 PROVE  Cardinality(Points(t, P)) = SumFunctionOnSet(count, EventsIn(P))
    BY DEF Counted
  <2>. QED BY <1>11, <1>12 DEF Counted
<1>. QED BY <1>10, <1>12

\* So what deserialize makes of what serialize wrote is a tree with the same points.
LEMMA RebuiltIsTree ==
    ASSUME NEW sub, IsTree(tree, sub)
    PROVE  /\ \E below : IsTree(TreeRead(Preorder), below)
           /\ \A count : Counted(tree, count) => Counted(TreeRead(Preorder), count)
<1>1. CASE tree = <<>>
  <2>1. PICK b : Copies(sub, IF tree = <<>> THEN 0 ELSE 1, TreeRead(Preorder), 0, b)
    BY TreeReadCopies
  <2>2. TreeRead(Preorder) = <<>>
    BY <1>1, <2>1 DEF Copies
  <2>. QED BY <1>1, <2>2
<1>2. CASE tree # <<>>
  <2>1. PICK b : Copies(sub, IF tree = <<>> THEN 0 ELSE 1, TreeRead(Preorder), 0, b)
    BY TreeReadCopies
  <2>2. Copies(sub, 1, TreeRead(Preorder), 0, b)
    BY <1>2, <2>1
  <2>. QED BY <1>2, <2>2, CopyIsTree
<1>. QED BY <1>1, <1>2

-----------------------------------------------------------------------------
\* The inductive invariant of the tree, and what it says of the search.

\* A new KDTreeDetector has an empty tree.
LEMMA TreeInvInit == Init => TreeInv
<1>. SUFFICES ASSUME Init, "kdtree" \in Kinds
              PROVE  /\ \E sub : IsTree(tree, sub)
                     /\ Counted(tree, seen["kdtree"])
                     /\ Recalled(recent, Updates("kdtree"))
  BY DEF TreeInv
<1>1. tree = <<>> /\ recent = <<>> /\ seen["kdtree"] = NeverSeen
  BY DEF Init, KdInit
<1>. QED BY <1>1, EmptyTree DEF Updates

\* update inserts one point, reset clears, and a rebuild reads back what was written.
LEMMA TreeInvNext == Typing /\ TreeInv /\ [Next]_vars => TreeInv'
<1>. SUFFICES ASSUME Typing, TreeInv, [Next]_vars, "kdtree" \in Kinds
              PROVE  /\ \E sub : IsTree(tree', sub)
                     /\ Counted(tree', seen'["kdtree"])
                     /\ Recalled(recent', Updates("kdtree")')
  BY DEF TreeInv
<1>. DEFINE count == seen["kdtree"]
<1>0. /\ count \in [Events -> Nat]
      /\ \E sub : IsTree(tree, sub)
      /\ Counted(tree, count)
      /\ Recalled(recent, SumFunctionOnSet(count, Events))
      /\ Updates("kdtree")' = SumFunctionOnSet(seen'["kdtree"], Events)
  BY DEF Typing, TreeInv, Updates
<1>1. ASSUME UNCHANGED kdVars, seen'["kdtree"] = seen["kdtree"]
      PROVE  /\ \E sub : IsTree(tree', sub)
             /\ Counted(tree', seen'["kdtree"])
             /\ Recalled(recent', Updates("kdtree")')
  <2>1. tree' = tree /\ recent' = recent
    BY <1>1 DEF kdVars
  <2>. QED BY <1>0, <1>1, <2>1
<1>2. CASE ResetDetectors
  <2>1. tree' = <<>> /\ recent' = <<>> /\ seen'["kdtree"] = NeverSeen
    BY <1>2 DEF ResetDetectors, KdReset
  <2>. QED BY <1>0, <2>1, EmptyTree
<1>3. ASSUME NEW e \in Events, Update(e)
      PROVE  /\ \E sub : IsTree(tree', sub)
             /\ Counted(tree', seen'["kdtree"])
             /\ Recalled(recent', Updates("kdtree")')
  <2>1. CASE "kdtree" \in Present
    <3>1. /\ tree' = Inserted(Feature[e])
          /\ recent' = Append(IF Len(recent) >= MaxPoints THEN Tail(recent) ELSE recent, Feature[e])
          /\ seen'["kdtree"] = [count EXCEPT ![e] = @ + 1]
      BY <1>3, <2>1 DEF Update, KdUpdate
    <3>2. Feature[e] \in Nat \X Nat
      BY FeatureAssumption
    <3>3. PICK sub : IsTree(tree, sub)
      BY <1>0
    <3>4. \E below : IsTree(Inserted(Feature[e]), below)
      BY <3>2, <3>3, InsertedIsTree
    <3>5. Counted(Inserted(Feature[e]), [count EXCEPT ![e] = @ + 1])
      <4>. HIDE DEF count
      <4>. QED BY <1>0, <3>3, InsertedCounted
    <3>6. /\ SumFunctionOnSet(count, Events) \in Nat
          /\ SumFunctionOnSet([count EXCEPT ![e] = @ + 1], Events) = SumFunctionOnSet(count, Events) + 1
      <4>. DEFINE more == [count EXCEPT ![e] = @ + 1]
      <4>1. /\ \A x \in Events : count[x] \in Nat
            /\ more[e] = count[e] + 1 /\ \A x \in Events \ {e} : more[x] = count[x]
        <5>. HIDE DEF count
        <5>. QED BY <1>0
      <4>. HIDE DEF count, more
      <4>2. SumFunctionOnSet(count, Events) \in Nat
        BY <4>1, SumNat, EventsAssumption
      <4>3. SumFunctionOnSet(more, Events) = SumFunctionOnSet(count, Events) + 1
        BY <4>1, SumIncremented, EventsAssumption
      <4>. QED BY <4>2, <4>3 DEF more
    <3>. DEFINE updates == SumFunctionOnSet(count, Events)
    <3>7. Recalled(recent', updates + 1)
      <4>1. updates \in Nat /\ Recalled(recent, updates)
        BY <1>0, <3>6
      <4>. HIDE DEF updates
      <4>. QED BY <3>1, <3>2, <4>1, RecalledOneMore
    <3>. QED BY <1>0, <3>1, <3>4, <3>5, <3>6, <3>7
  <2>2. CASE "kdtree" \notin Present
    <3>1. UNCHANGED kdVars /\ seen'["kdtree"] = seen["kdtree"]
      BY <1>3, <2>2 DEF Update
    <3>. QED BY <1>1, <3>1
  <2>. QED BY <2>1, <2>2
<1>4. ASSUME NEW kind \in Kinds, AddDetector(kind)
      PROVE  /\ \E sub : IsTree(tree', sub)
             /\ Counted(tree', seen'["kdtree"])
             /\ Recalled(recent', Updates("kdtree")')
  BY <1>1, <1>4 DEF AddDetector
<1>5. CASE Rebuild
  <2>1. tree' = TreeRead(Preorder) /\ recent' = recent /\ seen' = seen
    BY <1>5 DEF Rebuild, KdDeserialize, KdSerialized
  <2>2. PICK sub : IsTree(tree, sub)
    BY <1>0
  <2>3. /\ \E below : IsTree(TreeRead(Preorder), below)
        /\ Counted(TreeRead(Preorder), count)
    BY <1>0, <2>2, RebuiltIsTree
  <2>. QED BY <1>0, <2>1, <2>3
<1>6. CASE UNCHANGED vars
  <2>1. UNCHANGED kdVars /\ seen' = seen
    BY <1>6 DEF vars
  <2>. QED BY <1>1, <2>1
<1>. QED BY <1>2, <1>3, <1>4, <1>5, <1>6 DEF Next, ClearDetectors, Reset

\* The search finds, of what was inserted, what is close.
SearchInv ==
    "kdtree" \in Kinds =>
        \A p \in Nat \X Nat :
            /\ Nearest(p) \in Best
            /\ \A x \in Nat :
                  Within(Nearest(p), x)
                    = Capped(Within(NoneFound, x) + SumFunctionOnSet(seen["kdtree"], EventsIn(UpTo(p, x))))

\* The search of the tree as it is after any calls.
LEMMA TreeInvSearches == TreeInv => SearchInv
<1>. SUFFICES ASSUME TreeInv, "kdtree" \in Kinds, NEW p \in Nat \X Nat
              PROVE  /\ Nearest(p) \in Best
                     /\ \A x \in Nat :
                          Within(Nearest(p), x)
                            = Capped(Within(NoneFound, x) + SumFunctionOnSet(seen["kdtree"], EventsIn(UpTo(p, x))))
  BY DEF SearchInv
<1>1. PICK sub : IsTree(tree, sub)
  BY DEF TreeInv
<1>2. \A x \in Nat : Cardinality(Points(tree, UpTo(p, x))) = SumFunctionOnSet(seen["kdtree"], EventsIn(UpTo(p, x)))
  <2>1. \A x \in Nat : UpTo(p, x) \in SUBSET (Nat \X Nat)
    BY DEF UpTo
  <2>. QED BY <2>1 DEF TreeInv, Counted
<1>3. Nearest(p) \in Best
  BY <1>1, NearestFinds
<1>4. ASSUME NEW x \in Nat
      PROVE  Within(Nearest(p), x)
               = Capped(Within(NoneFound, x) + SumFunctionOnSet(seen["kdtree"], EventsIn(UpTo(p, x))))
  <2>1. Within(Nearest(p), x)
          = Capped(Within(NoneFound, x) + Cardinality(Points(tree, UpTo(p, x))))
    BY <1>1, NearestFinds
  <2>. QED BY <1>2, <2>1
<1>. QED BY <1>3, <1>4

\* The smaller one of two numbers.
LEMMA MinOfTwo ==
    ASSUME NEW a \in Nat, NEW b \in Nat
    PROVE  Min({a, b}) = IF a < b THEN a ELSE b
<1>1. \A x, y \in {a, b} : (\A z \in {a, b} : x <= z) /\ (\A z \in {a, b} : y <= z) => x = y
  OBVIOUS
<1>. DEFINE m == IF a < b THEN a ELSE b
<1>2. m \in {a, b} /\ \A z \in {a, b} : m <= z
  OBVIOUS
<1>3. Min({a, b}) \in {a, b} /\ \A z \in {a, b} : Min({a, b}) <= z
  BY <1>2 DEF Min
<1>. QED BY <1>1, <1>2, <1>3

\* For the events, whose distances are below Far, that is what SearchIsExact says.
LEMMA Exact == Typing /\ TreeInv /\ SearchInv => SearchIsExact
<1>. SUFFICES ASSUME Typing, TreeInv, SearchInv, "kdtree" \in Kinds
              PROVE  /\ Len(recent) = Min({MaxPoints, Updates("kdtree")})
                     /\ \A q \in Events : \A d \in {Squared(Feature[q], Feature[e]) : e \in Events} :
                          Cardinality({i \in DOMAIN Nearest(Feature[q]) : Nearest(Feature[q])[i] <= d})
                            = Min({K, SumFunctionOnSet(seen["kdtree"],
                                        {e \in Events : Squared(Feature[q], Feature[e]) <= d})})
  BY DEF SearchIsExact
<1>. DEFINE count == seen["kdtree"]
<1>1. \A e \in Events : count[e] \in Nat /\ Feature[e] \in Nat \X Nat
  BY FeatureAssumption DEF Typing
<1>2. Len(recent) = Min({MaxPoints, Updates("kdtree")})
  <2>1. Updates("kdtree") \in Nat
    <3>. HIDE DEF count
    <3>1. SumFunctionOnSet(count, Events) \in Nat
      BY <1>1, SumNat, EventsAssumption
    <3>. QED BY <3>1 DEF Updates, count
  <2>2. Len(recent) = IF Updates("kdtree") < MaxPoints THEN Updates("kdtree") ELSE MaxPoints
    BY DEF TreeInv, Recalled
  <2>3. MaxPoints \in Nat
    BY NeighboursAssumption
  <2>4. Min({MaxPoints, Updates("kdtree")}) = IF MaxPoints < Updates("kdtree") THEN MaxPoints ELSE Updates("kdtree")
    BY <2>1, <2>3, MinOfTwo
  <2>. QED BY <2>1, <2>2, <2>3, <2>4
<1>3. ASSUME NEW q \in Events, NEW e \in Events, NEW d, d = Squared(Feature[q], Feature[e])
      PROVE  Cardinality({i \in DOMAIN Nearest(Feature[q]) : Nearest(Feature[q])[i] <= d})
               = Min({K, SumFunctionOnSet(count, {f \in Events : Squared(Feature[q], Feature[f]) <= d})})
  <2>. DEFINE p == Feature[q]
              found == Nearest(p)
              within == {f \in Events : Squared(Feature[q], Feature[f]) <= d}
  <2>1. d \in Nat /\ d < Far
    <3>1. d \in SquaredDistances
      BY <1>3 DEF SquaredDistances
    <3>. QED BY <1>1, <1>3, <3>1, SquaredNat, DistancesAssumption
  <2>2. p \in Nat \X Nat
    BY <1>1
  <2>3. found \in Best /\ Within(found, d) = Capped(Within(NoneFound, d) + SumFunctionOnSet(count, EventsIn(UpTo(p, d))))
    BY <2>1, <2>2 DEF SearchInv
  <2>4. EventsIn(UpTo(p, d)) = within
    BY <1>1 DEF EventsIn, UpTo
  <2>5. SumFunctionOnSet(count, within) \in Nat
    <3>1. IsFiniteSet(within) /\ within \subseteq Events
      BY EventsAssumption, FS_Subset
    <3>. HIDE DEF count, within
    <3>. QED BY <1>1, <3>1, SumNat
  <2>6. Within(NoneFound, d) = 0
    BY <2>1, NoneFoundIs
  <2>7. Within(found, d) = Capped(SumFunctionOnSet(count, within))
    BY <2>3, <2>4, <2>5, <2>6
  <2>8. Within(found, d) = Cardinality({i \in DOMAIN found : found[i] <= d})
    BY <2>3 DEF Within, Best
  <2>9. Min({K, SumFunctionOnSet(count, within)}) = Capped(SumFunctionOnSet(count, within))
    <3>1. K \in Nat
      BY NeighboursAssumption
    <3>. HIDE DEF count, within
    <3>2. Min({K, SumFunctionOnSet(count, within)})
            = IF K < SumFunctionOnSet(count, within) THEN K ELSE SumFunctionOnSet(count, within)
      BY <2>5, <3>1, MinOfTwo
    <3>. QED BY <2>5, <3>1, <3>2 DEF Capped
  <2>. QED BY <2>7, <2>8, <2>9
<1>. QED BY <1>2, <1>3

\* The pruned search of the KD-tree finds what a search through all inserted points would: for any
\* event and any distance d that occurs, as many neighbours within d as there were updates with
\* points within d, up to K; and recent_points_ is as long as it may be.  It holds after any number
\* of updates, resets and rebuilds, for any points, K and max_points_.
THEOREM SearchIsExactHolds == Spec => []SearchIsExact
<1>1. Init => Typing /\ TreeInv
  BY TypingInit, TreeInvInit
<1>2. Typing /\ TreeInv /\ [Next]_vars => Typing' /\ TreeInv'
  BY TypingNext, TreeInvNext
<1>3. Typing /\ TreeInv => SearchIsExact
  BY TreeInvSearches, Exact
<1>. QED BY <1>1, <1>2, <1>3, PTL DEF Spec

-----------------------------------------------------------------------------
\* What a rebuild leaves the scores of all three detectors.

\* The i-th distance of a list is at most x if there are i that are.
LEMMA WithinPlace ==
    ASSUME NEW best \in Best, NEW x \in Nat, NEW i \in 1 .. K
    PROVE  best[i] <= x <=> i <= Within(best, x)
<1>. DEFINE A == {j \in 1 .. K : best[j] <= x}
<1>1. K \in Nat /\ best \in [1 .. K -> Nat] /\ \A j, k \in 1 .. K : j <= k => best[j] <= best[k]
  BY WithinBounds DEF Best
<1>2. IsFiniteSet(1 .. K) /\ A \subseteq 1 .. K /\ IsFiniteSet(1 .. i) /\ IsFiniteSet(1 .. (i - 1))
      /\ Cardinality(1 .. i) = i /\ Cardinality(1 .. (i - 1)) = i - 1
  <2>1. i \in Nat /\ i - 1 \in Nat /\ 1 \in Nat /\ i >= 1
    OBVIOUS
  <2>2. IsFiniteSet(1 .. i) /\ Cardinality(1 .. i) = i
    <3>1. IsFiniteSet(1 .. i) /\ Cardinality(1 .. i) = IF 1 > i THEN 0 ELSE i - 1 + 1
      BY <2>1, FS_Interval
    <3>. QED BY <2>1, <3>1
  <2>3. IsFiniteSet(1 .. (i - 1)) /\ Cardinality(1 .. (i - 1)) = i - 1
    <3>. DEFINE k == i - 1
    <3>1. k \in Nat
      BY <2>1
    <3>. HIDE DEF k
    <3>2. IsFiniteSet(1 .. k) /\ Cardinality(1 .. k) = IF 1 > k THEN 0 ELSE k - 1 + 1
      BY <3>1, FS_Interval
    <3>3. IsFiniteSet(1 .. k) /\ Cardinality(1 .. k) = k
      BY <3>1, <3>2
    <3>. QED BY <3>3 DEF k
  <2>4. IsFiniteSet(1 .. K)
    BY <1>1, FS_Interval
  <2>. QED BY <2>2, <2>3, <2>4
<1>3. IsFiniteSet(A) /\ Cardinality(A) \in Nat
  <2>. HIDE DEF A
  <2>. QED BY <1>2, FS_Subset, FS_CardinalityType
<1>4. CASE best[i] <= x
  <2>1. 1 .. i \subseteq A
    <3>1. SUFFICES ASSUME NEW j \in 1 .. i PROVE j \in A
      OBVIOUS
    <3>2. j \in 1 .. K /\ best[j] <= best[i] /\ best[j] \in Nat /\ best[i] \in Nat
      BY <1>1
    <3>. QED BY <1>4, <3>2
  <2>. HIDE DEF A
  <2>2. Cardinality(1 .. i) <= Cardinality(A)
    BY <1>3, <2>1, FS_Subset
  <2>. QED BY <1>2, <1>4, <2>2 DEF Within, A
<1>5. CASE ~(best[i] <= x)
  <2>1. A \subseteq 1 .. (i - 1)
    <3>1. SUFFICES ASSUME NEW j \in A PROVE j \in 1 .. (i - 1)
      OBVIOUS
    <3>2. j \in 1 .. K /\ best[j] <= x /\ best[j] \in Nat /\ best[i] \in Nat /\ (i <= j => best[i] <= best[j])
      BY <1>1
    <3>. QED BY <1>5, <3>2
  <2>. HIDE DEF A
  <2>2. Cardinality(A) <= Cardinality(1 .. (i - 1))
    BY <1>2, <2>1, FS_Subset
  <2>3. Cardinality(A) <= i - 1
    BY <1>2, <2>2
  <2>4. ~(i <= Cardinality(A))
    BY <1>3, <2>3
  <2>. QED BY <1>5, <2>4 DEF Within, A
<1>. QED BY <1>4, <1>5

\* Two lists with as many distances within any bound are the same.
LEMMA SameWithin ==
    ASSUME NEW a \in Best, NEW b \in Best, \A x \in Nat : Within(a, x) = Within(b, x)
    PROVE  a = b
<1>1. a \in [1 .. K -> Nat] /\ b \in [1 .. K -> Nat]
  BY DEF Best
<1>2. ASSUME NEW i \in 1 .. K PROVE a[i] = b[i]
  <2>1. a[i] \in Nat /\ b[i] \in Nat
    BY <1>1
  <2>2. i <= Within(a, a[i]) /\ i <= Within(b, b[i])
    BY <2>1, WithinPlace
  <2>3. i <= Within(b, a[i]) /\ i <= Within(a, b[i])
    BY <2>1, <2>2
  <2>4. b[i] <= a[i] /\ a[i] <= b[i]
    BY <2>1, <2>3, WithinPlace
  <2>. QED BY <2>1, <2>4
<1>3. a = [i \in 1 .. K |-> a[i]] /\ b = [i \in 1 .. K |-> b[i]]
  BY <1>1
<1>. QED BY <1>2, <1>3

\* The average of CMSDetector::update is (average + 1) / 2 and starts at 1.
AverageInv == average = 1

\* So it never changes, and the rebuilt detector has it without reading it.
LEMMA AverageNext == AverageInv /\ [Next]_vars => AverageInv'
<1>. SUFFICES ASSUME AverageInv, [Next]_vars PROVE average' = 1
  BY DEF AverageInv
<1>1. ASSUME NEW e \in Events, Update(e) PROVE average' = 1
  <2>1. (1 + 1) \div 2 = 1
    OBVIOUS
  <2>. QED BY <1>1, <2>1 DEF Update, CmsUpdate, cmsVars, AverageInv
<1>2. CASE ResetDetectors
  BY <1>2 DEF ResetDetectors, CmsReset
<1>3. ASSUME NEW kind \in Kinds, AddDetector(kind) PROVE average' = 1
  BY <1>3 DEF AddDetector, cmsVars, AverageInv
<1>4. CASE Rebuild
  BY <1>4 DEF Rebuild, CmsDeserialize
<1>5. CASE UNCHANGED vars
  BY <1>5 DEF vars, cmsVars, AverageInv
<1>. QED BY <1>1, <1>2, <1>3, <1>4, <1>5 DEF Next, ClearDetectors, Reset

\* detectors_ lists detectors of known kinds.
ListInv == detectors \in Seq(Kinds)

\* Only add_detector and clear_detectors change it.
LEMMA ListNext == ListInv /\ [Next]_vars => ListInv'
<1>. SUFFICES ASSUME ListInv, [Next]_vars PROVE detectors' \in Seq(Kinds)
  BY DEF ListInv
<1>1. ASSUME NEW kind \in Kinds, AddDetector(kind) PROVE detectors' \in Seq(Kinds)
  BY <1>1 DEF AddDetector, ListInv
<1>2. CASE ClearDetectors
  BY <1>2 DEF ClearDetectors
<1>. QED BY <1>1, <1>2 DEF Next, Reset, Rebuild, Update, vars, ListInv

\* The score of a mean distance <<sum, count>>.
Similarity(mean) ==
    FullScore - Min({FullScore, (FullScore * mean[1]) \div (Reach * mean[2])})

\* KdScore from the list that the search found and recent_points_.
ScoreOf(list, points) ==
    LET mean[best \in Best] == Mean(best)
        similarity[m \in Nat \X Nat] ==
            FullScore - Min({FullScore, (FullScore * m[1]) \div (Reach * m[2])})
    IN  IF points = <<>> THEN 0 ELSE similarity[mean[list]]

\* A rebuild keeps counters, table and recent points; its tree is another one, whose search has the
\* same number of neighbours within any distance and so finds the same list.
LEMMA RebuildScoresAlike ==
    Typing /\ AverageInv /\ ListInv /\ SearchInv /\ SearchInv'
        => (Rebuild => \A d \in Present, e \in Events : DetectorScore(d, e)' = DetectorScore(d, e))
<1>. SUFFICES ASSUME Typing, AverageInv, ListInv, SearchInv, SearchInv', Rebuild,
                     NEW d \in Present, NEW e \in Events
              PROVE  DetectorScore(d, e)' = DetectorScore(d, e)
  OBVIOUS
<1>0. d \in Kinds
  BY DEF ListInv, Present, ToSet
<1>1. /\ counters' = counters /\ table' = table /\ average' = average
      /\ recent' = recent /\ seen' = seen
  BY RebuildKeeps DEF Rebuild, BloomDeserialize, BloomSerialized, CmsDeserialize, KdDeserialize,
       KdSerialized, AverageInv
<1>2. BloomScore(e)' = BloomScore(e)
  BY <1>1 DEF BloomScore, BloomContains
<1>3. CmsScore(e)' = CmsScore(e)
  BY <1>1 DEF CmsScore, Estimate
<1>4. CASE d = "kdtree"
  <2>. DEFINE p == Feature[e]
              found == Nearest(p)
              after == Nearest(p)'
  <2>1. p \in Nat \X Nat
    BY FeatureAssumption
  <2>2. /\ found \in Best /\ after \in Best
        /\ \A x \in Nat : Within(after, x) = Within(found, x)
    BY <1>0, <1>1, <1>4, <2>1 DEF SearchInv
  <2>3. after = found
    <3>. HIDE DEF after, found
    <3>. QED BY <2>2, SameWithin
  <2>4. KdScore(e) = ScoreOf(found, recent) /\ KdScore(e)' = ScoreOf(after, recent')
    BY Zenon DEF KdScore, NearestDistance, ScoreOf
  <2>. HIDE DEF found, after
  <2>5. KdScore(e)' = KdScore(e)
    BY <1>1, <2>3, <2>4
  <2>. QED BY <1>4, <2>5 DEF DetectorScore
<1>. QED BY <1>0, <1>2, <1>3, <1>4, KindsAssumption DEF DetectorScore

\* deserialize of what serialize wrote gives every detector in the list the score it had for every
\* event, although the nodes of the tree are in another order.
THEOREM RebuiltScoresAlikeHolds == Spec => RebuiltScoresAlike
<1>1. Init => Typing /\ TreeInv /\ AverageInv /\ ListInv
  BY TypingInit, TreeInvInit DEF Init, CmsInit, AverageInv, ListInv
<1>2. Typing /\ TreeInv /\ AverageInv /\ ListInv /\ [Next]_vars
        => Typing' /\ TreeInv' /\ AverageInv' /\ ListInv'
  BY TypingNext, TreeInvNext, AverageNext, ListNext
<1>3. TreeInv => SearchInv
  BY TreeInvSearches
<1>4. Typing /\ AverageInv /\ ListInv /\ SearchInv /\ SearchInv'
        => [Rebuild => \A d \in Present, e \in Events : DetectorScore(d, e)' = DetectorScore(d, e)]_vars
  BY RebuildScoresAlike
<1>. QED BY <1>1, <1>2, <1>3, <1>4, PTL DEF Spec, RebuiltScoresAlike

-----------------------------------------------------------------------------
\* What a further occurrence of an event does to its scores.

\* The least of some numbers is at most each of them.
LEMMA MinIs ==
    ASSUME NEW S \in SUBSET Nat, S # {}
    PROVE  Min(S) \in S /\ \A m \in S : Min(S) <= m
<1>1. \E n \in S : \A m \in S : n <= m
  BY LeastNatural
<1>. QED BY <1>1 DEF Min

\* The greatest of some bounded numbers is at least each of them.
LEMMA MaxIs ==
    ASSUME NEW n \in Nat, NEW S \in SUBSET (0 .. n), S # {}
    PROVE  Max(S) \in S /\ \A m \in S : m <= Max(S)
<1>. DEFINE T == {n - m : m \in S}
<1>1. T \in SUBSET Nat /\ T # {}
  <2>1. \A m \in S : m \in 0 .. n /\ n - m \in Nat
    OBVIOUS
  <2>. QED BY <2>1
<1>2. PICK t \in T : \A k \in T : t <= k
  <2>. HIDE DEF T
  <2>. QED BY <1>1, LeastNatural
<1>3. PICK x \in S : t = n - x
  BY <1>2
<1>4. ASSUME NEW m \in S PROVE x >= m
  <2>1. n - m \in T
    OBVIOUS
  <2>2. n - x <= n - m
    BY <1>2, <1>3, <2>1
  <2>3. x \in 0 .. n /\ m \in 0 .. n
    OBVIOUS
  <2>. QED BY <2>2, <2>3
<1>5. Max(S) \in S /\ \A m \in S : Max(S) >= m
  BY <1>4 DEF Max
<1>6. \A m \in S : m \in 0 .. n
  OBVIOUS
<1>. QED BY <1>5, <1>6

\* A quotient is the largest number whose product with the divisor is at most the dividend.
LEMMA QuotientAtLeast ==
    ASSUME NEW a \in Nat, NEW b \in Nat \ {0}, NEW q \in Nat, b * q <= a
    PROVE  q <= a \div b
BY Z3

\* A quotient grows with the dividend and falls with the divisor.
LEMMA QuotientMonotone ==
    ASSUME NEW a \in Nat, NEW b \in Nat \ {0}, NEW c \in Nat, NEW d \in Nat \ {0}, a <= c, d <= b
    PROVE  a \div b \in Nat /\ a \div b <= c \div d
<1>. DEFINE q == a \div b
<1>1. q \in Nat /\ b * q <= a
  BY Z3
<1>. HIDE DEF q
<1>2. d * q <= b * q
  BY <1>1, Z3
<1>3. d * q \in Nat /\ b * q \in Nat
  BY <1>1
<1>4. d * q <= c
  BY <1>1, <1>2, <1>3
<1>5. q <= c \div d
  BY <1>1, <1>4, QuotientAtLeast
<1>. QED BY <1>1, <1>5 DEF q

\* mean is the loop of Mean(best): <<sum, count>> of the distances up to each place.
Loops(mean, best) ==
    mean = [i \in 0 .. K |->
              IF i = 0 THEN <<0, 0>>
              ELSE IF best[i] < Far
                   THEN <<mean[i - 1][1] + Root(best[i]), mean[i - 1][2] + 1>>
                   ELSE mean[i - 1]]

\* What it computes, step by step.
Means(mean, best) ==
    /\ mean \in [0 .. K -> Nat \X Nat]
    /\ mean[0] = <<0, 0>>
    /\ \A i \in 1 .. K :
          mean[i] = IF best[i] < Far
                    THEN <<mean[i - 1][1] + Root(best[i]), mean[i - 1][2] + 1>>
                    ELSE mean[i - 1]

\* The distances that are summed have roots.
Square(best) == \A i \in 1 .. K : best[i] < Far => Root(best[i]) \in Nat

\* The loop has a result.
LEMMA MeanIs ==
    ASSUME NEW best \in Best, Square(best)
    PROVE  \E mean : Means(mean, best) /\ Mean(best) = mean[K]
<1>. DEFINE R(f) == Loops(f, best)
            C == CHOOSE f : R(f)
            D == 0 .. K
            V == Nat \X Nat
            size == [i \in D |-> i]
            more(i, m) == IF best[i] < Far THEN <<m[1] + Root(best[i]), m[2] + 1>> ELSE m
            h == [x \in D \X [D -> V] |->
                     IF x[1] = 0 THEN <<0, 0>> ELSE more(x[1], x[2][x[1] - 1])]
<1>1. K \in Nat /\ best \in [1 .. K -> Nat] /\ K >= 1
  BY WithinBounds
<1>2. ASSUME NEW i \in D, i # 0, NEW m \in V PROVE more(i, m) \in V
  <2>1. i \in 1 .. K
    BY <1>1, <1>2
  <2>2. m[1] \in Nat /\ m[2] \in Nat
    OBVIOUS
  <2>3. CASE best[i] < Far
    <3>1. Root(best[i]) \in Nat
      BY <2>1, <2>3 DEF Square
    <3>. QED BY <2>2, <2>3, <3>1
  <2>. QED BY <2>3
<1>3. size \in [D -> Nat] /\ \A i \in D : size[i] = i
  BY <1>1
<1>. HIDE DEF more
<1>4. \A i \in D, f \in [D -> V] : h[<<i, f>>] = IF i = 0 THEN <<0, 0>> ELSE more(i, f[i - 1])
  OBVIOUS
<1>5. h \in [D \X [D -> V] -> V]
  <2>1. SUFFICES ASSUME NEW i \in D, NEW f \in [D -> V] PROVE h[<<i, f>>] \in V
    BY Zenon
  <2>2. i # 0 => i - 1 \in D
    BY <1>1
  <2>3. <<0, 0>> \in V
    OBVIOUS
  <2>4. i # 0 => f[i - 1] \in V
    BY <2>2
  <2>. HIDE DEF V, D, h
  <2>. QED BY <1>2, <1>4, <2>3, <2>4
<1>6. ASSUME NEW i \in D, NEW f \in [D -> V], NEW g \in [D -> V],
             \A j \in D : size[j] < size[i] => f[j] = g[j]
      PROVE  h[<<i, f>>] = h[<<i, g>>]
  <2>1. i # 0 => i - 1 \in D /\ i - 1 < i
    BY <1>1
  <2>2. i # 0 => f[i - 1] = g[i - 1]
    BY <1>3, <1>6, <2>1
  <2>. HIDE DEF h
  <2>. QED BY <1>4, <2>2
<1>7. PICK f : Solves(f, h, D, V)
  <2>. HIDE DEF D, R, C, size, h, V
  <2>1. LooksBack(h, size, D, V)
    BY <1>3, <1>5, <1>6 DEF LooksBack
  <2>2. <<0, 0>> \in V
    BY DEF V
  <2>. QED BY <2>1, <2>2, Recursion
<1>8. R(f)
  <2>1. f \in [D -> V] /\ \A i \in D : f[i] = IF i = 0 THEN <<0, 0>> ELSE more(i, f[i - 1])
    <3>. HIDE DEF h, D, V
    <3>1. f \in [D -> V] /\ \A i \in D : f[i] = h[<<i, f>>]
      BY <1>7 DEF Solves
    <3>. QED BY <1>4, <3>1
  <2>. HIDE DEF D
  <2>2. f = [i \in D |-> IF i = 0 THEN <<0, 0>> ELSE more(i, f[i - 1])]
    BY <2>1
  <2>. QED BY Zenon, <2>2 DEF Loops, more, D
<1>9. R(C)
  <2>. HIDE DEF R
  <2>. QED BY <1>8
<1>10. Mean(best) = C[K]
  BY Zenon DEF Mean, Loops
<1>. HIDE DEF C
<1>11. \A i \in D : C[i] = IF i = 0 THEN <<0, 0>> ELSE more(i, C[i - 1])
  <2>1. C = [i \in D |-> IF i = 0 THEN <<0, 0>> ELSE more(i, C[i - 1])]
    BY Zenon, <1>9 DEF Loops, more, D
  <2>. HIDE DEF D
  <2>. QED BY <2>1
<1>12. C = [i \in D |-> C[i]]
  <2>1. C = [i \in D |-> IF i = 0 THEN <<0, 0>> ELSE more(i, C[i - 1])]
    BY Zenon, <1>9 DEF Loops, more, D
  <2>. HIDE DEF D
  <2>. QED BY <2>1
<1>13. \A i \in D : C[i] \in V
  <2>. DEFINE N == {i \in Nat : i \in D => C[i] \in V}
  <2>1. 0 \in N
    BY <1>1, <1>11
  <2>2. ASSUME NEW i \in N PROVE i + 1 \in N
    <3>1. SUFFICES ASSUME i + 1 \in D PROVE C[i + 1] \in V
      BY <2>2
    <3>2. i \in D /\ i + 1 # 0 /\ (i + 1) - 1 = i /\ C[i] \in V
      BY <1>1, <2>2, <3>1
    <3>. HIDE DEF D, V, N
    <3>. QED BY <1>2, <1>11, <3>1, <3>2
  <2>. HIDE DEF N
  <2>3. Nat \subseteq N
    BY <2>1, <2>2, SetInduction
  <2>. QED BY <1>1, <2>3 DEF N
<1>14. Means(C, best)
  <2>1. C \in [D -> V]
    <3>. HIDE DEF D, V
    <3>. QED BY <1>12, <1>13
  <2>2. 0 \in D /\ \A i \in 1 .. K : i \in D /\ i # 0
    BY <1>1
  <2>3. C[0] = <<0, 0>> /\ \A i \in 1 .. K : C[i] = more(i, C[i - 1])
    <3>. HIDE DEF D
    <3>. QED BY <1>11, <2>2
  <2>. QED BY <2>1, <2>3 DEF Means, more
<1>. QED BY <1>10, <1>14

\* Closer than Far there are only events, up to K.
LEMMA FoundWithin ==
    ASSUME Typing, SearchInv, "kdtree" \in Kinds, NEW p \in Nat \X Nat, NEW x \in Nat, x < Far
    PROVE  /\ Nearest(p) \in Best
           /\ SumFunctionOnSet(seen["kdtree"], EventsIn(UpTo(p, x))) \in Nat
           /\ Within(Nearest(p), x) = Capped(SumFunctionOnSet(seen["kdtree"], EventsIn(UpTo(p, x))))
<1>. DEFINE sum == SumFunctionOnSet(seen["kdtree"], EventsIn(UpTo(p, x)))
<1>1. Nearest(p) \in Best /\ Within(Nearest(p), x) = Capped(Within(NoneFound, x) + sum)
  BY DEF SearchInv
<1>2. Within(NoneFound, x) = 0
  BY NoneFoundIs
<1>3. sum \in Nat
  <2>. DEFINE count == seen["kdtree"]
              S == EventsIn(UpTo(p, x))
  <2>1. IsFiniteSet(S) /\ S \subseteq Events
    BY EventsAssumption, FS_Subset DEF EventsIn
  <2>2. \A e \in S : count[e] \in Nat
    BY <2>1 DEF Typing
  <2>. HIDE DEF count, S
  <2>. QED BY <2>1, <2>2, SumNat DEF count, S
<1>. HIDE DEF sum
<1>. QED BY <1>1, <1>2, <1>3 DEF sum

\* An event that the tree knows is found: as close to another one as the two points are.
LEMMA KnownIsFound ==
    ASSUME Typing, SearchInv, "kdtree" \in Kinds, NEW q \in Events,
           NEW e \in Events, seen["kdtree"][e] > 0
    PROVE  /\ Squared(Feature[q], Feature[e]) \in Nat
           /\ Squared(Feature[q], Feature[e]) < Far
           /\ Nearest(Feature[q])[1] <= Squared(Feature[q], Feature[e])
<1>. DEFINE p == Feature[q]
            x == Squared(p, Feature[e])
            count == seen["kdtree"]
            S == EventsIn(UpTo(p, x))
<1>1. p \in Nat \X Nat /\ Feature[e] \in Nat \X Nat
  BY FeatureAssumption
<1>2. x \in Nat /\ x < Far
  <2>1. x \in SquaredDistances
    BY DEF SquaredDistances
  <2>. QED BY <1>1, <2>1, SquaredNat, DistancesAssumption
<1>3. e \in S /\ IsFiniteSet(S) /\ S \subseteq Events
  <2>1. Feature[e] \in UpTo(p, x)
    BY <1>1, <1>2 DEF UpTo
  <2>. HIDE DEF p, x
  <2>. QED BY <2>1, EventsAssumption, FS_Subset DEF EventsIn
<1>4. \A f \in S : count[f] \in Nat
  <2>. HIDE DEF S
  <2>. QED BY <1>3 DEF Typing
<1>5. SumFunctionOnSet(count, S) >= 1
  <2>1. count[e] > 0
    OBVIOUS
  <2>. HIDE DEF S, count
  <2>2. count[e] <= SumFunctionOnSet(count, S) /\ SumFunctionOnSet(count, S) \in Nat
    BY <1>3, <1>4, SumAtLeast, SumNat
  <2>. QED BY <1>3, <1>4, <2>1, <2>2
<1>6. /\ Nearest(p) \in Best /\ SumFunctionOnSet(count, S) \in Nat
      /\ Within(Nearest(p), x) = Capped(SumFunctionOnSet(count, S))
  BY <1>1, <1>2, FoundWithin
<1>7. 1 <= Within(Nearest(p), x)
  <2>. DEFINE n == SumFunctionOnSet(count, S)
  <2>1. n \in Nat /\ n >= 1
    BY <1>5, <1>6
  <2>. HIDE DEF n
  <2>2. Capped(n) >= 1
    BY <2>1, NeighboursAssumption DEF Capped
  <2>. QED BY <1>6, <2>2 DEF n
<1>8. Nearest(p)[1] <= x
  <2>1. 1 \in 1 .. K
    BY NeighboursAssumption
  <2>. HIDE DEF p, x
  <2>. QED BY <1>2, <1>6, <1>7, <2>1, WithinPlace
<1>. QED BY <1>2, <1>8

\* Every distance found is one of an event, and so has a root.
LEMMA FoundIsSquare ==
    ASSUME Typing, SearchInv, "kdtree" \in Kinds, NEW e \in Events
    PROVE  Square(Nearest(Feature[e]))
<1>. DEFINE p == Feature[e]
            best == Nearest(p)
            count == seen["kdtree"]
<1>1. p \in Nat \X Nat
  BY FeatureAssumption
<1>2. best \in Best
  BY <1>1 DEF SearchInv
<1>3. SUFFICES ASSUME NEW i \in 1 .. K, best[i] < Far PROVE Root(best[i]) \in Nat
  BY DEF Square
<1>. DEFINE x == best[i]
<1>4. x \in Nat /\ i <= Within(best, x)
  <2>1. best[i] \in Nat
    BY <1>2 DEF Best
  <2>. HIDE DEF best
  <2>. QED BY <1>2, <2>1, WithinPlace
<1>5. CASE \E f \in Events : Squared(p, Feature[f]) = x
  <2>1. x \in SquaredDistances
    BY <1>5 DEF SquaredDistances
  <2>2. PICK r \in 0 .. x : r * r = x
    BY <2>1, DistancesAssumption
  <2>. HIDE DEF x, best
  <2>3. Root(x) \in 0 .. x
    BY <2>2 DEF Root
  <2>. QED BY <1>4, <2>3 DEF x
<1>6. CASE x = 0
  <2>. HIDE DEF x, best
  <2>1. 0 \in 0 .. x /\ 0 * 0 = x
    BY <1>6
  <2>2. Root(x) \in 0 .. x
    BY <2>1 DEF Root
  <2>. QED BY <1>4, <2>2 DEF x
<1>7. CASE x # 0 /\ ~\E f \in Events : Squared(p, Feature[f]) = x
  <2>. DEFINE y == x - 1
  <2>1. y \in Nat /\ y < x /\ x < Far /\ y < Far
    BY <1>3, <1>4, <1>7, NeighboursAssumption
  <2>2. EventsIn(UpTo(p, x)) = EventsIn(UpTo(p, y))
    <3>1. ASSUME NEW f \in Events
          PROVE  Feature[f] \in Nat \X Nat /\ (Squared(p, Feature[f]) <= x <=> Squared(p, Feature[f]) <= y)
      <4>1. Feature[f] \in Nat \X Nat
        BY FeatureAssumption
      <4>2. Squared(p, Feature[f]) \in Nat /\ Squared(p, Feature[f]) # x
        BY <1>1, <1>7, <4>1, SquaredNat
      <4>. HIDE DEF x, p
      <4>. QED BY <1>4, <4>1, <4>2
    <3>. HIDE DEF x, y, p
    <3>. QED BY <3>1 DEF EventsIn, UpTo
  <2>3. Within(best, x) = Within(best, y)
    <3>. HIDE DEF x, y
    <3>1. Within(best, x) = Capped(SumFunctionOnSet(count, EventsIn(UpTo(p, x))))
      BY <1>1, <1>4, <2>1, FoundWithin
    <3>2. Within(best, y) = Capped(SumFunctionOnSet(count, EventsIn(UpTo(p, y))))
      BY <1>1, <2>1, FoundWithin
    <3>. QED BY <2>2, <3>1, <3>2
  <2>4. i <= Within(best, y)
    BY <1>4, <2>3
  <2>5. best[i] <= y
    <3>. HIDE DEF best, x, y
    <3>. QED BY <1>2, <2>1, <2>4, WithinPlace
  <2>. QED BY <1>4, <2>1, <2>5
<1>. QED BY <1>5, <1>6, <1>7

\* Once a distance was counted, the count is not zero.
LEMMA MeanCounts ==
    ASSUME NEW best \in Best, NEW mean, Means(mean, best), best[1] < Far
    PROVE  mean[K] \in Nat \X Nat /\ mean[K][2] >= 1
<1>1. K \in Nat /\ K >= 1
  BY WithinBounds
<1>2. \A i \in 0 .. K : mean[i] \in Nat \X Nat
  BY DEF Means
<1>. DEFINE N == {i \in Nat : i \in 1 .. K => mean[i][2] >= 1}
<1>3. 0 \in N
  OBVIOUS
<1>4. ASSUME NEW i \in Nat, i \in N PROVE i + 1 \in N
  <2>1. SUFFICES ASSUME i + 1 \in 1 .. K PROVE mean[i + 1][2] >= 1
    OBVIOUS
  <2>2. (i + 1) - 1 = i /\ i \in 0 .. K
    BY <1>1, <2>1
  <2>3. mean[i + 1] = IF best[i + 1] < Far THEN <<mean[i][1] + Root(best[i + 1]), mean[i][2] + 1>> ELSE mean[i]
    BY <2>1, <2>2 DEF Means
  <2>4. mean[i][2] \in Nat
    BY <1>2, <2>2
  <2>5. CASE best[i + 1] < Far
    BY <2>3, <2>4, <2>5
  <2>6. CASE ~(best[i + 1] < Far)
    <3>1. i # 0
      BY <2>6
    <3>2. mean[i][2] >= 1
      BY <1>4, <2>2, <3>1
    <3>. QED BY <2>3, <2>6, <3>2
  <2>. QED BY <2>5, <2>6
<1>. HIDE DEF N
<1>5. Nat \subseteq N
  BY <1>3, <1>4, SetInduction
<1>6. K \in N /\ K \in 1 .. K /\ K \in 0 .. K
  BY <1>1, <1>5
<1>. QED BY <1>2, <1>6 DEF N

\* One more distance 0 at the head of the list: nothing else is counted that was not, and
\* only the last distance is lost.
Shifted(best) == [i \in 1 .. K |-> IF i = 1 THEN 0 ELSE best[i - 1]]

\* It is in order again, its distances have roots, and it has one more within every bound.
LEMMA ShiftedIs ==
    ASSUME NEW best \in Best, Square(best), 0 < Far
    PROVE  /\ Shifted(best) \in Best /\ Square(Shifted(best)) /\ Shifted(best)[1] = 0
           /\ \A x \in Nat : Within(Shifted(best), x) = Capped(Within(best, x) + 1)
<1>. DEFINE s == Shifted(best)
<1>1. K \in Nat /\ K >= 1 /\ best \in [1 .. K -> Nat] /\ \A i, j \in 1 .. K : i <= j => best[i] <= best[j]
  BY WithinBounds DEF Best
<1>2. /\ s = [i \in 1 .. K |-> s[i]] /\ 1 \in 1 .. K
      /\ \A i \in 1 .. K : s[i] = IF i = 1 THEN 0 ELSE best[i - 1]
  BY <1>1 DEF Shifted
<1>3. \A i \in 1 .. K : i # 1 => i - 1 \in 1 .. K
  BY <1>1
<1>. HIDE DEF s
<1>4. s \in [1 .. K -> Nat]
  <2>1. \A i \in 1 .. K : s[i] \in Nat
    BY <1>1, <1>2, <1>3
  <2>. QED BY <1>2, <2>1
<1>5. ASSUME NEW i \in 1 .. K, NEW j \in 1 .. K, i <= j PROVE s[i] <= s[j]
  <2>1. CASE i = 1
    BY <1>2, <1>4, <2>1
  <2>2. CASE i # 1
    <3>1. i - 1 \in 1 .. K /\ j - 1 \in 1 .. K /\ i - 1 <= j - 1 /\ j # 1
      BY <1>3, <1>5, <2>2
    <3>2. best[i - 1] <= best[j - 1]
      BY <1>1, <3>1
    <3>. QED BY <1>2, <2>2, <3>1, <3>2
  <2>. QED BY <2>1, <2>2
<1>6. s \in Best
  BY <1>4, <1>5 DEF Best
<1>7. Square(s)
  <2>1. SUFFICES ASSUME NEW i \in 1 .. K, s[i] < Far PROVE Root(s[i]) \in Nat
    BY DEF Square
  <2>2. CASE i = 1
    <3>1. 0 \in 0 .. 0 /\ 0 * 0 = 0
      OBVIOUS
    <3>2. Root(0) \in 0 .. 0
      BY <3>1 DEF Root
    <3>. QED BY <1>2, <2>2, <3>2
  <2>3. CASE i # 1
    BY <1>2, <1>3, <2>1, <2>3 DEF Square
  <2>. QED BY <2>2, <2>3
<1>8. ASSUME NEW x \in Nat PROVE Within(s, x) = Capped(Within(best, x) + 1)
  <2>1. Within(s, x) \in 0 .. K /\ Within(best, x) \in 0 .. K
    BY <1>6, WithinBounds
  <2>2. ASSUME NEW i \in 1 .. K PROVE i <= Within(s, x) <=> i <= Within(best, x) + 1
    <3>1. i <= Within(s, x) <=> s[i] <= x
      BY <1>6, WithinPlace
    <3>2. CASE i = 1
      BY <1>2, <2>1, <3>1, <3>2
    <3>3. CASE i # 1
      <4>1. i - 1 \in 1 .. K /\ s[i] = best[i - 1]
        BY <1>2, <1>3, <3>3
      <4>. DEFINE j == i - 1
      <4>2. j \in 1 .. K
        BY <4>1
      <4>3. j <= Within(best, x) <=> best[j] <= x
        <5>. HIDE DEF j
        <5>. QED BY <4>2, WithinPlace
      <4>4. j <= Within(best, x) <=> i <= Within(best, x) + 1
        BY <2>1
      <4>. QED BY <3>1, <4>1, <4>3, <4>4
    <3>. QED BY <3>2, <3>3
  <2>. DEFINE m == Within(s, x)
              n == Within(best, x) + 1
  <2>3. m \in 0 .. K /\ n \in Nat /\ n >= 1 /\ \A i \in 1 .. K : i <= m <=> i <= n
    BY <2>1, <2>2
  <2>. HIDE DEF m, n
  <2>4. m = Capped(n)
    <3>1. CASE n < K
      <4>1. n \in 1 .. K /\ n + 1 \in 1 .. K
        BY <1>1, <2>3, <3>1
      <4>2. n <= m /\ ~(n + 1 <= m)
        BY <2>3, <4>1
      <4>. QED BY <1>1, <2>3, <3>1, <4>2 DEF Capped
    <3>2. CASE ~(n < K)
      <4>1. K \in 1 .. K /\ K <= n
        BY <1>1, <2>3, <3>2
      <4>2. K <= m
        BY <2>3, <4>1
      <4>. QED BY <1>1, <2>3, <3>2, <4>2 DEF Capped
    <3>. QED BY <3>1, <3>2
  <2>. QED BY <2>4 DEF m, n
<1>. QED BY <1>2, <1>6, <1>7, <1>8 DEF s

\* The mean of that list is not greater: its sum is at most the other one, of as many distances.
LEMMA MeanShifted ==
    ASSUME NEW best \in Best, Square(best), 0 < Far, NEW mean, Means(mean, best),
           NEW after, Means(after, Shifted(best))
    PROVE  after[K][1] <= mean[K][1] /\ mean[K][2] <= after[K][2]
<1>1. K \in Nat /\ K >= 1 /\ K \in 1 .. K /\ K - 1 \in 0 .. K
  BY WithinBounds
<1>2. \A i \in 0 .. K : mean[i][1] \in Nat /\ mean[i][2] \in Nat
  BY DEF Means
<1>3. Root(0) = 0
  <2>1. 0 \in 0 .. 0 /\ 0 * 0 = 0
    OBVIOUS
  <2>2. Root(0) \in 0 .. 0
    BY <2>1 DEF Root
  <2>. QED BY <2>2
<1>. DEFINE N == {i \in Nat : i \in 1 .. K => after[i] = <<mean[i - 1][1], mean[i - 1][2] + 1>>}
<1>4. 0 \in N
  OBVIOUS
<1>5. ASSUME NEW i \in Nat, i \in N PROVE i + 1 \in N
  <2>1. SUFFICES ASSUME i + 1 \in 1 .. K PROVE after[i + 1] = <<mean[i][1], mean[i][2] + 1>>
    <3>1. (i + 1) - 1 = i
      OBVIOUS
    <3>. QED BY <3>1
  <2>2. (i + 1) - 1 = i /\ i \in 0 .. K
    BY <1>1, <2>1
  <2>3. after[i + 1] = IF Shifted(best)[i + 1] < Far
                       THEN <<after[i][1] + Root(Shifted(best)[i + 1]), after[i][2] + 1>> ELSE after[i]
    BY <2>1, <2>2 DEF Means
  <2>4. CASE i = 0
    <3>1. Shifted(best)[i + 1] = 0 /\ after[i] = <<0, 0>> /\ mean[i] = <<0, 0>>
      BY <2>1, <2>4 DEF Shifted, Means
    <3>. QED BY <1>3, <2>3, <3>1
  <2>5. CASE i # 0
    <3>1. i \in 1 .. K /\ Shifted(best)[i + 1] = best[i]
      BY <1>1, <2>1, <2>2, <2>5 DEF Shifted
    <3>2. after[i] = <<mean[i - 1][1], mean[i - 1][2] + 1>>
      BY <1>5, <3>1
    <3>3. mean[i] = IF best[i] < Far THEN <<mean[i - 1][1] + Root(best[i]), mean[i - 1][2] + 1>> ELSE mean[i - 1]
      BY <3>1 DEF Means
    <3>. QED BY <2>3, <3>1, <3>2, <3>3
  <2>. QED BY <2>4, <2>5
<1>. HIDE DEF N
<1>6. Nat \subseteq N
  BY <1>4, <1>5, SetInduction
<1>7. after[K] = <<mean[K - 1][1], mean[K - 1][2] + 1>>
  BY <1>1, <1>6 DEF N
<1>8. mean[K] = IF best[K] < Far THEN <<mean[K - 1][1] + Root(best[K]), mean[K - 1][2] + 1>> ELSE mean[K - 1]
  BY <1>1 DEF Means
<1>9. best[K] < Far => Root(best[K]) \in Nat
  BY <1>1 DEF Square
<1>. QED BY <1>1, <1>2, <1>7, <1>8, <1>9

\* score takes the similarity of the mean.
LEMMA ScoreOfIs ==
    ASSUME NEW list \in Best, NEW points, Mean(list) \in Nat \X Nat
    PROVE  ScoreOf(list, points) = IF points = <<>> THEN 0 ELSE Similarity(Mean(list))
<1>. DEFINE f == [best \in Best |-> Mean(best)]
            g == [m \in Nat \X Nat |-> Similarity(m)]
<1>1. ScoreOf(list, points) = IF points = <<>> THEN 0 ELSE g[f[list]]
  BY Zenon DEF ScoreOf, Similarity
<1>2. f[list] = Mean(list) /\ g[Mean(list)] = Similarity(Mean(list))
  OBVIOUS
<1>. HIDE DEF f, g
<1>. QED BY <1>1, <1>2

\* Nearer points make greater scores, between 0 and 1.
LEMMA SimilarityGrows ==
    ASSUME NEW m \in Nat \X Nat, NEW n \in Nat \X Nat,
           n[1] <= m[1], m[2] <= n[2], m[2] >= 1
    PROVE  Similarity(m) \in 0 .. FullScore /\ Similarity(m) <= Similarity(n)
<1>. DEFINE a == FullScore * n[1]
            b == Reach * n[2]
            c == FullScore * m[1]
            d == Reach * m[2]
<1>1. n[1] \in Nat /\ m[1] \in Nat /\ n[2] \in Nat \ {0} /\ m[2] \in Nat \ {0}
      /\ Reach \in Nat \ {0} /\ FullScore = 600
  BY NeighboursAssumption DEF FullScore
<1>2. ASSUME NEW i \in Nat \ {0}, NEW j \in Nat \ {0} PROVE i * j \in Nat \ {0}
  BY Z3
<1>3. ASSUME NEW i \in Nat, NEW j \in Nat, NEW k \in Nat, j <= k PROVE i * j <= i * k
  BY <1>3, Z3
<1>4. a \in Nat /\ c \in Nat /\ b \in Nat \ {0} /\ d \in Nat \ {0}
  <2>1. b \in Nat \ {0}
    BY <1>1, <1>2
  <2>2. d \in Nat \ {0}
    BY <1>1, <1>2
  <2>. QED BY <1>1, <2>1, <2>2
<1>5. a <= c /\ d <= b
  <2>1. a <= c
    BY <1>1, <1>3
  <2>2. d <= b
    BY <1>1, <1>3
  <2>. QED BY <2>1, <2>2
<1>6. /\ Similarity(m) = FullScore - Min({FullScore, c \div d})
      /\ Similarity(n) = FullScore - Min({FullScore, a \div b})
  BY DEF Similarity
<1>. HIDE DEF a, b, c, d
<1>. DEFINE q == a \div b
            r == c \div d
<1>7. q \in Nat /\ q <= r
  BY <1>4, <1>5, QuotientMonotone
<1>8. r \in Nat
  <2>1. c <= c /\ d <= d
    BY <1>4
  <2>. QED BY <1>4, <2>1, QuotientMonotone
<1>. HIDE DEF q, r
<1>9. Min({FullScore, q}) = (IF FullScore < q THEN FullScore ELSE q)
      /\ Min({FullScore, r}) = (IF FullScore < r THEN FullScore ELSE r)
  BY <1>1, <1>7, <1>8, MinOfTwo
<1>10. Similarity(m) = FullScore - Min({FullScore, r}) /\ Similarity(n) = FullScore - Min({FullScore, q})
  BY <1>6 DEF q, r
<1>. QED BY <1>1, <1>7, <1>8, <1>9, <1>10

\* A score of the tree is between 0 and 1.
LEMMA KdInRange ==
    ASSUME Typing, TreeInv, SearchInv, "kdtree" \in Kinds, NEW e \in Events
    PROVE  KdScore(e) \in 0 .. FullScore
<1>. DEFINE list == Nearest(Feature[e])
            count == seen["kdtree"]
<1>1. KdScore(e) = ScoreOf(list, recent)
  BY Zenon DEF KdScore, NearestDistance, ScoreOf
<1>2. CASE recent = <<>>
  <2>1. KdScore(e) = 0
    BY <1>2 DEF KdScore
  <2>. QED BY <2>1 DEF FullScore
<1>3. CASE recent # <<>>
  <2>1. PICK f \in Events : count[f] > 0
    <3>1. SUFFICES ASSUME \A f \in Events : ~(count[f] > 0) PROVE FALSE
      OBVIOUS
    <3>2. \A f \in Events : count[f] = 0
      <4>1. SUFFICES ASSUME NEW f \in Events PROVE count[f] = 0
        OBVIOUS
      <4>2. count[f] \in Nat /\ ~(count[f] > 0)
        BY <3>1 DEF Typing
      <4>. HIDE DEF count
      <4>. QED BY <4>2
    <3>3. SumFunctionOnSet(count, Events) = 0
      <4>. HIDE DEF count
      <4>. QED BY <3>2, EventsAssumption, SumOfZeros
    <3>4. Recalled(recent, 0)
      BY <3>3 DEF TreeInv, Updates
    <3>5. Len(recent) = 0
      BY <3>4, NeighboursAssumption DEF Recalled
    <3>6. recent = <<>>
      <4>. DEFINE S == Nat \X Nat
      <4>1. recent \in Seq(S)
        BY <3>4 DEF Recalled
      <4>. HIDE DEF S
      <4>. QED BY <3>5, <4>1, EmptySeq
    <3>. QED BY <1>3, <3>6
  <2>2. list \in Best /\ list[1] < Far
    <3>1. Feature[e] \in Nat \X Nat
      BY FeatureAssumption
    <3>2. list \in Best
      BY <3>1 DEF SearchInv
    <3>. DEFINE x == Squared(Feature[e], Feature[f])
    <3>3. x \in Nat /\ x < Far /\ list[1] <= x
      BY <2>1, KnownIsFound
    <3>4. list[1] \in Nat /\ Far \in Nat
      <4>. HIDE DEF list
      <4>. QED BY <3>2, NeighboursAssumption DEF Best
    <3>. HIDE DEF x, list
    <3>. QED BY <3>2, <3>3, <3>4
  <2>3. PICK mean : Means(mean, list) /\ Mean(list) = mean[K]
    <3>1. Square(list)
      BY FoundIsSquare
    <3>. HIDE DEF list
    <3>. QED BY <2>2, <3>1, MeanIs
  <2>. HIDE DEF list
  <2>4. Mean(list) \in Nat \X Nat /\ Mean(list)[2] >= 1
    BY <2>2, <2>3, MeanCounts
  <2>5. KdScore(e) = Similarity(Mean(list))
    BY <1>1, <1>3, <2>2, <2>4, ScoreOfIs
  <2>6. Similarity(Mean(list)) \in 0 .. FullScore
    <3>. DEFINE m == Mean(list)
    <3>1. m \in Nat \X Nat /\ m[2] >= 1 /\ m[1] <= m[1] /\ m[2] <= m[2]
      BY <2>4
    <3>. HIDE DEF m
    <3>2. Similarity(m) \in 0 .. FullScore
      BY <3>1, SimilarityGrows
    <3>. QED BY <3>2 DEF m
  <2>. QED BY <2>5, <2>6
<1>. QED BY <1>2, <1>3

\* An event that the tree knows comes once more: its distance 0 moves into the list, whose
\* last distance makes room, and the mean falls.
LEMMA KdRepeats ==
    ASSUME Typing, SearchInv, SearchInv', "kdtree" \in Kinds, NEW e \in Events,
           seen["kdtree"][e] > 0,
           seen'["kdtree"] = [seen["kdtree"] EXCEPT ![e] = @ + 1],
           recent # <<>>, recent' # <<>>
    PROVE  KdScore(e) <= KdScore(e)'
<1>. DEFINE p == Feature[e]
            list == Nearest(p)
            after == Nearest(p)'
            count == seen["kdtree"]
            more == seen'["kdtree"]
<1>1. p \in Nat \X Nat
  BY FeatureAssumption
<1>2. list \in Best /\ after \in Best
  BY <1>1 DEF SearchInv
<1>3. Square(list)
  BY FoundIsSquare
<1>4. list[1] <= 0 /\ 0 < Far
  <2>1. Squared(p, p) = 0
    <3>1. p[1] \in Nat /\ p[2] \in Nat
      BY <1>1
    <3>. HIDE DEF p
    <3>. QED BY <3>1 DEF Squared
  <2>2. Squared(p, p) < Far /\ list[1] <= Squared(p, p)
    BY KnownIsFound
  <2>. HIDE DEF p, list
  <2>. QED BY <2>1, <2>2
<1>5. after = Shifted(list)
  <2>1. \A x \in Nat : Within(after, x) = Within(Shifted(list), x)
    <3>1. SUFFICES ASSUME NEW x \in Nat PROVE Within(after, x) = Within(Shifted(list), x)
      OBVIOUS
    <3>. DEFINE S == EventsIn(UpTo(p, x))
                none == Within(NoneFound, x)
    <3>2. /\ Within(list, x) = Capped(none + SumFunctionOnSet(count, S))
          /\ Within(after, x) = Capped(none + SumFunctionOnSet(more, S))
      BY <1>1 DEF SearchInv
    <3>3. e \in S /\ IsFiniteSet(S) /\ S \subseteq Events
      <4>1. Squared(p, p) = 0
        <5>1. p[1] \in Nat /\ p[2] \in Nat
          BY <1>1
        <5>. HIDE DEF p
        <5>. QED BY <5>1 DEF Squared
      <4>2. Feature[e] \in UpTo(p, x)
        BY <1>1, <4>1 DEF UpTo
      <4>. HIDE DEF p
      <4>. QED BY <4>2, EventsAssumption, FS_Subset DEF EventsIn
    <3>4. \A f \in S : count[f] \in Nat
      <4>1. SUFFICES ASSUME NEW f \in S PROVE count[f] \in Nat
        OBVIOUS
      <4>2. f \in Events
        BY <3>3
      <4>. QED BY <4>2 DEF Typing
    <3>5. more[e] = count[e] + 1 /\ \A f \in S \ {e} : more[f] = count[f]
      <4>1. count \in [Events -> Nat]
        BY DEF Typing
      <4>2. more = [count EXCEPT ![e] = @ + 1]
        OBVIOUS
      <4>. HIDE DEF count, more, S
      <4>. QED BY <3>3, <4>1, <4>2
    <3>6. none \in 0 .. K
      <4>1. NoneFound \in Best
        BY NoneFoundIs
      <4>. QED BY <4>1, WithinBounds
    <3>. HIDE DEF S, none, count, more, list, after
    <3>. DEFINE sum == SumFunctionOnSet(count, S)
    <3>7. sum \in Nat /\ SumFunctionOnSet(more, S) = sum + 1
      BY <3>3, <3>4, <3>5, SumNat, SumIncremented
    <3>8. Within(Shifted(list), x) = Capped(Within(list, x) + 1)
      BY <1>2, <1>3, <1>4, ShiftedIs
    <3>9. none + sum \in Nat /\ none + (sum + 1) = (none + sum) + 1
      BY <3>6, <3>7
    <3>. HIDE DEF sum
    <3>10. Capped(Capped(none + sum) + 1) = Capped((none + sum) + 1)
      BY <3>9, CappedTwice
    <3>. QED BY <3>2, <3>7, <3>8, <3>9, <3>10 DEF sum
  <2>. HIDE DEF list, after
  <2>2. Shifted(list) \in Best
    BY <1>2, <1>3, <1>4, ShiftedIs
  <2>. QED BY <1>2, <2>1, <2>2, SameWithin
<1>6. KdScore(e) = ScoreOf(list, recent) /\ KdScore(e)' = ScoreOf(after, recent')
  BY Zenon DEF KdScore, NearestDistance, ScoreOf
<1>. QED
  <2>. HIDE DEF list, after
  <2>1. /\ Shifted(list) \in Best /\ Square(Shifted(list)) /\ Shifted(list)[1] = 0
    BY <1>2, <1>3, <1>4, ShiftedIs
  <2>2. PICK mean : Means(mean, list) /\ Mean(list) = mean[K]
    BY <1>2, <1>3, MeanIs
  <2>3. PICK mean2 : Means(mean2, Shifted(list)) /\ Mean(Shifted(list)) = mean2[K]
    BY <2>1, MeanIs
  <2>4. list[1] < Far /\ Shifted(list)[1] < Far
    <3>1. 1 \in 1 .. K /\ list[1] \in Nat /\ Far \in Nat
      BY <1>2, NeighboursAssumption DEF Best
    <3>. QED BY <1>4, <2>1, <3>1
  <2>. DEFINE m == Mean(list)
              n == Mean(Shifted(list))
  <2>5. m \in Nat \X Nat /\ m[2] >= 1
    BY <1>2, <2>2, <2>4, MeanCounts
  <2>6. n \in Nat \X Nat
    BY <2>1, <2>3, <2>4, MeanCounts
  <2>7. n[1] <= m[1] /\ m[2] <= n[2]
    BY <1>2, <1>3, <1>4, <2>2, <2>3, MeanShifted
  <2>8. Similarity(m) <= Similarity(n)
    <3>. HIDE DEF m, n
    <3>. QED BY <2>5, <2>6, <2>7, SimilarityGrows
  <2>9. KdScore(e) = Similarity(m)
    BY <1>2, <1>6, <2>5, ScoreOfIs
  <2>10. KdScore(e)' = Similarity(n)
    BY <1>5, <1>6, <2>1, <2>6, ScoreOfIs
  <2>. QED BY <2>8, <2>9, <2>10

\* The sketch's score from the estimate x, while the average is 1.
LEMMA CmsScoreOf ==
    ASSUME NEW x \in Nat, NEW y \in Nat, x <= y
    PROVE  /\ Min({FullScore, (FullScore * x) \div (1 + 1)}) \in 0 .. FullScore
           /\ Min({FullScore, (FullScore * x) \div (1 + 1)}) <= Min({FullScore, (FullScore * y) \div (1 + 1)})
<1>. DEFINE q == (FullScore * x) \div (1 + 1)
            r == (FullScore * y) \div (1 + 1)
<1>1. FullScore = 600 /\ q \in Nat /\ r \in Nat /\ q <= r
  BY DEF FullScore
<1>. HIDE DEF q, r
<1>2. /\ Min({FullScore, q}) = (IF FullScore < q THEN FullScore ELSE q)
      /\ Min({FullScore, r}) = (IF FullScore < r THEN FullScore ELSE r)
  BY <1>1, MinOfTwo
<1>3. Min({FullScore, q}) \in 0 .. FullScore /\ Min({FullScore, q}) <= Min({FullScore, r})
  BY <1>1, <1>2
<1>. QED BY <1>3 DEF q, r

\* A score of the sketch is between 0 and 1.
LEMMA CmsInRange ==
    ASSUME Typing, AverageInv, NEW e \in Events
    PROVE  CmsScore(e) \in 0 .. FullScore
<1>. DEFINE x == Estimate(e)
<1>1. x \in Nat
  <2>1. PICK i \in Rows : x = table[i][CmsHash[e][i]]
    BY EstimateIs
  <2>. QED BY <2>1, CmsHashAssumption DEF Typing
<1>2. CmsScore(e) = Min({FullScore, (FullScore * x) \div (1 + 1)})
  <2>1. average = 1
    BY DEF AverageInv
  <2>2. CmsScore(e) = Min({FullScore, (FullScore * x) \div (average + 1)})
    BY Zenon DEF CmsScore
  <2>. QED BY Zenon, <2>1, <2>2
<1>. HIDE DEF x
<1>3. x <= x
  BY <1>1
<1>. QED BY <1>1, <1>2, <1>3, CmsScoreOf

\* An estimate never falls with an update.
LEMMA CmsRepeats ==
    ASSUME Typing, Typing', AverageInv, AverageInv', NEW e \in Events,
           \A i \in Rows : table[i][CmsHash[e][i]] <= table'[i][CmsHash[e][i]]
    PROVE  CmsScore(e) <= CmsScore(e)'
<1>. DEFINE x == Estimate(e)
            y == Estimate(e)'
<1>1. \A i \in Rows : table[i][CmsHash[e][i]] \in Nat
  BY CmsHashAssumption DEF Typing
<1>2. \A i \in Rows : table'[i][CmsHash[e][i]] \in Nat
  BY CmsHashAssumption DEF Typing
<1>3. x \in Nat
  <2>1. PICK i \in Rows : Estimate(e) = table[i][CmsHash[e][i]]
    BY EstimateIs
  <2>. QED BY <1>1, <2>1
<1>4. y \in Nat /\ x <= y
  <2>. DEFINE T == {table'[i][CmsHash[e][i]] : i \in Rows}
  <2>1. 0 \in Rows
    BY CmsSizeAssumption DEF Rows
  <2>2. T \in SUBSET Nat /\ T # {}
    BY <1>2, <2>1
  <2>3. Min(T) \in T
    <3>. HIDE DEF T
    <3>. QED BY <2>2, MinIs
  <2>4. y = Min(T)
    BY DEF Estimate
  <2>5. PICK i \in Rows : y = table'[i][CmsHash[e][i]]
    BY <2>3, <2>4
  <2>. DEFINE a == table[i][CmsHash[e][i]]
              b == table'[i][CmsHash[e][i]]
  <2>6. a \in Nat /\ b \in Nat /\ x <= a /\ a <= b
    BY <1>1, <1>2, EstimateIs
  <2>7. y = b
    BY <2>5
  <2>. HIDE DEF a, b, x, y
  <2>. QED BY <1>3, <2>6, <2>7
<1>5. /\ CmsScore(e) = Min({FullScore, (FullScore * x) \div (1 + 1)})
      /\ CmsScore(e)' = Min({FullScore, (FullScore * y) \div (1 + 1)})
  <2>1. average = 1 /\ average' = 1
    BY DEF AverageInv
  <2>2. CmsScore(e) = Min({FullScore, (FullScore * x) \div (average + 1)})
    BY Zenon DEF CmsScore
  <2>3. CmsScore(e)' = Min({FullScore, (FullScore * y) \div (average' + 1)})
    BY Zenon DEF CmsScore
  <2>. QED BY Zenon, <2>1, <2>2, <2>3
<1>. HIDE DEF x, y
<1>. QED BY <1>3, <1>4, <1>5, CmsScoreOf

\* The scores of the filter: 0.1 for what it knows, 0.8 for what is new.
LEMMA BloomIs ==
    ASSUME NEW e
    PROVE  /\ BloomScore(e) \in 0 .. FullScore
           /\ BloomContains(e) => BloomScore(e) = 60
BY DEF BloomScore, FullScore

\* score, from the scores of n detectors.
Combined(method, n, S, scores) ==
    LET sum == SumFunctionOnSet(scores, S)
        result == CASE method = "WeightedAverage" -> sum \div n
                    [] method = "WeightedSum" -> sum
                    [] method = "Max" -> Max(Range(scores))
    IN  IF n = 0 THEN 0
        ELSE IF result < 0 THEN 0 ELSE IF result > FullScore THEN FullScore ELSE result

\* It grows with each of the scores, and is between 0 and 1.
LEMMA CombinedGrows ==
    ASSUME NEW method \in AggregationMethods, NEW n \in Nat, NEW S, IsFiniteSet(S), S # {},
           NEW scores \in [S -> 0 .. FullScore], NEW more \in [S -> 0 .. FullScore],
           \A d \in S : scores[d] <= more[d]
    PROVE  /\ Combined(method, n, S, scores) \in 0 .. FullScore
           /\ Combined(method, n, S, scores) <= Combined(method, n, S, more)
<1>. DEFINE a == SumFunctionOnSet(scores, S)
            b == SumFunctionOnSet(more, S)
<1>1. FullScore = 600
  BY DEF FullScore
<1>2. \A d \in S : scores[d] \in Nat /\ more[d] \in Nat /\ scores[d] <= more[d]
  <2>1. SUFFICES ASSUME NEW d \in S PROVE scores[d] \in Nat /\ more[d] \in Nat /\ scores[d] <= more[d]
    OBVIOUS
  <2>. DEFINE u == scores[d]
              v == more[d]
  <2>2. u \in 0 .. FullScore /\ v \in 0 .. FullScore /\ u <= v
    OBVIOUS
  <2>. HIDE DEF u, v
  <2>3. u \in Nat /\ v \in Nat /\ u <= v
    BY <1>1, <2>2
  <2>. QED BY <2>3 DEF u, v
<1>3. a \in Nat
  BY <1>2, SumNat
<1>4. b \in Nat
  BY <1>2, SumNat
<1>5. a <= b
  BY <1>2, SumMonotone
<1>6. CASE n = 0
  <2>1. Combined(method, n, S, scores) = 0 /\ Combined(method, n, S, more) = 0
    BY <1>6 DEF Combined
  <2>. QED BY <1>1, <2>1
<1>7. ASSUME NEW u \in Nat, NEW v \in Nat, u <= v, n # 0,
             Combined(method, n, S, scores) = IF u < 0 THEN 0 ELSE IF u > FullScore THEN FullScore ELSE u,
             Combined(method, n, S, more) = IF v < 0 THEN 0 ELSE IF v > FullScore THEN FullScore ELSE v
      PROVE  /\ Combined(method, n, S, scores) \in 0 .. FullScore
             /\ Combined(method, n, S, scores) <= Combined(method, n, S, more)
  BY <1>1, <1>7
<1>8. CASE n # 0 /\ method = "WeightedAverage"
  <2>1. n \in Nat \ {0} /\ n <= n
    BY <1>8
  <2>. DEFINE u == a \div n
              v == b \div n
  <2>2. /\ Combined(method, n, S, scores) = IF u < 0 THEN 0 ELSE IF u > FullScore THEN FullScore ELSE u
        /\ Combined(method, n, S, more) = IF v < 0 THEN 0 ELSE IF v > FullScore THEN FullScore ELSE v
    BY <1>8 DEF Combined
  <2>. HIDE DEF a, b
  <2>3. u \in Nat /\ u <= v
    BY <1>3, <1>4, <1>5, <2>1, QuotientMonotone
  <2>4. v \in Nat
    <3>1. b <= b
      BY <1>4
    <3>. QED BY <1>4, <2>1, <3>1, QuotientMonotone
  <2>. HIDE DEF u, v
  <2>. QED BY <1>7, <1>8, <2>2, <2>3, <2>4
<1>9. CASE n # 0 /\ method = "WeightedSum"
  <2>1. /\ Combined(method, n, S, scores) = IF a < 0 THEN 0 ELSE IF a > FullScore THEN FullScore ELSE a
        /\ Combined(method, n, S, more) = IF b < 0 THEN 0 ELSE IF b > FullScore THEN FullScore ELSE b
    BY <1>9 DEF Combined
  <2>. HIDE DEF a, b
  <2>. QED BY <1>3, <1>4, <1>5, <1>7, <1>9, <2>1
<1>10. CASE n # 0 /\ method = "Max"
  <2>. DEFINE U == Range(scores)
              V == Range(more)
  <2>1. U \in SUBSET (0 .. FullScore) /\ U # {} /\ V \in SUBSET (0 .. FullScore) /\ V # {}
    BY DEF Range
  <2>2. \A d \in S : scores[d] \in U /\ more[d] \in V
    BY DEF Range
  <2>3. \A w \in U : \E d \in S : w = scores[d]
    BY DEF Range
  <2>4. /\ Combined(method, n, S, scores) = IF Max(U) < 0 THEN 0 ELSE IF Max(U) > FullScore THEN FullScore ELSE Max(U)
        /\ Combined(method, n, S, more) = IF Max(V) < 0 THEN 0 ELSE IF Max(V) > FullScore THEN FullScore ELSE Max(V)
    BY <1>10 DEF Combined
  <2>. HIDE DEF U, V
  <2>5. FullScore \in Nat
    BY <1>1
  <2>6. Max(U) \in U
    BY <2>1, <2>5, MaxIs
  <2>7. Max(V) \in V /\ \A m \in V : m <= Max(V)
    BY <2>1, <2>5, MaxIs
  <2>8. PICK d \in S : Max(U) = scores[d]
    BY <2>3, <2>6
  <2>9. scores[d] <= more[d] /\ more[d] <= Max(V) /\ more[d] \in Nat
    BY <1>2, <2>2, <2>7
  <2>10. Max(U) \in Nat /\ Max(V) \in Nat
    <3>1. Max(U) \in 0 .. FullScore /\ Max(V) \in 0 .. FullScore
      BY <2>1, <2>6, <2>7
    <3>. DEFINE u == Max(U)
                v == Max(V)
    <3>. HIDE DEF u, v
    <3>2. u \in Nat /\ v \in Nat
      BY <1>1, <3>1 DEF u, v
    <3>. QED BY <3>2 DEF u, v
  <2>11. Max(U) <= Max(V)
    BY <2>8, <2>9, <2>10
  <2>. DEFINE u == Max(U)
              v == Max(V)
  <2>12. u \in Nat /\ v \in Nat /\ u <= v
    BY <2>10, <2>11
  <2>13. /\ Combined(method, n, S, scores) = IF u < 0 THEN 0 ELSE IF u > FullScore THEN FullScore ELSE u
         /\ Combined(method, n, S, more) = IF v < 0 THEN 0 ELSE IF v > FullScore THEN FullScore ELSE v
    BY <2>4
  <2>. HIDE DEF u, v
  <2>. QED BY <1>7, <1>10, <2>12, <2>13
<1>. QED BY <1>6, <1>8, <1>9, <1>10 DEF AggregationMethods

\* The score of an event from those of the detectors.
Scores(e) == [d \in Present |-> DetectorScore(d, e)]

\* That is the score of the composite, before and after a step.
LEMMA ScoreIs ==
    ASSUME NEW method, NEW e
    PROVE  /\ Score(method, e) = Combined(method, Len(detectors), Present, Scores(e))
           /\ Score(method, e)' = Combined(method, Len(detectors'), Present', Scores(e)')
<1>1. Score(method, e) = Combined(method, Len(detectors), Present, Scores(e))
  BY Zenon DEF Score, Combined, Scores
<1>2. Score(method, e)' = Combined(method, Len(detectors'), Present', Scores(e)')
  BY Zenon DEF Score, Combined, Scores
<1>. QED BY <1>1, <1>2

\* All scores are between 0 and 1.
RangeInv ==
    \A e \in Events :
        /\ \A d \in Kinds : DetectorScore(d, e) \in 0 .. FullScore
        /\ \A method \in AggregationMethods : Score(method, e) \in 0 .. FullScore

\* The kinds in the list are some of those there are, finitely many.
LEMMA PresentIs ==
    ASSUME ListInv
    PROVE  /\ Present \subseteq Kinds /\ IsFiniteSet(Present)
           /\ Len(detectors) \in Nat
           /\ Present = {} => Len(detectors) = 0
<1>1. Present \subseteq Kinds /\ Len(detectors) \in Nat
  BY DEF ListInv, Present, ToSet
<1>2. IsFiniteSet({"bloom", "cms", "kdtree"})
  <2>1. {"bloom", "cms", "kdtree"} = {"bloom"} \cup {"cms"} \cup {"kdtree"}
    OBVIOUS
  <2>2. IsFiniteSet({"bloom"}) /\ IsFiniteSet({"cms"}) /\ IsFiniteSet({"kdtree"})
    BY FS_Singleton
  <2>. DEFINE A == {"bloom"}
              B == {"cms"}
              C == {"kdtree"}
  <2>3. IsFiniteSet(A) /\ IsFiniteSet(B) /\ IsFiniteSet(C)
    BY <2>2
  <2>. HIDE DEF A, B, C
  <2>4. IsFiniteSet(A \cup B)
    BY <2>3, FS_Union
  <2>5. IsFiniteSet((A \cup B) \cup C)
    BY <2>3, <2>4, FS_Union
  <2>. QED BY <2>1, <2>5 DEF A, B, C
<1>3. IsFiniteSet(Present)
  BY <1>1, <1>2, KindsAssumption, FS_Subset
<1>4. ASSUME Present = {} PROVE Len(detectors) = 0
  <2>1. DOMAIN detectors = 1 .. Len(detectors)
    BY DEF ListInv
  <2>2. \A i \in DOMAIN detectors : detectors[i] \in Present
    BY DEF Present, ToSet
  <2>. QED BY <1>1, <1>4, <2>1, <2>2
<1>. QED BY <1>1, <1>3, <1>4

\* The invariants bound what the detectors say, and so what is made of it.
LEMMA ScoresInRange == Typing /\ AverageInv /\ ListInv /\ TreeInv /\ SearchInv => RangeInv
<1>. SUFFICES ASSUME Typing, AverageInv, ListInv, TreeInv, SearchInv, NEW e \in Events
              PROVE  /\ \A d \in Kinds : DetectorScore(d, e) \in 0 .. FullScore
                     /\ \A method \in AggregationMethods : Score(method, e) \in 0 .. FullScore
  BY DEF RangeInv
<1>1. ASSUME NEW d \in Kinds PROVE DetectorScore(d, e) \in 0 .. FullScore
  <2>1. CASE d = "bloom"
    BY <2>1, BloomIs DEF DetectorScore
  <2>2. CASE d = "cms"
    <3>1. CmsScore(e) \in 0 .. FullScore
      BY CmsInRange
    <3>. QED BY <2>2, <3>1 DEF DetectorScore
  <2>3. CASE d = "kdtree"
    <3>1. KdScore(e) \in 0 .. FullScore
      BY <1>1, <2>3, KdInRange
    <3>. QED BY <2>3, <3>1 DEF DetectorScore
  <2>. QED BY <2>1, <2>2, <2>3, KindsAssumption
<1>2. ASSUME NEW method \in AggregationMethods PROVE Score(method, e) \in 0 .. FullScore
  <2>. DEFINE n == Len(detectors)
              S == Present
              scores == Scores(e)
  <2>1. S \subseteq Kinds /\ IsFiniteSet(S) /\ n \in Nat /\ (S = {} => n = 0)
    BY PresentIs
  <2>2. scores \in [S -> 0 .. FullScore]
    BY <1>1, <2>1 DEF Scores
  <2>3. Score(method, e) = Combined(method, n, S, scores)
    BY ScoreIs
  <2>4. 0 \in 0 .. FullScore /\ \A u \in 0 .. FullScore : u <= u
    BY DEF FullScore
  <2>. HIDE DEF n, S, scores
  <2>5. CASE S = {}
    <3>1. Combined(method, n, S, scores) = 0
      BY <2>1, <2>5 DEF Combined
    <3>. QED BY <2>3, <2>4, <3>1
  <2>6. CASE S # {}
    <3>1. \A d \in S : scores[d] <= scores[d]
      BY <2>2, <2>4
    <3>. QED BY <2>1, <2>2, <2>3, <2>6, <3>1, CombinedGrows
  <2>. QED BY <2>5, <2>6
<1>. QED BY <1>1, <1>2

\* The event that raises seen in every detector of the list is the one of an update.
LEMMA RepeatedIs ==
    ASSUME Typing, ListInv, [Next]_vars, NEW e \in Events, Present # {},
           \A d \in Present : 0 < seen[d][e] /\ seen[d][e] < seen'[d][e]
    PROVE  Update(e)
<1>1. PICK d \in Present : 0 < seen[d][e] /\ seen[d][e] < seen'[d][e]
  OBVIOUS
<1>2. d \in Kinds
  BY PresentIs
<1>3. seen[d] \in [Events -> Nat] /\ seen[d][e] \in Nat
  BY <1>2 DEF Typing
<1>4. seen'[d][e] # seen[d][e]
  BY <1>1, <1>3
<1>5. CASE ResetDetectors
  <2>1. seen'[d][e] = 0
    BY <1>2, <1>5 DEF ResetDetectors, NeverSeen
  <2>. QED BY <1>1, <1>3, <2>1
<1>6. ASSUME NEW f \in Events, Update(f) PROVE Update(e)
  <2>1. seen'[d] = [seen[d] EXCEPT ![f] = @ + 1]
    BY <1>1, <1>2, <1>6 DEF Update
  <2>2. f = e
    BY <1>3, <1>4, <2>1
  <2>. QED BY <1>6, <2>2
<1>7. CASE UNCHANGED seen
  BY <1>4, <1>7
<1>8. ASSUME NEW kind \in Kinds, AddDetector(kind) PROVE UNCHANGED seen
  BY <1>8 DEF AddDetector
<1>. QED BY <1>5, <1>6, <1>7, <1>8 DEF Next, ClearDetectors, Reset, Rebuild, vars

\* The tree's detector recalls some point, once it has one.
RecentInv ==
    "kdtree" \in Kinds => \A e \in Events : seen["kdtree"][e] > 0 => recent # <<>>

\* recent_points_ is as long as it may be, and it may have a point.
LEMMA PointsRecalled == Typing /\ TreeInv => RecentInv
<1>. SUFFICES ASSUME Typing, TreeInv, "kdtree" \in Kinds, NEW e \in Events, seen["kdtree"][e] > 0
              PROVE  recent # <<>>
  BY DEF RecentInv
<1>. DEFINE count == seen["kdtree"]
            updates == SumFunctionOnSet(count, Events)
<1>1. \A f \in Events : count[f] \in Nat
  BY DEF Typing
<1>2. count[e] > 0
  OBVIOUS
<1>3. Recalled(recent, updates)
  BY DEF TreeInv, Updates
<1>. HIDE DEF count
<1>4. updates \in Nat
  BY <1>1, EventsAssumption, SumNat
<1>5. count[e] <= updates
  BY <1>1, EventsAssumption, SumAtLeast
<1>6. count[e] \in Nat
  BY <1>1
<1>. HIDE DEF updates
<1>7. Len(recent) # 0
  BY <1>2, <1>3, <1>4, <1>5, <1>6, NeighboursAssumption DEF Recalled
<1>. QED BY <1>7

\* An update with an event that a detector of the list knows does not lower its score by that
\* detector.
LEMMA DetectorRepeats ==
    ASSUME Typing, Typing', AverageInv, AverageInv', ListInv, SearchInv, SearchInv',
           RecentInv, RecentInv', KnownUnlessWrapped, KnownUnlessWrapped',
           NEW e \in Events, Update(e), ~wrapped', NEW d \in Present,
           0 < seen[d][e], seen[d][e] < seen'[d][e]
    PROVE  DetectorScore(d, e) <= DetectorScore(d, e)'
<1>0. d \in Kinds
  BY PresentIs
<1>1. CASE d = "bloom"
  <2>1. ~wrapped
    BY <1>1 DEF Update, BloomUpdate
  <2>2. seen[d][e] \in Nat /\ seen'[d][e] \in Nat
    BY <1>0 DEF Typing
  <2>3. seen'[d][e] > 0 /\ seen[d][e] > 0
    BY <2>2
  <2>4. BloomContains(e) /\ BloomContains(e)'
    BY <1>0, <1>1, <2>1, <2>3 DEF KnownUnlessWrapped
  <2>5. BloomScore(e) = 60 /\ BloomScore(e)' = 60
    BY <2>4 DEF BloomScore, FullScore
  <2>. QED BY <1>1, <2>5 DEF DetectorScore
<1>2. CASE d = "cms"
  <2>1. \A i \in Rows : table[i][CmsHash[e][i]] <= table'[i][CmsHash[e][i]]
    <3>1. SUFFICES ASSUME NEW i \in Rows PROVE table[i][CmsHash[e][i]] <= table'[i][CmsHash[e][i]]
      OBVIOUS
    <3>2. table'[i] = [table[i] EXCEPT ![CmsHash[e][i]] = @ + 1]
      BY <1>2 DEF Update, CmsUpdate, Incremented
    <3>3. table[i] \in [Columns -> Nat] /\ CmsHash[e][i] \in Columns
      BY CmsHashAssumption DEF Typing
    <3>. QED BY <3>2, <3>3
  <2>2. CmsScore(e) <= CmsScore(e)'
    BY <2>1, CmsRepeats
  <2>. QED BY <1>2, <2>2 DEF DetectorScore
<1>3. CASE d = "kdtree"
  <2>1. "kdtree" \in Kinds /\ seen["kdtree"][e] > 0
    BY <1>0, <1>3
  <2>2. seen'["kdtree"] = [seen["kdtree"] EXCEPT ![e] = @ + 1]
    BY <1>0, <1>3 DEF Update
  <2>3. seen'["kdtree"][e] > 0
    <3>1. seen'["kdtree"][e] \in Nat /\ seen["kdtree"][e] \in Nat
      BY <2>1 DEF Typing
    <3>2. seen["kdtree"][e] < seen'["kdtree"][e]
      BY <1>3
    <3>. QED BY <2>1, <3>1, <3>2
  <2>4. recent # <<>> /\ recent' # <<>>
    BY <2>1, <2>3 DEF RecentInv
  <2>5. KdScore(e) <= KdScore(e)'
    BY <2>1, <2>2, <2>3, <2>4, KdRepeats
  <2>. QED BY <1>3, <2>5 DEF DetectorScore
<1>. QED BY <1>0, <1>1, <1>2, <1>3, KindsAssumption

\* So no score of the composite falls either.
LEMMA ScoreRepeats ==
    ASSUME Typing, Typing', AverageInv, AverageInv', ListInv, ListInv', SearchInv, SearchInv',
           RecentInv, RecentInv', RangeInv, RangeInv', KnownUnlessWrapped, KnownUnlessWrapped', [Next]_vars,
           NEW e \in Events, NEW method \in AggregationMethods, ~wrapped',
           \A d \in Present : 0 < seen[d][e] /\ seen[d][e] < seen'[d][e]
    PROVE  Score(method, e) <= Score(method, e)'
<1>1. Score(method, e) \in 0 .. FullScore /\ Score(method, e)' \in 0 .. FullScore
  BY DEF RangeInv
<1>2. CASE Present = {}
  <2>1. Score(method, e) = 0
    BY <1>2, PresentIs DEF Score
  <2>2. ASSUME NEW score \in 0 .. FullScore PROVE 0 <= score
    BY DEF FullScore
  <2>. QED BY Zenon, <1>1, <2>1, <2>2
<1>3. CASE Present # {}
  <2>1. Update(e)
    BY <1>3, RepeatedIs
  <2>2. detectors' = detectors /\ Present' = Present
    BY <2>1 DEF Update, Present
  <2>. DEFINE n == Len(detectors)
              S == Present
              scores == Scores(e)
              more == Scores(e)'
  <2>3. S \subseteq Kinds /\ IsFiniteSet(S) /\ n \in Nat
    BY PresentIs
  <2>4. scores \in [S -> 0 .. FullScore] /\ \A d \in S : scores[d] = DetectorScore(d, e)
    BY <2>3 DEF Scores, RangeInv
  <2>5. more \in [S -> 0 .. FullScore] /\ \A d \in S : more[d] = DetectorScore(d, e)'
    <3>1. more = [d \in S |-> DetectorScore(d, e)']
      BY <2>2 DEF Scores
    <3>2. \A d \in S : DetectorScore(d, e)' \in 0 .. FullScore
      BY <2>3 DEF RangeInv
    <3>. HIDE DEF S
    <3>. QED BY <3>1, <3>2
  <2>6. \A d \in S : scores[d] <= more[d]
    <3>1. SUFFICES ASSUME NEW d \in S PROVE scores[d] <= more[d]
      OBVIOUS
    <3>2. DetectorScore(d, e) <= DetectorScore(d, e)'
      BY <2>1, DetectorRepeats
    <3>. QED BY <2>4, <2>5, <3>2
  <2>7. /\ Score(method, e) = Combined(method, n, S, scores)
        /\ Score(method, e)' = Combined(method, n, S, more)
    BY <2>2, ScoreIs
  <2>8. S # {}
    BY <1>3
  <2>. HIDE DEF n, S, scores, more
  <2>. QED BY <2>3, <2>4, <2>5, <2>6, <2>7, <2>8, CombinedGrows
<1>. QED BY <1>2, <1>3

\* What comes again never scores less with the detectors that know it, nor with their weighted
\* average, sum and maximum, whatever cms_detector.cpp:128 says of rarity, for any hashes, sizes, points, K and numbers of updates.
THEOREM RepetitionRaisesScoreHolds == Spec => RepetitionRaisesScore
<1>1. Init => Typing /\ TreeInv /\ AverageInv /\ ListInv
  BY TypingInit, TreeInvInit DEF Init, CmsInit, AverageInv, ListInv
<1>2. Typing /\ TreeInv /\ AverageInv /\ ListInv /\ [Next]_vars
        => Typing' /\ TreeInv' /\ AverageInv' /\ ListInv'
  BY TypingNext, TreeInvNext, AverageNext, ListNext
<1>3. TreeInv => SearchInv
  BY TreeInvSearches
<1>4. Typing /\ AverageInv /\ ListInv /\ TreeInv /\ SearchInv => RecentInv /\ RangeInv
  BY PointsRecalled, ScoresInRange
<1>5. Spec => []KnownUnlessWrapped
  BY KnownUnlessWrappedHolds
<1>6. /\ Typing /\ AverageInv /\ ListInv /\ SearchInv /\ RangeInv /\ KnownUnlessWrapped
      /\ Typing' /\ AverageInv' /\ ListInv' /\ SearchInv' /\ RangeInv' /\ KnownUnlessWrapped'
      /\ RecentInv /\ RecentInv' /\ [Next]_vars
      => [\A e \in Events, method \in AggregationMethods :
            /\ ~wrapped'
            /\ \A d \in Present : 0 < seen[d][e] /\ seen[d][e] < seen'[d][e]
            => Score(method, e)' >= Score(method, e)]_vars
  <2>. SUFFICES ASSUME Typing, AverageInv, ListInv, SearchInv, RangeInv, KnownUnlessWrapped,
                       Typing', AverageInv', ListInv', SearchInv', RangeInv', KnownUnlessWrapped',
                       RecentInv, RecentInv', [Next]_vars, NEW e \in Events, NEW method \in AggregationMethods, ~wrapped',
                       \A d \in Present : 0 < seen[d][e] /\ seen[d][e] < seen'[d][e]
                PROVE  Score(method, e)' >= Score(method, e)
    OBVIOUS
  <2>1. Score(method, e) <= Score(method, e)'
    BY ScoreRepeats
  <2>2. Score(method, e) \in 0 .. FullScore /\ Score(method, e)' \in 0 .. FullScore
    BY DEF RangeInv
  <2>3. ASSUME NEW u \in 0 .. FullScore, NEW v \in 0 .. FullScore, u <= v PROVE v >= u
    BY <2>3 DEF FullScore
  <2>. QED BY Zenon, <2>1, <2>2, <2>3
<1>. QED BY <1>1, <1>2, <1>3, <1>4, <1>5, <1>6, PTL DEF Spec, RepetitionRaisesScore
===============================================================================
