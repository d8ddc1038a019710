---------------------------- MODULE BloomDetector ----------------------------
(***************************************************************************)
(* speculor::CountingBloomFilter and BloomDetector                         *)
(* (src/detectors/bloom_detector.cpp).  An event stands for its bytes,     *)
(* metric name and value; murmur3, any function of the bytes and the seed, *)
(* is a constant.                                                          *)
(***************************************************************************)
EXTENDS DetectorEvents, FiniteSets

CONSTANTS
    NumBits, NumHashes,  \* num_bits_, num_hashes_
    BloomHash,           \* [Events -> [seeds -> indexes]], the modulo included
    CounterMod           \* 256: a counter is a uint8_t

Bits == 0 .. (NumBits - 1)
BloomSeeds == 0 .. (NumHashes - 1)

ASSUME BloomSizeAssumption ==
    NumBits \in Nat \ {0} /\ NumHashes \in Nat \ {0} /\ CounterMod \in Nat \ {0, 1}
ASSUME BloomHashAssumption == BloomHash \in [Events -> [BloomSeeds -> Bits]]

VARIABLES
    counters,            \* bloom_filter_.counters_
    wrapped              \* history: a counter has passed its limit

bloomVars == <<counters, wrapped>>

BloomInit == counters = [b \in Bits |-> 0] /\ wrapped = FALSE

\* How often the loop of add meets counter b.
Hits(e, b) == Cardinality({i \in BloomSeeds : BloomHash[e][i] = b})

\* Mutant: the loop over the hashes stops one too early.
BloomUpdateShort(e) ==
    /\ counters' = [b \in Bits |->
                       (counters[b] + Cardinality({i \in BloomSeeds \ {0} : BloomHash[e][i] = b}))
                           % CounterMod]
    /\ wrapped' = (wrapped \/ \E b \in Bits : counters[b] + Hits(e, b) >= CounterMod)

\* add, under the detector's mutex
BloomUpdate(e) ==
    /\ counters' = [b \in Bits |-> (counters[b] + Hits(e, b)) % CounterMod]
    /\ wrapped' = (wrapped \/ \E b \in Bits : counters[b] + Hits(e, b) >= CounterMod)

BloomReset == counters' = [b \in Bits |-> 0] /\ wrapped' = FALSE

\* serialize and deserialize: the bytes of the counters are the blob.
BloomSerialized == counters
BloomDeserialize(data) == counters' = data /\ UNCHANGED wrapped

BloomContains(e) == \A i \in BloomSeeds : counters[BloomHash[e][i]] # 0

\* 0.1 or 0.8
BloomScore(e) == IF BloomContains(e) THEN FullScore \div 10 ELSE 8 * (FullScore \div 10)
==============================================================================
