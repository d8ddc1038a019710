----------------------------- MODULE CMSDetector -----------------------------
(***************************************************************************)
(* speculor::CountMinSketch and CMSDetector                                *)
(* (src/detectors/cms_detector.cpp), over an abstract hash like the one of *)
(* BloomDetector.  The counters have 32 bits, which no run of the model    *)
(* exhausts.                                                               *)
(***************************************************************************)
EXTENDS DetectorEvents, FiniteSetsExt

CONSTANTS
    Width, Depth,        \* width_, depth_
    CmsHash              \* [Events -> [rows -> columns]]

Rows == 0 .. (Depth - 1)
Columns == 0 .. (Width - 1)

ASSUME CmsSizeAssumption == Width \in Nat \ {0} /\ Depth \in Nat \ {0}
ASSUME CmsHashAssumption == CmsHash \in [Events -> [Rows -> Columns]]

VARIABLES
    table,               \* sketch_.table_
    average              \* global_average_, which starts at 1.0 and stays there

cmsVars == <<table, average>>

EmptyTable == [i \in Rows |-> [j \in Columns |-> 0]]

CmsInit == table = EmptyTable /\ average = 1

\* Mutant: one row is left out.
IncrementedShort(e) ==
    [i \in Rows |-> IF i = 0 THEN table[i] ELSE [table[i] EXCEPT ![CmsHash[e][i]] = @ + 1]]

\* increment: one counter of each row
Incremented(e) == [i \in Rows |-> [table[i] EXCEPT ![CmsHash[e][i]] = @ + 1]]

\* The sketch, and the mean of the average and 1, under the detector's mutex.
CmsUpdate(e) == table' = Incremented(e) /\ average' = (1 + average) \div 2

CmsReset == table' = EmptyTable /\ average' = 1

\* serialize: the sizes, then the counters row by row
CmsSerialized ==
    [width |-> Width, depth |-> Depth,
     values |-> [n \in 1 .. (Depth * Width) |-> table[(n - 1) \div Width][(n - 1) % Width]]]

\* CountMinSketch::deserialize, which sizes the table and not width_ and depth_
CmsTableRead(data) ==
    [i \in 0 .. (data.depth - 1) |->
        [j \in 0 .. (data.width - 1) |-> data.values[i * data.width + j + 1]]]

\* The average is not in the blob.
CmsDeserialize(data) == table' = CmsTableRead(data) /\ average' = 1

Estimate(e) == Min({table[i][CmsHash[e][i]] : i \in Rows})

\* min(1, estimate / (average + 1))
CmsScore(e) == Min({FullScore, (FullScore * Estimate(e)) \div (average + 1)})
==============================================================================
