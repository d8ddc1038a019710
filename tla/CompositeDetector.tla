-------------------------- MODULE CompositeDetector --------------------------
(***************************************************************************)
(* speculor::CompositeDetector (src/detectors/composite_detector.cpp) with *)
(* the detectors that configure puts into it: at most one of each kind,    *)
(* each of weight 1 and new when it is added.  update, score, reset and    *)
(* clear_detectors hold the composite's mutex for all detectors, hence one *)
(* action each.  add_detector and deserialize take no lock; the model has  *)
(* them between the other calls, as when configure is done before events.  *)
(***************************************************************************)
EXTENDS BloomDetector, CMSDetector, KDTreeDetector

CONSTANTS
    Kinds,       \* the detectors of the configuration
    MaxUpdates   \* bound: updates of one detector since it was added or reset

ASSUME KindsAssumption == Kinds \subseteq {"bloom", "cms", "kdtree"}

\* Names that fit into memory and 64-bit values: there are finitely many events.
ASSUME EventsAssumption == IsFiniteSet(Events)

VARIABLES
    detectors,   \* detectors_: the kinds, in order
    seen         \* history: how often each detector was updated with an event

vars == <<bloomVars, cmsVars, kdVars, detectors, seen>>

AggregationMethods == {"WeightedAverage", "Max", "WeightedSum"}

NeverSeen == [e \in Events |-> 0]

Init ==
    /\ BloomInit /\ CmsInit /\ KdInit
    /\ detectors = <<>>
    /\ seen = [d \in Kinds |-> NeverSeen]

Present == ToSet(detectors)

\* A detector that is not in the list keeps its initial state here.
AddDetector(kind) ==
    /\ kind \notin Present
    /\ detectors' = Append(detectors, kind)
    /\ UNCHANGED <<bloomVars, cmsVars, kdVars, seen>>

ResetDetectors ==
    /\ BloomReset /\ CmsReset /\ KdReset
    /\ seen' = [d \in Kinds |-> NeverSeen]

\* clear_detectors, and deserialize, which does no more than that.
ClearDetectors == ResetDetectors /\ detectors' = <<>>

Reset == ResetDetectors /\ UNCHANGED detectors

Updates(d) == SumFunctionOnSet(seen[d], Events)

Update(e) ==
    /\ \A d \in Kinds : Updates(d) < MaxUpdates
    /\ IF "bloom" \in Present THEN BloomUpdate(e) ELSE UNCHANGED bloomVars
    /\ IF "cms" \in Present THEN CmsUpdate(e) ELSE UNCHANGED cmsVars
    /\ IF "kdtree" \in Present THEN KdUpdate(e) ELSE UNCHANGED kdVars
    /\ seen' = [d \in Kinds |-> IF d \in Present THEN [seen[d] EXCEPT ![e] = @ + 1] ELSE seen[d]]
    /\ UNCHANGED detectors

\* External, no code does it: "user must rebuild the composite manually"
\* (composite_detector.cpp:100).  The user gives each detector's own blob to a new
\* detector of the same configuration, and the new ones replace the old ones.  The
\* composite's own deserialize is ClearDetectors.
Rebuild ==
    /\ UNCHANGED <<detectors, seen>>
    /\ BloomDeserialize(BloomSerialized)
    /\ CmsDeserialize(CmsSerialized)
    /\ \E data \in {KdSerialized} : KdDeserialize(data)

Next ==
    \/ \E kind \in Kinds : AddDetector(kind)
    \/ ClearDetectors
    \/ Reset
    \/ Rebuild
    \/ \E e \in Events : Update(e)

Spec == Init /\ [][Next]_vars

DetectorScore(d, e) ==
    CASE d = "bloom" -> BloomScore(e)
      [] d = "cms" -> CmsScore(e)
      [] d = "kdtree" -> KdScore(e)

\* score, for each value of aggregation_method_, clamped as in the code; a kind is in the
\* list once.
Score(method, e) ==
    LET n == Len(detectors)
        scores == [d \in Present |-> DetectorScore(d, e)]
        sum == SumFunctionOnSet(scores, Present)
        result == CASE method = "WeightedAverage" -> sum \div n
                    [] method = "WeightedSum" -> sum
                    [] method = "Max" -> Max(Range(scores))
    IN  IF n = 0 THEN 0
        ELSE IF result < 0 THEN 0 ELSE IF result > FullScore THEN FullScore ELSE result

-----------------------------------------------------------------------------
(* Properties *)

\* The Bloom filter knows every event it was updated with since the last reset,
\* as long as no counter has wrapped.
KnownUnlessWrapped ==
    "bloom" \in Kinds /\ ~wrapped => \A e \in Events : seen["bloom"][e] > 0 => BloomContains(e)

\* The sketch never counts an event too rarely, never counts more than there
\* was, and counts exactly when in some row no other event fell on its column.
EstimateBounds ==
    "cms" \in Kinds => \A e \in Events :
        LET count == seen["cms"]
            alone(i) == \A f \in Events \ {e} :
                            count[f] = 0 \/ CmsHash[f][i] # CmsHash[e][i]
        IN  /\ count[e] <= Estimate(e)
            /\ Estimate(e) <= SumFunctionOnSet(count, Events)
            /\ (\E i \in Rows : alone(i)) => Estimate(e) = count[e]

\* The tree finds what a linear search over all inserted points finds: among its
\* K results are as many of at most any distance as there are such points, or K.
\* recent_points_, without which it is not searched, has the last of them.
SearchIsExact ==
    "kdtree" \in Kinds =>
      /\ Len(recent) = Min({MaxPoints, Updates("kdtree")})
      /\ \A q \in Events :
        LET found == Nearest(Feature[q])
        IN  \A d \in {Squared(Feature[q], Feature[e]) : e \in Events} :
                LET within == {e \in Events : Squared(Feature[q], Feature[e]) <= d}
                IN  Cardinality({i \in DOMAIN found : found[i] <= d})
                        = Min({K, SumFunctionOnSet(seen["kdtree"], within)})

\* "Score based on rarity - lower count means more anomalous" (cms_detector.cpp:128):
\* of two events the one that the sketch counted less often scores no less.
RarerIsMoreAnomalous ==
    "cms" \in Present => \A e, f \in Events :
        Estimate(e) < Estimate(f) => DetectorScore("cms", e) >= DetectorScore("cms", f)

\* What the code does, against that comment: each further occurrence of an event that
\* all detectors know raises its score or leaves it, however the scores are combined
\* and until the Bloom filter wraps.
RepetitionRaisesScore ==
    [][\A e \in Events, method \in AggregationMethods :
         /\ ~wrapped'
         /\ \A d \in Present : 0 < seen[d][e] /\ seen[d][e] < seen'[d][e]
         => Score(method, e)' >= Score(method, e)]_vars

\* Detectors that read back what others wrote score every event as those did:
\* the blobs leave nothing out that a score depends on.
RebuiltScoresAlike ==
    [][Rebuild => \A d \in Present, e \in Events : DetectorScore(d, e)' = DetectorScore(d, e)]_vars
==============================================================================
