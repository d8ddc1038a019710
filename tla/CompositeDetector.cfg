SPECIFICATION Spec
CONSTANTS
    Events <- MCEvents
    NumBits = 3
    NumHashes = 2
    BloomHash <- MCBloomHash
    CounterMod = 8
    Width = 3
    Depth = 2
    CmsHash <- MCCmsHash
    Feature <- MCFeature
    MaxPoints = 2
    K = 2
    Reach = 10
    Far = 1000000
    Kinds = {"bloom", "cms", "kdtree"}
    MaxUpdates = 4
INVARIANTS
    KnownUnlessWrapped
    EstimateBounds
    SearchIsExact
PROPERTIES
    RebuiltScoresAlike
