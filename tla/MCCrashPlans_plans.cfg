SPECIFICATION PlansSpec
CONSTANTS
    Lines <- TwoLines
    Slots = {1, 2}
    Kinds = {"store", "cas"}
    Spans = {}
    MaxTrace = 5
INVARIANTS
    ClustersSound
    ImagesFeasible
    CombCountsImages
