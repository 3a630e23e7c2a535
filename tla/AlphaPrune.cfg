CONSTANTS
    Points <- MCPoints
    Dist <- MCDist
    Filtered = TRUE
    Labels <- MCLabels
    R = 2
    C = 5
    AlphaNum = 6
    AlphaDen = 5
    NaNOccludes = TRUE
    X <- Coordinates
    Far = 1000000
    MaxPad = 2
    CandidateLists <- MCCandidateLists
SPECIFICATION Spec
CHECK_DEADLOCK FALSE
INVARIANT Contract
INVARIANT Dominating
INVARIANT MatchesReference
