CONSTANTS
    Indexes <- MCIndexes
    Height <- MCHeight
    NumPoints <- MCNumPoints
    Sample <- MCSample
    ResCount = 2
    MaxHeight = 2
    MaxFaults = 2
SPECIFICATION LevelsSpec
INVARIANT DescentStaysInside
INVARIANT SplitAtOneLevel
