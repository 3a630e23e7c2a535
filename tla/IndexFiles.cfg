CONSTANTS
    Indexes <- MCIndexes
    Size <- MCSize
    IsFiltered <- MCIsFiltered
    LabelCount = 1
    MaxLists = 3
SPECIFICATION PathSpec
INVARIANT RoundTrip
INVARIANT VectorsNeverTorn
INVARIANT OneCrashIsNoticed
INVARIANT HangsOnlyBeforeFirstSave
