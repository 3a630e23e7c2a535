CONSTANTS
    Far = 1000
    NumPoints = 3
    Tag <- MCTag
    Queries <- MCQueries
    Threads = {t1, t2}
    Params <- MCParams
    Hashes <- MCHashes
    MaxTables = 1
SPECIFICATION Spec
INVARIANT SearchesDoNotInterfere
