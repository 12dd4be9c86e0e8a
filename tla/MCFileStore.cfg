CONSTANTS
    categories = categories
    orders = orders
    a = a
    b = b
    Tables <- MCTables
    Values <- MCValues
    Seed <- MCSeed
    SeedValue = a
    InitialFiles <- MCInitialFiles
    MaxOps = 2
    MaxFaults = 2
    NoFile = NoFile
    Torn = Torn
    NoCache = NoCache
SPECIFICATION FairSpec
INVARIANTS TypeOK CleanIsSaved
PROPERTIES SavedIdsNotReused EventuallySaved ImplementsDurableTables
