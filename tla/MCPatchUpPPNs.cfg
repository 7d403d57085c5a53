CONSTANTS
    PPNs = {"a1", "a2", "n1", "n2", "z"}
    Sigils = {"DE-576", "DE-627", "DE-599"}
    Dumps <- MCDumps
    Tables <- MCTables
    UniqueKey = {"resource"}
    UserTypes <- MCUserTypes
    NotifiedDBs = {"ixtheo"}
    InitRows <- MCInitRows
    InitNotified <- MCInitNotified
    MAX_BATCH_SIZE = 2
    MaxRuns = 3
    MaxCrashes = 1
SPECIFICATION Spec
INVARIANTS TypeOK SwappedPPNsGone
PROPERTIES EveryDumpedPPNRecorded
