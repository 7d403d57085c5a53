CONSTANTS
    Files <- MergeFiles
    ISSNs = {"X", "Y"}
    NoUplink = NoUplink
SPECIFICATION Spec
INVARIANTS
    TypeOK
    NoRecordLost
    NoRecordWrittenTwice
