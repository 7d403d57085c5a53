CONSTANTS
    Files <- AnyFiles
    NoUplink = NoUplink
    Databases <- MCDatabases
SPECIFICATION Spec
INVARIANT
    NoRecordLost
