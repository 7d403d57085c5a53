CONSTANTS
    Files <- ReciprocalFiles
    NoUplink = NoUplink
    Databases <- MCDatabases
SPECIFICATION Spec
INVARIANTS
    TypeOK
    MapsMirror
    NoRecordLost
    NoRecordWrittenTwice
    UplinksResolve
    SubscriptionsFollowMerge
    ResourcesFollowMerge
