CONSTANTS
    Files <- UplinkFiles
    ISSNs = {"X", "Y"}
    NoUplink = NoUplink
SPECIFICATION Spec
INVARIANT
    UplinksFollowMerge
