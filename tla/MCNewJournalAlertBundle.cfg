CONSTANTS
    Users = {"u1", "u2"}
    Keys = {"s1", "s2", "bundle"}
    Serials = {"s1", "s2"}
    Issues = {"i1", "i2"}
    Members <- MCMembers
    MaxTime = 3
    Subscriptions <- MCBundleSubscriptions
    SerialOf <- MCSerialOfEach
    SameSecond = FALSE
    ImportInRun = FALSE
    MaxCrashes = 0
SPECIFICATION Spec
INVARIANT NoIssueMissed
