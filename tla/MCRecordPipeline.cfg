CONSTANTS
    PPNs = {"p1", "p2", "p3", "m1", "m2", "s1", "s2"}
    Inputs <- MCInputs
    Tue = {"DE-21", "DE-21-24"}
    ArticleLevels = {"a", "b"}
SPECIFICATION Spec
INVARIANTS TypeOK LevelsFollowSerialParents FixKeepsTuebingenFlags
