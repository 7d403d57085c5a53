CONSTANTS
    Ids = {"p1", "p2", "p3", "l1", "l2"}
    DeletionLists <- MCDeletionLists
    Inputs <- MCInputs
SPECIFICATION Spec
\* delete_ids ends after the last record or at the first Error().
CHECK_DEADLOCK FALSE
INVARIANTS
    DeletionListApplied
