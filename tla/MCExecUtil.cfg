CONSTANTS
    Modes = {"WAIT", "DETACH", "LEGACY"}
    Timeouts = {0, 1}
    ExecOutcomes = {"ok", "no_stdout", "execv_fails"}
    Terminations <- MCTerminations
    MayHang = FALSE
    MaySpawn = TRUE
SPECIFICATION Spec
INVARIANTS
    TypeOK
PROPERTY
    ExecReturns
