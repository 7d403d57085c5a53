CONSTANTS
    Modes = {"WAIT", "DETACH"}
    Timeouts = {0, 1}
    ExecOutcomes = {"ok", "no_stdout", "execv_fails"}
    Terminations <- MCTerminations
    MayHang = TRUE
    MaySpawn = TRUE
SPECIFICATION Spec
PROPERTY
    TimeoutEndsExec
CHECK_DEADLOCK FALSE
