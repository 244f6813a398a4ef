CHECK_DEADLOCK FALSE
SPECIFICATION Spec
CONSTANTS
    Word = 64
    Minute = 6
    Diff = 20
    MaxBlock = 2
    Inputs <- MCInputs
    Edits <- MCEdits
    MaxFields = 3
    MaxEdited = 1
    MaxEdits = 3
INVARIANTS
    RewriteKeeps
    BuildSettles
