SPECIFICATION Spec
CONSTANTS
    c1 = c1
    c2 = c2
    Callers <- MCCallers
    Assets <- MCAssets
    Files <- MCFiles
    MaxFileVersions = 1
    MaxCalls = 3
    MaxTroubles = 1
SYMMETRY Symmetric
CHECK_DEADLOCK FALSE
INVARIANTS FilesInv RollbackReversible
PROPERTY CapturedBeforeOverwritten
