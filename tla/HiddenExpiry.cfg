SPECIFICATION Spec
CONSTANTS
    Kinds = {"docker"}
    Moves = {"edit"}
    MaxBox = 3
    MaxWork = 1
    MaxCrash = 0
    MaxMoves = 1
    WritesFail = FALSE
INVARIANTS
    NoHiddenExpiry
