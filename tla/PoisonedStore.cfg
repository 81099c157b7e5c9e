SPECIFICATION Spec
CONSTANTS
    Kinds = {"buildkite"}
    Moves = {}
    MaxBox = 3
    MaxWork = 1
    MaxCrash = 1
    MaxMoves = 0
    WritesFail = TRUE
INVARIANTS
    NoWorkLost
