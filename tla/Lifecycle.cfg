SPECIFICATION Spec
CONSTANTS
    Kinds = {"buildkite", "kas"}
    Moves = {"edit", "remove", "repoint"}
    MaxBox = 4
    MaxWork = 2
    MaxCrash = 1
    MaxMoves = 1
    WritesFail = FALSE
INVARIANTS
    NoWorkLost
    CheckpointIsTruth
    NoHiddenExpiry
PROPERTIES
    ImplementsPromise
