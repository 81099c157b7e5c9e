SPECIFICATION CalmSpec
CONSTANTS
    Kinds = {"buildkite", "docker", "kas"}
    Moves = {}
    MaxBox = 3
    MaxWork = 1
    MaxCrash = 1
    MaxMoves = 0
    WritesFail = FALSE
PROPERTIES
    ServedAgain
