CONSTANTS
    InodesCount = 3
    BlocksCount = 5
    MaxOps = 4
    Names = {"a", "b"}
    Direct = 2
    PerTable = 2
    Room = 3
    TornMoves = FALSE
    Lingering = FALSE
SPECIFICATION Spec
INVARIANTS CrashSound BooksSound 
