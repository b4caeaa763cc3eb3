\* A pool of one, as the game's, or two workers, and two synchronous connections.
CONSTANTS
    MaxWorkers = 2
    MaxWorks = 3
    Connections = 2
    StatementCount = 2
    MaxQueries = 2
SPECIFICATION FairSpec
INVARIANTS NothingLostAtClose WorkIsSomewhereOnce NothingLeftBehind
PROPERTIES ImplementsStatementQueue EventuallyProcessed CloseTerminates
CHECK_DEADLOCK FALSE
