CONSTANTS
    Threads = {t1, t2}
    MaxAccepts = 2
    None = none
SPECIFICATION FairSpec
INVARIANTS NoThreadOutlivesClose SessionsArePaired
PROPERTIES ShutdownTerminates
\* The server stops at the end of the shutdown, or is stuck in Close.
CHECK_DEADLOCK FALSE
