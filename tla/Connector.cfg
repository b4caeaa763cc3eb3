\* Three connects over two threads, one of them after a close, and a manager
\* that is started again.
CONSTANTS
    Requests = {r1, r2, r3}
    Threads = {t1, t2}
    MaxAddresses = 2
    MaxStarts = 2
    None = none
SPECIFICATION FairSpec
INVARIANTS IdentifierNamesItsConnection
PROPERTIES EveryConnectIsAnswered
\* All connects may have been answered and the manager stopped.
CHECK_DEADLOCK FALSE
