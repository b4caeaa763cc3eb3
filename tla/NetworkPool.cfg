\* Three threads and three connections; the modulus is above the number of
\* connections, so that a thread counted down for the others wraps below zero.
CONSTANTS
    ThreadCount = 3
    Connections = {c1, c2, c3}
    CountModulus = 5
    None = none
SPECIFICATION FairPoolSpec
INVARIANTS CountsAddUp OnlyCounterUndercounts
PROPERTIES EventuallyRemoved
\* All connections may have come and gone.
CHECK_DEADLOCK FALSE
