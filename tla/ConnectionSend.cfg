\* Messages smaller than, equal to and larger than the send buffer, from two
\* senders, so that a batch is filled, flushed, flushed empty and bypassed.
CONSTANTS
    Senders = {s1, s2}
    MessageSizes = {1, 2, 3}
    SendBufferSize = 2
    MaxBytes = 5
SPECIFICATION FairSpec
INVARIANTS StreamIntact
PROPERTIES EventuallyWritten EventuallyDetached
\* A detached connection whose writes have failed does nothing any more.
CHECK_DEADLOCK FALSE
