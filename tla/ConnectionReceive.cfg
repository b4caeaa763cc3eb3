\* A buffer that holds one header and a bit, against frames of 2, 3, 4, 5 and 8
\* bytes, so that headers and bodies are cut at every place and the shortest
\* frames have headers that end in the next one; and a buffer too small for a
\* header, which has to grow to make progress.
CONSTANTS
    Sizes = {0, 1, 2, 3, 6}
    ReceiveBufferSizes = {2, 5}
    BufferMultiplier = 2
    MaxFrames = 3
SPECIFICATION FairReceiveSpec
INVARIANTS DeliveredAreTheFrames
PROPERTIES EventuallyDelivered
\* A connection that has stopped reading does nothing any more.
CHECK_DEADLOCK FALSE
