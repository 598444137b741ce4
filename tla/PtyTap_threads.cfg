SPECIFICATION FairTapSpec
CONSTANTS
    Bytes <- MCBytes
    Streams <- MCStreams
    Lead = "h"
    Cont = "t"
    Pattern <- MCPattern
    BufSize = 6
    WindowMax = 4
    MaxKeys = 2
INVARIANTS
    PromptIsServed
PROPERTIES
    ReturnsWhenInputEnds
\* The wrapper has returned, or waits for a key that nobody presses.
CHECK_DEADLOCK FALSE
