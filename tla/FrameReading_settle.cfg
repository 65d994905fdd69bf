SPECIFICATION ReaderSpec
CONSTANTS
    Frames <- AllFrames
    MaxFrames = 3
INVARIANT ReaderInv
PROPERTY PipeIsRead
CHECK_DEADLOCK FALSE
