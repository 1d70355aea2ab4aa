SPECIFICATION FairSpec
CONSTANTS
    SinkCap = 2
    SinkFrames = 3
    StreamBuffer = 1
    StreamFrames = 3
INVARIANTS
    PortsInv
    FramesInOrder
    AcceptedIsKept
    PlayedInOrder
PROPERTIES
    ReaderEnds
    SendReturns
    KeepsPorts
CHECK_DEADLOCK FALSE
