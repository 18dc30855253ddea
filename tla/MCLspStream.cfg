SPECIFICATION StreamSpec
CONSTANTS
    Frame <- AnyMC
    JsonRpc <- JsonRpcMC
    Requests <- RequestsMC
    MaxFrames = 2
    Main = main
    Worker = {w1}
    Pieces = 2
    MaxLines = 1
INVARIANTS NothingMadeUp FramesWhole
PROPERTIES ImplementsFrameChannel EverySendEnds
\* Nothing is left to read.
CHECK_DEADLOCK FALSE
