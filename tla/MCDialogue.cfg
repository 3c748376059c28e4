SPECIFICATION MCSpec
CONSTANTS Fragments <- Pieces
 ToolFragments <- ToolPieces
 Servers <- Started3
 Bodies <- Requests
 MaxMessages = 5
 MaxImages = 1
 Context = 7
 Reserve = 1
CONSTRAINT Turns
INVARIANTS EchoAccepted PairedResults ControlsHonoured SplitExact OnlyWholeCalls
CHECK_DEADLOCK FALSE
