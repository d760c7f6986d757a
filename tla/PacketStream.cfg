SPECIFICATION StreamSpec
CONSTANTS
    Packets <- StreamPackets
    Leftover <- MCLeftover
    MaxPackets = 3
    WellFormed <- IsValidContent
    Meanings <- MCMeanings
    Frames <- MCFrames
    Pipelined <- MCPipelined
    Limit = 1024
INVARIANTS StreamTypeOK CursorInside LiveLimits
INVARIANTS AcceptedAsMeant DuplicatesRefused FirstConnectAccepted TextIsWellFormed
INVARIANTS ConnackAsConfigured BodyAsAnnounced MalformedNeverDecoded
PROPERTIES PublishNegotiatesNothing FillKeepsPlace HandlerEnds ImplementsCodec
CHECK_DEADLOCK FALSE
