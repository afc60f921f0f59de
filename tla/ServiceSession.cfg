SPECIFICATION SessionSpec
CONSTANTS
    Unresolved = Unresolved
    Clients <- MCClients
    Runs <- MCRuns
    Sources <- MCSources
    Tokens <- MCTokens
    AllowedClients <- MCAllowedClients
    SharedTokens <- MCSharedTokens
    FrameIds <- MCFrameIds
    Stamps <- MCStamps
    MaxFrames = 2
    Packets <- MCPackets
    MaxVideoPackets = 5
    ExpectedReassembledFrames = 3
    ExpectedReassembledClients = 1
    ExpectedReassembledFramesPerClient = 2
    MaxRequests = 2
    IoFailures <- MCIoFailures
INVARIANT
    SessionInvariant
PROPERTY
    SessionEnds
