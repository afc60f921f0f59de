SPECIFICATION RuntimeSpec
CONSTANTS
    Unresolved = Unresolved
    Clients <- MCClients
    Runs <- MCRuns
    Sources <- MCSources
    Tokens <- MCTokens
    AllowedClients <- MCAllowedClients
    SharedTokens <- MCSharedTokens
    FrameIds <- MCFrameIds
    Stamps <- MCStamps
    MaxFrames = 1
    Packets <- MCPackets
    MaxVideoPackets = 4
    ExpectedReassembledFrames = 0
    ExpectedReassembledClients = 1
    ExpectedReassembledFramesPerClient = 2
    HasDuration = TRUE
    MaxHandoffRequests = 2
    WakeAttempts = 2
    Requests <- MCRequests
    IoFailures = {}
INVARIANT
    DurationEndsWithSummary
