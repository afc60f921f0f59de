SPECIFICATION ReceiveSendSpec
CONSTANTS
    Unresolved = Unresolved
    Clients <- MCClients
    Runs <- MCRuns
    Sources <- MCSources
    Tokens <- MCTokens
    AllowedClients <- MCAllowedClients
    SharedTokens <- MCSharedTokens
    FrameIds <- MCFrameIds
    Stamps <- MCStamps
    MaxFrames = 1
    Packets <- MCPackets
    HeartbeatTimeout <- MCHeartbeatTimeout
    MaxRttDelta <- MCMaxRttDelta
    MaxOffsetDelta <- MCMaxOffsetDelta
    I64Max = 4
    ReceiveTimeout = 1
    MaxIterations <- LoopMaxIterations
    MaxPacketsPerDrainCycle = 2
    MaxItems = 1
    Senders <- MCSenders
    Epoch = 1
    Skew <- LoopSkew
    MaxClock = 5
    Failures <- MCFailures
INVARIANTS
    ReceiveSendInvariant
    OnlyAuthenticatedHeartbeats
PROPERTIES
    ImplementsVideoIngest
    RuntimeEnds
