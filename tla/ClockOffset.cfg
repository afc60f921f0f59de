SPECIFICATION ReceiveSendSpec
CONSTANTS
    Unresolved = Unresolved
    Clients <- MCClients
    Runs <- MCRuns
    Sources <- MCSources
    Tokens <- MCTokens
    AllowedClients <- MCAllowedClients
    SharedTokens <- MCSharedTokens
    FrameIds <- MCFrameIds
    Stamps <- MCStamps
    MaxFrames = 1
    Packets <- ClockPackets
    HeartbeatTimeout <- NoHeartbeatTimeout
    MaxRttDelta <- MCMaxRttDelta
    MaxOffsetDelta <- MCMaxOffsetDelta
    I64Max = 4
    ReceiveTimeout = 1
    MaxIterations <- ClockMaxIterations
    MaxPacketsPerDrainCycle = 1
    MaxItems = 1
    Senders <- ClockSenders
    Epoch = 0
    Skew = 1
    MaxClock = 2
    Failures <- NoFailures
INVARIANTS
    OffsetErrorBounded
PROPERTIES
    SmoothingStaysBetween
