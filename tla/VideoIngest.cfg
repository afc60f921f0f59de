SPECIFICATION Spec
CONSTANTS
    s1 = s1
    s2 = s2
    good = good
    bad = bad
    Unresolved = Unresolved
    Clients <- MCClients
    Runs <- MCRuns
    Sources <- MCSources
    Tokens <- MCTokens
    AllowedClients <- MCAllowedClients
    SharedTokens <- MCSharedTokens
    FrameIds <- MCFrameIds
    Stamps <- MCStamps
    MaxFrames = 2
    Packets <- MCPackets
INVARIANTS
    IngestInvariant
    OnlyAuthenticatedVideo
    PayloadIsOneCapture
    RetainedAgreesWithQueue
    ReadsStayInScope
PROPERTIES
    IngestSteps
    ImplementsScopedFifo
