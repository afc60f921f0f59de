SPECIFICATION Spec
CONSTANTS
    s1 = s1
    s2 = s2
    good = good
    bad = bad
    Unresolved = Unresolved
    Clients <- SlashClients
    Runs <- SlashRuns
    Sources <- MCSources
    Tokens <- MCTokens
    AllowedClients <- SlashAllowedClients
    SharedTokens <- SlashSharedTokens
    FrameIds <- MCFrameIds
    Stamps <- MCStamps
    MaxFrames = 2
    Packets <- SlashPackets
INVARIANT
    ReadsStayInScope
