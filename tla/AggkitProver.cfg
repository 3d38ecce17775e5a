SPECIFICATION FairSpec
CONSTANTS
    Requests = {r1, r2}
    Sequencers = {"s1", "s2"}
    ConfigNames = {"n1", "n2"}
    RollupConfigs = {"h1", "h2"}
    InitialSettings <- TwoConfigs
    LaterSettings <- OneChanged
    OuterBound = 1
    InnerBound = 2
    MaxRetries = 1
    MaxUpdates = 1
INVARIANTS TypeOK OnlyCurrentSettles KeysCheckedInRequest SettlesUnlessChanged OneInnerSlotIdle
PROPERTY ImplementsEngine
CHECK_DEADLOCK FALSE
