SPECIFICATION FairSpec
CONSTANTS
    Requests = {r1, r2}
    NoRequest = NoRequest
    HasFallback = TRUE
    Limits <- LimitsCpuCpu
    BufferBound = 1
PROPERTIES EveryRequestAnswered
CHECK_DEADLOCK FALSE
