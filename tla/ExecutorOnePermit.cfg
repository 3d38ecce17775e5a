SPECIFICATION FairSpec
CONSTANTS
    Requests = {r1}
    NoRequest = NoRequest
    HasFallback = TRUE
    Limits <- LimitsNetCpuOne
    BufferBound = 1
PROPERTIES EveryRequestAnswered
CHECK_DEADLOCK FALSE
