SPECIFICATION TimedSpec
CONSTANTS
    Requests = {r1, r2}
    NoRequest = NoRequest
    HasFallback = TRUE
    Limits <- LimitsNetwork
    BufferBound = 1
    ProvingRequestTimeout <- TimeoutsShort
    MaxRequestDuration = 2
INVARIANTS NetworkDuration
CHECK_DEADLOCK FALSE
