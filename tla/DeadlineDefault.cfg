SPECIFICATION TimedSpec
CONSTANTS
    Requests = {r1}
    NoRequest = NoRequest
    HasFallback = FALSE
    Limits <- LimitsNetwork
    BufferBound = 1
    ProvingRequestTimeout <- TimeoutsDefault
    MaxRequestDuration = 2
INVARIANTS WithinMaxRequestDuration
CHECK_DEADLOCK FALSE
