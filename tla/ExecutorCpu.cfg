SPECIFICATION Spec
CONSTANTS
    Requests = {r1, r2, r3}
    NoRequest = NoRequest
    HasFallback = TRUE
    Limits <- LimitsCpuCpu
    BufferBound = 2
SYMMETRY RequestSymmetry
INVARIANTS TypeOK PermitsConserved OnePermitIdle BufferFaithful
PROPERTIES ImplementsService
CHECK_DEADLOCK FALSE
