SPECIFICATION FairSpec
CONSTANT Requests = {r1, r2, r3}
INVARIANT NoRequestAbandoned
PROPERTY ShutdownCompletes
CHECK_DEADLOCK FALSE
