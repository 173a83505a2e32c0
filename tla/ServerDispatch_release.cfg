\* After Server.Release every request still settles: the read loops keep
\* queueing requests that no worker will take.
CONSTANTS
    Conns = {k1, k2}
    Workers = {w1}
    Cap = 11
    Headroom = 10
    MaxReq = 2
    Kinds <- AllKinds
    OkCode = OkCode
    OverloadCode = OverloadCode
    LimitCode = LimitCode
    FailCode = FailCode
    WithRelease = TRUE
SPECIFICATION FairSpec
PROPERTY RequestsSettle
CHECK_DEADLOCK FALSE
