\* Dispatch with overload replies (reqCh of 11, read from the server's
\* configuration, overflows past 1 item), all
\* request kinds, two connections, two workers and Server.Release, under
\* weak fairness of the read loops and workers.
\* Deadlock checking is off: the model stops once the bounded clients stop
\* sending.
CONSTANTS
    Conns = {k1, k2}
    Workers <- ConfiguredWorkers
    Cap <- ConfiguredCap
    Headroom = 10
    MaxReq = 3
    Kinds <- DispatchKinds
    OkCode = OkCode
    OverloadCode = OverloadCode
    LimitCode = LimitCode
    FailCode = FailCode
    WithRelease = TRUE
SPECIFICATION FairSpec
INVARIANT TypeOK
INVARIANT AtMostOneReply
 
CHECK_DEADLOCK FALSE
