\* The receive goroutines never block on reqCh.  Eleven connections race
\* past the `channels - 10` check of a 10-slot reqCh with no worker free;
\* the view keeps only lengths, as all requests are of one kind.
CONSTANTS
    Conns = {k1, k2, k3, k4, k5, k6, k7, k8, k9, k10, k11}
    Workers = {}
    Cap = 10
    Headroom = 10
    MaxReq = 11
    Kinds <- PlainKinds
    OkCode = OkCode
    OverloadCode = OverloadCode
    LimitCode = LimitCode
    FailCode = FailCode
    WithRelease = FALSE
SPECIFICATION Spec
VIEW LengthView
INVARIANT ReaderNeverBlocks
CHECK_DEADLOCK FALSE
