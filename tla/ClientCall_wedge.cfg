\* Every started call returns, under the fairness the Go runtime gives
\* (timers fire, mutex waiters are served).  Deadlock checking is off so
\* that TLC reports the stuck call as a liveness counterexample.
CONSTANTS
    Calls = {c1, c2}
    Conns = {k1, k2}
    Codes = {ok, fail}
    OkCode = ok
    None = None
    WithDestroy = FALSE
    Destroyer = Destroyer
SPECIFICATION FairSpec
PROPERTY AllCallsReturn
CHECK_DEADLOCK FALSE
