\* Client.Destroy while calls are in flight: no CallCond channel is closed
\* twice, and no callback sends on a channel closed under it.
CONSTANTS
    Calls = {c1, c2}
    Conns = {k1}
    Codes = {ok, fail}
    OkCode = ok
    None = None
    WithDestroy = TRUE
    Destroyer = Destroyer
SPECIFICATION Spec
INVARIANT NoChannelPanic
CHECK_DEADLOCK FALSE
