\* Safety of the correlation table, and its refinement of OneShotCall,
\* with timeouts, late replies, write failures, fire-and-forget calls and
\* Client.Destroy.  Deadlock checking
\* is off: the bounded model stops once every call has returned, and the
\* client can also wedge (run client_call_wedge shows how).
CONSTANTS
    Calls = {c1, c2, c3}
    Conns = {k1, k2}
    Codes = {ok, fail}
    OkCode = ok
    None = None
    WithDestroy = TRUE
    Destroyer = Destroyer
SPECIFICATION Spec
SYMMETRY Symmetry
INVARIANT TypeOK
INVARIANT ResultFaithful
INVARIANT NoReplyLostWhileWaiting
PROPERTY OneShotRefined
CHECK_DEADLOCK FALSE
