\* The pool stays within RPC_POOL_SIZE with no connection twice, with one
\* caller evicting connections and the close callbacks of five dialled
\* connections racing it.  Deadlock checking is off: the bounded supply of
\* dials runs out.
CONSTANTS
    PoolSize = 2
    MaxConns = 5
    Callers = {g1}
SPECIFICATION Spec
INVARIANT TypeOK
INVARIANT PoolBounded
CHECK_DEADLOCK FALSE
