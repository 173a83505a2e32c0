\* A connection removed from the pool never comes back.
CONSTANTS
    PoolSize = 2
    MaxConns = 3
    Callers = {g1}
SPECIFICATION Spec
PROPERTY NoResurrection
CHECK_DEADLOCK FALSE
