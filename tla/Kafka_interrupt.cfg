\* Two partitions, each of which may get a message and a broker error,
\* and up to two interrupts (the second is dropped while the first sits in
\* the one-slot channel), under weak fairness of Consume's goroutine and
\* the partition goroutines.
CONSTANTS
    NumParts = 2
    MaxMsgs = 1
    MaxSignals = 2
SPECIFICATION Spec
PROPERTY InterruptStops
CHECK_DEADLOCK FALSE
