\* Batching and order of metrics: two producers, a channel whose check
\* sheds past 2 queued metrics, batches of 2 and 5 metrics in all.
\* Deadlock checking is off: the producers stop after 5 metrics.
CONSTANTS
    Producers = {p1, p2}
    MaxCh = 12
    Headroom = 10
    MaxPush = 2
    MaxMetrics = 5
SPECIFICATION FairSpec
INVARIANT TypeOK
INVARIANT BatchesBounded
INVARIANT MetricsInOrder
PROPERTY MetricsReported
CHECK_DEADLOCK FALSE
