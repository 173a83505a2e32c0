\* The default registry built by NewServer or NewClient, used and then
\* destroyed.  Deadlock checking is off: the process ends after Destroy.
SPECIFICATION Spec
INVARIANT DestroyReturns
CHECK_DEADLOCK FALSE
