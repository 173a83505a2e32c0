----------------------------- MODULE MC_MetricsQueue ---------------------------
(* Model-checking instances of MetricsQueue. *)
EXTENDS MetricsQueue, FiniteSets

\* For the blocking run: only how many producers are sending and the
\* lengths of the queue matter, as metrics are interchangeable there.
LengthView ==
    <<Cardinality({p \in Producers : prod[p] # NoMetric}), Len(mCh), made,
      Len(lists), Len(pending)>>
=============================================================================
