----------------------------- MODULE MetricsQueue -----------------------------
(***************************************************************************)
(* The metrics pipeline (src/metrics/metrics.go).                          *)
(*                                                                         *)
(* Every client and server path reports through metrics.to, which drops    *)
(* the metric when mCh is within `10` slots of MaxCh and otherwise sends   *)
(* it on the buffered channel mCh, blocking while the channel is full.     *)
(* One goroutine runs metrics.loop: it collects metrics from mCh into a    *)
(* local list until the 200 ms ticker fires, then combine cuts the list    *)
(* into batches of at most MaxPush and reports them one by one; report     *)
(* marshals the batch and hands it to Kafka synchronously.                 *)
(*                                                                         *)
(* A metric is a number, the order in which it was made.  Whether Kafka    *)
(* accepts a batch only changes what report logs, so it is left out.       *)
(***************************************************************************)
EXTENDS Naturals, Sequences, SequencesExt

CONSTANTS
    Producers,  \* goroutines calling Counter, MethodCode, Summary...
    MaxCh,      \* capacity of mCh (MaxCh)
    Headroom,   \* the literal 10 of metrics.to's check
    MaxPush,    \* batch size limit (MaxPush)
    MaxMetrics  \* bound on the metrics made in a behaviour

ASSUME MaxCh \in Nat /\ Headroom \in Nat /\ MaxPush \in Nat \ {0}
       /\ MaxMetrics \in Nat

Metrics == 1..MaxMetrics
NoMetric == 0

-----------------------------------------------------------------------------
(* metrics.combine *)

\* Mutant: the loop slices while MaxPush <= len(its).
RECURSIVE BatchesLe(_)
BatchesLe(its) ==
    IF MaxPush <= Len(its)
    THEN <<SubSeq(its, 1, MaxPush)>> \o BatchesLe(SubSeq(its, MaxPush + 1, Len(its)))
    ELSE <<its>>

\* Mutant: the rest is sliced from MaxPush + 1, one metric too far.
RECURSIVE BatchesSkip(_)
BatchesSkip(its) ==
    IF MaxPush < Len(its)
    THEN <<SubSeq(its, 1, MaxPush)>> \o BatchesSkip(SubSeq(its, MaxPush + 2, Len(its)))
    ELSE <<its>>

\* The body of `for its != nil`: cut MaxPush metrics off while more than
\* MaxPush remain, then report the rest and stop.
RECURSIVE Batches(_)
Batches(its) ==
    IF MaxPush < Len(its)
    THEN <<SubSeq(its, 1, MaxPush)>> \o Batches(SubSeq(its, MaxPush + 1, Len(its)))
    ELSE <<its>>

\* combine returns at once on an empty list.
Combine(its) == IF its = <<>> THEN <<>> ELSE Batches(its)

-----------------------------------------------------------------------------

VARIABLES
    mCh,        \* the buffered channel mCh
    made,       \* number of metrics made so far
    prod,       \* prod[p]: the metric p is sending on mCh, or NoMetric
    lists,      \* metrics.loop's local list
    pending,    \* batches combine has yet to report, in order
    accepted,   \* metrics that entered mCh, in order (history)
    reported,   \* metrics handed to report, in order (history)
    shed        \* metrics metrics.to dropped (history)

vars == <<mCh, made, prod, lists, pending, accepted, reported, shed>>

\* The check `(MaxCh - 10) < len(m.mCh)`.
Full == MaxCh - Headroom < Len(mCh)

-----------------------------------------------------------------------------
(* metrics.to, in any goroutine *)

\* A metric is made and mCh is nearly full: log and drop it.
Shed(p) ==
    /\ prod[p] = NoMetric
    /\ made < MaxMetrics
    /\ Full
    /\ made' = made + 1
    /\ shed' = shed \cup {made + 1}
    /\ UNCHANGED <<mCh, prod, lists, pending, accepted, reported>>

\* Mutant: the metric sent is not the one just made.
AdmitOffByOne(p) ==
    /\ prod[p] = NoMetric
    /\ made < MaxMetrics
    /\ ~Full
    /\ made' = made + 1
    /\ prod' = [prod EXCEPT ![p] = made + 2]
    /\ UNCHANGED <<mCh, lists, pending, accepted, reported, shed>>

\* A metric is made and the check passes: go on to `m.mCh <- it`.
Admit(p) ==
    /\ prod[p] = NoMetric
    /\ made < MaxMetrics
    /\ ~Full
    /\ made' = made + 1
    /\ prod' = [prod EXCEPT ![p] = made + 1]
    /\ UNCHANGED <<mCh, lists, pending, accepted, reported, shed>>

\* The send completes once mCh has room.
Send(p) ==
    /\ prod[p] # NoMetric
    /\ Len(mCh) < MaxCh
    /\ mCh' = Append(mCh, prod[p])
    /\ accepted' = Append(accepted, prod[p])
    /\ prod' = [prod EXCEPT ![p] = NoMetric]
    /\ UNCHANGED <<made, lists, pending, reported, shed>>

-----------------------------------------------------------------------------
(* metrics.loop *)

\* `case it := <-m.mCh`: append to the local list.
Collect ==
    /\ pending = <<>>
    /\ mCh # <<>>
    /\ lists' = Append(lists, Head(mCh))
    /\ mCh' = Tail(mCh)
    /\ UNCHANGED <<made, prod, pending, accepted, reported, shed>>

\* Mutant: a fresh list is made before combine runs on it.
TickResetsFirst ==
    /\ pending = <<>>
    /\ pending' = <<>>
    /\ lists' = <<>>
    /\ UNCHANGED <<mCh, made, prod, accepted, reported, shed>>

\* `case <-timer.C`: goto to, combine the list; the outer loop then starts
\* a fresh list.
Tick ==
    /\ pending = <<>>
    /\ pending' = Combine(lists)
    /\ lists' = <<>>
    /\ UNCHANGED <<mCh, made, prod, accepted, reported, shed>>

\* report(&mBatch): marshal the batch and produce it to Kafka; the loop
\* waits for it.
Report ==
    /\ pending # <<>>
    /\ reported' = reported \o Head(pending)
    /\ pending' = Tail(pending)
    /\ UNCHANGED <<mCh, made, prod, lists, accepted, shed>>

-----------------------------------------------------------------------------

Init ==
    /\ mCh = <<>>
    /\ made = 0
    /\ prod = [p \in Producers |-> NoMetric]
    /\ lists = <<>>
    /\ pending = <<>>
    /\ accepted = <<>>
    /\ reported = <<>>
    /\ shed = {}

ProducerStep(p) == Shed(p) \/ Admit(p) \/ Send(p)

LoopStep == Collect \/ Tick \/ Report

Next ==
    \/ \E p \in Producers : ProducerStep(p)
    \/ LoopStep

\* The loop goroutine is always runnable when mCh has data or a batch is
\* pending, and the ticker fires every 200 ms.  Producers owe nothing.
Fairness == WF_vars(Collect) /\ WF_vars(Tick) /\ WF_vars(Report)

Spec == Init /\ [][Next]_vars
FairSpec == Spec /\ Fairness

-----------------------------------------------------------------------------
(* Properties *)

TypeOK ==
    /\ mCh \in Seq(Metrics) /\ Len(mCh) <= MaxCh
    /\ made \in 0..MaxMetrics
    /\ prod \in [Producers -> Metrics \cup {NoMetric}]
    /\ lists \in Seq(Metrics)
    /\ pending \in Seq(Seq(Metrics))
    /\ accepted \in Seq(Metrics)
    /\ reported \in Seq(Metrics)
    /\ shed \subseteq Metrics

\* Every batch combine hands to report holds between 1 and MaxPush metrics.
BatchesBounded ==
    \A i \in DOMAIN pending : Len(pending[i]) \in 1..MaxPush

\* No metric that entered mCh is lost, duplicated or reordered on its way
\* through the loop's list and combine's batches: what was reported, then
\* what is pending, in the list and still in mCh, is exactly what entered
\* mCh, in order.
MetricsInOrder ==
    accepted = reported \o FlattenSeq(pending) \o lists \o mCh

\* Every metric that enters mCh is eventually handed to report.
MetricsReported ==
    \A n \in 1..MaxMetrics : Len(accepted) >= n ~> Len(reported) >= n

=============================================================================
