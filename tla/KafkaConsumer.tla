----------------------------- MODULE KafkaConsumer -----------------------------
(***************************************************************************)
(* Consumer.Consume of src/kafka/consumer.go.                              *)
(*                                                                         *)
(* The calling goroutine lists the topic's partitions, registers a        *)
(* one-slot channel for os.Interrupt, then opens the partitions one by    *)
(* one, starting a goroutine per partition that selects on the partition's *)
(* messages, its errors and the signal channel.  It then waits for all of *)
(* them (wg.Wait) and closes the partition consumers.  Any error while    *)
(* listing or opening is reported through icb.Error and Consume returns.  *)
(*                                                                         *)
(* A partition is a number; messages and errors are counts of what the   *)
(* broker has made ready on a partition.  Payloads are left out.           *)
(***************************************************************************)
EXTENDS Naturals, FiniteSets

CONSTANTS
    NumParts,   \* partitions of the topic
    MaxMsgs,    \* bound on the messages the broker readies per partition
    MaxSignals  \* bound on the interrupts the user sends

ASSUME NumParts \in Nat /\ MaxMsgs \in Nat /\ MaxSignals \in Nat

Parts == 1..NumParts

VARIABLES
    pc,         \* Consume's goroutine: "start", "open", "wait" or "done"
    next,       \* the partition the open loop is at
    parts,      \* partition consumers opened (the parts slice)
    running,    \* partitions whose goroutine has not returned (wg counter)
    closed,     \* partition consumers closed after wg.Wait
    ready,      \* ready[p]: messages waiting on p's Messages() channel
    failed,     \* failed[p]: an error is waiting on p's Errors() channel
    signals,    \* signals in the one-slot channel given to signal.Notify
    notified,   \* signal.Notify has been called
    sigs        \* interrupts the user has sent since Notify

vars == <<pc, next, parts, running, closed, ready, failed, signals, notified,
          sigs>>

-----------------------------------------------------------------------------
(* Consume's own goroutine *)

\* j.consumer.Partitions fails: icb.Error and return, before Notify.
PartitionsFail ==
    /\ pc = "start"
    /\ pc' = "done"
    /\ UNCHANGED <<next, parts, running, closed, ready, failed, signals,
                   notified, sigs>>

\* The partitions are listed and signal.Notify routes os.Interrupt to the
\* signals channel from now on.
PartitionsOk ==
    /\ pc = "start"
    /\ pc' = "open" /\ next' = 1 /\ notified' = TRUE
    /\ UNCHANGED <<parts, running, closed, ready, failed, signals, sigs>>

\* ConsumePartition fails: icb.Error and return at once.  The goroutines
\* already started keep running and no partition consumer is closed.
OpenFail ==
    /\ pc = "open" /\ next \in Parts
    /\ pc' = "done"
    /\ UNCHANGED <<next, parts, running, closed, ready, failed, signals,
                   notified, sigs>>

\* ConsumePartition succeeds: append to parts, wg.Add(1), go func.
OpenOk ==
    /\ pc = "open" /\ next \in Parts
    /\ parts' = parts \cup {next}
    /\ running' = running \cup {next}
    /\ next' = next + 1
    /\ pc' = IF next = NumParts THEN "wait" ELSE "open"
    /\ UNCHANGED <<closed, ready, failed, signals, notified, sigs>>

\* The topic has no partition: the loop body never runs.
NoParts ==
    /\ pc = "open" /\ next \notin Parts
    /\ pc' = "wait"
    /\ UNCHANGED <<next, parts, running, closed, ready, failed, signals,
                   notified, sigs>>

\* wg.Wait returns once every goroutine has called wg.Done; then every
\* partition consumer in parts is closed.
WaitDone ==
    /\ pc = "wait" /\ running = {}
    /\ pc' = "done"
    /\ closed' = parts
    /\ UNCHANGED <<next, parts, running, ready, failed, signals, notified,
                   sigs>>

-----------------------------------------------------------------------------
(* The goroutine of partition p: one select per step *)

\* `case msg := <-partitions.Messages()`: icb.Message, and loop.
OnMessage(p) ==
    /\ p \in running /\ ready[p] > 0
    /\ ready' = [ready EXCEPT ![p] = @ - 1]
    /\ UNCHANGED <<pc, next, parts, running, closed, failed, signals,
                   notified, sigs>>

\* `case err := <-partitions.Errors()`: icb.Error, wg.Done, return.
OnError(p) ==
    /\ p \in running /\ failed[p]
    /\ failed' = [failed EXCEPT ![p] = FALSE]
    /\ running' = running \ {p}
    /\ UNCHANGED <<pc, next, parts, closed, ready, signals, notified, sigs>>

\* `case <-signals`: this goroutine takes the signal, wg.Done, return.
OnSignal(p) ==
    /\ p \in running /\ signals > 0
    /\ signals' = signals - 1
    /\ running' = running \ {p}
    /\ UNCHANGED <<pc, next, parts, closed, ready, failed, notified, sigs>>

PartStep(p) == OnMessage(p) \/ OnError(p) \/ OnSignal(p)

-----------------------------------------------------------------------------
(* The environment: the broker and the user *)

\* A message arrives on an open partition consumer.
Produce(p) ==
    /\ p \in parts /\ p \notin closed /\ ready[p] < MaxMsgs
    /\ ready' = [ready EXCEPT ![p] = @ + 1]
    /\ UNCHANGED <<pc, next, parts, running, closed, failed, signals,
                   notified, sigs>>

\* The partition consumer reports an error (Return.Errors is set).
Fail(p) ==
    /\ p \in parts /\ p \notin closed /\ ~failed[p]
    /\ failed' = [failed EXCEPT ![p] = TRUE]
    /\ UNCHANGED <<pc, next, parts, running, closed, ready, signals,
                   notified, sigs>>

\* Ctrl-C after Notify: the runtime sends without blocking, so the signal
\* is dropped when the one slot is taken.
Interrupt ==
    /\ notified /\ sigs < MaxSignals
    /\ sigs' = sigs + 1
    /\ signals' = IF signals < 1 THEN signals + 1 ELSE signals
    /\ UNCHANGED <<pc, next, parts, running, closed, ready, failed, notified>>

-----------------------------------------------------------------------------

Init ==
    /\ pc = "start" /\ next = 0
    /\ parts = {} /\ running = {} /\ closed = {}
    /\ ready = [p \in Parts |-> 0]
    /\ failed = [p \in Parts |-> FALSE]
    /\ signals = 0 /\ notified = FALSE /\ sigs = 0

ConsumeStep ==
    PartitionsFail \/ PartitionsOk \/ OpenFail \/ OpenOk \/ NoParts \/ WaitDone

Next ==
    \/ ConsumeStep
    \/ \E p \in Parts : PartStep(p) \/ Produce(p) \/ Fail(p)
    \/ Interrupt

\* Consume's goroutine and the partition goroutines are scheduled by the
\* Go runtime; the broker and the user owe nothing.  A select picks one
\* of its ready cases uniformly at random, so a case that is ready again
\* and again is taken in the end, even while messages keep coming.
Spec ==
    /\ Init /\ [][Next]_vars
    /\ WF_vars(ConsumeStep)
    /\ \A p \in Parts : /\ WF_vars(PartStep(p))
                        /\ SF_vars(OnError(p))
                        /\ SF_vars(OnSignal(p))

-----------------------------------------------------------------------------
(* Properties *)

TypeOK ==
    /\ pc \in {"start", "open", "wait", "done"}
    /\ next \in 0..NumParts + 1
    /\ parts \subseteq Parts /\ running \subseteq parts /\ closed \subseteq parts
    /\ ready \in [Parts -> 0..MaxMsgs] /\ failed \in [Parts -> BOOLEAN]
    /\ signals \in 0..1 /\ notified \in BOOLEAN
    /\ sigs \in 0..MaxSignals

\* Ctrl-C stops consuming: once an interrupt has reached the process after
\* signal.Notify, Consume eventually returns with no partition goroutine
\* left running and every partition consumer it opened closed.
InterruptStops ==
    sigs > 0 ~> (pc = "done" /\ running = {} /\ closed = parts)

=============================================================================
