---------------------------- MODULE MC_ClientCall ----------------------------
(* Model-checking instance of ClientCall: three calls over two pooled
   connections, a success code and one error code. *)
EXTENDS ClientCall

\* Calls and connections are interchangeable model values.
Symmetry == Permutations(Calls) \cup Permutations(Conns)

\* A call is pending from Client.Call until Client.call returns.
CallStatus ==
    [c \in Calls |-> CASE pc[c] = "idle" -> "idle"
                      [] pc[c] = "done" -> "done"
                      [] OTHER          -> "pending"]

OSC == INSTANCE OneShotCall WITH status <- CallStatus, answer <- replied,
                                 outcome <- result, shut <- destroy # "no"

\* Client.Call implements the one-shot call: every step of Client.call,
\* the receive callbacks and the server is a step of OneShotCall or leaves
\* its state alone, so each call returns once and only with a write error,
\* fire-and-forget success, a timeout, its own server's code, or, once
\* Client.Destroy has run, the empty result of a recovered panic.
OneShotRefined == OSC!Spec
=============================================================================
