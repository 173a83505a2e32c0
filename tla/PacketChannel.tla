----------------------------- MODULE PacketChannel -----------------------------
(***************************************************************************)
(* What framing over one TCP connection promises the two ends: the packets *)
(* a writer sends reach the receiver's callback whole, once each and in    *)
(* the order sent, until the channel closes; while it is open, every       *)
(* packet sent is eventually received.  A packet is its length.            *)
(***************************************************************************)
EXTENDS Naturals, Sequences

CONSTANTS
    Sizes,      \* the lengths a writer sends
    MaxFrames   \* bound on the packets sent

VARIABLES
    sent,       \* the packets sent, in order
    delivered,  \* the packets received, in order
    open        \* the receiving end still reads

vars == <<sent, delivered, open>>

Init == sent = <<>> /\ delivered = <<>> /\ open = TRUE

\* The writer does not learn that the receiver has stopped.
Send ==
    /\ Len(sent) < MaxFrames
    /\ \E L \in Sizes : L > 0 /\ sent' = Append(sent, L)
    /\ UNCHANGED <<delivered, open>>

\* The next packet not yet received is handed over.
Recv ==
    /\ open = TRUE
    /\ Len(delivered) < Len(sent)
    /\ delivered' = Append(delivered, sent[Len(delivered) + 1])
    /\ UNCHANGED <<sent, open>>

Close ==
    /\ open = TRUE
    /\ open' = FALSE
    /\ UNCHANGED <<sent, delivered>>

Next == Send \/ Recv \/ Close

Spec == Init /\ [][Next]_vars /\ WF_vars(Recv)

=============================================================================
