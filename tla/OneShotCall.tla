------------------------------ MODULE OneShotCall ------------------------------
(***************************************************************************)
(* What a synchronous RPC call promises its caller, whatever the           *)
(* correlation machinery underneath: each call returns once, and what it   *)
(* returns is a write error, the immediate success of a fire-and-forget    *)
(* call, a timeout, or the code the server answered it with.  The server   *)
(* answers a call at most once, at any time after it was made.  Once the   *)
(* client is destroyed, a call still pending may also return with neither  *)
(* an answer nor an error ("recovered").                                   *)
(***************************************************************************)
CONSTANTS
    Calls,      \* the calls (session ids)
    Codes,      \* response codes a server can send
    None        \* no answer yet

VARIABLES
    status,     \* status[c]: "idle", "pending" or "done"
    answer,     \* answer[c]: the server's code for c, or None
    outcome,    \* outcome[c]: what c returned, or "none"
    shut        \* the client has been destroyed

vars == <<status, answer, outcome, shut>>

\* What a call may return when the server's answer is a.
Outcomes(a) ==
    {"writeErr", "onlyCall", "timeout"} \cup (IF a \in Codes THEN {a} ELSE {})
        \cup (IF shut THEN {"recovered"} ELSE {})

Init ==
    /\ status = [c \in Calls |-> "idle"]
    /\ answer = [c \in Calls |-> None]
    /\ outcome = [c \in Calls |-> "none"]
    /\ shut = FALSE

Begin(c) ==
    /\ status[c] = "idle"
    /\ status' = [status EXCEPT ![c] = "pending"]
    /\ UNCHANGED <<answer, outcome, shut>>

Answer(c) ==
    /\ status[c] # "idle"
    /\ answer[c] = None
    /\ \E a \in Codes : answer' = [answer EXCEPT ![c] = a]
    /\ UNCHANGED <<status, outcome, shut>>

Finish(c) ==
    /\ status[c] = "pending"
    /\ \E o \in Outcomes(answer[c]) : outcome' = [outcome EXCEPT ![c] = o]
    /\ status' = [status EXCEPT ![c] = "done"]
    /\ UNCHANGED <<answer, shut>>

Destroy ==
    /\ ~shut
    /\ shut' = TRUE
    /\ UNCHANGED <<status, answer, outcome>>

Next == Destroy \/ \E c \in Calls : Begin(c) \/ Answer(c) \/ Finish(c)

Spec == Init /\ [][Next]_vars

=============================================================================
