------------------------------ MODULE RegistryUse ------------------------------
(***************************************************************************)
(* A process that uses the default registry, as the server or as the       *)
(* client: the calls each makes on it, in the order the code makes them.   *)
(* NewServer and NewClient build registry.Registry() when no Registry     *)
(* option is given.                                                        *)
(***************************************************************************)
EXTENDS Registry

VARIABLES
    user,       \* "none", "server" (NewServer) or "client" (NewClient)
    shut,       \* Release / Client.Destroy has been called
    answer      \* what the last Limiter or GetNode call returned

vars == <<regVars, user, shut, answer>>

\* NewServer: opt.registry.Provider(registry.Node(...)).
NewServer ==
    /\ user = "none"
    /\ user' = "server"
    /\ Provider
    /\ UNCHANGED <<shut, answer>>

\* NewClient -> newPool: instance.r.Consumer(); GetEthIp's error is ignored.
NewClient ==
    /\ user = "none"
    /\ user' = "client"
    /\ Consumer
    /\ UNCHANGED <<shut, answer>>

\* Run -> openSocket -> Server.listen: GetEthIp fails and Register is not
\* called, or the server registers its address.
Listen ==
    /\ user = "server" /\ ~shut /\ Alive
    /\ addr = "unset" /\ instance = "none"
    /\ \/ UNCHANGED regVars
       \/ Register
    /\ UNCHANGED <<user, shut, answer>>

\* Server.handle asks the limiter, before or after Release (a worker may
\* still hold a request when Release runs).
Handle ==
    /\ user = "server" /\ Alive
    /\ Limiter
    /\ answer' \in LimiterAnswers \cup (IF limiter = "nil" THEN {"none"} ELSE {})
    /\ UNCHANGED <<user, shut>>

\* pool.connect: GetNode, on a call that may race Client.Destroy.
Connect ==
    /\ user = "client" /\ Alive
    /\ answer' \in GetNodeAnswers
    /\ UNCHANGED <<regVars, user, shut>>

\* Server.Release or pool.destroy: registry.Destroy first.
Shutdown ==
    /\ user # "none" /\ ~shut /\ Alive
    /\ shut' = TRUE
    /\ Destroy
    /\ UNCHANGED <<user, answer>>

Init ==
    /\ NewRegistry
    /\ user = "none" /\ shut = FALSE /\ answer = "none"

Next == NewServer \/ NewClient \/ Listen \/ Handle \/ Connect \/ Shutdown

Spec == Init /\ [][Next]_vars

-----------------------------------------------------------------------------
(* Properties *)

TypeOK ==
    /\ provider \in Handles /\ consumer \in Handles /\ limiter \in Handles
    /\ addr \in {"unset", "set"}
    /\ instance \in {"none", "registered", "deregistered"}
    /\ exit \in [how : {"none", "fatal", "panic"}, at : Calls]
    /\ user \in {"none", "server", "client"} /\ shut \in BOOLEAN

\* Server.Release and Client.Destroy return to their caller: registry.
\* Destroy, called first by both, never ends the process, whichever user
\* built the registry and whether or not it registered.
DestroyReturns == exit.at # "Destroy"

=============================================================================
