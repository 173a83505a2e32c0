---------------------------- MODULE ServerLifecycle ----------------------------
(***************************************************************************)
(* Starting and stopping a server: Server.Run and Server.Release           *)
(* (src/server/server.go) over transport.Listener (src/transport/          *)
(* listener.go), with the listen, connect and closed callbacks that keep   *)
(* the registry entry and the connection counter.                          *)
(*                                                                         *)
(* Run opens the listening socket, whose Listen callback registers the     *)
(* server, and starts the accept loop; the loop calls Connect for each     *)
(* accepted connection and then starts its read loop, whose deferred       *)
(* function calls Closed when the loop ends.  Release deregisters, closes  *)
(* the Listener and cancels the server's context.  The dispatch side of    *)
(* Release (the workers) is in ServerDispatch.                             *)
(***************************************************************************)
EXTENDS Naturals, FiniteSets, Registry

CONSTANTS
    Conns       \* the TCP connections clients may open

VARIABLES
    phase,      \* main: "new", "running" (Run returned), "released"
    lsock,      \* the net.TCPListener: "none" or "open"
    shutdown,   \* shutdownChannel is closed
    acceptLoop, \* blockListen: "off", "running" or "returned"
    conn,       \* conn[k]: "none", "accepted", "reading" or "closed"
    conns,      \* Server.conns
    cancelled   \* s.ctx is done

vars == <<phase, lsock, shutdown, acceptLoop, conn, conns, cancelled, regVars>>

-----------------------------------------------------------------------------
(* Callbacks and Listener operations used by the steps below *)

\* Server.listen: GetEthIp fails and the error is returned (and ignored by
\* openSocket), or registry.Register (on the provider NewServer set) stores
\* the address and registers it, a failure there being Fatal.
ListenCallback == UNCHANGED regVars \/ RegisterWithProvider

\* openSocket: ListenTCP succeeds, then the Listen callback runs.
OpenSocket == lsock' = "open" /\ ListenCallback

\* StartAsync: blockListen runs in its own goroutine.
StartAsync == acceptLoop' = "running"

\* Server.connect / Server.closed: atomic updates of conns.
Connect == conns' = conns + 1
Closed == conns' = conns - 1

\* Listener.Close: close shutdownChannel, then Wait on a WaitGroup nobody
\* added to, which returns at once.  The socket stays open.
CloseListener == shutdown' = TRUE

-----------------------------------------------------------------------------
(* Server.Run *)

\* NewListener fails (ListenTCP) and Run returns with no socket; or the
\* socket is open, StartAsync starts blockListen, and the workers and the
\* ticker start.  A Fatal in the Listen callback ends the process there.
Run ==
    /\ phase = "new" /\ Alive
    /\ phase' = "running"
    /\ \/ /\ UNCHANGED <<lsock, acceptLoop, regVars>>
       \/ /\ OpenSocket
          /\ StartAsync
    /\ UNCHANGED <<shutdown, conn, conns, cancelled>>

-----------------------------------------------------------------------------
(* Listener.blockListen *)

\* Mutant: the read loop started before the Connect callback.
AcceptReadFirst(k) ==
    /\ acceptLoop = "running" /\ Alive
    /\ conn[k] = "none"
    /\ conn' = [conn EXCEPT ![k] = "reading"]
    /\ UNCHANGED <<phase, lsock, shutdown, acceptLoop, conns, cancelled, regVars>>

\* AcceptTCP returns a connection: set its deadline, call Connect, which
\* runs Server.connect and increments conns.  The loop does not look at
\* shutdownChannel on this path.
Accept(k) ==
    /\ acceptLoop = "running" /\ Alive
    /\ conn[k] = "none"
    /\ conn' = [conn EXCEPT ![k] = "accepted"]
    /\ Connect
    /\ UNCHANGED <<phase, lsock, shutdown, acceptLoop, cancelled, regVars>>

\* `go skt.onRecv(...)`
StartReadLoop(k) ==
    /\ conn[k] = "accepted" /\ Alive
    /\ conn' = [conn EXCEPT ![k] = "reading"]
    /\ UNCHANGED <<phase, lsock, shutdown, acceptLoop, conns, cancelled, regVars>>

\* AcceptTCP fails; only an error that finds shutdownChannel closed ends
\* the loop.  A failing AcceptTCP on a listening socket is transient
\* (EMFILE and the like): the loop logs and accepts again.
AcceptError ==
    /\ acceptLoop = "running" /\ Alive
    /\ shutdown
    /\ acceptLoop' = "returned"
    /\ UNCHANGED <<phase, lsock, shutdown, conn, conns, cancelled, regVars>>

\* The read loop ends (peer close, error, read deadline): its deferred
\* function closes the socket and calls Closed, which decrements conns.
ReadLoopEnd(k) ==
    /\ conn[k] = "reading" /\ Alive
    /\ conn' = [conn EXCEPT ![k] = "closed"]
    /\ Closed
    /\ UNCHANGED <<phase, lsock, shutdown, acceptLoop, cancelled, regVars>>

-----------------------------------------------------------------------------
(* Server.Release, deferred in main *)

\* registry.Destroy first (a Server's registry always has a provider): if
\* it ends the process (deregister with no address panics) nothing after
\* it runs.  Otherwise, if Run made a socket,
\* the Listener is closed; then the context is cancelled.
Release ==
    /\ phase = "running" /\ Alive
    /\ phase' = "released"
    /\ \/ DeregisterNoAddr /\ UNCHANGED <<shutdown, cancelled>>
       \/ /\ DestroyDone
          /\ IF lsock = "open" THEN CloseListener ELSE UNCHANGED shutdown
          /\ cancelled' = TRUE
    /\ UNCHANGED <<lsock, acceptLoop, conn, conns>>

-----------------------------------------------------------------------------

Init ==
    /\ phase = "new"
    /\ lsock = "none"
    /\ ServerRegistry
    /\ shutdown = FALSE
    /\ acceptLoop = "off"
    /\ conn = [k \in Conns |-> "none"]
    /\ conns = 0
    /\ cancelled = FALSE

ConnStep(k) == Accept(k) \/ StartReadLoop(k) \/ ReadLoopEnd(k)

Next ==
    \/ Run \/ Release \/ AcceptError
    \/ \E k \in Conns : ConnStep(k)

Spec == Init /\ [][Next]_vars

-----------------------------------------------------------------------------
(* Properties *)

TypeOK ==
    /\ phase \in {"new", "running", "released"}
    /\ lsock \in {"none", "open"}
    /\ provider \in Handles /\ consumer \in Handles /\ limiter \in Handles
    /\ addr \in {"unset", "set"}
    /\ instance \in {"none", "registered", "deregistered"}
    /\ exit \in [how : {"none", "fatal", "panic"}, at : Calls]
    /\ shutdown \in BOOLEAN
    /\ acceptLoop \in {"off", "running", "returned"}
    /\ conn \in [Conns -> {"none", "accepted", "reading", "closed"}]
    /\ conns \in 0..Cardinality(Conns)
    /\ cancelled \in BOOLEAN

\* Server.conns counts exactly the connections whose Connect callback has
\* run and whose Closed callback has not: Connect runs before the read
\* loop that will call Closed is started.
ConnsCounted ==
    conns = Cardinality({k \in Conns : conn[k] \in {"accepted", "reading"}})

=============================================================================
