------------------------------ MODULE ClientPool ------------------------------
(***************************************************************************)
(* The client's connection pool for one service (src/client/pools.go).     *)
(*                                                                         *)
(* pool.response runs entirely under pool.rw.Lock: it dials connections    *)
(* until the service has RPC_POOL_SIZE of them and hands one to the        *)
(* caller.  pool.removeByClient evicts a connection in two critical        *)
(* sections: it copies the list without the connection under rw.RLock,     *)
(* and installs the copy under rw.Lock.  It is called from two places:     *)
(* the close callback of the connection's receive goroutine, when its read *)
(* loop ends, and Client.Call, when a write fails with "closed" or "broken *)
(* pipe" in the error.                                                     *)
(*                                                                         *)
(* A connection is an integer, the order in which it was dialled (names    *)
(* come from GenUid and are unique).  Registry lookups and dial failures   *)
(* are the environment: each dial succeeds or not.                         *)
(***************************************************************************)
EXTENDS Naturals, Sequences, SequencesExt, Functions

CONSTANTS
    PoolSize,   \* RPC_POOL_SIZE
    MaxConns,   \* bound on the connections dialled in a behaviour
    Callers     \* goroutines calling Client.Call

ASSUME PoolSize \in Nat \ {0} /\ MaxConns \in Nat

Conns == 1..MaxConns

\* removeByClient is run by a connection's close callback or by a caller.
Removers == Conns \cup Callers

VARIABLES
    pool,       \* p.rpcconn[key]: the service's connections, in order
    dialled,    \* number of connections dialled so far
    open,       \* connections whose socket is still open
    caller,     \* caller[g]: [st, conn] where g is in Client.Call
    rm          \* rm[r]: [st, conn, snap], r's removeByClient in progress

vars == <<pool, dialled, open, caller, rm>>

RmIdle == [st |-> "idle", conn |-> 0, snap |-> <<>>]

\* removeByClient(conn) called by r.
StartRemove(r, k) == rm' = [rm EXCEPT ![r] = [st |-> "read", conn |-> k,
                                            snap |-> <<>>]]

-----------------------------------------------------------------------------
(* pool.response, under rw.Lock *)

\* Mutant: the new connections numbered from the last one dialled.
ResponseNameOffByOne(g) ==
    /\ caller[g].st = "idle"
    /\ \E n \in 0..(PoolSize - Len(pool)) :
          /\ dialled + n <= MaxConns
          /\ LET new == [i \in 1..n |-> dialled + i - 1]
             IN /\ pool' = pool \o new
                /\ open' = open \cup ToSet(new)
                /\ dialled' = dialled + n
                /\ \/ pool' = <<>> /\ UNCHANGED caller
                   \/ \E i \in DOMAIN pool' :
                         caller' = [caller EXCEPT ![g] =
                                      [st |-> "using", conn |-> pool'[i]]]
    /\ UNCHANGED rm

\* Mutant: the top-up dials a whole pool's worth again.
ResponseTopUpFull(g) ==
    /\ caller[g].st = "idle"
    /\ \E n \in 0..PoolSize :
          /\ dialled + n <= MaxConns
          /\ LET new == [i \in 1..n |-> dialled + i]
             IN /\ pool' = pool \o new
                /\ open' = open \cup ToSet(new)
                /\ dialled' = dialled + n
                /\ \/ pool' = <<>> /\ UNCHANGED caller
                   \/ \E i \in DOMAIN pool' :
                         caller' = [caller EXCEPT ![g] =
                                      [st |-> "using", conn |-> pool'[i]]]
    /\ UNCHANGED rm

\* genCon dials until the service has PoolSize connections (twice when the
\* list was empty, so any number of failures leaves between the old length
\* and PoolSize); each new connection's receive goroutine starts in
\* pool.connect.  An empty list is the error "didn't more node"; otherwise
\* a connection is drawn at random.
Response(g) ==
    /\ caller[g].st = "idle"
    /\ \E n \in 0..(PoolSize - Len(pool)) :
          /\ dialled + n <= MaxConns
          /\ LET new == [i \in 1..n |-> dialled + i]
             IN /\ pool' = pool \o new
                /\ open' = open \cup ToSet(new)
                /\ dialled' = dialled + n
                /\ \/ pool' = <<>> /\ UNCHANGED caller
                   \/ \E i \in DOMAIN pool' :
                         caller' = [caller EXCEPT ![g] =
                                      [st |-> "using", conn |-> pool'[i]]]
    /\ UNCHANGED rm

-----------------------------------------------------------------------------
(* Client.Call on the connection it was given *)

\* c.call writes on an open socket; the call ends with no eviction (a
\* reply, an error code or a timeout alike).
CallDone(g) ==
    /\ caller[g].st = "using"
    /\ caller[g].conn \in open
    /\ caller' = [caller EXCEPT ![g] = [st |-> "idle", conn |-> 0]]
    /\ UNCHANGED <<pool, dialled, open, rm>>

\* The write fails with "use of closed network connection" or "broken
\* pipe": Client.Call calls removeByClient on the connection.
CallEvict(g) ==
    /\ caller[g].st = "using"
    /\ caller[g].conn \notin open
    /\ rm[g].st = "idle"
    /\ StartRemove(g, caller[g].conn)
    /\ caller' = [caller EXCEPT ![g] = [st |-> "evict", conn |-> 0]]
    /\ UNCHANGED <<pool, dialled, open>>

\* Client.Call returns once removeByClient has.
CallReturn(g) ==
    /\ caller[g].st = "evict"
    /\ rm[g].st = "idle"
    /\ caller' = [caller EXCEPT ![g] = [st |-> "idle", conn |-> 0]]
    /\ UNCHANGED <<pool, dialled, open, rm>>

-----------------------------------------------------------------------------
(* The connection's receive goroutine *)

\* The peer closes the connection or the network breaks it: the read loop
\* of Socket.onRecv returns, its deferred function closes the socket and
\* calls the close callback, which calls removeByClient.
ConnLost(k) ==
    /\ k \in open
    /\ rm[k].st = "idle"
    /\ open' = open \ {k}
    /\ StartRemove(k, k)
    /\ UNCHANGED <<pool, dialled, caller>>

-----------------------------------------------------------------------------
(* pool.removeByClient *)

\* Under rw.RLock: copy every connection but the one named.  If it is not
\* there (index -1), return without writing.
RmRead(r) ==
    /\ rm[r].st = "read"
    /\ LET k == rm[r].conn
       IN rm' = [rm EXCEPT ![r] =
                   IF k \in ToSet(pool)
                   THEN [@ EXCEPT !.st = "write",
                                  !.snap = SelectSeq(pool, LAMBDA x : x # k)]
                   ELSE RmIdle]
    /\ UNCHANGED <<pool, dialled, open, caller>>

\* Under rw.Lock: install the copy taken under the read lock.
RmWrite(r) ==
    /\ rm[r].st = "write"
    /\ pool' = rm[r].snap
    /\ rm' = [rm EXCEPT ![r] = RmIdle]
    /\ UNCHANGED <<dialled, open, caller>>

-----------------------------------------------------------------------------

Init ==
    /\ pool = <<>>
    /\ dialled = 0
    /\ open = {}
    /\ caller = [g \in Callers |-> [st |-> "idle", conn |-> 0]]
    /\ rm = [r \in Removers |-> RmIdle]

CallerStep(g) ==
    Response(g) \/ CallDone(g) \/ CallEvict(g) \/ CallReturn(g)

RemoverStep(r) == RmRead(r) \/ RmWrite(r)

Next ==
    \/ \E g \in Callers : CallerStep(g)
    \/ \E k \in Conns : ConnLost(k)
    \/ \E r \in Removers : RemoverStep(r)

Spec == Init /\ [][Next]_vars

-----------------------------------------------------------------------------
(* Properties *)

TypeOK ==
    /\ pool \in Seq(Conns)
    /\ dialled \in 0..MaxConns
    /\ open \subseteq 1..dialled
    /\ caller \in [Callers -> [st : {"idle", "using", "evict"}, conn : 0..MaxConns]]
    /\ rm \in [Removers -> [st : {"idle", "read", "write"}, conn : 0..MaxConns,
                            snap : Seq(Conns)]]

\* The pool never holds more than RPC_POOL_SIZE connections, nor one
\* connection twice, however response's top-ups and the stale copies
\* installed by concurrent removeByClient calls interleave.
PoolBounded ==
    /\ Len(pool) <= PoolSize
    /\ IsInjective(pool)

\* A connection taken out of the pool never comes back: every connection
\* that enters the pool is a newly dialled one.
NoResurrection ==
    [][\A k \in ToSet(pool') \ ToSet(pool) : k > dialled]_pool

=============================================================================
