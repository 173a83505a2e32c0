------------------------------ MODULE ClientCall ------------------------------
(***************************************************************************)
(* The client's call correlation table.                                    *)
(*                                                                         *)
(* Client.call (src/client/client.go) registers a CallCond under the write *)
(* lock of pool.wrw, writes the request frame on a pooled connection, and  *)
(* then blocks in a select between its unbuffered wait channel and a       *)
(* timer.  Every pooled connection runs one receive goroutine whose        *)
(* callback (installed by pool.connect, src/client/pools.go) stores the    *)
(* reply into the CallCond and sends on the channel while it holds         *)
(* wrw.RLock.  The server is the environment: it answers a request with    *)
(* any code, or not at all.                                                *)
(*                                                                         *)
(* pool.wrw is a Go sync.RWMutex: a writer first takes the writer slot     *)
(* (after which no new reader gets in) and then waits for the readers in   *)
(* it to leave.  A writer's critical section never blocks, so it is one    *)
(* step; the one reader section that spans steps is the callback blocked   *)
(* on its send.                                                            *)
(***************************************************************************)
EXTENDS Naturals, FiniteSets, Functions, TLC

CONSTANTS
    Calls,      \* session ids handed out by Sid(), one per call
    Conns,      \* pooled connections, each with its receive goroutine
    Codes,      \* response codes a server can send
    OkCode,     \* code 0: success, also the zero value of CallCond.Code
    None,       \* no call / no session id
    WithDestroy,\* whether Client.Destroy may be called while calls run
    Destroyer   \* the goroutine running pool.destroy

ASSUME OkCode \in Codes /\ None \notin Calls /\ WithDestroy \in BOOLEAN

VARIABLES
    pc,         \* pc[c]: where call c is in Client.call
    onlyCall,   \* onlyCall[c]: c was made with OnlyCall(true)
    conn,       \* conn[c]: the pooled connection c writes on
    callItem,   \* pool.callItem: Sid -> Code of its CallCond
    chClosed,   \* chClosed[c]: waitCh of c has been closed
    result,     \* result[c]: how Client.call returned, or "none"
    writer,     \* the call holding the writer slot of pool.wrw, or None
    reader,     \* reader[k]: the receive goroutine of connection k
    net,        \* requests written to the server and not yet handled
    inbox,      \* inbox[k]: replies on connection k not yet read
    replied,    \* replied[c]: the code the server answered c with (history)
    discarded,  \* Sids whose reply the callback dropped (history)
    destroy,    \* progress of pool.destroy: "no", "sockets" closed, "done"
    closedTwice \* goroutines that closed an already closed channel (history)

vars == <<pc, onlyCall, conn, callItem, chClosed, result, writer, reader,
          net, inbox, replied, discarded, destroy, closedTwice>>

Request == [sid : Calls, conn : Conns, only : BOOLEAN]
Reply   == [sid : Calls, code : Codes, only : BOOLEAN]
Idle    == [st |-> "idle", sid |-> None]

\* Call states in which the call is blocked in wrw.Lock().
LockWaiting == {"register", "lockTimeout", "lockSignal"}

-----------------------------------------------------------------------------
(* pool.wrw *)

\* No receive goroutine is inside wrw.RLock: the only ones that stay there
\* across steps are the one blocked on `Ch <- 0` and one whose send panicked
\* (the callback recovers without RUnlock).
NoReaders == \A k \in Conns : reader[k].st = "idle"

\* A call blocked in wrw.Lock() takes the writer slot.
TakeWriterSlot(c) ==
    /\ pc[c] \in LockWaiting
    /\ writer = None
    /\ writer' = c
    /\ UNCHANGED <<pc, onlyCall, conn, callItem, chClosed, result, reader,
                   net, inbox, replied, discarded, destroy, closedTwice>>

\* The write lock is held by c once it has the slot and the readers are gone.
WriteLocked(c) == writer = c /\ NoReaders

Forget(c) == Restrict(callItem, DOMAIN callItem \ {c})

-----------------------------------------------------------------------------
(* Client.Call / Client.call *)

\* Mutant: the onlyCall test inverted, so waiting calls never register.
StartRegisterInverted(c) ==
    /\ pc[c] = "idle"
    /\ \E oc \in BOOLEAN, k \in Conns :
          /\ onlyCall' = [onlyCall EXCEPT ![c] = oc]
          /\ conn' = [conn EXCEPT ![c] = k]
          /\ pc' = [pc EXCEPT ![c] = IF oc THEN "register" ELSE "write"]
    /\ UNCHANGED <<callItem, chClosed, result, writer, reader, net, inbox,
                   replied, discarded, destroy, closedTwice>>

\* Client.Call marshals the message, takes a connection from the pool and
\* calls c.call, which draws a fresh Sid and, unless the call is
\* fire-and-forget, goes for wrw.Lock() to register the CallCond.
Start(c) ==
    /\ pc[c] = "idle"
    /\ \E oc \in BOOLEAN, k \in Conns :
          /\ onlyCall' = [onlyCall EXCEPT ![c] = oc]
          /\ conn' = [conn EXCEPT ![c] = k]
          /\ pc' = [pc EXCEPT ![c] = IF oc THEN "write" ELSE "register"]
    /\ UNCHANGED <<callItem, chClosed, result, writer, reader, net, inbox,
                   replied, discarded, destroy, closedTwice>>

\* Mutant: the CallCond keyed by the connection instead of the Sid.
RegisterByConn(c) ==
    /\ pc[c] = "register"
    /\ WriteLocked(c)
    /\ callItem' = (conn[c] :> OkCode) @@ callItem
    /\ writer' = None
    /\ pc' = [pc EXCEPT ![c] = "write"]
    /\ UNCHANGED <<onlyCall, conn, chClosed, result, reader, net, inbox,
                   replied, discarded, destroy, closedTwice>>

\* callItem[Sid] = &CallCond{Ch: waitCh}; its Code is the zero value 0.
Register(c) ==
    /\ pc[c] = "register"
    /\ WriteLocked(c)
    /\ callItem' = (c :> OkCode) @@ callItem
    /\ writer' = None
    /\ pc' = [pc EXCEPT ![c] = "write"]
    /\ UNCHANGED <<onlyCall, conn, chClosed, result, reader, net, inbox,
                   replied, discarded, destroy, closedTwice>>

\* res.Write(req) succeeds: the frame reaches the server.  A fire-and-forget
\* call returns at once, and its deferred close shuts waitCh.
WriteOk(c) ==
    /\ pc[c] = "write"
    /\ destroy = "no"
    /\ net' = net \cup {[sid |-> c, conn |-> conn[c], only |-> onlyCall[c]]}
    /\ pc' = [pc EXCEPT ![c] = IF onlyCall[c] THEN "done" ELSE "wait"]
    /\ result' = [result EXCEPT ![c] = IF onlyCall[c] THEN "onlyCall"
                                                     ELSE "none"]
    /\ chClosed' = [chClosed EXCEPT ![c] = onlyCall[c]]
    /\ UNCHANGED <<onlyCall, conn, callItem, writer, reader, inbox, replied,
                   discarded, destroy, closedTwice>>

\* res.Write(req) fails (broken or closed connection): call returns the
\* error with rpcCode 500; the deferred close shuts waitCh.  callItem[Sid]
\* is left as it is.
WriteFail(c) ==
    /\ pc[c] = "write"
    /\ pc' = [pc EXCEPT ![c] = "done"]
    /\ result' = [result EXCEPT ![c] = "writeErr"]
    /\ chClosed' = [chClosed EXCEPT ![c] = TRUE]
    /\ UNCHANGED <<onlyCall, conn, callItem, writer, reader, net, inbox,
                   replied, discarded, destroy, closedTwice>>

\* The select takes the timer case, and the call goes for wrw.Lock().
Timeout(c) ==
    /\ pc[c] = "wait"
    /\ pc' = [pc EXCEPT ![c] = "lockTimeout"]
    /\ UNCHANGED <<onlyCall, conn, callItem, chClosed, result, writer, reader,
                   net, inbox, replied, discarded, destroy, closedTwice>>

\* The select takes `<-waitCh`: the rendezvous with the callback blocked on
\* `Ch <- 0`, which then leaves wrw.RLock.
Receive(c) ==
    /\ pc[c] = "wait"
    /\ \E k \in Conns :
          /\ reader[k] = [st |-> "sending", sid |-> c]
          /\ reader' = [reader EXCEPT ![k] = Idle]
    /\ pc' = [pc EXCEPT ![c] = "lockSignal"]
    /\ UNCHANGED <<onlyCall, conn, callItem, chClosed, result, writer, net,
                   inbox, replied, discarded, destroy, closedTwice>>

\* Under wrw.Lock: close the CallCond's channel, delete it, return 408.
TimeoutLocked(c) ==
    /\ pc[c] = "lockTimeout"
    /\ WriteLocked(c)
    /\ ~chClosed[c]
    /\ chClosed' = [chClosed EXCEPT ![c] = TRUE]
    /\ callItem' = Forget(c)
    /\ result' = [result EXCEPT ![c] = "timeout"]
    /\ writer' = None
    /\ pc' = [pc EXCEPT ![c] = "done"]
    /\ UNCHANGED <<onlyCall, conn, reader, net, inbox, replied, discarded,
                   destroy, closedTwice>>

\* Mutant: the caller reads the CallCond's code before the callback's
\* store is visible, i.e. its zero value.
SignalLockedZero(c) ==
    /\ pc[c] = "lockSignal"
    /\ WriteLocked(c)
    /\ ~chClosed[c]
    /\ result' = [result EXCEPT ![c] = OkCode]
    /\ chClosed' = [chClosed EXCEPT ![c] = TRUE]
    /\ callItem' = Forget(c)
    /\ writer' = None
    /\ pc' = [pc EXCEPT ![c] = "done"]
    /\ UNCHANGED <<onlyCall, conn, reader, net, inbox, replied, discarded,
                   destroy, closedTwice>>

\* Under wrw.Lock: read the stored code, close the channel, delete the
\* CallCond; the call returns the code (an error unless it is 0).
SignalLocked(c) ==
    /\ pc[c] = "lockSignal"
    /\ WriteLocked(c)
    /\ ~chClosed[c]
    /\ result' = [result EXCEPT ![c] = callItem[c]]
    /\ chClosed' = [chClosed EXCEPT ![c] = TRUE]
    /\ callItem' = Forget(c)
    /\ writer' = None
    /\ pc' = [pc EXCEPT ![c] = "done"]
    /\ UNCHANGED <<onlyCall, conn, reader, net, inbox, replied, discarded,
                   destroy, closedTwice>>

\* The select takes `<-waitCh` because the channel was closed (by
\* pool.destroy): a receive from a closed channel returns at once.
ReceiveClosed(c) ==
    /\ pc[c] = "wait"
    /\ chClosed[c]
    /\ pc' = [pc EXCEPT ![c] = "lockSignal"]
    /\ UNCHANGED <<onlyCall, conn, callItem, chClosed, result, writer, reader,
                   net, inbox, replied, discarded, destroy, closedTwice>>

\* Under wrw.Lock either branch runs `close(c.p.callItem[Sid].Ch)` on a
\* channel pool.destroy already closed.  The panic unwinds Client.call
\* before wrw.Unlock, so the write lock is never released; Client.Call's
\* recover turns it into a return with a nil error.
CloseTwiceLocked(c) ==
    /\ pc[c] \in {"lockTimeout", "lockSignal"}
    /\ WriteLocked(c)
    /\ chClosed[c]
    /\ closedTwice' = closedTwice \cup {c}
    /\ result' = [result EXCEPT ![c] = "recovered"]
    /\ pc' = [pc EXCEPT ![c] = "done"]
    /\ UNCHANGED <<onlyCall, conn, callItem, chClosed, writer, reader, net,
                   inbox, replied, discarded, destroy>>

-----------------------------------------------------------------------------
(* Client.Destroy -> pool.destroy *)

\* Under pool.rw.RLock every pooled socket is closed: from now on writes
\* fail and the receive goroutines leave their read loops.
DestroySockets ==
    /\ WithDestroy
    /\ destroy = "no"
    /\ destroy' = "sockets"
    /\ UNCHANGED <<pc, onlyCall, conn, callItem, chClosed, result, writer,
                   reader, net, inbox, replied, discarded, closedTwice>>

\* Under wrw.RLock every CallCond's channel is closed, in map order.  A
\* channel already closed (a record leaked by a failed write) panics the
\* loop part way; a callback blocked sending on a channel closed here
\* panics too, and recovers still holding wrw.RLock.
DestroyChannels ==
    /\ destroy = "sockets"
    /\ writer = None
    /\ LET open   == {c \in DOMAIN callItem : ~chClosed[c]}
           leaked == {c \in DOMAIN callItem : chClosed[c]}
       IN \E closed \in SUBSET open :
             /\ leaked = {} => closed = open
             /\ chClosed' = [c \in Calls |-> chClosed[c] \/ c \in closed]
             /\ reader' = [k \in Conns |->
                             IF reader[k].st = "sending" /\ reader[k].sid \in closed
                             THEN [reader[k] EXCEPT !.st = "stuck"]
                             ELSE reader[k]]
             /\ closedTwice' = IF leaked = {} THEN closedTwice
                               ELSE closedTwice \cup {Destroyer}
    /\ destroy' = "done"
    /\ UNCHANGED <<pc, onlyCall, conn, callItem, result, writer, net, inbox,
                   replied, discarded>>

-----------------------------------------------------------------------------
(* The server, as seen from the client *)

\* server.handle answers a request: success, a handler error (505), a
\* limiter rejection (405), or onRecv's overload reply (500).  The
\* response echoes the request headers, onlyCall included.
ServerReply(m) ==
    /\ m \in net
    /\ \E code \in Codes :
          /\ inbox' = [inbox EXCEPT ![m.conn] =
                          @ \cup {[sid |-> m.sid, code |-> code, only |-> m.only]}]
          /\ replied' = [replied EXCEPT ![m.sid] = code]
    /\ net' = net \ {m}
    /\ UNCHANGED <<pc, onlyCall, conn, callItem, chClosed, result, writer,
                   reader, discarded, destroy, closedTwice>>

\* server.handle sends nothing: unknown rpcId, or a fire-and-forget call
\* that succeeded.
ServerDrop(m) ==
    /\ m \in net
    /\ net' = net \ {m}
    /\ UNCHANGED <<pc, onlyCall, conn, callItem, chClosed, result, writer,
                   reader, inbox, replied, discarded, destroy, closedTwice>>

-----------------------------------------------------------------------------
(* The receive callback of pool.connect, run by each connection's onRecv *)

\* A reply carrying the onlyCall header is dropped before any lock.
RecvOnlyCall(k) ==
    /\ reader[k] = Idle
    /\ destroy = "no"
    /\ \E m \in inbox[k] :
          /\ m.only
          /\ inbox' = [inbox EXCEPT ![k] = @ \ {m}]
          /\ discarded' = discarded \cup {m.sid}
    /\ UNCHANGED <<pc, onlyCall, conn, callItem, chClosed, result, writer,
                   reader, net, replied, destroy, closedTwice>>

\* Mutant: the callback signals without storing msg.Code.
RecvMatchedNoStore(k) ==
    /\ reader[k] = Idle
    /\ destroy = "no"
    /\ writer = None
    /\ \E m \in inbox[k] :
          /\ ~m.only
          /\ m.sid \in DOMAIN callItem
          /\ inbox' = [inbox EXCEPT ![k] = @ \ {m}]
          /\ reader' = IF chClosed[m.sid] THEN reader
                       ELSE [reader EXCEPT ![k] = [st |-> "sending", sid |-> m.sid]]
    /\ UNCHANGED <<pc, onlyCall, conn, callItem, chClosed, result, writer, net,
                   replied, discarded, destroy, closedTwice>>

\* Under wrw.RLock the Sid has a CallCond: store the code and, unless
\* ClosedChanInt says the channel is closed, block on `Ch <- 0` holding the
\* read lock.
RecvMatched(k) ==
    /\ reader[k] = Idle
    /\ destroy = "no"
    /\ writer = None
    /\ \E m \in inbox[k] :
          /\ ~m.only
          /\ m.sid \in DOMAIN callItem
          /\ inbox' = [inbox EXCEPT ![k] = @ \ {m}]
          /\ callItem' = [callItem EXCEPT ![m.sid] = m.code]
          /\ reader' = IF chClosed[m.sid] THEN reader
                       ELSE [reader EXCEPT ![k] = [st |-> "sending", sid |-> m.sid]]
    /\ UNCHANGED <<pc, onlyCall, conn, chClosed, result, writer, net, replied,
                   discarded, destroy, closedTwice>>

\* Under wrw.RLock the Sid has no CallCond (it timed out): drop the reply.
RecvUnmatched(k) ==
    /\ reader[k] = Idle
    /\ destroy = "no"
    /\ writer = None
    /\ \E m \in inbox[k] :
          /\ ~m.only
          /\ m.sid \notin DOMAIN callItem
          /\ inbox' = [inbox EXCEPT ![k] = @ \ {m}]
          /\ discarded' = discarded \cup {m.sid}
    /\ UNCHANGED <<pc, onlyCall, conn, callItem, chClosed, result, writer,
                   reader, net, replied, destroy, closedTwice>>

-----------------------------------------------------------------------------

Init ==
    /\ pc = [c \in Calls |-> "idle"]
    /\ onlyCall = [c \in Calls |-> FALSE]
    /\ conn = [c \in Calls |-> CHOOSE k \in Conns : TRUE]
    /\ callItem = <<>>
    /\ chClosed = [c \in Calls |-> FALSE]
    /\ result = [c \in Calls |-> "none"]
    /\ writer = None
    /\ reader = [k \in Conns |-> Idle]
    /\ net = {}
    /\ inbox = [k \in Conns |-> {}]
    /\ replied = [c \in Calls |-> None]
    /\ discarded = {}
    /\ destroy = "no"
    /\ closedTwice = {}

CallStep(c) ==
    \/ Start(c) \/ TakeWriterSlot(c) \/ Register(c) \/ WriteOk(c)
    \/ WriteFail(c) \/ Timeout(c) \/ Receive(c) \/ ReceiveClosed(c)
    \/ TimeoutLocked(c) \/ SignalLocked(c) \/ CloseTwiceLocked(c)

ReaderStep(k) == RecvOnlyCall(k) \/ RecvMatched(k) \/ RecvUnmatched(k)

Next ==
    \/ \E c \in Calls : CallStep(c)
    \/ \E k \in Conns : ReaderStep(k)
    \/ \E m \in net : ServerReply(m) \/ ServerDrop(m)
    \/ DestroySockets \/ DestroyChannels

\* The timer always fires, Go's mutexes hand the lock to a waiter that keeps
\* asking for it (starvation mode), and a receive goroutine runs whenever
\* bytes are waiting.  The server owes nothing.
Fairness ==
    /\ \A c \in Calls : SF_vars(CallStep(c))
    /\ \A k \in Conns : SF_vars(ReaderStep(k))

Spec == Init /\ [][Next]_vars
FairSpec == Spec /\ Fairness

-----------------------------------------------------------------------------
(* Properties *)

TypeOK ==
    /\ pc \in [Calls -> {"idle", "write", "wait", "done"} \cup LockWaiting]
    /\ onlyCall \in [Calls -> BOOLEAN]
    /\ conn \in [Calls -> Conns]
    /\ DOMAIN callItem \subseteq Calls
    /\ \A c \in DOMAIN callItem : callItem[c] \in Codes
    /\ chClosed \in [Calls -> BOOLEAN]
    /\ result \in [Calls -> {"none", "writeErr", "onlyCall", "timeout",
                             "recovered"} \cup Codes]
    /\ writer \in Calls \cup {None}
    /\ reader \in [Conns -> {Idle} \cup [st : {"sending", "stuck"}, sid : Calls]]
    /\ net \subseteq Request
    /\ \A k \in Conns : inbox[k] \subseteq Reply
    /\ replied \in [Calls -> Codes \cup {None}]
    /\ discarded \subseteq Calls
    /\ destroy \in {"no", "sockets", "done"}
    /\ closedTwice \subseteq Calls \cup {Destroyer}

\* A call that returned a server code returned the code the server sent for
\* its own Sid, never the CallCond's zero value or another call's code.
ResultFaithful ==
    \A c \in Calls : result[c] \in Codes => result[c] = replied[c]

\* The callback drops a reply only when its call has already returned: it
\* never discards the answer a caller is still waiting for
\* (register-before-send in Client.call).
NoReplyLostWhileWaiting ==
    \A c \in discarded : pc[c] = "done"

\* No goroutine panics on a CallCond's channel: nobody closes a channel
\* that is already closed (Client.call's select branches, its deferred
\* close, pool.destroy), and no callback that passed the ClosedChanInt
\* check is blocked on `Ch <- 0` when the channel is closed under it (the
\* panic is recovered at pools.go:87 without wrw.RUnlock).
NoChannelPanic ==
    /\ closedTwice = {}
    /\ \A k \in Conns : reader[k].st # "stuck"

\* Every call that was started returns.
AllCallsReturn ==
    \A c \in Calls : pc[c] # "idle" ~> pc[c] = "done"

=============================================================================
