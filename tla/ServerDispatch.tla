---------------------------- MODULE ServerDispatch ----------------------------
(***************************************************************************)
(* The server's dispatch pipeline (src/server/server.go).                  *)
(*                                                                         *)
(* Each accepted connection has one receive goroutine (Socket.onRecv,      *)
(* src/transport/socket.go) that reads frames in order and calls           *)
(* Server.onRecv for each.  Server.onRecv either answers at once with an   *)
(* overload reply, when reqCh is within `10` slots of its capacity, or     *)
(* pushes the request onto the buffered channel reqCh, blocking while it   *)
(* is full.  A fixed pool of goRecv workers pops requests and runs         *)
(* Server.handle: unknown rpcId, limiter rejection (405), handler error    *)
(* (505) or success, and a reply unless the call is fire-and-forget.       *)
(*                                                                         *)
(* A request is a number; what handle looks at is modelled by two flags:  *)
(* `only` (an onlyCall header or Sid 0) and `known` (its rpcId is in the   *)
(* handler table).  Payloads and marshalling are left out.                 *)
(***************************************************************************)
EXTENDS Naturals, Sequences, FiniteSets, Bags

CONSTANTS
    Conns,      \* accepted connections
    Workers,    \* goRecv goroutines (config server.coroutines)
    Cap,        \* capacity of reqCh (config server.channels)
    Headroom,   \* the literal 10 of Server.onRecv's check
    MaxReq,     \* bound on the requests clients send
    Kinds,      \* the kinds of request clients send, a subset of Kind
    WithRelease,\* whether Server.Release may be called
    OkCode, OverloadCode, LimitCode, FailCode   \* 0, 500, 405, 505

ASSUME Cap \in Nat /\ Headroom \in Nat /\ MaxReq \in Nat \ {0}
       /\ WithRelease \in BOOLEAN

Reqs == 1..MaxReq
Kind == [only : BOOLEAN, known : BOOLEAN]
Codes == {OkCode, OverloadCode, LimitCode, FailCode}
NoReq == 0

VARIABLES
    kind,       \* kind[r]: the flags of request r, once sent
    wire,       \* wire[k]: frames on connection k not yet read (TCP order)
    reader,     \* reader[k]: request read by k's onRecv and being pushed, or NoReq
    reqCh,      \* the buffered channel Server.reqCh
    worker,     \* worker[w]: the request goRecv w is handling, or NoReq
    sent,       \* number of requests sent so far
    replies,    \* reply frames written: a bag of [req, code] (history)
    panicked,   \* requests whose item.Call panicked (history)
    ctxDone,    \* the server's context has been cancelled
    exited      \* goRecv workers that have returned

vars == <<kind, wire, reader, reqCh, worker, sent, replies, panicked, ctxDone,
          exited>>

-----------------------------------------------------------------------------
(* The clients *)

\* A client writes request r on connection k.
Send(k) ==
    /\ sent < MaxReq
    /\ \E f \in Kinds :
          /\ kind' = [kind EXCEPT ![sent + 1] = f]
          /\ wire' = [wire EXCEPT ![k] = Append(@, sent + 1)]
    /\ sent' = sent + 1
    /\ UNCHANGED <<reader, reqCh, worker, replies, panicked, ctxDone, exited>>

-----------------------------------------------------------------------------
(* Socket.onRecv -> Server.onRecv, one goroutine per connection *)

\* The check `(channels - 10) < len(reqCh)`.
Overloaded == Cap - Headroom < Len(reqCh)

\* reqCh nearly full: unmarshal the request and write a 500 reply back on
\* the same connection, whatever the request's headers say.
RecvOverload(k) ==
    /\ reader[k] = NoReq
    /\ wire[k] # <<>>
    /\ Overloaded
    /\ replies' =
          replies (+) SetToBag({[req |-> Head(wire[k]), code |-> OverloadCode]})
    /\ wire' = [wire EXCEPT ![k] = Tail(@)]
    /\ UNCHANGED <<kind, reader, reqCh, worker, sent, panicked, ctxDone,
                   exited>>

\* The check passes: onRecv goes on to `this.reqCh <- ...`.
RecvAdmit(k) ==
    /\ reader[k] = NoReq
    /\ wire[k] # <<>>
    /\ ~Overloaded
    /\ reader' = [reader EXCEPT ![k] = Head(wire[k])]
    /\ wire' = [wire EXCEPT ![k] = Tail(@)]
    /\ UNCHANGED <<kind, reqCh, worker, sent, replies, panicked, ctxDone,
                   exited>>

\* Mutant: the RequetChannel built from the wrong value.
PushConn(k) ==
    /\ reader[k] # NoReq
    /\ Len(reqCh) < Cap
    /\ reqCh' = Append(reqCh, k)
    /\ reader' = [reader EXCEPT ![k] = NoReq]
    /\ UNCHANGED <<kind, wire, worker, sent, replies, panicked, ctxDone,
                   exited>>

\* The send on reqCh completes once there is room; until then the
\* connection's receive goroutine is blocked.
Push(k) ==
    /\ reader[k] # NoReq
    /\ Len(reqCh) < Cap
    /\ reqCh' = Append(reqCh, reader[k])
    /\ reader' = [reader EXCEPT ![k] = NoReq]
    /\ UNCHANGED <<kind, wire, worker, sent, replies, panicked, ctxDone,
                   exited>>

-----------------------------------------------------------------------------
(* goRecv workers running Server.handle *)

\* `case req := <-this.reqCh`: the worker takes the oldest request.
Take(w) ==
    /\ w \notin exited
    /\ worker[w] = NoReq
    /\ reqCh # <<>>
    /\ worker' = [worker EXCEPT ![w] = Head(reqCh)]
    /\ reqCh' = Tail(reqCh)
    /\ UNCHANGED <<kind, wire, reader, sent, replies, panicked, ctxDone,
                   exited>>

HandleUnknown(w) ==
    /\ worker[w] # NoReq
    /\ ~kind[worker[w]].known
    /\ worker' = [worker EXCEPT ![w] = NoReq]
    /\ UNCHANGED <<kind, wire, reader, reqCh, sent, replies, panicked,
                   ctxDone, exited>>

Reply(w, code) ==
    replies' = replies (+) SetToBag({[req |-> worker[w], code |-> code]})

\* Mutant: the limiter branch replies 405 and falls through to the call.
HandleLimitedNoReturn(w) ==
    /\ worker[w] # NoReq
    /\ kind[worker[w]].known
    /\ Reply(w, LimitCode)
    /\ UNCHANGED <<kind, wire, reader, reqCh, worker, sent, panicked,
                   ctxDone, exited>>

\* registry.Limiter lets the call through only while the limiter is live:
\* Release destroys it (registry.Destroy) before it cancels the context,
\* and GetQuota on a destroyed SDK context returns an error.
LimiterPasses == ~ctxDone

\* registry.Limiter rejects the method, or fails: reply 405 and return.
HandleLimited(w) ==
    /\ worker[w] # NoReq
    /\ kind[worker[w]].known
    /\ Reply(w, LimitCode)
    /\ worker' = [worker EXCEPT ![w] = NoReq]
    /\ UNCHANGED <<kind, wire, reader, reqCh, sent, panicked, ctxDone, exited>>

\* item.Call returns an error: reply 505 and return.
HandleFailed(w) ==
    /\ worker[w] # NoReq
    /\ kind[worker[w]].known
    /\ LimiterPasses
    /\ Reply(w, FailCode)
    /\ worker' = [worker EXCEPT ![w] = NoReq]
    /\ UNCHANGED <<kind, wire, reader, reqCh, sent, panicked, ctxDone, exited>>

\* item.Call panics: handle's deferred recover logs it and returns nil,
\* with no reply written (a fire-and-forget request included); the
\* worker goes on with the next request.
HandlePanic(w) ==
    /\ worker[w] # NoReq
    /\ kind[worker[w]].known
    /\ LimiterPasses
    /\ panicked' = panicked \cup {worker[w]}
    /\ worker' = [worker EXCEPT ![w] = NoReq]
    /\ UNCHANGED <<kind, wire, reader, reqCh, sent, replies, ctxDone, exited>>

\* item.Call succeeds: reply 0, unless onlyCall is set or Sid is 0.
HandleOk(w) ==
    /\ worker[w] # NoReq
    /\ kind[worker[w]].known
    /\ LimiterPasses
    /\ IF kind[worker[w]].only THEN UNCHANGED replies ELSE Reply(w, OkCode)
    /\ worker' = [worker EXCEPT ![w] = NoReq]
    /\ UNCHANGED <<kind, wire, reader, reqCh, sent, panicked, ctxDone, exited>>

-----------------------------------------------------------------------------
(* Server.Release *)

\* registry.Destroy (which destroys the limiter), then Listener.Close,
\* which closes shutdownChannel but not the listening socket (accepts and
\* read loops go on), then the context is cancelled.
Release ==
    /\ WithRelease
    /\ ~ctxDone
    /\ ctxDone' = TRUE
    /\ UNCHANGED <<kind, wire, reader, reqCh, worker, sent, replies, panicked,
                   exited>>

\* `case <-this.ctx.Done(): return`, chosen at random against a ready
\* reqCh, between two requests.
WorkerExit(w) ==
    /\ ctxDone
    /\ w \notin exited
    /\ worker[w] = NoReq
    /\ exited' = exited \cup {w}
    /\ UNCHANGED <<kind, wire, reader, reqCh, worker, sent, replies,
                   panicked, ctxDone>>

-----------------------------------------------------------------------------

Init ==
    /\ kind = [r \in Reqs |-> [only |-> FALSE, known |-> TRUE]]
    /\ wire = [k \in Conns |-> <<>>]
    /\ reader = [k \in Conns |-> NoReq]
    /\ reqCh = <<>>
    /\ worker = [w \in Workers |-> NoReq]
    /\ sent = 0
    /\ replies = EmptyBag
    /\ panicked = {}
    /\ ctxDone = FALSE
    /\ exited = {}

ReaderStep(k) == RecvOverload(k) \/ RecvAdmit(k) \/ Push(k)

WorkerStep(w) ==
    Take(w) \/ HandleUnknown(w) \/ HandleLimited(w) \/ HandleFailed(w)
    \/ HandlePanic(w) \/ HandleOk(w) \/ WorkerExit(w)

Next ==
    \/ \E k \in Conns : Send(k) \/ ReaderStep(k)
    \/ \E w \in Workers : WorkerStep(w)
    \/ Release

\* Receive goroutines and workers are plain goroutines the Go scheduler
\* runs; the clients owe nothing.
Fairness ==
    /\ \A k \in Conns : WF_vars(ReaderStep(k))
    /\ \A w \in Workers : WF_vars(WorkerStep(w))

Spec == Init /\ [][Next]_vars
FairSpec == Spec /\ Fairness

-----------------------------------------------------------------------------
(* Properties *)

TypeOK ==
    /\ kind \in [Reqs -> Kind]
    /\ wire \in [Conns -> Seq(Reqs)]
    /\ reader \in [Conns -> Reqs \cup {NoReq}]
    /\ reqCh \in Seq(Reqs) /\ Len(reqCh) <= Cap
    /\ worker \in [Workers -> Reqs \cup {NoReq}]
    /\ sent \in 0..MaxReq
    /\ IsABag(replies) /\ BagToSet(replies) \subseteq [req : Reqs, code : Codes]
    /\ panicked \subseteq Reqs
    /\ ctxDone \in BOOLEAN
    /\ exited \subseteq Workers

\* No request is answered twice: each path of handle writes at most one
\* reply, and an overloaded request is answered and never queued.
AtMostOneReply ==
    \A r \in Reqs :
        BagCardinality([a \in {a \in BagToSet(replies) : a.req = r} |->
                            replies[a]]) <= 1

\* Request r has been answered, or needs no answer from handle, or was
\* abandoned by a handler panic (spec 7(5): the unit of work is dropped).
Settled(r) ==
    \/ \E a \in BagToSet(replies) : a.req = r
    \/ kind[r].only \/ ~kind[r].known
    \/ r \in panicked

\* Every request sent is eventually done with: answered, or dropped
\* because it is fire-and-forget, its rpcId is unknown or its handler
\* panicked.  No request is
\* stranded on a connection or in reqCh.
RequestsSettle ==
    \A r \in Reqs : r <= sent ~> Settled(r)

ReaderNeverBlocks ==
    \A k \in Conns : reader[k] # NoReq => Len(reqCh) < Cap

=============================================================================
