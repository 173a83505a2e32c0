-------------------------- MODULE MC_ServerDispatch --------------------------
(* Model-checking instances of ServerDispatch. *)
EXTENDS ServerDispatch, Config, TLC

\* conf/gffg.xml of a server: reqCh of 11 slots and two goRecv workers.
ServerXml ==
    (<<Root>> :> "") @@ (<<Root, "server">> :> "")
    @@ (<<Root, "server", "channels">> :> "11")
    @@ (<<Root, "server", "coroutines">> :> "2")

\* NewServer: config.Init, then make(chan, Get("server", "channels").
\* Int(10000)) and coroutines Get("server", "coroutines").Int(32), the
\* number of goRecv goroutines Server.Run starts.
ServerConf == Load(TRUE, ServerXml)
ConfiguredCap == ReadInt(Get(ServerConf, <<"server", "channels">>), 10000)
ConfiguredWorkers ==
    1..ReadInt(Get(ServerConf, <<"server", "coroutines">>), 32)

\* Every combination of the onlyCall flag and a known or unknown rpcId.
AllKinds == Kind

\* The kinds that reach different branches of handle: an ordinary and a
\* fire-and-forget call to a registered method, and an unknown rpcId
\* (handle returns before it looks at onlyCall).
DispatchKinds ==
    {[only |-> FALSE, known |-> TRUE], [only |-> TRUE, known |-> TRUE],
     [only |-> FALSE, known |-> FALSE]}

\* Ordinary calls to a registered method only.
PlainKinds == {[only |-> FALSE, known |-> TRUE]}

\* What the backpressure check depends on, with connections interchangeable
\* and requests of a single kind: how many connections have n frames waiting
\* and are or are not inside onRecv, the queue length, the busy workers.
ConnProfile ==
    [p \in (0..MaxReq) \X BOOLEAN |->
        Cardinality({k \in Conns : <<Len(wire[k]), reader[k] # NoReq>> = p})]
LengthView ==
    <<ConnProfile, Len(reqCh), Cardinality({w \in Workers : worker[w] # NoReq}),
      sent>>
=============================================================================
