------------------------------- MODULE Registry -------------------------------
(***************************************************************************)
(* The polaris adapter of src/registry/registry.go: one `registry` struct, *)
(* its three SDK handles (provider, consumer, limiter), the address it     *)
(* registered, the instance at the name service, and how the process ends *)
(* when a call reaches zzlog.Fatal (os.Exit) or a runtime panic.           *)
(*                                                                         *)
(* Its two users: NewServer calls Provider, Server.listen calls Register, *)
(* Server.handle calls Limiter and Server.Release calls Destroy; newPool  *)
(* (NewClient) calls Consumer, pool.connect calls GetNode and Client.     *)
(* Destroy calls Destroy.  The SDK's own answers are nondeterministic.    *)
(***************************************************************************)
EXTENDS Naturals

VARIABLES
    provider,   \* r.provider: "nil", "live" or "destroyed"
    consumer,   \* r.consumer
    limiter,    \* r.limiter
    addr,       \* r.addr: "unset" (the empty string) or "set"
    instance,   \* at the name service: "none", "registered", "deregistered"
    exit        \* [how: "none", "fatal" or "panic", at: the call that ended it]

regVars == <<provider, consumer, limiter, addr, instance, exit>>

Handles == {"nil", "live", "destroyed"}
Calls == {"none", "Provider", "Consumer", "Register", "Destroy", "Limiter", "GetNode"}

Alive == exit.how = "none"

\* zzlog.Fatal: zap logs and calls os.Exit(1).  A panic nobody recovers
\* ends the process too.
Fatal(at) == exit' = [how |-> "fatal", at |-> at]
Panic(at) == exit' = [how |-> "panic", at |-> at]

\* Handle.Destroy() on the handles that are not nil.
Destroyed(h) == IF h = "nil" THEN "nil" ELSE "destroyed"

\* registry.Registry(): every field nil, and the process running.
NewRegistry ==
    /\ provider = "nil" /\ consumer = "nil" /\ limiter = "nil"
    /\ addr = "unset" /\ instance = "none"
    /\ exit = [how |-> "none", at |-> "none"]

\* The registry of a Server once NewServer has returned: Provider has set
\* the provider and the limiter (a failure there was Fatal).
ServerRegistry ==
    /\ provider = "live" /\ consumer = "nil" /\ limiter = "live"
    /\ addr = "unset" /\ instance = "none"
    /\ exit = [how |-> "none", at |-> "none"]

-----------------------------------------------------------------------------
(* registry.Provider / Consumer *)

\* An empty polaris.addrs or an SDK error is Fatal; otherwise the provider
\* and the limiter built on its context are set.
Provider ==
    /\ \/ Fatal("Provider") /\ UNCHANGED <<provider, limiter>>
       \/ provider' = "live" /\ limiter' = "live" /\ UNCHANGED exit
    /\ UNCHANGED <<consumer, addr, instance>>

Consumer ==
    /\ \/ Fatal("Consumer") /\ UNCHANGED consumer
       \/ consumer' = "live" /\ UNCHANGED exit
    /\ UNCHANGED <<provider, limiter, addr, instance>>

-----------------------------------------------------------------------------
(* registry.Register *)

\* Register, deregister and Destroy on a registry with no provider (one
\* Provider never ran on): zzlog.Fatal.
NoProvider(at) ==
    /\ provider = "nil"
    /\ Fatal(at)
    /\ UNCHANGED <<provider, consumer, limiter, addr, instance>>

\* With a provider, r.addr is stored first, and a failed RegisterInstance
\* is Fatal.
RegisterWithProvider ==
    /\ provider # "nil"
    /\ addr' = "set"
    /\ \/ instance' = "registered" /\ UNCHANGED exit
       \/ Fatal("Register") /\ UNCHANGED instance
    /\ UNCHANGED <<provider, consumer, limiter>>

Register == NoProvider("Register") \/ RegisterWithProvider

-----------------------------------------------------------------------------
(* registry.Destroy = deregister(r.addr), then the handles' Destroy *)

\* deregister with a provider and r.addr empty: strings.Split("", ":") has
\* one element and addrs[1] panics.
DeregisterNoAddr ==
    /\ provider # "nil"
    /\ addr = "unset"
    /\ Panic("Destroy")
    /\ UNCHANGED <<provider, consumer, limiter, addr, instance>>

\* provider.Deregister's error is ignored, so the instance may stay
\* registered; then every handle that is not nil is destroyed.
DestroyDone ==
    /\ provider # "nil"
    /\ addr = "set"
    /\ instance' \in {instance,
                      IF instance = "registered" THEN "deregistered" ELSE instance}
    /\ provider' = Destroyed(provider)
    /\ consumer' = Destroyed(consumer)
    /\ limiter' = Destroyed(limiter)
    /\ UNCHANGED <<addr, exit>>

Destroy == NoProvider("Destroy") \/ DeregisterNoAddr \/ DestroyDone

-----------------------------------------------------------------------------
(* registry.Limiter / GetNode: what the caller gets back *)

\* GetQuota on a nil interface panics; a destroyed SDK context refuses the
\* call; a live one answers OK, limited or an error.
LimiterAnswers ==
    CASE limiter = "live" -> {"ok", "limited", "error"}
      [] limiter = "destroyed" -> {"error"}
      [] OTHER -> {}

Limiter ==
    /\ \/ limiter = "nil" /\ Panic("Limiter")
       \/ limiter # "nil" /\ UNCHANGED exit
    /\ UNCHANGED <<provider, consumer, limiter, addr, instance>>

\* No consumer is an error, as is a destroyed one; a live one finds an
\* instance or fails (an error or no instance).
GetNodeAnswers ==
    IF consumer = "live" THEN {"node", "error"} ELSE {"error"}

=============================================================================
