--------------------------- MODULE ServerConnection ---------------------------
(***************************************************************************)
(* One client connection to a server, from Run to Release: the listener    *)
(* and its callbacks (ServerLifecycle) composed with the connection's read *)
(* loop and the frames a client writes on it (FrameStream).                *)
(*                                                                         *)
(* The two meet where the code hands over: blockListen accepts the         *)
(* connection and starts `go skt.onRecv(...)`; the read loop's steps run   *)
(* in that goroutine only; when the loop ends, its deferred function calls *)
(* the Closed callback.  The client writes once its connection has been    *)
(* accepted and until the server closes it.                                *)
(***************************************************************************)
EXTENDS Naturals, Sequences, FiniteSets

CONSTANTS
    Sizes, MaxMessageSize, MaxFrames,   \* as in FrameStream
    Conn                                \* the connection

VARIABLES
    wire, sent, rst, hdr, need, got, delivered, broken,
    phase, lsock, shutdown, acceptLoop, conn, conns, cancelled,
    provider, consumer, limiter, addr, instance, exit

FS == INSTANCE FrameStream
LC == INSTANCE ServerLifecycle WITH Conns <- {Conn}

\* The channel the connection implements: it is open while the read loop
\* runs in a live process.
PCH == INSTANCE PacketChannel WITH open <- rst # "closed" /\ LC!Alive

streamVars == <<wire, sent, rst, hdr, need, got, delivered, broken>>
serverVars == <<phase, lsock, shutdown, acceptLoop, conn, conns, cancelled,
               provider, consumer, limiter, addr, instance, exit>>
vars == <<streamVars, serverVars>>

-----------------------------------------------------------------------------

\* Steps of main and of the accept goroutine that do not touch the stream.
ServerStep ==
    /\ \/ LC!Run \/ LC!Release \/ LC!AcceptError
       \/ LC!Accept(Conn) \/ LC!StartReadLoop(Conn)
    /\ UNCHANGED streamVars

\* The client's Response.Write on its accepted connection.
ClientWrite ==
    /\ conn[Conn] \in {"accepted", "reading"}
    /\ FS!Write
    /\ UNCHANGED serverVars

\* A step of Socket.onRecv, in the goroutine blockListen started.
ReadStep ==
    /\ conn[Conn] = "reading" /\ LC!Alive
    /\ FS!ReadLoop
    /\ UNCHANGED serverVars

\* A read fails or the peer closes while the loop runs.
ReadFails ==
    /\ conn[Conn] = "reading" /\ LC!Alive
    /\ FS!Break
    /\ UNCHANGED serverVars

\* The loop has ended: its deferred function closes the socket and calls
\* Closed.
LoopExit ==
    /\ rst = "closed"
    /\ LC!ReadLoopEnd(Conn)
    /\ UNCHANGED streamVars

Init == FS!Init /\ LC!Init

Next == ServerStep \/ ClientWrite \/ ReadStep \/ ReadFails \/ LoopExit

\* The read goroutine, once started, runs whenever it can; blockListen
\* starts it right after Connect.  Clients, peers and main owe nothing.
Fairness ==
    /\ WF_vars(ReadStep)
    /\ WF_vars(LoopExit)
    /\ WF_vars(LC!StartReadLoop(Conn) /\ UNCHANGED streamVars)

Spec == Init /\ [][Next]_vars /\ Fairness

-----------------------------------------------------------------------------
(* Properties *)

TypeOK == FS!TypeOK /\ LC!TypeOK

\* The read loop never loses the frame boundary across partial reads.
InSync == FS!InSync

\* The read loop ends only on a read error, or on the header of the frame
\* it is reading when that frame is past its buffer.
CloseJustified == FS!CloseJustified

\* The connection implements PacketChannel: each packet the callback gets
\* has the length the client wrote, in order, with none lost, duplicated or
\* invented, and every packet written is eventually handed over unless the
\* loop has ended or the server process has (a Fatal in Register, a panic
\* in Release).  Encoder, Decoder and Check must round-trip every size and
\* the read loop must keep the frame boundary across partial reads.
ChannelRefined == PCH!Spec

\* Server.conns counts the connection exactly while its Connect has run
\* and its Closed has not.
ConnsCounted == LC!ConnsCounted

=============================================================================
