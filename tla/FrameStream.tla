------------------------------ MODULE FrameStream ------------------------------
(***************************************************************************)
(* Framing on one TCP connection: Response.Write (src/transport/           *)
(* response.go) sends Header.Encoder's 8 bytes and the packet; the read    *)
(* loop of Socket.onRecv (src/transport/socket.go) reads the 8 header      *)
(* bytes and then the body, each by as many partial reads as TCP needs,    *)
(* decodes and checks the header (src/transport/header.go) and hands each  *)
(* packet to the callback.                                                 *)
(*                                                                         *)
(* Header bytes are kept as their values, so the codec runs on real sizes; *)
(* a body is a run of n bytes whose values do not matter.                  *)
(***************************************************************************)
EXTENDS Integers, Sequences

CONSTANTS
    Sizes,          \* packet lengths the sender writes
    MaxMessageSize, \* len(dataBuffer): DefaultMaxMessageSize, 1 MiB
    MaxFrames       \* bound on the frames written

HeaderSize == 8     \* DefaultHeaderSize

-----------------------------------------------------------------------------
(* encoding/binary varints, as used on 4-byte arrays *)

\* binary.PutUvarint: 7 bits per byte, low group first, high bit = more.
RECURSIVE UvarintBytes(_)
UvarintBytes(u) ==
    IF u < 128 THEN <<u>>
    ELSE <<(u % 128) + 128>> \o UvarintBytes(u \div 128)

\* binary.PutVarint zig-zag encodes, then writes the uvarint.
ZigZag(x) == IF x >= 0 THEN 2 * x ELSE -2 * x - 1

\* binary.Uvarint(buf[i..]): [val, n]; n = 0 when buf ends mid-number.
RECURSIVE Uvarint(_, _)
Uvarint(buf, i) ==
    IF i > Len(buf) THEN [val |-> 0, n |-> 0]
    ELSE IF buf[i] < 128 THEN [val |-> buf[i], n |-> i]
    ELSE LET rest == Uvarint(buf, i + 1)
         IN [val |-> (buf[i] - 128) + 128 * rest.val, n |-> rest.n]

\* Mutant: the zig-zag step left out of decoding.
VarintNoZigZag(buf) == Uvarint(buf, 1)

\* binary.Varint: undo the zig-zag.
Varint(buf) ==
    LET u == Uvarint(buf, 1)
    IN [u EXCEPT !.val = IF u.val % 2 = 0 THEN u.val \div 2
                         ELSE -(u.val \div 2) - 1]

-----------------------------------------------------------------------------
(* Header.Encoder / Decoder / Check *)

\* msg.S2 after binary.PutVarint(msg.S2[:], Size): the bytes, zero padded.
\* More than 4 bytes (Size >= 2^27) is an index-out-of-range panic.
S2Of(size) ==
    LET b == UvarintBytes(ZigZag(size))
    IN [i \in 1..4 |-> IF i <= Len(b) THEN b[i] ELSE 0]

EncodeFits(size) == Len(UvarintBytes(ZigZag(size))) <= 4

\* S1 is S2 permuted (1,3,2,0 in Go's indices), then S1 and S2 are written.
Encoder(size) ==
    LET s2 == S2Of(size) IN <<s2[2], s2[4], s2[3], s2[1]>> \o s2

\* Size from S2; no varint in the 4 bytes is an error.
Decoder(hdr) ==
    LET d == Varint(SubSeq(hdr, 5, 8))
    IN [size |-> d.val, ok |-> d.n # 0]

\* Mutant: the signature read in the order it was written.
CheckUnpermuted(hdr, size) ==
    Varint(SubSeq(hdr, 1, 4)).val = size

\* Undo the permutation of S1 (3,0,2,1) and compare its varint with Size.
Check(hdr, size) ==
    Varint(<<hdr[4], hdr[1], hdr[3], hdr[2]>>).val = size

-----------------------------------------------------------------------------

VARIABLES
    wire,       \* bytes in flight: header bytes [hd, v] and body runs [hd, n]
    sent,       \* lengths of the packets written, in order (history)
    rst,        \* the read loop: "header", "body" or "closed"
    hdr,        \* header bytes read so far
    need,       \* iMsgLength of the frame being read
    got,        \* totalDataBytesRead
    delivered,  \* lengths of the packets handed to the callback (history)
    broken      \* the connection failed or was closed by the peer

vars == <<wire, sent, rst, hdr, need, got, delivered, broken>>

HeaderByte(v) == [hd |-> TRUE, v |-> v, n |-> 1]
BodyRun(n) == [hd |-> FALSE, v |-> 0, n |-> n]

\* Number of header bytes at the front of the wire.
LeadingHeaderBytes ==
    LET RECURSIVE Count(_)
        Count(i) == IF i <= Len(wire) /\ wire[i].hd THEN 1 + Count(i + 1) ELSE 0
    IN Count(1)

-----------------------------------------------------------------------------
(* Response.Write *)

\* Mutant: Size set to the length of header and packet together.
WriteSizeWithHeader ==
    /\ Len(sent) < MaxFrames
    /\ \E L \in Sizes :
          /\ L > 0 /\ EncodeFits(L + HeaderSize)
          /\ wire' = wire \o [i \in 1..HeaderSize |-> HeaderByte(Encoder(L + HeaderSize)[i])]
                          \o <<BodyRun(L)>>
          /\ sent' = Append(sent, L)
    /\ UNCHANGED <<rst, hdr, need, got, delivered, broken>>

\* An empty packet writes nothing; otherwise header and packet go out as
\* one buffer, written until done under the Response's mutex.  For a size
\* of 2^27 or more PutVarint panics inside Encoder before anything is
\* written: the connection sees no step (the panic is the caller's).
Write ==
    /\ Len(sent) < MaxFrames
    /\ \E L \in Sizes :
          /\ L > 0 /\ EncodeFits(L)
          /\ wire' = wire \o [i \in 1..HeaderSize |-> HeaderByte(Encoder(L)[i])]
                          \o <<BodyRun(L)>>
          /\ sent' = Append(sent, L)
    /\ UNCHANGED <<rst, hdr, need, got, delivered, broken>>

-----------------------------------------------------------------------------
(* Socket.onRecv *)

\* One read into headerBuffer[totalHeaderBytesRead:] returns k bytes.
ReadHeader ==
    /\ rst = "header"
    /\ Len(hdr) < HeaderSize
    /\ \E k \in 1..(HeaderSize - Len(hdr)) :
          /\ k <= LeadingHeaderBytes
          /\ hdr' = hdr \o [i \in 1..k |-> wire[i].v]
          /\ wire' = SubSeq(wire, k + 1, Len(wire))
    /\ UNCHANGED <<sent, rst, need, got, delivered, broken>>

\* Mutant: a body as large as the header says is read (no buffer bound).
DecodeHeaderUnbounded ==
    /\ rst = "header"
    /\ Len(hdr) = HeaderSize
    /\ LET d == Decoder(hdr)
       IN CASE ~d.ok \/ ~Check(hdr, d.size) ->
                  rst' = "closed" /\ UNCHANGED <<hdr, need>>
            [] d.size <= 0 ->
                  hdr' = <<>> /\ UNCHANGED <<rst, need>>
            [] OTHER ->
                  rst' = "body" /\ need' = d.size /\ hdr' = <<>>
    /\ got' = 0
    /\ UNCHANGED <<wire, sent, delivered, broken>>

\* Decoder and Check; either failing ends the loop.  A size of 0 or less
\* skips the body loop and the frame (`continue`); a size past dataBuffer
\* makes the slice `dataBuffer[0:iMsgLength]` panic, which the deferred
\* recover turns into the end of the loop.
DecodeHeader ==
    /\ rst = "header"
    /\ Len(hdr) = HeaderSize
    /\ LET d == Decoder(hdr)
       IN CASE ~d.ok \/ ~Check(hdr, d.size) \/ d.size > MaxMessageSize ->
                  rst' = "closed" /\ UNCHANGED <<hdr, need>>
            [] d.size <= 0 ->
                  hdr' = <<>> /\ UNCHANGED <<rst, need>>
            [] OTHER ->
                  rst' = "body" /\ need' = d.size /\ hdr' = <<>>
    /\ got' = 0
    /\ UNCHANGED <<wire, sent, delivered, broken>>

\* One read into dataBuffer[totalDataBytesRead:iMsgLength]: all that is
\* wanted and waiting, or a short first read of one byte.  The loop only
\* tells a complete body from an incomplete one, so one short read stands
\* for any number.
ReadBody ==
    /\ rst = "body"
    /\ got < need
    /\ wire # <<>>
    /\ LET w == Head(wire)
           avail == IF w.hd THEN 1 ELSE w.n
           max == IF avail < need - got THEN avail ELSE need - got
       IN \E k \in {max} \cup (IF got = 0 THEN {1} ELSE {}) :
             /\ got' = got + k
             /\ wire' = IF k = w.n THEN Tail(wire)
                        ELSE <<[w EXCEPT !.n = w.n - k]>> \o Tail(wire)
    /\ UNCHANGED <<sent, rst, hdr, need, delivered, broken>>

\* The body is complete: copy it out and call the callback.
Deliver ==
    /\ rst = "body"
    /\ got = need
    /\ delivered' = Append(delivered, need)
    /\ rst' = "header"
    /\ UNCHANGED <<wire, sent, hdr, need, got, broken>>

\* A read fails (EOF from the peer, a reset, the read deadline): the loop
\* ends, closes the socket and calls the close callback.
Break ==
    /\ rst # "closed"
    /\ rst' = "closed"
    /\ broken' = TRUE
    /\ UNCHANGED <<wire, sent, hdr, need, got, delivered>>

-----------------------------------------------------------------------------

Init ==
    /\ wire = <<>>
    /\ sent = <<>>
    /\ rst = "header"
    /\ hdr = <<>>
    /\ need = 0
    /\ got = 0
    /\ delivered = <<>>
    /\ broken = FALSE

ReadLoop == ReadHeader \/ DecodeHeader \/ ReadBody \/ Deliver

Next == Write \/ ReadLoop \/ Break

Spec == Init /\ [][Next]_vars

-----------------------------------------------------------------------------
(* Properties *)

TypeOK ==
    /\ wire \in Seq([hd : BOOLEAN, v : 0..255, n : Nat])
    /\ sent \in Seq(Sizes)
    /\ rst \in {"header", "body", "closed"}
    /\ hdr \in Seq(0..255) /\ Len(hdr) <= HeaderSize
    /\ need \in 0..MaxMessageSize /\ got \in 0..need
    /\ delivered \in Seq(1..MaxMessageSize)
    /\ broken \in BOOLEAN

\* The read loop never loses the frame boundary: while it reads a header,
\* the next byte on the wire is a header byte.
InSync ==
    rst = "header" /\ Len(hdr) < HeaderSize /\ wire # <<>> => Head(wire).hd

\* Every packet handed to the callback has the length that was written,
\* in the order written: the header round-trips through Encoder, Decoder
\* and Check for every size the sender uses.
DeliveredMatchesSent ==
    delivered = SubSeq(sent, 1, Len(delivered))

\* The loop ends only on a failed connection, or on the header of the
\* very frame it was reading when that packet is larger than its buffer;
\* never on a header the writer produced for a frame that fits.
CloseJustified ==
    rst = "closed" =>
        \/ broken
        \/ /\ Len(delivered) < Len(sent)
           /\ sent[Len(delivered) + 1] > MaxMessageSize

\* Every packet written is eventually handed to the callback, unless the
\* loop has ended.
FramesDelivered ==
    \A i \in 1..MaxFrames :
        Len(sent) >= i ~> (Len(delivered) >= i \/ rst = "closed")

=============================================================================
