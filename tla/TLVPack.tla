------------------------------ MODULE TLVPack ------------------------------
(***************************************************************************)
(* The default codec (knet/datapack.go) between a sender that packs        *)
(* messages and a reader that feeds Decode with whatever chunks Read       *)
(* returns: TCP may cut the byte stream anywhere.                          *)
(*                                                                         *)
(* Bytes are numbers below Base (256 in the code) and a header field has   *)
(* four of them, so lengths and ids are really encoded and decoded, and a  *)
(* payload may look like a header.                                         *)
(***************************************************************************)
EXTENDS Naturals, Sequences

CONSTANTS
    Base,           \* values of a byte
    Order,          \* binary.ByteOrder: little or big
    MaxPacketSize,  \* t.maxPacketSize; 0 is unlimited
    MsgIDs,         \* ids the sender uses
    MaxData,        \* bound: longest payload
    MaxMsgs,        \* bound: messages
    MaxChunk        \* readChunkSize

\* The numbers that fit into a header field.
Limit  == Base * (Base * (Base * Base))
UInt32 == 0..(Limit - 1)

ASSUME TLVPackAssumption ==
    /\ Base \in Nat \ {0, 1}
    /\ Order \in {"little", "big"}
    /\ MaxPacketSize \in Nat /\ MaxData \in Nat
    /\ MaxMsgs \in Nat /\ MaxChunk \in Nat \ {0}
    /\ MsgIDs \subseteq UInt32

VARIABLES
    sent,  \* history: the messages packed so far
    wire,  \* bytes on their way
    in,    \* t.in
    pc,    \* the reader: read, loop (inside Decode), closed
    msgs,  \* Decode's msgs
    recv   \* history: the messages the reader got from Decode

codecVars == <<sent, wire, in, pc, msgs, recv>>

Byte    == 0..(Base - 1)
Message == [id : MsgIDs, data : UNION {[1..n -> Byte] : n \in 0..MaxData}]

CodecInit ==
    /\ sent = <<>> /\ wire = <<>> /\ in = <<>>
    /\ pc = "read" /\ msgs = <<>> /\ recv = <<>>

-----------------------------------------------------------------------------
(* Header fields, headers and frames                                       *)

\* The bytes of a number, least significant first, and the number of the bytes.
Digits(n) ==
    <<n % Base, (n \div Base) % Base, ((n \div Base) \div Base) % Base,
      (((n \div Base) \div Base) \div Base) % Base>>
Value(b1, b2, b3, b4) == b1 + Base * (b2 + Base * (b3 + Base * b4))

\* ByteOrder.PutUint32.
PutUint32(n) ==
    LET d == Digits(n)
    IN  IF Order = "little" THEN d ELSE <<d[4], d[3], d[2], d[1]>>

\* Mutant: the decoder is little-endian whatever it was built for.
Uint32Little(bs) == Value(bs[1], bs[2], bs[3], bs[4])

\* ByteOrder.Uint32.
Uint32(bs) ==
    IF Order = "little" THEN Value(bs[1], bs[2], bs[3], bs[4])
    ELSE Value(bs[4], bs[3], bs[2], bs[1])

\* NewMessage: DataLen is uint32(len(data)).
DataLen(m) == Len(m.data) % Limit

\* Pack: [DataLen][MsgID][Data].
Pack(m) == PutUint32(DataLen(m)) \o PutUint32(m.id) \o m.data

-----------------------------------------------------------------------------
(* The sender                                                              *)

Send(m) ==
    /\ Len(sent) < MaxMsgs
    /\ sent' = Append(sent, m)
    /\ wire' = wire \o Pack(m)
    /\ UNCHANGED <<in, pc, msgs, recv>>

-----------------------------------------------------------------------------
(* The reader and Decode                                                   *)

\* Read returns n bytes and Decode appends them to t.in.
Read(n) ==
    /\ pc = "read"
    /\ n <= Len(wire)
    /\ in' = in \o SubSeq(wire, 1, n)
    /\ wire' = SubSeq(wire, n + 1, Len(wire))
    /\ pc' = "loop"
    /\ UNCHANGED <<sent, msgs, recv>>

HeaderLen == 8
dataLen   == Uint32(SubSeq(in, 1, 4))
msgID     == Uint32(SubSeq(in, 5, 8))

\* Mutant: off by one in the size limit.
TooLargeEqual == MaxPacketSize > 0 /\ dataLen >= MaxPacketSize

TooLarge == MaxPacketSize > 0 /\ dataLen > MaxPacketSize

HasHeader == Len(in) >= HeaderLen
HasFrame  == Len(in) >= HeaderLen + dataLen

\* Mutant: one message per call of Decode.
DecodeFrameOnce ==
    /\ pc = "loop"
    /\ HasHeader /\ ~TooLarge /\ HasFrame
    /\ recv' = recv \o <<[id |-> msgID, data |-> SubSeq(in, HeaderLen + 1, HeaderLen + dataLen)]>>
    /\ in' = SubSeq(in, HeaderLen + dataLen + 1, Len(in))
    /\ pc' = "read"
    /\ UNCHANGED <<sent, wire, msgs>>

\* A complete frame leaves the buffer.
DecodeFrame ==
    /\ pc = "loop"
    /\ HasHeader /\ ~TooLarge /\ HasFrame
    /\ msgs' = Append(msgs, [id   |-> msgID,
                             data |-> SubSeq(in, HeaderLen + 1, HeaderLen + dataLen)])
    /\ in' = SubSeq(in, HeaderLen + dataLen + 1, Len(in))
    /\ UNCHANGED <<sent, wire, pc, recv>>

\* Header or body are incomplete: Decode returns what it has.
DecodeReturn ==
    /\ pc = "loop"
    /\ HasHeader => ~TooLarge /\ ~HasFrame
    /\ recv' = recv \o msgs
    /\ msgs' = <<>>
    /\ pc' = "read"
    /\ UNCHANGED <<sent, wire, in>>

\* ErrTooLargePacket: the reader closes the connection and drops msgs.
DecodeError ==
    /\ pc = "loop"
    /\ HasHeader /\ TooLarge
    /\ msgs' = <<>>
    /\ pc' = "closed"
    /\ UNCHANGED <<sent, wire, in, recv>>

-----------------------------------------------------------------------------
(* The specification                                                       *)

CodecNext ==
    \/ \E m \in Message : Send(m)
    \/ \E n \in 1..MaxChunk : Read(n)
    \/ DecodeFrame \/ DecodeReturn \/ DecodeError

CodecSpec == CodecInit /\ [][CodecNext]_codecVars

-----------------------------------------------------------------------------
(* Properties                                                              *)

\* m is over the limit.
Oversize(m) == MaxPacketSize > 0 /\ Len(m.data) > MaxPacketSize

\* However the stream is cut into chunks, what Decode returns is what was
\* packed, in order: no message is split, merged, changed or lost in between.
FramesIntact ==
    LET got == recv \o msgs
    IN  Len(got) <= Len(sent) /\ got = SubSeq(sent, 1, Len(got))

\* No complete message waits in the buffer for bytes that may never come: when
\* Decode has returned and the stream is exhausted, everything has been
\* received.
NothingHeldBack == pc = "read" /\ wire = <<>> => recv = sent

\* A message over the limit is never returned, and nothing else closes the
\* connection, not even a payload that looks like a header.
OnlyOversizeCloses ==
    /\ \A i \in DOMAIN recv : ~Oversize(recv[i])
    /\ pc = "closed" => \E i \in (Len(recv) + 1)..Len(sent) : Oversize(sent[i])

-----------------------------------------------------------------------------
(* The inductive invariant behind these.                                   *)

\* The messages that Decode has still to return.
Todo == SubSeq(sent, Len(recv \o msgs) + 1, Len(sent))

\* The bytes of b after the first from, up to to, are the frame of m.
FrameAt(b, from, to, m) ==
    /\ to = from + Len(Pack(m))
    /\ \A j \in 1..Len(Pack(m)) : b[from + j] = Pack(m)[j]

\* b is the frames of the messages of s one after the other; cut[i] is where
\* the i-th ends.
Framed(b, s) ==
    \E cut \in [0..Len(s) -> 0..Len(b)] :
        /\ cut[0] = 0 /\ cut[Len(s)] = Len(b)
        /\ \A i, j \in 0..Len(s) : i <= j => cut[i] <= cut[j]
        /\ \A i \in 1..Len(s) : FrameAt(b, cut[i - 1], cut[i], s[i])

CodecTypeOK ==
    /\ sent \in Seq(Message) /\ recv \in Seq(Message) /\ msgs \in Seq(Message)
    /\ wire \in Seq(Byte) /\ in \in Seq(Byte)
    /\ pc \in {"read", "loop", "closed"}

\* The buffer and the wire hold the frames of what is still to be returned, and
\* the buffer no complete one when Decode has returned.
CodecInv ==
    /\ CodecTypeOK
    /\ FramesIntact
    /\ pc # "closed" => Framed(in \o wire, Todo)
    /\ \A i \in DOMAIN (recv \o msgs) : ~Oversize((recv \o msgs)[i])
    /\ pc = "read" => msgs = <<>> /\ (HasHeader => ~TooLarge /\ ~HasFrame)
    /\ pc = "closed" => msgs = <<>> /\ \E i \in (Len(recv) + 1)..Len(sent) : Oversize(sent[i])
=============================================================================
