------------------------------- MODULE Framing -------------------------------
(***************************************************************************)
(* The byte protocol of pong_networking.c: send_packet frames a packet,    *)
(* the receive loops of client and server (the same text twice) take the   *)
(* stream apart byte by byte and verify what stands between separators.    *)
(*                                                                         *)
(* Packet number, size field and checksum are one byte each; the packet    *)
(* number wraps around, and any of the three may be a '-' or a '?'.  The   *)
(* pid counts as data.  TCP loses and reorders nothing.                    *)
(***************************************************************************)
EXTENDS Integers, Sequences, SequencesExt

CONSTANTS
    MaxByte,        \* the largest byte
    XorByte(_, _),  \* the ^ of C on bytes
    MaxData,        \* bound on the data segment of a packet
    MaxInFlight,    \* bound on the packets that are sent and not yet received
    MaxTorn,        \* bound on the torn packets in a row
    Allowance       \* PACKET_NUMBER_UPPER_ALLOWANCE

Byte  == 0 .. MaxByte
Dash  == 1          \* three different bytes; 0 is none of them
Quest == 2
Star  == 3
MaxNumber == MaxByte    \* UINT32_MAX

ASSUME FramingAssumption ==
    /\ MaxByte \in Nat /\ MaxByte >= Star
    /\ \A a, b \in Byte : XorByte(a, b) \in Byte /\ XorByte(a, 0) = a /\ XorByte(0, a) = a
    /\ MaxData \in Byte /\ MaxInFlight \in Nat /\ MaxTorn \in Nat
    /\ Allowance \in 0 .. MaxNumber

HeaderSize == 2
FooterSize == 1
SeparatorSize == 2

VARIABLES
    send_pn,        \* the send thread's packet number
    stream,         \* the bytes in the connection
    packet_buf,     \* the bytes of the current packet, packet_buf[0 .. i-1]
    prevc, sep_count, recv_pn,
    torn,           \* torn packets sent since the last whole one
    sent,           \* history: the calls of send_packet still to be received
    got             \* history: data processed last

loop == <<packet_buf, prevc, sep_count, recv_pn>>
vars == <<send_pn, stream, loop, torn, sent, got>>

Payloads == UNION {[1 .. n -> Byte] : n \in 0 .. MaxData}
Calls == [pn : 0 .. MaxNumber, size : 0 .. MaxData, data : Payloads]

-----------------------------------------------------------------------------
EscapeDashOnly(b) == IF b = Dash THEN <<Quest, Dash>> ELSE <<b>>   \* mutant of Escape

Escape(b) == CASE b = Dash  -> <<Quest, Dash>>
               [] b = Quest -> <<Quest, Star>>
               [] OTHER     -> <<b>>

(* encode; its buffer has two bytes for every byte of the packet. *)
Encode(p) == FlattenSeq([i \in DOMAIN p |-> Escape(p[i])])

(* xor_checksum *)
Xor(p) ==
    LET rez[n \in 0 .. Len(p)] == IF n = 0 THEN 0 ELSE XorByte(rez[n - 1], p[n])
    IN rez[Len(p)]

(* The data segment, filled up with null bytes when it is too short. *)
Padded(size, data) == data \o [i \in 1 .. size - Len(data) |-> 0]

(* send_packet before encoding *)
Frame(call) ==
    LET header == <<call.pn, call.size>>
    IN  header \o Padded(call.size, call.data) \o <<Xor(header \o call.data)>>

(* What send_packet writes to the socket. *)
Image(call) == Encode(Frame(call)) \o <<Dash, Dash>>

NextNumberWide(n) == n + 1                                     \* mutant of NextNumber
NextNumber(n) == (n + 1) % (MaxNumber + 1)                     \* uint32_t

Init ==
    /\ send_pn = 0 /\ stream = <<>>
    /\ packet_buf = <<>> /\ prevc = 0 /\ sep_count = 0 /\ recv_pn = 0
    /\ torn = 0 /\ sent = <<>> /\ got = <<>>

(* The send thread calls send_packet with its packet number. *)
Send(size, data) ==
    LET call == [pn |-> send_pn, size |-> size, data |-> data]
    IN  /\ Len(sent) < MaxInFlight
        /\ stream' = stream \o Image(call)
        /\ sent' = Append(sent, call)
        /\ send_pn' = NextNumber(send_pn)
        /\ UNCHANGED <<loop, got>>

(* The size is at least the data's. *)
SendPacket(size, data) ==
    /\ Len(data) <= size
    /\ torn' = 0
    /\ Send(size, data)

(* Two producers filled the mailbox at once: the size was chosen for the   *)
(* pid of one packet, the data is another's.                               *)
SendTorn(size, data) ==
    /\ Len(data) > size
    /\ torn < MaxTorn /\ torn' = torn + 1
    /\ Send(size, data)

-----------------------------------------------------------------------------
(* receive_client_packets and receive_server_packets, one byte a step *)

Arrives(c) == stream # <<>> /\ Head(stream) = c /\ stream' = Tail(stream)

(* The byte b goes into the packet. *)
Keep(c, b) ==
    /\ packet_buf' = Append(packet_buf, b)
    /\ prevc' = c
    /\ UNCHANGED <<sep_count, recv_pn, sent, got>>

(* Mutant of StartOver: i is not reset. *)
StartOverLate == packet_buf' = packet_buf /\ prevc' = 0 /\ sep_count' = 0

(* c = prevc = i = sep_count = 0 *)
StartOver == packet_buf' = <<>> /\ prevc' = 0 /\ sep_count' = 0

VerifyInOrder(exp_pn, p) ==                                    \* mutant of Verify
    /\ Len(p) >= HeaderSize + FooterSize
    /\ p[1] >= exp_pn
    /\ p[2] = Len(p) - HeaderSize - FooterSize
    /\ Last(p) = Xor(Front(p))

(* verify_packet; what is too short for a frame has a negative psize. *)
Verify(exp_pn, p) ==
    /\ Len(p) >= HeaderSize + FooterSize
    /\ p[1] >= exp_pn \/ exp_pn >= MaxNumber - Allowance
    /\ p[2] = Len(p) - HeaderSize - FooterSize
    /\ Last(p) = Xor(Front(p))

EscapedDash ==
    /\ Arrives(Dash) /\ prevc = Quest
    /\ Keep(Dash, Dash)

HalfSeparator ==
    /\ Arrives(Dash) /\ prevc # Quest /\ sep_count + 1 # SeparatorSize
    /\ sep_count' = sep_count + 1
    /\ prevc' = Dash
    /\ UNCHANGED <<packet_buf, recv_pn, sent, got>>

(* The packet is complete; process_*_packets gets its data if it is valid. *)
Separator ==
    /\ Arrives(Dash) /\ prevc # Quest /\ sep_count + 1 = SeparatorSize
    /\ IF Verify(recv_pn, packet_buf)
       THEN /\ recv_pn' = NextNumber(packet_buf[1])
            /\ got' = SubSeq(packet_buf, HeaderSize + 1, HeaderSize + packet_buf[2])
       ELSE UNCHANGED <<recv_pn, got>>
    /\ sent' = Tail(sent)
    /\ StartOver

StarByte ==
    /\ Arrives(Star)
    /\ Keep(Star, IF prevc = Quest THEN Quest ELSE Star)

(* A '?' or an ordinary byte; after a '?' or a single '-' it makes the loop *)
(* give the packet up.                                                      *)
OtherByte ==
    \E c \in Byte \ {Dash, Star} :
        /\ Arrives(c)
        /\ IF prevc = Quest \/ sep_count > 0
           THEN StartOver /\ UNCHANGED <<recv_pn, sent, got>>
           ELSE IF c = Quest
           THEN prevc' = c /\ UNCHANGED <<packet_buf, sep_count, recv_pn, sent, got>>
           ELSE Keep(c, c)

Receive ==
    /\ EscapedDash \/ HalfSeparator \/ Separator \/ StarByte \/ OtherByte
    /\ UNCHANGED <<send_pn, torn>>

Next ==
    \/ \E size \in 0 .. MaxData, data \in Payloads : SendPacket(size, data) \/ SendTorn(size, data)
    \/ Receive

Spec == Init /\ [][Next]_vars
FairSpec == Spec /\ WF_vars(Receive)

-----------------------------------------------------------------------------
TypeOK ==
    /\ send_pn \in 0 .. MaxNumber /\ recv_pn \in 0 .. MaxNumber
    /\ stream \in Seq(Byte) /\ packet_buf \in Seq(Byte)
    /\ prevc \in Byte /\ sep_count \in 0 .. SeparatorSize - 1
    /\ torn \in 0 .. MaxTorn
    /\ sent \in Seq(Calls) /\ got \in Payloads

(* The receive loop never writes behind packet_buf, which holds one packet *)
(* with the longest data segment: decoding a frame gives back no more bytes *)
(* than went in, whatever came before it.                                  *)
BufferHoldsPacket ==
    Len(packet_buf) <= HeaderSize + MaxData + FooterSize

(* What the channel is to deliver for a call of send_packet. *)
Torn == <<-1>>
IsTorn(call) == Len(call.data) > call.size
Content(call) == IF IsTorn(call) THEN Torn ELSE Padded(call.size, call.data)

(* Framing, escaping, verification and the packet number window together   *)
(* implement the channel: no packet is lost, doubled, altered or merged    *)
(* with its neighbour, also when the packet number wraps around and when   *)
(* torn packets were dropped just before.                                  *)
Channel == INSTANCE PacketChannel WITH due <- [k \in DOMAIN sent |-> Content(sent[k])]
ChannelFairSpec == Channel!FairSpec

-----------------------------------------------------------------------------
(* The inductive invariant. *)

(* Bytes of the current packet that the loop has received and not stored. *)
Pending ==
    IF sep_count = 1 THEN <<Dash>>
    ELSE IF prevc = Quest THEN <<Quest>> ELSE <<>>

Wire(calls) == FlattenSeq([k \in DOMAIN calls |-> Image(calls[k])])

(* What is left of a packet when i bytes of its frame are received. *)
Left(frame, i) == Encode(SubSeq(frame, i + 1, Len(frame))) \o <<Dash, Dash>>

(* What the loop has stored is the beginning of the frame that was sent    *)
(* first; what it has not stored is what is left of this packet and the    *)
(* packets behind it.                                                      *)
BytesAgree ==
    IF sent = <<>>
    THEN packet_buf = <<>> /\ Pending = <<>> /\ stream = <<>>
    ELSE LET i == Len(packet_buf)
         IN  /\ i <= Len(Frame(sent[1])) /\ packet_buf = SubSeq(Frame(sent[1]), 1, i)
             /\ Pending \o stream = Left(Frame(sent[1]), i) \o Wire(Tail(sent))

(* The number of the k-th packet on its way, or of the next to be sent. *)
Number(k) == IF k <= Len(sent) THEN sent[k].pn ELSE send_pn

(* Packets are numbered one after the other, and the first one differs     *)
(* from the number that is expected by the torn packets just dropped;      *)
(* run[k] is how many torn packets were sent in a row before the k-th.     *)
NumbersAgree ==
    /\ \A k \in 1 .. Len(sent) : Number(k + 1) = NextNumber(Number(k))
    /\ \E run \in [1 .. Len(sent) + 1 -> 0 .. MaxTorn] :
          /\ run[Len(sent) + 1] = torn
          /\ \A k \in 1 .. Len(sent) :
                run[k + 1] = IF IsTorn(sent[k]) THEN run[k] + 1 ELSE 0
          /\ Number(1) \in {recv_pn + run[1], recv_pn + run[1] - (MaxNumber + 1)}

Framed ==
    /\ TypeOK
    /\ sep_count = 1 => prevc # Quest
    /\ BytesAgree

IInv == Framed /\ NumbersAgree
==============================================================================
