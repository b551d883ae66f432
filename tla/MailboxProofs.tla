---------------------------- MODULE MailboxProofs ----------------------------
(***************************************************************************)
(* Proofs about Mailbox.  With one producer, as in the client, the wait on *)
(* packet_ready is enough: the invariant MailboxInv follows the packet     *)
(* from the producer's statements through send_mem to the wire.            *)
(***************************************************************************)
EXTENDS Mailbox, TLAPS

(* Past its wait a producer has a packet left to hand over. *)
HasPacket == \A p \in Producers : pc[p] # "wait" => made[p] < MaxPackets

LEMMA CurrentIsPacket ==
  ASSUME TypeOK, HasPacket, NEW p \in Producers, pc[p] # "wait"
  PROVE  Current(p) \in Packets
BY MailboxAssumption DEF TypeOK, HasPacket, Current, Packets

LEMMA TypeInit == Init => TypeOK /\ HasPacket
<1> SUFFICES ASSUME Init PROVE TypeOK /\ HasPacket
  OBVIOUS
<1>1. accepted \in Seq(Packets) /\ wire \in Seq(Packets \cup {Garbage})
  BY DEF Init
<1>2. made \in [Producers -> 0 .. MaxPackets]
  BY MailboxAssumption DEF Init
<1> QED
  BY <1>1, <1>2 DEF Init, TypeOK, HasPacket

LEMMA TypeStep == TypeOK /\ HasPacket /\ [Next]_vars => TypeOK' /\ HasPacket'
<1> SUFFICES ASSUME TypeOK, HasPacket, [Next]_vars PROVE TypeOK' /\ HasPacket'
  OBVIOUS
<1>1. ASSUME NEW p \in Producers, Wait(p) PROVE TypeOK' /\ HasPacket'
  BY <1>1 DEF Wait, TypeOK, HasPacket
<1>2. ASSUME NEW p \in Producers, WritePid(p) PROVE TypeOK' /\ HasPacket'
  BY <1>2, CurrentIsPacket DEF WritePid, TypeOK, HasPacket
<1>3. ASSUME NEW p \in Producers, WriteData(p) PROVE TypeOK' /\ HasPacket'
  BY <1>3, CurrentIsPacket DEF WriteData, TypeOK, HasPacket
<1>4. ASSUME NEW p \in Producers, SetReady(p) PROVE TypeOK' /\ HasPacket'
  <2>1. Current(p) \in Packets /\ made[p] < MaxPackets
    BY <1>4, CurrentIsPacket DEF SetReady, HasPacket
  <2>2. accepted' \in Seq(Packets)
    BY <1>4, <2>1 DEF SetReady, TypeOK
  <2>3. made' \in [Producers -> 0 .. MaxPackets]
    BY <1>4, <2>1, MailboxAssumption DEF SetReady, TypeOK
  <2> QED BY <1>4, <2>2, <2>3 DEF SetReady, TypeOK, HasPacket
<1>5. CASE Poll
  BY <1>5 DEF Poll, TypeOK, HasPacket
<1>6. CASE ChooseSize
  BY <1>6 DEF ChooseSize, TypeOK, HasPacket
<1>7. CASE Transmit
  BY <1>7 DEF Transmit, TypeOK, HasPacket
<1>8. CASE ClearReady
  BY <1>8 DEF ClearReady, TypeOK, HasPacket
<1>9. CASE UNCHANGED vars
  BY <1>9 DEF vars, TypeOK, HasPacket
<1> QED
  BY <1>1, <1>2, <1>3, <1>4, <1>5, <1>6, <1>7, <1>8, <1>9 DEF Next, SendCall, SendThread

(* Type correctness of the mailbox and its histories, whatever number of   *)
(* threads fill it.                                                        *)
THEOREM MailboxTypeCorrect == Spec => []TypeOK
<1>1. Init => TypeOK /\ HasPacket
  BY TypeInit
<1>2. (TypeOK /\ HasPacket) /\ [Next]_vars => (TypeOK /\ HasPacket)'
  BY TypeStep
<1> QED
  BY <1>1, <1>2, PTL DEF Spec

-----------------------------------------------------------------------------
(* One producer *)

SingleProducer == \A p, q \in Producers : p = q

(* Where a packet is: half written, complete, and on the wire or not.      *)
PacketWhole ==
    /\ \A p \in Producers : /\ pc[p] \in {"data", "set"} => pid = Current(p)
                            /\ pc[p] = "set" => data = Current(p)
    /\ ready => pid = data /\ data \in Packets
    /\ sender # "poll" => ready
    /\ sender \in {"transmit", "clear"} => psize = data

WireFollows ==
    accepted = IF ready /\ sender # "clear" THEN Append(wire, data) ELSE wire

MailboxInv == TypeOK /\ HasPacket /\ FillsAvailableBuffer /\ PacketWhole /\ WireFollows

LEMMA InvInit == Init => MailboxInv
<1> SUFFICES ASSUME Init PROVE MailboxInv
  OBVIOUS
<1>1. FillsAvailableBuffer /\ PacketWhole /\ WireFollows
  BY DEF Init, FillsAvailableBuffer, Filling, PacketWhole, WireFollows
<1> QED
  BY <1>1, TypeInit DEF MailboxInv

LEMMA InvStep == ASSUME SingleProducer, MailboxInv, [Next]_vars PROVE MailboxInv'
<1>0. TypeOK' /\ HasPacket'
  BY TypeStep DEF MailboxInv
<1> USE DEF MailboxInv, FillsAvailableBuffer, Filling, PacketWhole, WireFollows
<1>1. ASSUME NEW p \in Producers, Wait(p)
      PROVE  (FillsAvailableBuffer /\ PacketWhole /\ WireFollows)'
  BY <1>1 DEF Wait, TypeOK, SingleProducer, Current
<1>2. ASSUME NEW p \in Producers, WritePid(p)
      PROVE  (FillsAvailableBuffer /\ PacketWhole /\ WireFollows)'
  BY <1>2 DEF WritePid, TypeOK, SingleProducer, Current
<1>3. ASSUME NEW p \in Producers, WriteData(p)
      PROVE  (FillsAvailableBuffer /\ PacketWhole /\ WireFollows)'
  BY <1>3 DEF WriteData, TypeOK, SingleProducer, Current
<1>4. ASSUME NEW p \in Producers, SetReady(p)
      PROVE  (FillsAvailableBuffer /\ PacketWhole /\ WireFollows)'
  <2>1. Current(p) \in Packets
    BY <1>4, CurrentIsPacket DEF SetReady
  <2>2. ~ready /\ sender = "poll" /\ pid = Current(p) /\ data = Current(p) /\ accepted = wire
    BY <1>4 DEF SetReady, TypeOK
  <2>3. \A q \in Producers : q = p
    BY DEF SingleProducer
  <2> QED BY <1>4, <2>1, <2>2, <2>3 DEF SetReady, TypeOK
<1>5. CASE Poll
  BY <1>0, <1>5 DEF Poll, TypeOK, Current
<1>6. CASE ChooseSize
  BY <1>0, <1>6 DEF ChooseSize, TypeOK, Current
<1>7. CASE Transmit
  BY <1>0, <1>7 DEF Transmit, TypeOK, Current
<1>8. CASE ClearReady
  BY <1>0, <1>8 DEF ClearReady, TypeOK, Current
<1>9. CASE UNCHANGED vars
  BY <1>0, <1>9 DEF vars, Current
<1> QED
  BY <1>0, <1>1, <1>2, <1>3, <1>4, <1>5, <1>6, <1>7, <1>8, <1>9 DEF Next, SendCall, SendThread

(* A single producer keeps the rule of the mailbox (pong_client.c:432-436). *)
THEOREM MailboxRuleKept ==
  ASSUME SingleProducer
  PROVE  Spec => []FillsAvailableBuffer
<1>1. MailboxInv /\ [Next]_vars => MailboxInv'
  BY InvStep
<1>2. MailboxInv => FillsAvailableBuffer
  BY DEF MailboxInv
<1> QED
  BY InvInit, <1>1, <1>2, PTL DEF Spec

LEMMA PipeStep ==
  ASSUME MailboxInv, MailboxInv', [Next]_vars
  PROVE  [Pipe!Next]_<<accepted, wire>>
<1> USE DEF MailboxInv, WireFollows
<1>1. ASSUME NEW p \in Producers, SetReady(p) PROVE Pipe!Accept
  <2>1. accepted = wire /\ Current(p) \in Packets
    BY <1>1, CurrentIsPacket DEF SetReady, FillsAvailableBuffer, Filling
  <2> QED BY <1>1, <2>1 DEF SetReady, Pipe!Accept
<1>2. CASE Transmit
  <2>1. ready /\ accepted = Append(wire, data)
    BY <1>2 DEF Transmit, PacketWhole
  <2>2. accepted # wire
    BY <2>1 DEF TypeOK
  <2>3. wire' = accepted
    BY <1>2, <2>1 DEF Transmit, PacketWhole
  <2> QED BY <1>2, <2>2, <2>3 DEF Transmit, Pipe!Transmit, Pipe!Next
<1>3. ASSUME NEW p \in Producers, Wait(p) \/ WritePid(p) \/ WriteData(p)
      PROVE  UNCHANGED <<accepted, wire>>
  BY <1>3 DEF Wait, WritePid, WriteData
<1>4. CASE Poll \/ ChooseSize \/ ClearReady
  BY <1>4 DEF Poll, ChooseSize, ClearReady
<1>5. CASE UNCHANGED vars
  BY <1>5 DEF vars
<1> QED
  BY <1>1, <1>2, <1>3, <1>4, <1>5 DEF Next, SendCall, SendThread, Pipe!Next

(* The mailbox of a single producer implements the pipe: no packet is      *)
(* lost, doubled or mixed, and none is accepted before the last is out.    *)
THEOREM MailboxIsPipe ==
  ASSUME SingleProducer
  PROVE  Spec => PipeSpec
<1>1. Init => Pipe!Init
  BY DEF Init, Pipe!Init
<1>2. MailboxInv /\ [Next]_vars => MailboxInv'
  BY InvStep
<1>3. MailboxInv /\ MailboxInv' /\ [Next]_vars => [Pipe!Next]_<<accepted, wire>>
  BY PipeStep
<1> QED
  BY InvInit, <1>1, <1>2, <1>3, PTL DEF Spec, PipeSpec, Pipe!Spec
==============================================================================
