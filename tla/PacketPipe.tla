------------------------------ MODULE PacketPipe ------------------------------
(***************************************************************************)
(* What the mailbox between a program and its send thread promises: every  *)
(* packet that a send_* function accepted is put on the wire, whole, once  *)
(* and in the order of acceptance; a send_* function accepts a packet only *)
(* when all earlier ones are on the wire.                                  *)
(***************************************************************************)
EXTENDS Naturals, Sequences

CONSTANT Packets

VARIABLES accepted,     \* the packets send_* functions returned for
          wire          \* the packets written to the socket

Init == accepted = <<>> /\ wire = <<>>

Accept == /\ wire = accepted
          /\ \E m \in Packets : accepted' = Append(accepted, m)
          /\ UNCHANGED wire

Transmit == /\ wire # accepted
            /\ wire' = accepted
            /\ UNCHANGED accepted

Next == Accept \/ Transmit

Spec == Init /\ [][Next]_<<accepted, wire>>

(* And the send thread gets round to it. *)
FairSpec == Spec /\ WF_<<accepted, wire>>(Transmit)
===============================================================================
