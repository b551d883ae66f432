---------------------------- MODULE PacketChannel ----------------------------
(***************************************************************************)
(* What the byte protocol between a send thread and the receive loop at    *)
(* the other end promises: packets are processed once each, whole and in   *)
(* the order they were sent; a packet that was already torn when it was    *)
(* framed (its size field disagrees with its data) is dropped, and costs   *)
(* no other packet.                                                        *)
(***************************************************************************)
EXTENDS Sequences

CONSTANTS Payloads,     \* the data segments
          Torn          \* stands for a torn packet

VARIABLES due,          \* the packets on their way
          got           \* the data segment processed last

Init == due = <<>> /\ got = <<>>

Send == /\ \E m \in Payloads \cup {Torn} : due' = Append(due, m)
        /\ UNCHANGED got

Deliver == /\ due # <<>> /\ Head(due) # Torn
           /\ got' = Head(due)
           /\ due' = Tail(due)

Drop == /\ due # <<>> /\ Head(due) = Torn
        /\ due' = Tail(due)
        /\ UNCHANGED got

Next == Send \/ Deliver \/ Drop

Spec == Init /\ [][Next]_<<due, got>>

FairSpec == Spec /\ WF_<<due, got>>(Deliver \/ Drop)
==============================================================================
