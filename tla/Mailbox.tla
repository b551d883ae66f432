------------------------------- MODULE Mailbox -------------------------------
(***************************************************************************)
(* The one-packet mailbox send_mem between the threads that call a send_*  *)
(* function and the send thread that writes to the socket, statement by    *)
(* statement.  packet_ready is its only synchronisation: a producer waits  *)
(* until it is FALSE, fills pid and pdata and sets it; the send thread     *)
(* waits until it is TRUE, reads pid and pdata and clears it.              *)
(*                                                                         *)
(* In the client one thread produces (the GLUT main loop); in the server   *)
(* the gameloop, the client's own receive thread and the receive threads   *)
(* of the other clients (chat) all do.                                     *)
(***************************************************************************)
EXTENDS Integers, Sequences

CONSTANTS Producers,    \* the threads that call send_* for this mailbox
          MaxPackets    \* bound on the packets a producer sends

ASSUME MailboxAssumption == MaxPackets \in Nat

(* The n-th packet of producer p; its pid and its data are written and read *)
(* separately, so each part carries the packet it belongs to.               *)
Packets == Producers \X (1 .. MaxPackets)
Garbage == <<>>

VARIABLES
    ready,      \* packet_ready
    pid, data,  \* send_mem->pid, and pdata with datalen
    pc,         \* pc[p]: the next statement of the send_* function p is in
    made,       \* made[p]: number of packets p has handed over
    sender,     \* the next statement of the send thread
    psize,      \* the packet whose pid decided the size of the data segment
    accepted,   \* history: packets in the order packet_ready was set for them
    wire        \* what was written to the socket

vars == <<ready, pid, data, pc, made, sender, psize, accepted, wire>>

CurrentFromZero(p) == <<p, made[p]>>            \* mutant of Current
Current(p) == <<p, made[p] + 1>>

Init ==
    /\ ready = FALSE
    /\ pid = Garbage /\ data = Garbage
    /\ pc = [p \in Producers |-> "wait"]
    /\ made = [p \in Producers |-> 0]
    /\ sender = "poll" /\ psize = Garbage
    /\ accepted = <<>> /\ wire = <<>>

(* Mutant of Wait: it does not. *)
WaitNot(p) ==
    /\ pc[p] = "wait" /\ made[p] < MaxPackets
    /\ pc' = [pc EXCEPT ![p] = "pid"]
    /\ UNCHANGED <<ready, pid, data, made, sender, psize, accepted, wire>>

(* while (send_mem->packet_ready == PACKET_READY_TRUE) sleep(...) *)
Wait(p) ==
    /\ pc[p] = "wait" /\ made[p] < MaxPackets
    /\ ~ready
    /\ pc' = [pc EXCEPT ![p] = "pid"]
    /\ UNCHANGED <<ready, pid, data, made, sender, psize, accepted, wire>>

WritePid(p) ==
    /\ pc[p] = "pid"
    /\ pid' = Current(p)
    /\ pc' = [pc EXCEPT ![p] = "data"]
    /\ UNCHANGED <<ready, data, made, sender, psize, accepted, wire>>

WriteData(p) ==
    /\ pc[p] = "data"
    /\ data' = Current(p)
    /\ pc' = [pc EXCEPT ![p] = "set"]
    /\ UNCHANGED <<ready, pid, made, sender, psize, accepted, wire>>

SetReady(p) ==
    /\ pc[p] = "set"
    /\ ready' = TRUE
    /\ accepted' = Append(accepted, Current(p))
    /\ made' = [made EXCEPT ![p] = @ + 1]
    /\ pc' = [pc EXCEPT ![p] = "wait"]
    /\ UNCHANGED <<pid, data, sender, psize, wire>>

(* if (send_mem->packet_ready == PACKET_READY_TRUE) *)
Poll ==
    /\ sender = "poll" /\ ready
    /\ sender' = "size"
    /\ UNCHANGED <<ready, pid, data, pc, made, psize, accepted, wire>>

(* The comparisons of send_mem->pid choose the data size of the packet. *)
ChooseSize ==
    /\ sender = "size"
    /\ psize' = pid
    /\ sender' = "transmit"
    /\ UNCHANGED <<ready, pid, data, pc, made, accepted, wire>>

(* send_packet reads pid again, and pdata; a packet whose parts do not     *)
(* belong together is written as Garbage.                                  *)
Transmit ==
    /\ sender = "transmit"
    /\ wire' = Append(wire, IF pid = psize /\ data = psize THEN data ELSE Garbage)
    /\ sender' = "clear"
    /\ UNCHANGED <<ready, pid, data, pc, made, psize, accepted>>

(* Mutant of ClearReady: the packet stays ready. *)
ClearNothing ==
    /\ sender = "clear"
    /\ sender' = "poll"
    /\ UNCHANGED <<ready, pid, data, pc, made, psize, accepted, wire>>

(* send_mem->packet_ready = PACKET_READY_FALSE *)
ClearReady ==
    /\ sender = "clear"
    /\ ready' = FALSE
    /\ sender' = "poll"
    /\ UNCHANGED <<pid, data, pc, made, psize, accepted, wire>>

SendCall(p) == Wait(p) \/ WritePid(p) \/ WriteData(p) \/ SetReady(p)
SendThread == Poll \/ ChooseSize \/ Transmit \/ ClearReady

Next == SendThread \/ \E p \in Producers : SendCall(p)

Spec == Init /\ [][Next]_vars

(* Threads are scheduled; whether a producer sends is up to the program,   *)
(* but once it is past its wait it runs on.                                *)
FairSpec ==
    /\ Spec
    /\ WF_vars(SendThread)
    /\ \A p \in Producers : WF_vars(WritePid(p) \/ WriteData(p) \/ SetReady(p))

-----------------------------------------------------------------------------
TypeOK ==
    /\ ready \in BOOLEAN
    /\ pid \in Packets \cup {Garbage}
    /\ data \in Packets \cup {Garbage}
    /\ pc \in [Producers -> {"wait", "pid", "data", "set"}]
    /\ made \in [Producers -> 0 .. MaxPackets]
    /\ sender \in {"poll", "size", "transmit", "clear"}
    /\ psize \in Packets \cup {Garbage}
    /\ accepted \in Seq(Packets)
    /\ wire \in Seq(Packets \cup {Garbage})

Filling(p) == pc[p] # "wait"

(* pong_client.c:432-436, "wait until send buffer becomes available / when *)
(* send buffer is available, fill it": a thread only writes to a mailbox   *)
(* that is empty, that the send thread is not reading and that no other    *)
(* thread is filling.                                                      *)
FillsAvailableBuffer ==
    \A p \in Producers : Filling(p) =>
        /\ ~ready /\ sender = "poll"
        /\ \A q \in Producers : Filling(q) => q = p

(* The mailbox implements the pipe. *)
Pipe == INSTANCE PacketPipe
PipeSpec == Pipe!Spec
PipeFairSpec == Pipe!FairSpec
===============================================================================
