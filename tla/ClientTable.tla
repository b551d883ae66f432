----------------------------- MODULE ClientTable -----------------------------
(***************************************************************************)
(* The client table, statement by statement.  The network process accepts  *)
(* connections, takes a record of clients[] and forks; the process of a    *)
(* client gives its record back in remove_client.  client_count++ and      *)
(* client_count-- are a load and a store in different processes and wrap   *)
(* like the unsigned char they change.  PongServer takes get_free_client   *)
(* and remove_client as one step each and has no counter.                  *)
(***************************************************************************)
EXTENDS Integers, FiniteSets

CONSTANTS Clients,      \* the clients that connect
          MaxClients,   \* MAX_CLIENTS
          CountValues,  \* the values of an unsigned char: 256 in the code
          Faults        \* which failures happen: a subset of {"fork", "kill"}

Records == 0 .. MaxClients - 1

VARIABLES
    client_count,   \* sh_mem->client_count
    taken,          \* taken[r]: clients[r].id # CLIENT_ID_TAKEN_FALSE
    net,            \* the next statement of the network process
    conn,           \* the client whose connection it accepted last
    id,             \* its loop counter and the record it found
    count,          \* the client_count it loaded
    pc,             \* pc[c]: the next statement of the process of client c
    record,         \* record[c]: the record that process was given
    read            \* read[c]: the client_count it loaded

network == <<net, conn, id, count>>
vars == <<client_count, taken, network, pc, record, read>>

(* init_server *)
Init ==
    /\ client_count = 0 /\ taken = [r \in Records |-> FALSE]
    /\ net = "accept" /\ conn \in Clients /\ id = 0 /\ count = 0
    /\ pc = [c \in Clients |-> "outside"]
    /\ record = [c \in Clients |-> 0] /\ read = [c \in Clients |-> 0]

Goto(c, s) == pc' = [pc EXCEPT ![c] = s]

-----------------------------------------------------------------------------
(* accept_clients and get_free_client, in the network process *)

Accept(c) ==
    /\ net = "accept" /\ pc[c] = "outside"
    /\ net' = "check" /\ conn' = c
    /\ Goto(c, "accepted")
    /\ UNCHANGED <<client_count, taken, id, count, record, read>>

(* "Limit for maximum clients is reached": the connection is closed. *)
Refuse ==
    /\ net' = "accept"
    /\ Goto(conn, "outside")
    /\ UNCHANGED <<client_count, taken, conn, id, count, record, read>>

CheckLimit ==
    /\ net = "check"
    /\ IF client_count = MaxClients
       THEN Refuse
       ELSE /\ net' = "search" /\ id' = 0
            /\ UNCHANGED <<client_count, taken, conn, count, pc, record, read>>

SearchRecord ==
    /\ net = "search"
    /\ IF id = MaxClients
       THEN Refuse
       ELSE /\ IF taken[id] THEN id' = id + 1 /\ net' = net
                            ELSE id' = id /\ net' = "load"
            /\ UNCHANGED <<client_count, taken, conn, count, pc, record, read>>

LoadCount ==
    /\ net = "load"
    /\ net' = "store" /\ count' = client_count
    /\ UNCHANGED <<client_count, taken, conn, id, pc, record, read>>

StoreCount ==
    /\ net = "store"
    /\ net' = "init" /\ client_count' = (count + 1) % CountValues
    /\ UNCHANGED <<taken, conn, id, count, pc, record, read>>

InitClient ==
    /\ net = "init"
    /\ net' = "fork" /\ taken' = [taken EXCEPT ![id] = TRUE]
    /\ UNCHANGED <<client_count, conn, id, count, pc, record, read>>

(* Two forks and the send thread: a failure of one of them is not looked   *)
(* at, or ends the process; the record stays taken.                        *)
Fork ==
    /\ net = "fork"
    /\ net' = "accept"
    /\ \/ Goto(conn, "serving") /\ record' = [record EXCEPT ![conn] = id]
       \/ "fork" \in Faults /\ Goto(conn, "outside") /\ UNCHANGED record
    /\ UNCHANGED <<client_count, taken, conn, id, count, read>>

NetworkProcess ==
    \/ \E c \in Clients : Accept(c)
    \/ CheckLimit \/ SearchRecord \/ LoadCount \/ StoreCount \/ InitClient \/ Fork

-----------------------------------------------------------------------------
(* remove_client and exit, in the process of client c *)

(* Mutant of ResetClient: the id is given back first. *)
ResetClientFreed(c) ==
    /\ pc[c] = "serving"
    /\ Goto(c, "load") /\ taken' = [taken EXCEPT ![record[c]] = FALSE]
    /\ UNCHANGED <<client_count, network, record, read>>

ResetClient(c) ==
    /\ pc[c] = "serving"
    /\ Goto(c, "load")
    /\ UNCHANGED <<client_count, taken, network, record, read>>

LoadLeft(c) ==
    /\ pc[c] = "load"
    /\ Goto(c, "store") /\ read' = [read EXCEPT ![c] = client_count]
    /\ UNCHANGED <<client_count, taken, network, record>>

StoreLeft(c) ==
    /\ pc[c] = "store"
    /\ Goto(c, "free") /\ client_count' = (read[c] - 1) % CountValues
    /\ UNCHANGED <<taken, network, record, read>>

FreeRecord(c) ==
    /\ pc[c] = "free"
    /\ Goto(c, "exit") /\ taken' = [taken EXCEPT ![record[c]] = FALSE]
    /\ UNCHANGED <<client_count, network, record, read>>

(* Until here the send thread of the process polls the mailbox.            *)
Exit(c) ==
    /\ pc[c] = "exit"
    /\ Goto(c, "outside")
    /\ UNCHANGED <<client_count, taken, network, record, read>>

(* SIGPIPE ends the process without remove_client. *)
Kill(c) ==
    /\ "kill" \in Faults /\ pc[c] = "serving"
    /\ Goto(c, "outside")
    /\ UNCHANGED <<client_count, taken, network, record, read>>

ClientProcess(c) ==
    ResetClient(c) \/ LoadLeft(c) \/ StoreLeft(c) \/ FreeRecord(c) \/ Exit(c) \/ Kill(c)

Next == NetworkProcess \/ \E c \in Clients : ClientProcess(c)

Spec == Init /\ [][Next]_vars

-----------------------------------------------------------------------------
TypeOK ==
    /\ client_count \in 0 .. CountValues - 1 /\ taken \in [Records -> BOOLEAN]
    /\ net \in {"accept", "check", "search", "load", "store", "init", "fork"}
    /\ conn \in Clients /\ id \in 0 .. MaxClients /\ count \in 0 .. CountValues - 1
    /\ pc \in [Clients -> {"outside", "accepted", "serving", "load", "store", "free", "exit"}]
    /\ record \in [Clients -> Records \cup {0}] /\ read \in [Clients -> 0 .. CountValues - 1]

(* The statements in which a process uses its record as its own. *)
Owns(c) == pc[c] \in {"serving", "load", "store", "free"}

(* No two clients are served on one record, however the search for a free  *)
(* one and the removal of a client interleave, and whatever client_count   *)
(* says by then.                                                           *)
RecordHasOneOwner ==
    \A c, d \in Clients : Owns(c) /\ Owns(d) /\ record[c] = record[d] => c = d

(* pong_server.c:378, "Limit for maximum clients is reached": while nobody *)
(* is leaving, a client is refused only when every record is taken.        *)
LimitMeansFull ==
    net = "check" /\ client_count = MaxClients
        /\ (\A c \in Clients : pc[c] \in {"outside", "accepted", "serving"})
      => \A r \in Records : taken[r]

(* pong_server.h:20, "when client memory is not occupied, its id is set to *)
(* this value": a taken record has a process, or gets one.                 *)
TakenIsOccupied ==
    \A r \in Records : taken[r] =>
        \/ \E c \in Clients : Owns(c) /\ record[c] = r
        \/ net = "fork" /\ id = r

(* The converse: the send thread of a process that ends still polls the    *)
(* mailbox of a record that is free again.                                 *)
FreeIsUnused ==
    \A c \in Clients : Owns(c) \/ pc[c] = "exit" => taken[record[c]]
==============================================================================
