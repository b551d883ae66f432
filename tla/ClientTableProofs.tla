-------------------------- MODULE ClientTableProofs --------------------------
(***************************************************************************)
(* Proof that no two clients are served on one record of the client table, *)
(* for every number of clients and records, with lost updates, failed      *)
(* forks and processes that are killed.                                    *)
(***************************************************************************)
EXTENDS ClientTable, TLAPS

(* What the proof assumes of the constants. *)
Sizes == MaxClients \in Nat /\ CountValues \in Nat \ {0}

(* A record with an owner is taken; only the owner gives it back. *)
OwnedIsTaken == \A c \in Clients : Owns(c) => record[c] \in Records /\ taken[record[c]]

(* The record that the network process has found stays free until it takes *)
(* it, and has no owner until the fork.                                    *)
FoundIsFree == net \in {"load", "store", "init"} => id \in Records /\ ~taken[id]

ForkIsFresh ==
    net = "fork" =>
        /\ id \in Records /\ taken[id]
        /\ \A c \in Clients : Owns(c) => record[c] # id

(* The client whose connection is being handled has no process yet. *)
AcceptedOnce == net # "accept" => pc[conn] = "accepted"

OwnerInv == TypeOK /\ RecordHasOneOwner /\ OwnedIsTaken /\ FoundIsFree /\ ForkIsFresh /\ AcceptedOnce

-----------------------------------------------------------------------------
LEMMA TypeInit == ASSUME Sizes PROVE Init => TypeOK
  BY DEF Sizes, Init, TypeOK, Records

LEMMA TypeStep == ASSUME Sizes, TypeOK, ForkIsFresh, [Next]_vars PROVE TypeOK'
<1> USE DEF TypeOK
<1>1. \A n \in Int : n % CountValues \in 0 .. CountValues - 1
  BY DEF Sizes
<1>2. CASE NetworkProcess
  <2>1. ASSUME NEW c \in Clients, Accept(c) PROVE TypeOK'
    BY <2>1 DEF Accept, Goto
  <2>2. CASE CheckLimit
    BY <2>2 DEF CheckLimit, Refuse, Goto, Sizes
  <2>3. CASE SearchRecord
    BY <2>3 DEF SearchRecord, Refuse, Goto, Sizes
  <2>4. CASE LoadCount
    BY <2>4 DEF LoadCount
  <2>5. CASE StoreCount
    <3>1. client_count' \in 0 .. CountValues - 1
      <4>1. count + 1 \in Int
        OBVIOUS
      <4> QED BY <2>5, <1>1, <4>1 DEF StoreCount
    <3> QED BY <2>5, <3>1 DEF StoreCount
  <2>6. CASE InitClient
    BY <2>6 DEF InitClient
  <2>7. CASE Fork
    BY <2>7 DEF Fork, Goto, ForkIsFresh
  <2> QED BY <1>2, <2>1, <2>2, <2>3, <2>4, <2>5, <2>6, <2>7 DEF NetworkProcess
<1>3. ASSUME NEW c \in Clients, ClientProcess(c) PROVE TypeOK'
  <2>1. CASE ResetClient(c) \/ Exit(c) \/ Kill(c)
    BY <2>1 DEF ResetClient, Exit, Kill, Goto, network
  <2>2. CASE LoadLeft(c)
    BY <2>2 DEF LoadLeft, Goto, network
  <2>3. CASE StoreLeft(c)
    <3>1. client_count' \in 0 .. CountValues - 1
      <4>1. read[c] - 1 \in Int
        OBVIOUS
      <4> QED BY <2>3, <1>1, <4>1 DEF StoreLeft
    <3> QED BY <2>3, <3>1 DEF StoreLeft, Goto, network
  <2>4. CASE FreeRecord(c)
    BY <2>4 DEF FreeRecord, Goto, network
  <2> QED BY <1>3, <2>1, <2>2, <2>3, <2>4 DEF ClientProcess
<1>4. CASE UNCHANGED vars
  BY <1>4 DEF vars, network
<1> QED
  BY <1>2, <1>3, <1>4 DEF Next

-----------------------------------------------------------------------------
(* The network process takes a record. *)
LEMMA NetworkStep ==
  ASSUME Sizes, OwnerInv, TypeOK', NetworkProcess
  PROVE  OwnerInv'
<1> USE DEF OwnerInv, RecordHasOneOwner, OwnedIsTaken, FoundIsFree, ForkIsFresh, AcceptedOnce
<1>1. ASSUME NEW c \in Clients, Accept(c) PROVE OwnerInv'
  <2>1. pc[c] = "outside" /\ \A d \in Clients : Owns(d)' <=> Owns(d)
    BY <1>1 DEF Accept, Goto, TypeOK, Owns
  <2> QED BY <1>1, <2>1 DEF Accept, Goto, TypeOK
<1>2. ASSUME Refuse, net \in {"check", "search"} PROVE OwnerInv'
  <2>1. \A d \in Clients : Owns(d)' <=> Owns(d)
    BY <1>2 DEF Refuse, Goto, TypeOK, Owns
  <2> QED BY <1>2, <2>1 DEF Refuse
<1>3. CASE CheckLimit /\ ~Refuse
  BY <1>3 DEF CheckLimit, Owns
<1>4. CASE SearchRecord /\ ~Refuse
  <2>1. id \in Records
    BY <1>4 DEF SearchRecord, TypeOK, Records, Sizes
  <2> QED BY <1>4, <2>1 DEF SearchRecord, Owns
<1>5. CASE LoadCount \/ StoreCount
  BY <1>5 DEF LoadCount, StoreCount, Owns
<1>6. CASE InitClient
  <2>1. \A d \in Clients : (Owns(d)' <=> Owns(d)) /\ record'[d] = record[d]
    BY <1>6 DEF InitClient, Owns
  <2>2. id \in Records /\ ~taken[id] /\ taken' = [taken EXCEPT ![id] = TRUE]
    BY <1>6 DEF InitClient
  <2>3. \A r \in Records : taken[r] => taken'[r]
    BY <2>2 DEF TypeOK
  <2> QED BY <1>6, <2>1, <2>2, <2>3 DEF InitClient, TypeOK
<1>7. CASE Fork
  <2>1. pc[conn] = "accepted" /\ conn \in Clients /\ id \in Records
    BY <1>7 DEF Fork, TypeOK
  <2>2. \A d \in Clients : d # conn => (Owns(d)' <=> Owns(d)) /\ record'[d] = record[d]
    BY <1>7 DEF Fork, Goto, TypeOK, Owns
  <2>3. Owns(conn)' => record'[conn] = id
    BY <1>7, <2>1 DEF Fork, Goto, TypeOK, Owns
  <2>4. RecordHasOneOwner'
    BY <1>7, <2>2, <2>3 DEF Fork
  <2>5. OwnedIsTaken'
    BY <1>7, <2>2, <2>3 DEF Fork
  <2> QED BY <1>7, <2>4, <2>5 DEF Fork
<1> QED
  BY <1>1, <1>2, <1>3, <1>4, <1>5, <1>6, <1>7 DEF NetworkProcess, CheckLimit, SearchRecord

(* A client leaves or is killed. *)
LEMMA ClientStep ==
  ASSUME OwnerInv, TypeOK', NEW c \in Clients, ClientProcess(c)
  PROVE  OwnerInv'
<1> USE DEF OwnerInv, RecordHasOneOwner, OwnedIsTaken, FoundIsFree, ForkIsFresh, AcceptedOnce
<1>0. UNCHANGED <<net, conn, id, record>>
  BY DEF ClientProcess, ResetClient, LoadLeft, StoreLeft, FreeRecord, Exit, Kill, network
<1>1. \A d \in Clients : Owns(d)' => Owns(d)
  BY DEF ClientProcess, ResetClient, LoadLeft, StoreLeft, FreeRecord, Exit, Kill, Goto, Owns, TypeOK
<1>2. pc[c] # "accepted" /\ \A d \in Clients : d # c => pc'[d] = pc[d]
  BY DEF ClientProcess, ResetClient, LoadLeft, StoreLeft, FreeRecord, Exit, Kill, Goto, TypeOK
<1>3. CASE FreeRecord(c)
  <2>1. Owns(c) /\ ~Owns(c)' /\ taken' = [taken EXCEPT ![record[c]] = FALSE]
    BY <1>3 DEF FreeRecord, Goto, Owns, TypeOK
  <2>2. \A r \in Records : r # record[c] => taken'[r] = taken[r]
    BY <2>1 DEF TypeOK
  <2>3. OwnedIsTaken'
    BY <1>0, <1>1, <2>1, <2>2
  <2>4. FoundIsFree'
    BY <1>0, <2>1, <2>2
  <2>5. ForkIsFresh'
    BY <1>0, <1>1, <2>1, <2>2
  <2> QED BY <1>0, <1>1, <1>2, <2>3, <2>4, <2>5 DEF TypeOK
<1>4. CASE ~FreeRecord(c)
  <2>1. UNCHANGED taken
    BY <1>4 DEF ClientProcess, ResetClient, LoadLeft, StoreLeft, Exit, Kill
  <2> QED BY <1>0, <1>1, <1>2, <2>1 DEF TypeOK
<1> QED
  BY <1>3, <1>4

(* No two clients are served on one record of clients[]: the search skips  *)
(* taken records, and remove_client gives its record back last.            *)
THEOREM OneOwner ==
  ASSUME Sizes
  PROVE  Spec => []RecordHasOneOwner
<1>1. Init => OwnerInv
  BY TypeInit DEF Init, OwnerInv, RecordHasOneOwner, OwnedIsTaken, FoundIsFree, ForkIsFresh,
                  AcceptedOnce, Owns
<1>2. OwnerInv /\ [Next]_vars => OwnerInv'
  <2> SUFFICES ASSUME OwnerInv, [Next]_vars PROVE OwnerInv'
    OBVIOUS
  <2>1. TypeOK'
    BY TypeStep DEF OwnerInv
  <2>2. CASE UNCHANGED vars
    BY <2>1, <2>2 DEF vars, network, OwnerInv, RecordHasOneOwner, OwnedIsTaken, FoundIsFree,
                      ForkIsFresh, AcceptedOnce, Owns
  <2> QED BY <2>1, <2>2, NetworkStep, ClientStep DEF Next
<1>3. OwnerInv => RecordHasOneOwner
  BY DEF OwnerInv
<1> QED
  BY <1>1, <1>2, <1>3, PTL DEF Spec
==============================================================================
