------------------------------ MODULE LobbySlots ------------------------------
(***************************************************************************)
(* One lobby, statement by statement.  The receive threads of the clients  *)
(* run add_client_to_lobby and remove_client_from_lobby, the gameloop runs *)
(* update_lobby, all on the same client_count and clients[] and without a  *)
(* lock.  PongServer takes each of these functions as one step; here every *)
(* access to the lobby is a step, and client_count += 1 and -- are a load  *)
(* and a store.                                                            *)
(***************************************************************************)
EXTENDS Integers, FiniteSets

CONSTANTS Clients,      \* the clients that use this lobby
          MaxClients    \* lobby->max_clients

Slots == 0 .. MaxClients - 1
NoClient == "NULL"

VARIABLES
    client_count, slots,    \* lobby->client_count and lobby->clients
    inLobby,                \* inLobby[c]: client->lobby points at this lobby
    state,                  \* state[c]: client->state
    pc,                     \* pc[c]: the next statement of c's receive thread
    at,                     \* at[c]: its loop counter i
    read,                   \* read[c]: the client_count it loaded
    gl, i,                  \* the next statement of the gameloop and its loop counter
    full,                   \* what it found in line 178: a game follows the packets
    place, to,              \* the place whose client gets a LOBBY packet, and the client
    sent                    \* this packet: its count and how many clients it lists

packet == <<full, place, to, sent>>
loop == <<gl, i, packet>>
vars == <<client_count, slots, inLobby, state, pc, at, read, loop>>

Init ==
    /\ client_count = 0 /\ slots = [s \in Slots |-> NoClient]
    /\ inLobby = [c \in Clients |-> FALSE]
    /\ state = [c \in Clients |-> "MENU"]
    /\ pc = [c \in Clients |-> "poll"]
    /\ at = [c \in Clients |-> 0] /\ read = [c \in Clients |-> 0]
    /\ gl = "idle" /\ i = 0 /\ full = FALSE
    /\ place = 0 /\ to = NoClient /\ sent = [count |-> 0, clients |-> 0]

Goto(c, s) == pc' = [pc EXCEPT ![c] = s]

-----------------------------------------------------------------------------
(* add_client_to_lobby *)

GameType(c) ==
    /\ pc[c] = "poll" /\ state[c] = "MENU"
    /\ Goto(c, "spin")
    /\ UNCHANGED <<client_count, slots, inLobby, state, at, read, loop>>

Enter(c) ==
    /\ pc[c] = "spin" /\ client_count # MaxClients
    /\ inLobby' = [inLobby EXCEPT ![c] = TRUE]
    /\ state' = [state EXCEPT ![c] = "LOBBY"]
    /\ at' = [at EXCEPT ![c] = 0]
    /\ Goto(c, "look")
    /\ UNCHANGED <<client_count, slots, read, loop>>

Look(c) ==
    /\ pc[c] = "look"
    /\ IF at[c] = MaxClients THEN Goto(c, "poll") /\ UNCHANGED at
       ELSE IF slots[at[c]] = NoClient THEN Goto(c, "take") /\ UNCHANGED at
       ELSE at' = [at EXCEPT ![c] = @ + 1] /\ UNCHANGED pc
    /\ UNCHANGED <<client_count, slots, inLobby, state, read, loop>>

Take(c) ==
    /\ pc[c] = "take"
    /\ slots' = [slots EXCEPT ![at[c]] = c]
    /\ Goto(c, "load_add")
    /\ UNCHANGED <<client_count, inLobby, state, at, read, loop>>

LoadCount(c) ==
    /\ pc[c] \in {"load_add", "load_sub"}
    /\ read' = [read EXCEPT ![c] = client_count]
    /\ Goto(c, IF pc[c] = "load_add" THEN "add" ELSE "sub")
    /\ UNCHANGED <<client_count, slots, inLobby, state, at, loop>>

StoreSum(c) ==
    /\ pc[c] = "add"
    /\ client_count' = read[c] + 1
    /\ Goto(c, "poll")
    /\ UNCHANGED <<slots, inLobby, state, at, read, loop>>

-----------------------------------------------------------------------------
(* reset_client: remove_client_from_lobby *)

Leave(c) ==
    /\ pc[c] = "poll" /\ inLobby[c]
    /\ at' = [at EXCEPT ![c] = 0]
    /\ Goto(c, "find")
    /\ UNCHANGED <<client_count, slots, inLobby, state, read, loop>>

Find(c) ==
    /\ pc[c] = "find"
    /\ IF at[c] = MaxClients THEN Goto(c, "out") /\ UNCHANGED at
       ELSE IF slots[at[c]] = c THEN Goto(c, "load_sub") /\ UNCHANGED at
       ELSE at' = [at EXCEPT ![c] = @ + 1] /\ UNCHANGED pc
    /\ UNCHANGED <<client_count, slots, inLobby, state, read, loop>>

StoreDifference(c) ==
    /\ pc[c] = "sub"
    /\ client_count' = read[c] - 1
    /\ Goto(c, "clear")
    /\ UNCHANGED <<slots, inLobby, state, at, read, loop>>

Clear(c) ==
    /\ pc[c] = "clear"
    /\ slots' = [slots EXCEPT ![at[c]] = NoClient]
    /\ Goto(c, "out")
    /\ UNCHANGED <<client_count, inLobby, state, at, read, loop>>

(* client->lobby = NULL and the new state; the client joins anew. *)
Out(c) ==
    /\ pc[c] = "out"
    /\ inLobby' = [inLobby EXCEPT ![c] = FALSE]
    /\ state' = [state EXCEPT ![c] = "MENU"]
    /\ Goto(c, "poll")
    /\ UNCHANGED <<client_count, slots, at, read, loop>>

(* Its game is over: send_return_to_menu_to_player. *)
ReturnToMenu(c) ==
    /\ pc[c] = "poll" /\ state[c] = "LOADING"
    /\ state' = [state EXCEPT ![c] = "MENU"]
    /\ UNCHANGED <<client_count, slots, inLobby, pc, at, read, loop>>

-----------------------------------------------------------------------------
(* update_lobby, when there is a free game record *)

CheckFull ==
    /\ gl = "idle"
    /\ gl' = "send" /\ place' = 0 /\ full' = (client_count = MaxClients)
    /\ UNCHANGED <<client_count, slots, inLobby, state, pc, at, read, i, to, sent>>

(* send_lobby_to_all_clients_in_the_lobby: the next client.  One that is   *)
(* no longer in the lobby is passed over.                                  *)
NextClient ==
    /\ gl = "send" /\ place < MaxClients
    /\ IF slots[place] # NoClient /\ inLobby[slots[place]]
       THEN to' = slots[place] /\ gl' = "count" /\ UNCHANGED place
       ELSE place' = place + 1 /\ UNCHANGED <<to, gl>>
    /\ UNCHANGED <<client_count, slots, inLobby, state, pc, at, read, i, full, sent>>

AllSent ==
    /\ gl = "send" /\ place = MaxClients
    /\ gl' = (IF full THEN "deal" ELSE "idle") /\ i' = 0
    /\ UNCHANGED <<client_count, slots, inLobby, state, pc, at, read, packet>>

(* send_lobby: the count first, then every place, each through the lobby   *)
(* pointer of the client, which is NULL once it has left.                  *)
SendCount ==
    /\ gl = "count"
    /\ gl' = IF inLobby[to] THEN "clients" ELSE "stopped"
    /\ sent' = [count |-> client_count, clients |-> 0]
    /\ i' = 0
    /\ UNCHANGED <<client_count, slots, inLobby, state, pc, at, read, full, place, to>>

SendSlot ==
    /\ gl = "clients" /\ i < MaxClients
    /\ gl' = IF inLobby[to] THEN gl ELSE "stopped"
    /\ sent' = IF slots[i] = NoClient THEN sent ELSE [sent EXCEPT !.clients = @ + 1]
    /\ i' = i + 1
    /\ UNCHANGED <<client_count, slots, inLobby, state, pc, at, read, full, place, to>>

SendLobby ==
    /\ gl = "clients" /\ i = MaxClients
    /\ gl' = "send" /\ place' = place + 1
    /\ UNCHANGED <<client_count, slots, inLobby, state, pc, at, read, i, full, to, sent>>

(* for (i = 0; i < lobby->client_count; i++): the clients are put into the game; *)
(* a count above max_clients reaches the unused, NULL places of a 1v1 lobby.    *)
DealSlot ==
    /\ gl = "deal"
    /\ IF i < client_count
       THEN /\ IF i \notin Slots \/ slots[i] = NoClient THEN UNCHANGED <<inLobby, state>>
               ELSE /\ inLobby' = [inLobby EXCEPT ![slots[i]] = FALSE]
                    /\ state' = [state EXCEPT ![slots[i]] = "LOADING"]
            /\ i' = i + 1 /\ UNCHANGED gl
       ELSE gl' = "check" /\ i' = 0 /\ UNCHANGED <<inLobby, state>>
    /\ UNCHANGED <<client_count, slots, pc, at, read, packet>>

(* init_game_*: a lobby whose count has changed is rejected; otherwise every *)
(* slot is dereferenced.                                                     *)
InitGame ==
    /\ gl = "check"
    /\ gl' = IF client_count = MaxClients THEN "players" ELSE "reset"
    /\ UNCHANGED <<client_count, slots, inLobby, state, pc, at, read, i, packet>>

InitPlayer ==
    /\ gl = "players"
    /\ IF i = MaxClients THEN gl' = "reset" /\ i' = 0
       ELSE IF slots[i] = NoClient THEN gl' = "stopped" /\ i' = i
       ELSE i' = i + 1 /\ gl' = gl
    /\ UNCHANGED <<client_count, slots, inLobby, state, pc, at, read, packet>>

(* reset_lobby: first the count, then the slots *)
ResetCount ==
    /\ gl = "reset"
    /\ client_count' = 0
    /\ gl' = "reset_slots" /\ i' = 0
    /\ UNCHANGED <<slots, inLobby, state, pc, at, read, packet>>

ResetSlot ==
    /\ gl = "reset_slots"
    /\ IF i < MaxClients
       THEN slots' = [slots EXCEPT ![i] = NoClient] /\ i' = i + 1 /\ gl' = gl
       ELSE gl' = "idle" /\ i' = 0 /\ UNCHANGED slots
    /\ UNCHANGED <<client_count, inLobby, state, pc, at, read, packet>>

ReceiveThread(c) ==
    \/ GameType(c) \/ Enter(c) \/ Look(c) \/ Take(c) \/ LoadCount(c) \/ StoreSum(c)
    \/ Leave(c) \/ Find(c) \/ StoreDifference(c) \/ Clear(c) \/ Out(c) \/ ReturnToMenu(c)

Gameloop ==
    \/ CheckFull \/ NextClient \/ AllSent \/ SendCount \/ SendSlot \/ SendLobby
    \/ DealSlot \/ InitGame \/ InitPlayer \/ ResetCount \/ ResetSlot

Next == Gameloop \/ \E c \in Clients : ReceiveThread(c)

Spec == Init /\ [][Next]_vars

-----------------------------------------------------------------------------
(* pong_graphics_lobby.c:12, render_lobby reads as many clients as the     *)
(* packet counts: the packet must list them.                               *)
LobbyPacketComplete ==
    gl = "clients" /\ i = MaxClients => sent.count <= sent.clients

(* Between the calls, when no thread is in the middle of one: *)
Quiet == gl = "idle" /\ \A c \in Clients : pc[c] \in {"poll", "spin"}

(* pong_server.h:27, CLIENT_STATE_LOBBY "player sees his/her lobby": a     *)
(* client in this state sits in the lobby.                                 *)
LobbyClientIsSeated ==
    Quiet => \A c \in Clients : state[c] = "LOBBY" => \E s \in Slots : slots[s] = c
===============================================================================
