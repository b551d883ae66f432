----------------------------- MODULE PongServer -----------------------------
(***************************************************************************)
(* The pong server: the shared memory of pong_server.h and the processes   *)
(* that work on it.                                                        *)
(*                                                                         *)
(*   - the gameloop process       (gl, update_lobby and update_game),      *)
(*   - the network process        (Connect, accept_clients),               *)
(*   - per client process, its receive thread (recv[c], the process_*      *)
(*     handlers) and its send thread          (SendServerPacket),          *)
(*   - the client program, as far as the server can tell: the screen it    *)
(*     shows, which decides what it can send.                              *)
(*                                                                         *)
(* There is no lock.  Every send_* function waits while packet_ready is    *)
(* TRUE and then fills the mailbox; these waits are the only places where  *)
(* a thread is held up for long, and a step of this module is the code     *)
(* between two of them.  Modules Mailbox and Match look inside the steps.  *)
(*                                                                         *)
(* Operators marked as mutants are slips that the properties must catch;   *)
(* nothing uses them.                                                      *)
(***************************************************************************)
EXTENDS Integers, Sequences, FiniteSets

CONSTANTS
    NumClients,     \* MAX_CLIENTS
    NumGames,       \* MAX_GAME_STATES
    MaxPlayers,     \* MAX_PLAYER_COUNT, the size of players[] and of a lobby's clients[]
    LobbySize,      \* max_clients of each lobby
    Inputs          \* the optional things a client may do in this instance

ASSUME ServerAssumption ==
    /\ NumClients \in Nat \ {0}
    /\ NumGames \in Nat \ {0}
    /\ MaxPlayers \in Nat \ {0}
    /\ DOMAIN LobbySize \subseteq Nat
    /\ LobbySize \in [DOMAIN LobbySize -> 1 .. MaxPlayers]
    /\ Inputs \subseteq {"bad_name", "message", "exit", "disconnect", "kill"}

Clients == 0 .. NumClients - 1
Games   == 0 .. NumGames - 1
Seats   == 0 .. MaxPlayers - 1
Lobbies == DOMAIN LobbySize
Teams   == {0, 1}

NULL     == -1                              \* NULL pointers and client id -1
NoPlayer == [game |-> NULL, seat |-> NULL]  \* a NULL player pointer

PacketIds == {"ACCEPT", "ACCEPT_ERROR", "MESSAGE", "LOBBY", "GAME_READY",
              "GAME_STATE", "GAME_END", "RETURN_TO_MENU", "RETURN_TO_JOIN"}
Screens   == {"JOIN", "MENU", "LOBBY", "LOADING", "GAME", "STATISTICS"}
Statuses  == {"FREE", "TAKEN", "LOADING", "IN_PROGRESS", "STATISTICS",
              "SUCCESS", "CLIENT_FAILED_TO_LOAD", "ALL_TEAM_LEFT"}

(* The team of player i: back and front players alternate left and right.  *)
TeamOf(i) == i % 2

VARIABLES
    clients,      \* clients[c]: taken (id # -1), state, lobby, game_state, player
    packet,       \* packet[c]: the pid in send_mem, or "none" when packet_ready is FALSE
    recv,         \* recv[c]: where the receive thread of the client's process is
    screen,       \* screen[c]: rend_data.state of the connected client program
    lobbies,      \* lobbies[l]: client_count and clients[]
    game_states,  \* game_states[g]: status, player_count, players[] and teams[]
    gl            \* where the gameloop process is

vars == <<clients, packet, recv, screen, lobbies, game_states, gl>>

-----------------------------------------------------------------------------
(* The points where a receive thread or the gameloop can be held up.       *)

Down          == [at |-> "down", lobby |-> NULL, seat |-> NULL, to |-> NULL, todo |-> <<>>]
Poll          == [Down EXCEPT !.at = "poll"]
SpinNextLobby(l) == [Down EXCEPT !.at = "spin", !.lobby = l + 1]    \* mutant of Spin
Spin(l)       == [Down EXCEPT !.at = "spin", !.lobby = l]
Chat(i, c)    == [Down EXCEPT !.at = "chat", !.seat = i, !.to = c]
Send(c, pids) == [Down EXCEPT !.at = "send", !.to = c, !.todo = pids]

Idle    == [at |-> "idle", unit |-> NULL, seat |-> NULL, to |-> NULL, gs |-> NULL]
Stopped == [Idle EXCEPT !.at = "stopped"]
Start(l) == [Idle EXCEPT !.at = "start", !.unit = l]
Waiting(at, u, i, c, g) == [at |-> at, unit |-> u, seat |-> i, to |-> c, gs |-> g]

IsFirst(i, S) == i \in S /\ \A j \in S : i <= j

(* A send_* function waits until the mailbox is empty and fills it.        *)
FillAtOnce(c, pid) == packet' = [packet EXCEPT ![c] = pid]          \* mutant of Fill
Fill(c, pid) == packet[c] = "none" /\ packet' = [packet EXCEPT ![c] = pid]

-----------------------------------------------------------------------------
(* init_server; the mapping is zero-filled, so players[] holds client id 0. *)

EmptyLobby == [client_count |-> 0, clients |-> [i \in Seats |-> NULL]]

FreeGame == [status |-> "FREE", player_count |-> 0,
             players |-> [i \in Seats |-> 0],
             ready   |-> [i \in Seats |-> FALSE],
             active  |-> [t \in Teams |-> 0]]

NewClient == [taken |-> TRUE, state |-> "JOIN", lobby |-> NULL,
              game_state |-> NULL, player |-> NoPlayer]

Init ==
    /\ clients = [c \in Clients |-> [NewClient EXCEPT !.taken = FALSE]]
    /\ packet = [c \in Clients |-> "none"]
    /\ recv = [c \in Clients |-> Down]
    /\ screen = [c \in Clients |-> "JOIN"]
    /\ lobbies = [l \in Lobbies |-> EmptyLobby]
    /\ game_states = [g \in Games |-> FreeGame]
    /\ gl = Idle

-----------------------------------------------------------------------------
(* Connections *)

(* accept_clients, get_free_client, init_client, process_client *)
Connect(c) ==
    /\ IsFirst(c, {d \in Clients : ~clients[d].taken})
    /\ clients' = [clients EXCEPT ![c] = NewClient]
    /\ packet' = [packet EXCEPT ![c] = "none"]
    /\ recv' = [recv EXCEPT ![c] = Poll]
    /\ screen' = [screen EXCEPT ![c] = "JOIN"]
    /\ UNCHANGED <<lobbies, game_states, gl>>

(* remove_client_from_lobby *)
LobbiesWithout(c) ==
    LET l == clients[c].lobby
        S == {i \in Seats : lobbies[l].clients[i] = c}
    IN  IF l = NULL \/ S = {} THEN lobbies
        ELSE [lobbies EXCEPT ![l] =
                [client_count |-> @.client_count - 1,
                 clients |-> [i \in Seats |-> IF IsFirst(i, S) THEN NULL ELSE @.clients[i]]]]

(* Mutant of GamesWithout: the player entry keeps the client id. *)
GamesWithoutEntry(c) ==
    LET p == clients[c].player IN
    IF clients[c].game_state = NULL \/ p = NoPlayer THEN game_states
    ELSE [game_states EXCEPT ![clients[c].game_state].active[TeamOf(p.seat)] = @ - 1]

(* remove_client_from_game_state *)
GamesWithout(c) ==
    LET p == clients[c].player IN
    IF clients[c].game_state = NULL \/ p = NoPlayer THEN game_states
    ELSE [game_states EXCEPT
            ![p.game].players[p.seat] = NULL,
            ![clients[c].game_state].active[TeamOf(p.seat)] = @ - 1]

(* Mutant of Reset: the player pointer stays. *)
ResetWithoutPlayer(c) == [clients[c] EXCEPT !.state = "JOIN", !.lobby = NULL, !.game_state = NULL]

(* reset_client: player is left alone when game_state is NULL. *)
Reset(c) == [clients[c] EXCEPT
                !.state = "JOIN", !.lobby = NULL, !.game_state = NULL,
                !.player = IF clients[c].game_state = NULL THEN @ ELSE NoPlayer]

ResetClient(c, taken) ==
    /\ clients' = [clients EXCEPT ![c] = [Reset(c) EXCEPT !.taken = taken]]
    /\ lobbies' = LobbiesWithout(c)
    /\ game_states' = GamesWithout(c)

(* recv() returns 0 or an error: remove_client, exit *)
Disconnect(c) ==
    /\ "disconnect" \in Inputs
    /\ recv[c].at = "poll"
    /\ ResetClient(c, FALSE)
    /\ recv' = [recv EXCEPT ![c] = Down]
    /\ UNCHANGED <<packet, screen, gl>>

(* The peer is gone and the send thread writes to the socket before the    *)
(* receive thread notices: SIGPIPE ends the process, nothing is cleaned up. *)
Kill(c) ==
    /\ "kill" \in Inputs
    /\ recv[c].at # "down" /\ packet[c] # "none"
    /\ recv' = [recv EXCEPT ![c] = Down]
    /\ UNCHANGED <<clients, packet, screen, lobbies, game_states, gl>>

-----------------------------------------------------------------------------
(* Packets from the client *)

(* process_join *)
ProcessJoin(c) ==
    /\ recv[c].at = "poll" /\ screen[c] = "JOIN"
    /\ clients[c].state = "JOIN"
    /\ \/ /\ clients' = [clients EXCEPT ![c].state = "MENU"]
          /\ recv' = [recv EXCEPT ![c] = Send(c, <<"ACCEPT">>)]
       \/ /\ "bad_name" \in Inputs
          /\ recv' = [recv EXCEPT ![c] = Send(c, <<"ACCEPT_ERROR", "MESSAGE">>)]
          /\ UNCHANGED clients
    /\ UNCHANGED <<packet, screen, lobbies, game_states, gl>>

(* process_game_type *)
ProcessGameType(c, l) ==
    /\ recv[c].at = "poll" /\ screen[c] = "MENU"
    /\ clients[c].state = "MENU"
    /\ recv' = [recv EXCEPT ![c] = Spin(l)]
    /\ UNCHANGED <<clients, packet, screen, lobbies, game_states, gl>>

(* add_client_to_lobby, once the lobby is not full *)
AddClientToLobby(c) ==
    LET l == recv[c].lobby
        S == {i \in 0 .. LobbySize[l] - 1 : lobbies[l].clients[i] = NULL}
    IN  /\ recv[c].at = "spin"
        /\ lobbies[l].client_count # LobbySize[l]
        /\ clients' = [clients EXCEPT ![c].lobby = l, ![c].state = "LOBBY"]
        /\ lobbies' = [lobbies EXCEPT ![l] =
               [client_count |-> IF S = {} THEN @.client_count ELSE @.client_count + 1,
                clients |-> [i \in Seats |-> IF IsFirst(i, S) THEN c ELSE @.clients[i]]]]
        /\ recv' = [recv EXCEPT ![c] = Poll]
        /\ UNCHANGED <<packet, screen, game_states, gl>>

(* The loop of process_message_from_client from slot i on: the lobby       *)
(* pointer is read anew for every slot, and a NULL one ends the process.   *)
(* A message is for all or for one; slots of the others are passed over.   *)
ChatFrom(c, i) ==
    LET l == clients[c].lobby
        S == {j \in i .. LobbySize[l] - 1 : lobbies[l].clients[j] # NULL}
    IN  \/ l = NULL /\ recv' = [recv EXCEPT ![c] = Down]
        \/ l # NULL /\ recv' = [recv EXCEPT ![c] = Poll]
        \/ l # NULL /\ \E j \in S : recv' = [recv EXCEPT ![c] = Chat(j, lobbies[l].clients[j])]

ProcessMessage(c) ==
    /\ "message" \in Inputs
    /\ recv[c].at = "poll" /\ screen[c] = "LOBBY"
    /\ ChatFrom(c, 0)
    /\ UNCHANGED <<clients, packet, screen, lobbies, game_states, gl>>

(* send_message_from_server to the client in the current slot *)
SendChat(c) ==
    /\ recv[c].at = "chat"
    /\ Fill(recv[c].to, "MESSAGE")
    /\ ChatFrom(c, recv[c].seat + 1)
    /\ UNCHANGED <<clients, screen, lobbies, game_states, gl>>

(* process_player_ready; the renderer repeats the packet on every frame *)
ProcessPlayerReady(c) ==
    LET p == clients[c].player IN
    /\ recv[c].at = "poll" /\ screen[c] = "LOADING"
    /\ clients[c].state = "LOADING" /\ p # NoPlayer
    /\ ~game_states[p.game].ready[p.seat]
    /\ game_states' = [game_states EXCEPT ![p.game].ready[p.seat] = TRUE]
    /\ UNCHANGED <<clients, packet, recv, screen, lobbies, gl>>

(* Mutant of ReturnToMenu: the pointer to the game stays. *)
ReturnToMenuWithGame(p) ==
    LET c == game_states[p.game].players[p.seat] IN
    /\ clients' = [clients EXCEPT ![c].player = NoPlayer, ![c].state = "MENU"]
    /\ game_states' = [game_states EXCEPT ![p.game].players[p.seat] = NULL]

(* send_return_to_menu_to_player up to its wait; p names the player entry, *)
(* whose client_id is not -1.                                              *)
ReturnToMenu(p) ==
    LET c == game_states[p.game].players[p.seat] IN
    /\ clients' = [clients EXCEPT ![c].game_state = NULL,
                                  ![c].player = NoPlayer,
                                  ![c].state = "MENU"]
    /\ game_states' = [game_states EXCEPT ![p.game].players[p.seat] = NULL]

(* process_player_input with the exit bit, outside the statistics *)
ProcessExit(c) ==
    /\ "exit" \in Inputs
    /\ recv[c].at = "poll" /\ screen[c] # "JOIN"
    /\ clients[c].state # "STATISTICS"
    /\ ResetClient(c, clients[c].taken)
    /\ recv' = [recv EXCEPT ![c] = Send(c, <<"RETURN_TO_JOIN">>)]
    /\ UNCHANGED <<packet, screen, gl>>

(* process_player_input with the exit bit in the statistics: a NULL player *)
(* ends the process.                                                       *)
ProcessExitStatistics(c) ==
    LET p == clients[c].player IN
    /\ "exit" \in Inputs
    /\ recv[c].at = "poll" /\ screen[c] # "JOIN"
    /\ clients[c].state = "STATISTICS"
    /\ IF p = NoPlayer
       THEN recv' = [recv EXCEPT ![c] = Down] /\ UNCHANGED <<clients, game_states>>
       ELSE /\ game_states[p.game].players[p.seat] # NULL
            /\ ReturnToMenu(p)
            /\ recv' = [recv EXCEPT ![c] =
                         Send(game_states[p.game].players[p.seat], <<"RETURN_TO_MENU">>)]
    /\ UNCHANGED <<packet, screen, lobbies, gl>>

(* send_accept, send_message_from_server, send_return_to_* of a receive thread *)
SendReply(c) ==
    /\ recv[c].at = "send"
    /\ Fill(recv[c].to, Head(recv[c].todo))
    /\ recv' = [recv EXCEPT ![c] =
                 IF Len(recv[c].todo) = 1 THEN Poll
                 ELSE Send(recv[c].to, Tail(recv[c].todo))]
    /\ UNCHANGED <<clients, screen, lobbies, game_states, gl>>

(* The client's process_*: what a packet does to the screen. *)
ScreenAfter(s, pid) ==
    CASE pid = "ACCEPT"         /\ s = "JOIN"       -> "MENU"
      [] pid = "LOBBY"          /\ s = "MENU"       -> "LOBBY"
      [] pid = "GAME_READY"     /\ s = "LOBBY"      -> "LOADING"
      [] pid = "GAME_STATE"     /\ s = "LOADING"    -> "GAME"
      [] pid = "GAME_END"       /\ s = "GAME"       -> "STATISTICS"
      [] pid = "RETURN_TO_MENU" /\ s = "STATISTICS" -> "MENU"
      [] pid = "RETURN_TO_JOIN"                     -> "JOIN"
      [] OTHER                                      -> s

(* send_server_packets, the send thread of the client's process *)
SendServerPacket(c) ==
    /\ recv[c].at # "down" /\ packet[c] # "none"
    /\ packet' = [packet EXCEPT ![c] = "none"]
    /\ screen' = [screen EXCEPT ![c] = ScreenAfter(screen[c], packet[c])]
    /\ UNCHANGED <<clients, recv, lobbies, game_states, gl>>

-----------------------------------------------------------------------------
(* The gameloop: lobbies *)

(* send_lobby_to_all_clients_in_the_lobby from slot i on; at is "full"     *)
(* when update_lobby found the lobby full, and a game is started after it. *)
LobbyFrom(at, l, i) ==
    LET S == {j \in i .. LobbySize[l] - 1 :
                /\ lobbies[l].clients[j] # NULL
                /\ clients[lobbies[l].clients[j]].lobby # NULL}
    IN  \/ S = {} /\ gl' = (IF at = "full" THEN Start(l) ELSE Idle)
        \/ \E j \in S : /\ IsFirst(j, S)
                        /\ gl' = Waiting(at, l, j, lobbies[l].clients[j], NULL)

UpdateLobby(l) ==
    /\ gl.at = "idle"
    /\ LobbyFrom(IF lobbies[l].client_count = LobbySize[l] THEN "full" ELSE "lobby", l, 0)
    /\ UNCHANGED <<clients, packet, recv, screen, lobbies, game_states>>

(* send_lobby after its wait reads client->lobby again. *)
SendLobby ==
    /\ gl.at \in {"lobby", "full"}
    /\ packet[gl.to] = "none"
    /\ IF clients[gl.to].lobby = NULL
       THEN gl' = Stopped /\ UNCHANGED packet
       ELSE Fill(gl.to, "LOBBY") /\ LobbyFrom(gl.at, gl.unit, gl.seat + 1)
    /\ UNCHANGED <<clients, recv, screen, lobbies, game_states>>

(* c->id, which is -1 once the record is given back *)
IdOf(c) == IF c \in Clients /\ clients[c].taken THEN c ELSE NULL

(* init_game_1v1 and init_game_2v2 on a lobby whose count is max_clients *)
InitGame(g, l, n) ==
    [game_states[g] EXCEPT
        !.status = "LOADING",
        !.player_count = n,
        !.players = [i \in Seats |-> IF i < n THEN IdOf(lobbies[l].clients[i]) ELSE @[i]],
        !.ready = [i \in Seats |-> IF i < n THEN FALSE ELSE @[i]],
        !.active = [t \in Teams |-> Cardinality({i \in 0 .. n - 1 : TeamOf(i) = t})]]

FreeGamesFromOne == {g \in Games \ {0} : game_states[g].status = "FREE"}  \* mutant of FreeGames

(* get_free_game_state looks for the first of these. *)
FreeGames == {g \in Games : game_states[g].status = "FREE"}

(* The clients whose pointers the loop over the first client_count slots sets *)
Dealt(l) == {lobbies[l].clients[i] : i \in 0 .. lobbies[l].client_count - 1}

Deal(c, g) == [clients[c] EXCEPT !.lobby = NULL, !.game_state = g, !.state = "LOADING"]

(* The seats are dealt in the order of the lobby; a client with two places *)
(* keeps the pointer that is written last.                                 *)
SeatOf(c, l) ==
    CHOOSE i \in 0 .. LobbySize[l] - 1 :
        /\ lobbies[l].clients[i] = c
        /\ \A j \in 0 .. LobbySize[l] - 1 : lobbies[l].clients[j] = c => j <= i

(* The rest of update_lobby.  init_game_* rejects a lobby whose count has  *)
(* changed; it dereferences every slot of a full one.                      *)
StartGame ==
    LET l == gl.unit
        n == LobbySize[l]
    IN  /\ gl.at = "start"
        /\ \/ /\ FreeGames = {}
              /\ gl' = Idle
              /\ UNCHANGED <<clients, lobbies, game_states>>
           \/ \E g \in FreeGames :
              /\ IsFirst(g, FreeGames)
              /\ IF lobbies[l].client_count = n
                 THEN /\ clients' = [c \in Clients |->
                            IF c \notin Dealt(l) THEN clients[c]
                            ELSE [Deal(c, g) EXCEPT
                                    !.player = [game |-> g, seat |-> SeatOf(c, l)]]]
                      /\ game_states' = [game_states EXCEPT ![g] = InitGame(g, l, n)]
                      /\ gl' = IF NULL \in Dealt(l) THEN Stopped ELSE Idle
                 ELSE /\ clients' = [c \in Clients |->
                            IF c \notin Dealt(l) THEN clients[c] ELSE Deal(c, g)]
                      /\ game_states' = [game_states EXCEPT ![g].status = "TAKEN"]
                      /\ gl' = Idle
              /\ lobbies' = [lobbies EXCEPT ![l] = EmptyLobby]
        /\ UNCHANGED <<packet, recv, screen>>

-----------------------------------------------------------------------------
(* The gameloop: games (update_game for a game whose interval has passed) *)

Active(g) == 0 .. game_states[g].player_count - 1
Connected(g, i, n) == {j \in i .. n - 1 : game_states[g].players[j] # NULL}
AllPlayersReady(g) == \A i \in Active(g) : game_states[g].ready[i]
AllPlayersConnected(g) == \A i \in Active(g) : game_states[g].players[i] # NULL  \* mutant of:
AllPlayersDisconnected(g) == \A i \in Active(g) : game_states[g].players[i] = NULL
SetStatus(g, s) == game_states' = [game_states EXCEPT ![g].status = s]

(* The pointer read before the wait of send_game_*; it is dereferenced after. *)
WaitFor(at, g, j) ==
    LET c == game_states[g].players[j] IN
    gl' = Waiting(at, g, j, c, IF c = NULL THEN NULL ELSE clients[c].game_state)

(* Mutant of ReadyFrom: the last player is left out. *)
ReadyExceptLast(g, i) ==
    \/ i + 1 \notin Active(g) /\ gl' = Idle
    \/ i + 1 \in Active(g) /\ WaitFor("ready", g, i)

(* send_game_ready_to_all_players from player i on; a player who left has  *)
(* client_id -1 and the loop uses &clients[-1].                            *)
ReadyFrom(g, i) ==
    \/ i \notin Active(g) /\ gl' = Idle
    \/ i \in Active(g) /\ WaitFor("ready", g, i)

(* set_all_player_client_status_to_game, or send_game_ready_to_all_players. *)
(* What clients[-1].state overwrites is not part of this memory; the write  *)
(* may also end the process.                                                *)
UpdateLoading(g) ==
    /\ gl.at = "idle" /\ game_states[g].status = "LOADING"
    /\ \/ /\ AllPlayersReady(g)
          /\ \/ /\ clients' = [c \in Clients |->
                     IF \E i \in Active(g) : game_states[g].players[i] = c
                     THEN [clients[c] EXCEPT !.state = "GAME"] ELSE clients[c]]
                /\ SetStatus(g, "IN_PROGRESS")
                /\ UNCHANGED gl
             \/ /\ \E i \in Active(g) : game_states[g].players[i] = NULL
                /\ gl' = Stopped
                /\ UNCHANGED <<clients, game_states>>
       \/ /\ ~AllPlayersReady(g)
          /\ ReadyFrom(g, 0)
          /\ UNCHANGED <<clients, game_states>>
    /\ UNCHANGED <<packet, recv, screen, lobbies>>

(* send_game_ready; clients[-1] is foreign memory: the process may die, or *)
(* find garbage it can read and go on.                                     *)
SendGameReady ==
    /\ gl.at = "ready"
    /\ \/ gl.to = NULL /\ UNCHANGED packet
          /\ (gl' = Stopped \/ ReadyFrom(gl.unit, gl.seat + 1))
       \/ gl.to # NULL /\ packet[gl.to] = "none" /\ gl.gs = NULL
          /\ gl' = Stopped /\ UNCHANGED packet
       \/ gl.to # NULL /\ gl.gs # NULL
          /\ Fill(gl.to, "GAME_READY") /\ ReadyFrom(gl.unit, gl.seat + 1)
    /\ UNCHANGED <<clients, recv, screen, lobbies, game_states>>

(* send_game_state_to_all_players from player i on *)
StateFrom(g, i) ==
    LET S == Connected(g, i, game_states[g].player_count) IN
    \/ S = {} /\ gl' = Idle
    \/ \E j \in S : IsFirst(j, S) /\ WaitFor("state", g, j)

(* update_game_state decides whether the game is over (module Match looks  *)
(* inside): a team without active players ends it, a goal may win it.      *)
UpdateInProgress(g) ==
    /\ gl.at = "idle" /\ game_states[g].status = "IN_PROGRESS"
    /\ \/ SetStatus(g, "SUCCESS")
       \/ (\E t \in Teams : game_states[g].active[t] = 0) /\ SetStatus(g, "ALL_TEAM_LEFT")
       \/ (\A t \in Teams : game_states[g].active[t] # 0) /\ UNCHANGED game_states
    /\ StateFrom(g, 0)
    /\ UNCHANGED <<clients, packet, recv, screen, lobbies>>

(* send_game_state *)
SendGameState ==
    /\ gl.at = "state"
    /\ packet[gl.to] = "none"
    /\ IF gl.gs = NULL THEN gl' = Stopped /\ UNCHANGED packet
       ELSE Fill(gl.to, "GAME_STATE") /\ StateFrom(gl.unit, gl.seat + 1)
    /\ UNCHANGED <<clients, recv, screen, lobbies, game_states>>

(* send_game_statistics_to_all_players from player i on: the next connected *)
(* player's client is put in the statistics before its packets are sent.    *)
EndFrom(g, i) ==
    LET S == Connected(g, i, game_states[g].player_count) IN
    \/ S = {} /\ SetStatus(g, "STATISTICS") /\ gl' = Idle /\ UNCHANGED clients
    \/ \E j \in S :
         /\ IsFirst(j, S)
         /\ clients' = [clients EXCEPT ![game_states[g].players[j]].state = "STATISTICS"]
         /\ WaitFor("end", g, j)
         /\ UNCHANGED game_states

(* Mutant of Over: > for >= *)
OverButSuccess(g) == game_states[g].status \in {"CLIENT_FAILED_TO_LOAD", "ALL_TEAM_LEFT"}

(* status >= GAME_STATE_STATUS_SUCCESS *)
Over(g) == game_states[g].status \in {"SUCCESS", "CLIENT_FAILED_TO_LOAD", "ALL_TEAM_LEFT"}

UpdateOver(g) ==
    /\ gl.at = "idle" /\ Over(g)
    /\ EndFrom(g, 0)
    /\ UNCHANGED <<packet, recv, screen, lobbies>>

(* send_game_end dereferences client->player after the wait; an error is   *)
(* followed by a message.                                                  *)
SendGameEnd ==
    /\ gl.at = "end"
    /\ packet[gl.to] = "none"
    /\ IF gl.gs = NULL \/ clients[gl.to].player = NoPlayer
       THEN gl' = Stopped /\ UNCHANGED <<clients, packet, game_states>>
       ELSE /\ Fill(gl.to, "GAME_END")
            /\ IF game_states[gl.unit].status = "SUCCESS"
               THEN EndFrom(gl.unit, gl.seat + 1)
               ELSE gl' = [gl EXCEPT !.at = "error"] /\ UNCHANGED <<clients, game_states>>
    /\ UNCHANGED <<recv, screen, lobbies>>

(* send_message_from_server with the reason *)
SendError ==
    /\ gl.at = "error"
    /\ Fill(gl.to, "MESSAGE")
    /\ EndFrom(gl.unit, gl.seat + 1)
    /\ UNCHANGED <<recv, screen, lobbies>>

(* send_return_to_menu_to_all_players from player i on: it runs over all of *)
(* players[], not only the first player_count.                              *)
MenuFrom(g, i) ==
    LET S == Connected(g, i, MaxPlayers) IN
    \/ S = {} /\ SetStatus(g, "FREE") /\ gl' = Idle /\ UNCHANGED clients
    \/ \E j \in S :
         /\ IsFirst(j, S)
         /\ ReturnToMenu([game |-> g, seat |-> j])
         /\ gl' = Waiting("menu", g, j, game_states[g].players[j], NULL)

(* Nobody is left, or STATISTICS_DURATION has passed. *)
UpdateStatistics(g) ==
    /\ gl.at = "idle" /\ game_states[g].status = "STATISTICS"
    /\ \/ /\ AllPlayersDisconnected(g)
          /\ SetStatus(g, "FREE")
          /\ UNCHANGED <<clients, gl>>
       \/ /\ ~AllPlayersDisconnected(g)
          /\ MenuFrom(g, 0)
    /\ UNCHANGED <<packet, recv, screen, lobbies>>

(* send_return_to_menu *)
SendReturnToMenu ==
    /\ gl.at = "menu"
    /\ Fill(gl.to, "RETURN_TO_MENU")
    /\ MenuFrom(gl.unit, gl.seat + 1)
    /\ UNCHANGED <<recv, screen, lobbies>>

-----------------------------------------------------------------------------
ClientStep(c) ==
    \/ Connect(c) \/ Disconnect(c) \/ Kill(c)
    \/ ProcessJoin(c) \/ \E l \in Lobbies : ProcessGameType(c, l)
    \/ AddClientToLobby(c) \/ ProcessMessage(c) \/ SendChat(c)
    \/ ProcessPlayerReady(c) \/ ProcessExit(c) \/ ProcessExitStatistics(c)
    \/ SendReply(c) \/ SendServerPacket(c)

UpdateGame(g) ==
    UpdateLoading(g) \/ UpdateInProgress(g) \/ UpdateOver(g) \/ UpdateStatistics(g)

Gameloop ==
    \/ \E l \in Lobbies : UpdateLobby(l)
    \/ SendLobby \/ StartGame
    \/ \E g \in Games : UpdateGame(g)
    \/ SendGameReady \/ SendGameState \/ SendGameEnd \/ SendError \/ SendReturnToMenu

Next == Gameloop \/ \E c \in Clients : ClientStep(c)

Spec == Init /\ [][Next]_vars

(* The gameloop visits its lobbies and games in turn and clock() advances  *)
(* while it does, so each is served again and again; the threads are       *)
(* scheduled; a send thread sends; the renderer repeats PLAYER_READY.      *)
Fairness ==
    /\ \A l \in Lobbies : SF_vars(UpdateLobby(l))
    /\ \A g \in Games : SF_vars(UpdateGame(g))
    /\ WF_vars(SendLobby) /\ WF_vars(StartGame)
    /\ WF_vars(SendGameReady \/ SendGameState \/ SendGameEnd \/ SendError \/ SendReturnToMenu)
    /\ \A c \in Clients : /\ WF_vars(AddClientToLobby(c)) /\ WF_vars(SendChat(c))
                          /\ WF_vars(SendReply(c)) /\ WF_vars(SendServerPacket(c))
                          /\ WF_vars(ProcessPlayerReady(c))

FairSpec == Spec /\ Fairness

-----------------------------------------------------------------------------
(* Type invariant *)

ClientType == [taken : BOOLEAN, state : Screens, lobby : Lobbies \cup {NULL},
               game_state : Games \cup {NULL},
               player : [game : Games, seat : Seats] \cup {NoPlayer}]

LobbyType == [client_count : Int, clients : [Seats -> Clients \cup {NULL}]]

GameType == [status : Statuses, player_count : 0 .. MaxPlayers,
             players : [Seats -> Clients \cup {NULL}],
             ready : [Seats -> BOOLEAN], active : [Teams -> Int]]

Replies == Seq(PacketIds) \ {<<>>}

RecvType ==
    [at : {"down", "poll"}, lobby : {NULL}, seat : {NULL}, to : {NULL}, todo : {<<>>}]
    \cup [at : {"spin"}, lobby : Lobbies, seat : {NULL}, to : {NULL}, todo : {<<>>}]
    \cup [at : {"chat"}, lobby : {NULL}, seat : Seats, to : Clients, todo : {<<>>}]
    \cup [at : {"send"}, lobby : {NULL}, seat : {NULL}, to : Clients, todo : Replies]

LoopType ==
    [at : {"idle", "stopped"}, unit : {NULL}, seat : {NULL}, to : {NULL}, gs : {NULL}]
    \cup [at : {"start"}, unit : Lobbies, seat : {NULL}, to : {NULL}, gs : {NULL}]
    \cup [at : {"lobby", "full"}, unit : Lobbies, seat : Seats, to : Clients, gs : {NULL}]
    \cup [at : {"ready"}, unit : Games, seat : Seats,
          to : Clients \cup {NULL}, gs : Games \cup {NULL}]
    \cup [at : {"state", "end", "error"}, unit : Games, seat : Seats,
          to : Clients, gs : Games \cup {NULL}]
    \cup [at : {"menu"}, unit : Games, seat : Seats, to : Clients, gs : {NULL}]

(* Every record of the shared memory holds values of its C type that the   *)
(* code gives a meaning to; pointers are NULL or point at a record.        *)
TypeOK ==
    /\ clients \in [Clients -> ClientType]
    /\ packet \in [Clients -> PacketIds \cup {"none"}]
    /\ recv \in [Clients -> RecvType]
    /\ screen \in [Clients -> Screens]
    /\ lobbies \in [Lobbies -> LobbyType]
    /\ game_states \in [Games -> GameType]
    /\ gl \in LoopType

-----------------------------------------------------------------------------
(* Safety                                                                  *)
(*                                                                         *)
(* Where a lobby is smaller than players[] (the 1v1 lobby of the program), *)
(* init_game_1v1 leaves entries of players[] alone; they hold the 0 of the *)
(* zero-filled mapping, and the loop that sends the players back to the    *)
(* menu takes the client in slot 0 for a player of every game that ends.   *)
(* The properties of the records therefore speak of the clients in the     *)
(* other slots, of all clients where every lobby fills players[] (2v2).    *)

TablesFull == \A l \in Lobbies : LobbySize[l] = MaxPlayers

(* The clients that no unused entry of players[] can name *)
Spared == IF TablesFull THEN Clients ELSE Clients \ {0}

Live(g) == game_states[g].status \notin {"FREE", "TAKEN"}

(* client->player and players[].client_id are two halves of one link that  *)
(* the gameloop makes and the receive threads cut: whoever points at an    *)
(* entry of a game is named by that entry and plays in that game.          *)
PointersAgree ==
    \A c \in Spared : LET p == clients[c].player IN
        p # NoPlayer =>
            /\ Live(p.game) /\ p.seat \in Active(p.game)
            /\ game_states[p.game].players[p.seat] = c
            /\ clients[c].game_state = p.game

(* The other half: a live game never keeps an entry for a client that has  *)
(* gone, returned to the menu or plays elsewhere.                          *)
PlayersPointBack ==
    \A g \in Games : Live(g) => \A i \in Seats :
        LET c == game_states[g].players[i] IN
        c \in Spared => i \in Active(g) /\ clients[c].player = [game |-> g, seat |-> i]

(* A game record is only reused when no client points at it any more.      *)
FreeGameUnreferenced ==
    \A c \in Spared, g \in Games : clients[c].game_state = g => game_states[g].status # "FREE"

(* The connected players of team t *)
TeamPlayers(g, t) == {i \in Active(g) : TeamOf(i) = t /\ game_states[g].players[i] # NULL}

Playing(g) == game_states[g].status \in {"LOADING", "IN_PROGRESS"}

(* active_player_count, from which update_game_state concludes that a team *)
(* left, counts the team's connected players.                              *)
ActiveCountExact ==
    \A g \in Games, t \in Teams : Playing(g) =>
        game_states[g].active[t] = Cardinality(TeamPlayers(g, t))

(* In every server a team counts as gone only when it is: the counter does *)
(* not fall below the number of its connected players, whichever way they  *)
(* leave and whatever entries name the client in slot 0.                   *)
TeamsAreNotGivenUp ==
    \A g \in Games, t \in Teams : Playing(g) =>
        game_states[g].active[t] >= Cardinality(TeamPlayers(g, t))

(* After remove_client nothing in a lobby or a live game names the slot, so *)
(* the next client that gets it starts from nothing.                        *)
RemovedClientForgotten ==
    \A c \in Spared : ~clients[c].taken =>
        /\ recv[c].at = "down"
        /\ \A l \in Lobbies, i \in Seats : lobbies[l].clients[i] # c
        /\ \A g \in Games, i \in Seats : Live(g) => game_states[g].players[i] # c

(* No packet to c meets a screen whose process_* handler calls it an       *)
(* "Invalid client state" or drops it.                                     *)
Expected(c) ==
    /\ packet[c] \in {"ACCEPT", "ACCEPT_ERROR"} => screen[c] = "JOIN"
    /\ packet[c] = "LOBBY"          => screen[c] \in {"MENU", "LOBBY"}
    /\ packet[c] = "GAME_READY"     => screen[c] \in {"LOBBY", "LOADING"}
    /\ packet[c] = "GAME_STATE"     => screen[c] \in {"LOADING", "GAME"}
    /\ packet[c] = "GAME_END"       => screen[c] = "GAME"
    /\ packet[c] = "RETURN_TO_MENU" => screen[c] = "STATISTICS"

(* Clients and server run in step while nobody quits.  (A client that quits *)
(* while the gameloop waits to send to it gets that packet on the join      *)
(* screen.)                                                                 *)
PacketExpected == \A c \in Spared : Expected(c)

-----------------------------------------------------------------------------
(* Liveness, while every client stays *)

(* A lobby that fills up is emptied into a game: update_lobby finds a free *)
(* game record for it sooner or later.                                     *)
FullLobbyStarts ==
    \A l \in Lobbies : lobbies[l].client_count = LobbySize[l] ~> lobbies[l].client_count = 0

(* Loading ends: GAME_READY reaches every client, every client answers and *)
(* the answers are seen by the gameloop.                                   *)
LoadingEnds ==
    \A g \in Games : game_states[g].status = "LOADING" ~> game_states[g].status = "IN_PROGRESS"

(* A game that is over passes through the statistics and is freed.         *)
OverGamesAreFreed ==
    \A g \in Games : game_states[g].status = "SUCCESS" ~> game_states[g].status = "FREE"

(* A client that the server puts in the statistics sees the main menu again. *)
EveryoneReturns ==
    \A c \in Clients : clients[c].state = "STATISTICS" ~> screen[c] = "MENU"
=============================================================================
