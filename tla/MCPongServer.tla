---------------------------- MODULE MCPongServer ----------------------------
(* Instances of PongServer for TLC, and what the comments of the code claim. *)
EXTENDS PongServerMatchmaking, TLC

(* One lobby for two players / for four players. *)
Lobby1v1 == 0 :> 2
Lobby2v2 == 0 :> 4

(* pong_server.c:222, "Starting game loop! (It will run forever - ...)":   *)
(* the gameloop process does not end.                                      *)
GameloopRuns == gl.at # "stopped"

(* The same claim about waiting: a send_* function of the gameloop gets    *)
(* through, and the loop comes round again.                                *)
GameloopComesRound == gl.at \notin {"idle", "stopped"} ~> gl.at \in {"idle", "stopped"}

(* pong_server.h:26, CLIENT_STATE_MENU "player sees the main menu": once   *)
(* nothing is on its way to a client in this state, it shows the menu.     *)
MenuShown ==
    \A c \in Clients :
        /\ clients[c].state = "MENU" /\ packet[c] = "none"
        /\ recv[c].at = "poll" /\ gl.to # c
        => screen[c] = "MENU"

(* pong_server.c:185, "Currently no free game state available (should not  *)
(* happen)".                                                               *)
FreeGameAvailable ==
    gl.at = "start" => \E g \in Games : game_states[g].status = "FREE"

(* pong_server.h:27, CLIENT_STATE_LOBBY "player sees his/her lobby": a     *)
(* client in this state sits in the lobby it points at.                    *)
LobbyHasClient ==
    \A c \in Clients : clients[c].state = "LOBBY" =>
        /\ clients[c].lobby # NULL
        /\ \E i \in Seats : lobbies[clients[c].lobby].clients[i] = c

(* pong_server.c:322, "Client disconnected before the game finished        *)
(* loading": a game that loses a player while it loads ends for that reason. *)
LoadingFailureReported ==
    \A g \in Games :
        game_states[g].status = "LOADING" /\ (\E i \in Active(g) : game_states[g].players[i] = NULL)
        ~> game_states[g].status = "CLIENT_FAILED_TO_LOAD"
=============================================================================
