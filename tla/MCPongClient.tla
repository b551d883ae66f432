----------------------------- MODULE MCPongClient -----------------------------
(* Instances of PongClient, and claims about it that do not hold. *)
EXTENDS PongClient

(* pong_graphics_lobby.c:12, "Adding player names and SEND buttons (for    *)
(* each player)": when the lobby is drawn, packet_buf holds a LOBBY packet. *)
LobbyShowsPlayers ==
    main.at \in {"events", "display"} /\ rend.screen = "LOBBY" => lobbyData

(* The chat is drawn from nodes of the list. *)
ChatListIntact == main.at # "crashed"

(* type_keyboard stays within input_buf. *)
InputInBuffer == text >= 0

(* Only a game has listeners for the keys of the paddle. *)
SpecialMatchesScreen == AtRest /\ rend.special = "game" => rend.screen = "GAME"

(* A game starts with the keys of the paddle up. *)
KeysUp == AtRest /\ rend.screen = "LOADING" => keys \cap PaddleKeys = {}

(* A chat message does not end the connection. *)
ServerStays == server # "gone"

(* pong_game.h:89, PLAYER_READY_TRUE: "player has finished loading the    *)
(* game screen"                                                            *)
ReadyMeansLoaded == server = "READY" => rend.screen = "LOADING"
==============================================================================
