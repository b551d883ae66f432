--------------------------- MODULE PongServerInv ---------------------------
(***************************************************************************)
(* The inductive invariant of PongServer behind PointersAgree and the      *)
(* properties that go with it.                                             *)
(*                                                                         *)
(* It speaks of the spared clients, those that no unused entry of          *)
(* players[] can name.                                                     *)
(***************************************************************************)
EXTENDS PongServer

(* Whoever points at an entry of a game is named by it; of a spared client *)
(* the two pointers agree.                                                 *)
PointersNamed ==
    \A c \in Clients : LET p == clients[c].player IN
        p # NoPlayer /\ (clients[c].taken \/ c \in Spared) =>
            /\ Live(p.game) /\ p.seat \in Active(p.game)
            /\ game_states[p.game].players[p.seat] = c
            /\ clients[c].game_state # NULL
            /\ c \in Spared => clients[c].game_state = p.game

(* A spared client knows every entry that names it. *)
SparedPointBack ==
    \A g \in Games : Live(g) => \A i \in Active(g) :
        LET c == game_states[g].players[i] IN
        c \in Spared => clients[c].player = [game |-> g, seat |-> i]

(* An entry that no game uses is empty or as it was mapped. *)
UnusedEntries ==
    \A g \in Games, i \in Seats :
        ~(Live(g) /\ i \in Active(g)) => game_states[g].players[i] \in {0, NULL}

GameStatesFull == \A g \in Games : Live(g) => game_states[g].player_count = MaxPlayers

(* A seated client knows its lobby, plays nowhere and sits only there. *)
SeatedInLobby ==
    \A l \in Lobbies, i \in Seats :
        LET c == lobbies[l].clients[i] IN
        c \in Spared => /\ clients[c].lobby = l
                        /\ clients[c].state = "LOBBY"
                        /\ clients[c].game_state = NULL
                        /\ \A j \in Seats : lobbies[l].clients[j] = c => j = i

(* client_count counts the occupied places, which are the first ones. *)
Occupied(l) == {i \in Seats : lobbies[l].clients[i] # NULL}

LobbyCounts ==
    \A l \in Lobbies :
        /\ lobbies[l].client_count = Cardinality(Occupied(l))
        /\ Occupied(l) \subseteq 0 .. LobbySize[l] - 1

(* Before the lobby a client points nowhere. *)
NoPointersBeforeLobby ==
    \A c \in Spared : clients[c].state \in {"JOIN", "MENU"} =>
        clients[c].lobby = NULL /\ clients[c].game_state = NULL

(* A client with a player entry is in a game and in no lobby. *)
PlayersInGame ==
    \A c \in Spared : clients[c].player # NoPlayer =>
        clients[c].lobby = NULL /\ clients[c].state \in {"LOADING", "GAME", "STATISTICS"}

(* A game pointer without a player entry is left by a start that init_game_* *)
(* rejected; that record stays TAKEN.                                       *)
PlayerlessGameTaken ==
    \A c \in Spared : clients[c].game_state # NULL /\ clients[c].player = NoPlayer =>
        game_states[clients[c].game_state].status = "TAKEN"

SpinsInMenu == \A c \in Spared : recv[c].at = "spin" => clients[c].state = "MENU"

RemovedIsReset ==
    \A c \in Clients : ~clients[c].taken =>
        /\ recv[c].at = "down"
        /\ c \in Spared => clients[c].state = "JOIN"

(* What the gameloop knows of the game it works on while it waits. *)
LoopKnows ==
    /\ gl.at \in {"end", "error"} => Over(gl.unit)
    /\ gl.at = "menu" =>
        /\ game_states[gl.unit].status = "STATISTICS"
        /\ \A i \in 0 .. gl.seat : game_states[gl.unit].players[i] = NULL

IInv ==
    /\ TypeOK
    /\ PointersNamed /\ SparedPointBack /\ UnusedEntries
    /\ SeatedInLobby /\ LobbyCounts
    /\ NoPointersBeforeLobby /\ PlayersInGame /\ PlayerlessGameTaken
    /\ SpinsInMenu /\ RemovedIsReset /\ (TablesFull => GameStatesFull) /\ LoopKnows

(* A client is never moved from one game into another without leaving      *)
(* the first: its game pointer passes through NULL.                        *)
SparedOneGame ==
    [][\A c \in Spared : clients[c].game_state # NULL =>
         clients'[c].game_state \in {NULL, clients[c].game_state}]_vars

-----------------------------------------------------------------------------
(* The inductive invariant behind PacketExpected.  While nobody quits, the  *)
(* server knows which screens a client can show once it has its mail.       *)

NobodyQuits == {"exit", "disconnect"} \cap Inputs = {}

ScreenAhead(c) == IF packet[c] = "none" THEN screen[c] ELSE ScreenAfter(screen[c], packet[c])

PacketsMeet == \A c \in Spared : Expected(c) /\ packet[c] # "RETURN_TO_JOIN"

Accepting(c) == recv[c].at = "send" /\ recv[c].todo = <<"ACCEPT">>
Returning(c) == gl.at = "menu" /\ gl.to = c

(* What a client in each state of client_info shows.  A process that ends   *)
(* before its ACCEPT or its RETURN_TO_MENU is sent may stop anywhere.       *)
Fits(c) ==
    LET s == ScreenAhead(c)
        State(st) == clients[c].state = st
    IN  /\ State("JOIN") => s = "JOIN"
        /\ State("MENU") /\ Accepting(c) => s = "JOIN"
        /\ State("MENU") /\ Returning(c) => s = "STATISTICS"
        /\ State("MENU") /\ ~Accepting(c) /\ ~Returning(c) /\ recv[c].at # "down" => s = "MENU"
        /\ State("LOBBY") => s \in {"MENU", "LOBBY"}
        /\ State("LOADING") => s \in {"LOBBY", "LOADING"}
        /\ State("GAME") => s \in {"LOADING", "GAME"}
        /\ State("STATISTICS") => s \in {"GAME", "STATISTICS"}

ScreensFit == \A c \in Spared : Fits(c)

(* A receive thread answers its own client, a JOIN only. *)
RepliesFit ==
    \A c \in Clients : recv[c].at = "send" =>
        /\ recv[c].to = c
        /\ recv[c].todo \in {<<"ACCEPT">>, <<"ACCEPT_ERROR", "MESSAGE">>, <<"MESSAGE">>}
        /\ c \in Spared => clients[c].state = IF Accepting(c) THEN "MENU" ELSE "JOIN"

(* The gameloop still waits for whom the lobby or the game names. *)
LoopInStep ==
    /\ gl.at \in {"lobby", "full"} => gl.to = lobbies[gl.unit].clients[gl.seat]
    /\ gl.at \in {"full", "start"} => lobbies[gl.unit].client_count = LobbySize[gl.unit]
    /\ gl.at \in {"ready", "state", "end", "error"} =>
          gl.to = game_states[gl.unit].players[gl.seat]
    /\ gl.at = "ready" => game_states[gl.unit].status = "LOADING"
    /\ gl.at = "state" => game_states[gl.unit].status = "IN_PROGRESS" \/ Over(gl.unit)
    /\ gl.at = "menu" /\ gl.to \in Spared =>
          clients[gl.to].state = "MENU" /\ recv[gl.to].at \notin {"send", "spin"}

(* A full lobby is shown to everybody in it before its game starts. *)
LobbiesInStep ==
    \A l \in Lobbies, i \in Seats, c \in Spared :
        /\ lobbies[l].clients[i] = c
        /\ gl.at \in {"full", "start"} /\ gl.unit = l /\ (gl.at = "full" => i < gl.seat)
        => ScreenAhead(c) = "LOBBY"

(* Of player c in seat i of game g: who has answered a GAME_READY shows the *)
(* loading screen, who plays is shown the game before its end, and the end *)
(* before the menu.                                                        *)
ReadyInStep(g, i, c) ==
    game_states[g].status = "LOADING" =>
        /\ clients[c].state = "LOADING"
        /\ game_states[g].ready[i] => ScreenAhead(c) = "LOADING"

Showing(g) == gl.at = "state" /\ gl.unit = g

StateInStep(g, i, c) ==
    game_states[g].status = "IN_PROGRESS" \/ (Over(g) /\ Showing(g)) =>
        /\ clients[c].state = "GAME"
        /\ Showing(g) /\ i < gl.seat => ScreenAhead(c) = "GAME"

Told(g, i) == gl.at \in {"end", "error"} /\ gl.unit = g /\ i <= gl.seat

EndInStep(g, i, c) ==
    Over(g) /\ ~Showing(g) =>
        /\ clients[c].state = IF Told(g, i) THEN "STATISTICS" ELSE "GAME"
        /\ ScreenAhead(c) =
              IF Told(g, i) /\ ~(gl.at = "end" /\ i = gl.seat) THEN "STATISTICS" ELSE "GAME"

MenuInStep(g, c) ==
    game_states[g].status = "STATISTICS" =>
        clients[c].state = "STATISTICS" /\ ScreenAhead(c) = "STATISTICS"

PlayerInStep(g, i, c) ==
    ReadyInStep(g, i, c) /\ StateInStep(g, i, c) /\ EndInStep(g, i, c) /\ MenuInStep(g, c)

GamesInStep ==
    gl.at # "stopped" =>
        \A g \in Games, i \in Seats, c \in Spared :
            Live(g) /\ game_states[g].players[i] = c => PlayerInStep(g, i, c)

InStep == PacketsMeet /\ ScreensFit /\ RepliesFit /\ LoopInStep /\ LobbiesInStep /\ GamesInStep
=============================================================================
