------------------------ MODULE PongServerMatchmaking ------------------------
(***************************************************************************)
(* The shared memory of the server read as a state of Matchmaking: a       *)
(* client waits in the lobby that clients[c].lobby points at and plays     *)
(* where clients[c].player points.  The stray is the client that unused    *)
(* entries of players[] take for a player of games it is not in.           *)
(***************************************************************************)
EXTENDS PongServerInv

(* The three statuses >= GAME_STATE_STATUS_SUCCESS are one stage. *)
StageOf(status) ==
    [FREE       |-> "free",    TAKEN      |-> "lost",       LOADING |-> "loading",
     IN_PROGRESS |-> "running", STATISTICS |-> "statistics", SUCCESS |-> "over",
     CLIENT_FAILED_TO_LOAD |-> "over", ALL_TEAM_LEFT |-> "over"][status]

Matching == INSTANCE Matchmaking WITH
    Clients    <- Clients,
    Strays     <- Clients \ Spared,
    Games      <- Games,
    Lobbies    <- Lobbies,
    Size       <- LobbySize,
    None       <- NULL,
    NotPlaying <- NoPlayer,
    waiting    <- [c \in Clients |-> clients[c].lobby],
    playing    <- [c \in Clients |-> clients[c].player],
    stage      <- [g \in Games |-> StageOf(game_states[g].status)]

(* The server implements Matchmaking: whatever clients do while it deals   *)
(* them into games, tells them and cuts their pointers one at a time, the  *)
(* lobby, player and status fields together only move as it allows; every  *)
(* seat of a game that starts is somebody's, and nobody but a stray is in  *)
(* two games or keeps a seat on a record that is freed.                    *)
MatchmakingSpec == Matching!Spec
==============================================================================
