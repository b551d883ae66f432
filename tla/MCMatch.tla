------------------------------- MODULE MCMatch -------------------------------
(* Instances of Match, and what the comments and messages of the code claim. *)
EXTENDS Match

(* pong_game.c:423, "increase the height of the player who last hit the    *)
(* ball": there is such a player when the power-up is applied.             *)
BoostHasPlayer == step = "boost" => touched \in Players

(* pong_game.c:70, "check if some team has not disconnected": a team whose  *)
(* players have all been counted off has no active player.                 *)
EmptyTeamSeen ==
    \A t \in Teams :
        (\A i \in Players : TeamOf(i) = t => leave[i] \in {"ball", "left"}) => active[t] = 0

(* The gameloop goes on ticking (pong_server.c:216-229). *)
FairSpec == Spec /\ WF_vars(Tick)

(* pong_server.c:325, "A team left the game": a match found to lack a team *)
(* is reported as such.                                                    *)
LeftTeamReported == [][status = "ALL_TEAM_LEFT" => status' = status]_vars
==============================================================================
