-------------------------------- MODULE Match --------------------------------
(***************************************************************************)
(* The rules of a match in progress (pong_game.c): one gameloop process    *)
(* runs update_game_state tick after tick, while the receive threads of    *)
(* leaving clients run remove_client_from_game_state on the same record,   *)
(* statement by statement.  Positions and velocities are left out: the     *)
(* ball may hit any connected paddle, a power-up or a goal line.           *)
(***************************************************************************)
EXTENDS Integers

CONSTANTS
    NumPlayers,     \* player_count: 2 in a 1v1, 4 in a 2v2
    WinScore,       \* TEAM_WINNING_SCORE_THRESHOLD
    WinDifference,  \* TEAM_WINNING_SCORE_DIFFERENCE
    Leavers         \* the players who may leave in this instance

Players == 0 .. NumPlayers - 1
Teams   == {0, 1}
NoTouch == -1       \* BALL_INITIAL_LAST_TOUCHED_ID
TeamOf(i) == i % 2
Other(t)  == 1 - t

ASSUME MatchAssumption ==
    /\ NumPlayers \in {2, 4}
    /\ WinScore \in Nat \ {0} /\ WinDifference \in Nat \ {0}
    /\ Leavers \subseteq Players

VARIABLES
    status,         \* gs->status
    score,          \* teams[t].score
    playerScore,    \* players[i].score
    active,         \* teams[t].active_player_count
    connected,      \* players[i].client_id # -1
    touched,        \* balls[0].last_touched_id
    powerUp,        \* power_ups[0].type # -1
    powerUpCount,   \* power_up_count
    paddle,         \* the player whose paddle the ball is at, between the test and the write
    step,           \* where update_game_state is; "corrupt" after an access to players[-1]
    leave,          \* leave[i]: where remove_client_from_game_state is for player i
    loaded          \* loaded[i]: the active_player_count it read for its decrement

rules == <<score, playerScore, powerUp, powerUpCount>>
vars == <<status, active, connected, touched, paddle, step, leave, loaded, rules>>

(* init_teams, init_player, init_balls, init_power_ups; the match is loaded *)
Init ==
    /\ status = "IN_PROGRESS"
    /\ score = [t \in Teams |-> 0]
    /\ playerScore = [i \in Players |-> 0]
    /\ active = [t \in Teams |-> NumPlayers \div 2]
    /\ connected = [i \in Players |-> TRUE]
    /\ touched = NoTouch /\ paddle = NoTouch
    /\ powerUp = TRUE /\ powerUpCount = 1
    /\ step = "idle"
    /\ leave = [i \in Players |-> "playing"]
    /\ loaded = [i \in Players |-> 0]

-----------------------------------------------------------------------------
(* remove_client_from_game_state for player i *)

LeaveEntry(i) ==
    /\ i \in Leavers /\ leave[i] = "playing"
    /\ connected' = [connected EXCEPT ![i] = FALSE]
    /\ leave' = [leave EXCEPT ![i] = "load"]
    /\ UNCHANGED <<status, active, touched, step, paddle, loaded, rules>>

(* active_player_count-- is a load ... *)
LoadActive(i) ==
    /\ leave[i] = "load"
    /\ loaded' = [loaded EXCEPT ![i] = active[TeamOf(i)]]
    /\ leave' = [leave EXCEPT ![i] = "store"]
    /\ UNCHANGED <<status, active, connected, touched, step, paddle, rules>>

(* Mutant of StoreActive: the removal is run again, its early return lost. *)
StoreAgain(i) ==
    /\ leave[i] = "store"
    /\ active' = [active EXCEPT ![TeamOf(i)] = loaded[i] - 1]
    /\ leave' = [leave EXCEPT ![i] = "load"]
    /\ UNCHANGED <<status, connected, touched, step, paddle, loaded, rules>>

(* ... and a store. *)
StoreActive(i) ==
    /\ leave[i] = "store"
    /\ active' = [active EXCEPT ![TeamOf(i)] = loaded[i] - 1]
    /\ leave' = [leave EXCEPT ![i] = "ball"]
    /\ UNCHANGED <<status, connected, touched, step, paddle, loaded, rules>>

ForgetTouch(i) ==
    /\ leave[i] = "ball"
    /\ touched' = IF touched = i THEN NoTouch ELSE touched
    /\ leave' = [leave EXCEPT ![i] = "left"]
    /\ UNCHANGED <<status, active, connected, step, paddle, loaded, rules>>

Leave(i) == LeaveEntry(i) \/ LoadActive(i) \/ StoreActive(i) \/ ForgetTouch(i)

-----------------------------------------------------------------------------
(* update_game_state *)

CheckTeams ==
    /\ step = "idle" /\ status = "IN_PROGRESS"
    /\ status' = IF \E t \in Teams : active[t] = 0 THEN "ALL_TEAM_LEFT" ELSE status
    /\ step' = "collide"
    /\ UNCHANGED <<active, connected, touched, leave, paddle, loaded, rules>>

(* update_ball: the ball may be at the paddle of a connected player ... *)
Collide ==
    /\ step = "collide"
    /\ \/ \E i \in Players : connected[i] /\ paddle' = i /\ step' = "touch"
       \/ step' = "power_up" /\ UNCHANGED paddle
    /\ UNCHANGED <<status, active, connected, touched, leave, loaded, rules>>

(* ... who has touched it, even if he left in the meantime. *)
Touch ==
    /\ step = "touch"
    /\ touched' = paddle /\ paddle' = NoTouch
    /\ step' = "power_up"
    /\ UNCHANGED <<status, active, connected, leave, loaded, rules>>

(* It may reach the power-up, if somebody touched it ... *)
ReachPowerUp ==
    /\ step = "power_up"
    /\ \/ touched # NoTouch /\ powerUpCount > 0 /\ step' = "boost"
       \/ step' = "goal"
    /\ UNCHANGED <<status, active, connected, touched, leave, paddle, loaded, rules>>

(* Mutant of Boost: power_up_count stays. *)
BoostUncounted ==
    /\ step = "boost"
    /\ step' = "goal"
    /\ powerUp' = FALSE
    /\ UNCHANGED <<status, score, playerScore, active, connected, touched, powerUpCount, leave, paddle, loaded>>

(* ... whose paddle grows when it is of that type.                         *)
Boost ==
    /\ step = "boost"
    /\ step' \in (IF touched = NoTouch THEN {"goal", "corrupt"} ELSE {"goal"})
    /\ powerUp' = FALSE
    /\ powerUpCount' = powerUpCount - 1
    /\ UNCHANGED <<status, score, playerScore, active, connected, touched, leave, paddle, loaded>>

WinsLate(s, t) == s[t] > WinScore \/ s[t] - s[Other(t)] >= WinDifference   \* mutant of Wins
(* is_winning_team *)
Wins(s, t) == s[t] >= WinScore \/ s[t] - s[Other(t)] >= WinDifference

(* Mutant of AddGoal: the goal goes to the other team. *)
AddGoalToOther(t) ==
    /\ score' = [score EXCEPT ![Other(t)] = @ + 1]
    /\ IF Wins(score', t)
       THEN status' = "SUCCESS" /\ UNCHANGED <<touched, powerUp, powerUpCount>>
       ELSE /\ touched' = NoTouch /\ powerUp' = TRUE /\ powerUpCount' = 1
            /\ UNCHANGED status

(* scored_team->score += 1, then end_game or restart_round *)
AddGoal(t) ==
    /\ score' = [score EXCEPT ![t] = @ + 1]
    /\ IF Wins(score', t)
       THEN status' = "SUCCESS" /\ UNCHANGED <<touched, powerUp, powerUpCount>>
       ELSE /\ touched' = NoTouch                       \* init_balls
            /\ powerUp' = TRUE /\ powerUpCount' = 1     \* init_power_ups
            /\ UNCHANGED status

(* The ball may be at the goal line of a team that still has players; the  *)
(* goal goes to the team of the last player who touched it.                *)
NoGoal ==
    /\ step = "goal"
    /\ step' = "spawn"
    /\ UNCHANGED <<status, active, connected, touched, leave, paddle, loaded, rules>>

UntouchedGoal(t) ==
    /\ step = "goal" /\ active[t] # 0 /\ touched = NoTouch
    /\ AddGoal(Other(t))
    /\ step' = "spawn"
    /\ UNCHANGED <<playerScore, active, connected, leave, paddle, loaded>>

TouchedGoal(t) ==
    /\ step = "goal" /\ active[t] # 0 /\ touched # NoTouch
    /\ step' = "credit"
    /\ UNCHANGED <<status, active, connected, touched, leave, paddle, loaded, rules>>

Credit ==
    /\ step = "credit"
    /\ IF touched = NoTouch
       THEN step' = "corrupt" /\ UNCHANGED <<status, touched, rules>>
       ELSE /\ playerScore' = [playerScore EXCEPT ![touched] = @ + 1]
            /\ AddGoal(TeamOf(touched))
            /\ step' = "spawn"
    /\ UNCHANGED <<active, connected, leave, paddle, loaded>>

(* update_power_up, when POWER_UP_SPAWN_TIME has passed *)
Spawn ==
    /\ step = "spawn"
    /\ \/ ~powerUp /\ powerUp' = TRUE /\ powerUpCount' = powerUpCount + 1
       \/ UNCHANGED <<powerUp, powerUpCount>>
    /\ step' = "idle"
    /\ UNCHANGED <<status, score, playerScore, active, connected, touched, leave, paddle, loaded>>

Tick ==
    \/ CheckTeams \/ Collide \/ Touch \/ ReachPowerUp \/ Boost
    \/ NoGoal \/ (\E t \in Teams : UntouchedGoal(t) \/ TouchedGoal(t)) \/ Credit
    \/ Spawn

Next == Tick \/ \E i \in Players : Leave(i)

Spec == Init /\ [][Next]_vars

-----------------------------------------------------------------------------
TypeOK ==
    /\ status \in {"IN_PROGRESS", "SUCCESS", "ALL_TEAM_LEFT"}
    /\ score \in [Teams -> 0 .. WinScore]
    /\ playerScore \in [Players -> 0 .. WinScore]
    /\ active \in [Teams -> 0 .. NumPlayers \div 2]
    /\ connected \in [Players -> BOOLEAN]
    /\ touched \in Players \cup {NoTouch}
    /\ paddle \in (IF step = "touch" THEN Players ELSE {NoTouch})
    /\ powerUp \in BOOLEAN /\ powerUpCount \in {0, 1}
    /\ step \in {"idle", "collide", "touch", "power_up", "boost", "goal", "credit", "spawn", "corrupt"}
    /\ leave \in [Players -> {"playing", "load", "store", "ball", "left"}]
    /\ loaded \in [Players -> 0 .. NumPlayers \div 2]

(* The status is SUCCESS exactly when a team has won: no winning goal is   *)
(* overlooked by end_game, and the match does not go on or stop without one. *)
SuccessIffWon ==
    status = "SUCCESS" <=> \E t \in Teams : Wins(score, t)

(* power_up_count counts the power-ups that are on the field, over pick-up, *)
(* respawn and the reset after a goal: a power-up is applied only while it  *)
(* lies there.                                                              *)
PowerUpCountExact == powerUpCount = IF powerUp THEN 1 ELSE 0

(* Every goal credited to a player was also given to the player's team,    *)
(* which has one or two players: together they have no more than it.       *)
GoalsOf(i, j) == IF i = j THEN playerScore[i] ELSE playerScore[i] + playerScore[j]

PlayersScoreForTeam ==
    \A i, j \in Players : TeamOf(i) = TeamOf(j) => GoalsOf(i, j) <= score[TeamOf(i)]

(* A match is given up only for a team that has nobody left: of decrements  *)
(* that overlap with each other and with the tick one may be lost, but no   *)
(* departure is counted twice (pong_game.c:70, pong_server.c:493).          *)
GivenUpForCause ==
    status = "ALL_TEAM_LEFT" =>
        \E t \in Teams : \A i \in Players : TeamOf(i) = t => ~connected[i]
==============================================================================
