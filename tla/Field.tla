-------------------------------- MODULE Field --------------------------------
(***************************************************************************)
(* The field of a match (pong_game.c): paddles, ball and power-up as       *)
(* update_game_state moves them tick after tick, while the receive threads *)
(* of the players change the acceleration of a paddle or take it away.     *)
(*                                                                         *)
(* Coordinates and velocities are floats in the code and integers here.    *)
(* Scores are kept by module Match: a goal ends the match or restarts the  *)
(* round.  Where the power-up lies is left out: spawn_power_up never       *)
(* initialises its width, so it may be anywhere the ball is.               *)
(***************************************************************************)
EXTENDS Integers

CONSTANTS
    NumPlayers,         \* player_count
    Width, Height,      \* GAME_WINDOW_WIDTH, GAME_WINDOW_HEIGHT
    Radius,             \* BALL_INITIAL_RADIUS
    PaddleWidth,        \* PLAYER_INITIAL_WIDTH
    PaddleHeight,       \* PLAYER_INITIAL_HEIGHT
    PaddleX,            \* PaddleX[i]: *_PLAYER_INITIAL_X, never changed
    PaddleStart,        \* PaddleStart[i]: *_PLAYER_INITIAL_Y
    PaddleMaxSpeed,     \* PLAYER_MAX_VELOCITY_MOD
    PaddleAcceleration, \* PLAYER_ACCELERATION_MOD
    BallStarts,         \* the velocities init_ball_velocity may choose
    MaxSpeed,           \* BALL_MAX_VELOCITY_MOD
    Acceleration,       \* BALL_ACCELERATION_MOD
    Growth,             \* what a power-up adds to the height of a paddle
    Movers,             \* the players who press keys in this instance
    Leavers             \* the players who may leave in this instance

Players == 0 .. NumPlayers - 1
TeamOf(i) == i % 2
NoTouch == -1           \* BALL_INITIAL_LAST_TOUCHED_ID

ASSUME FieldAssumption ==
    /\ NumPlayers \in Nat /\ Radius \in Nat /\ PaddleWidth \in Nat /\ PaddleHeight \in Nat
    /\ Width \in Nat /\ 2 * Radius + 2 <= Width
    /\ Height \in Nat /\ 2 * Radius <= Height
    /\ PaddleX \in [Players -> 2 * Radius .. Width - PaddleWidth - 2 * Radius]
    /\ PaddleStart \in [Players -> 0 .. Height - PaddleHeight]
    /\ PaddleMaxSpeed \in Nat /\ PaddleAcceleration \in Nat
    /\ MaxSpeed \in Nat /\ Acceleration \in Nat
    /\ BallStarts \subseteq Int \X Int /\ BallStarts # {}
    /\ \A v \in BallStarts : v[1] * v[1] + v[2] * v[2] <= MaxSpeed * MaxSpeed
    /\ Growth \in Nat
    /\ Movers \subseteq Players /\ Leavers \subseteq Players

VARIABLES
    connected,          \* connected[i]: players[i].client_id # -1
    py, pv, pa, height, \* of each paddle: pos.y, v.y, a.y and height
    x, y, vx, vy, ax, ay, touched,  \* the ball; last_touched_id
    powerUp,            \* power_ups[0].type # -1
    phase,              \* the part of update_game_state that comes next
    over                \* end_game was called for a winning goal

paddles == <<py, pv, pa, height>>
ball == <<x, y, vx, vy, ax, ay, touched>>
vars == <<connected, paddles, ball, powerUp, phase, over>>

(* Mutant of Clamp: no look at the far border. *)
ClampLow(z, lo, hi) == IF z < lo THEN lo ELSE z

(* The if, else if, else on a final position in update_player, update_ball *)
Clamp(z, lo, hi) == IF z < lo THEN lo ELSE IF z > hi THEN hi ELSE z

-----------------------------------------------------------------------------
(* Where a round starts *)

(* reset_back_players, reset_front_players *)
ResetPlayers ==
    /\ py' = PaddleStart
    /\ pv' = [i \in Players |-> 0]
    /\ pa' = [i \in Players |-> 0]
    /\ height' = [i \in Players |-> PaddleHeight]

(* init_ball *)
InitBall ==
    /\ x' = Width \div 2 /\ y' = Height \div 2
    /\ \E v \in BallStarts : vx' = v[1] /\ vy' = v[2]
    /\ ax' = 0 /\ ay' = 0
    /\ touched' = NoTouch

(* init_game_*: players, ball and power-up *)
Init ==
    /\ connected = [i \in Players |-> TRUE]
    /\ py = PaddleStart
    /\ pv = [i \in Players |-> 0] /\ pa = [i \in Players |-> 0]
    /\ height = [i \in Players |-> PaddleHeight]
    /\ x = Width \div 2 /\ y = Height \div 2
    /\ \E v \in BallStarts : vx = v[1] /\ vy = v[2]
    /\ ax = 0 /\ ay = 0 /\ touched = NoTouch
    /\ powerUp = TRUE /\ phase = "players" /\ over = FALSE

-----------------------------------------------------------------------------
(* The receive threads *)

(* Multiplying by PLAYER_FRICTION, 0.7, towards zero *)
Slowed(v) == IF v < 0 THEN -((-v * 7) \div 10) ELSE (v * 7) \div 10

(* process_player_input: up, down, or neither (or both) *)
PlayerInput(i) ==
    /\ i \in Movers /\ connected[i] /\ ~over
    /\ \/ \E a \in {-PaddleAcceleration, PaddleAcceleration} :
            pa' = [pa EXCEPT ![i] = a] /\ UNCHANGED pv
       \/ pa' = [pa EXCEPT ![i] = 0] /\ pv' = [pv EXCEPT ![i] = Slowed(@)]
    /\ UNCHANGED <<connected, py, height, ball, powerUp, phase, over>>

(* remove_client_from_game_state; module Match has its single statements.  *)
Leave(i) ==
    /\ i \in Leavers /\ connected[i]
    /\ connected' = [connected EXCEPT ![i] = FALSE]
    /\ touched' = IF touched = i THEN NoTouch ELSE touched
    /\ UNCHANGED <<paddles, x, y, vx, vy, ax, ay, powerUp, phase, over>>

-----------------------------------------------------------------------------
(* update_player *)

Accelerated(v, a) == IF -PaddleMaxSpeed <= v + a /\ v + a <= PaddleMaxSpeed THEN v + a ELSE v

(* Mutant of MovePlayers: a paddle stops with its upper end at the border. *)
MovePlayersFar ==
    /\ phase = "players" /\ ~over
    /\ pv' = [i \in Players |-> IF connected[i] THEN Accelerated(pv[i], pa[i]) ELSE pv[i]]
    /\ py' = [i \in Players |-> IF connected[i] THEN Clamp(py[i] + pv'[i], 0, Height) ELSE py[i]]
    /\ phase' = "ball"
    /\ UNCHANGED <<connected, pa, height, ball, powerUp, over>>

MovePlayers ==
    /\ phase = "players" /\ ~over
    /\ pv' = [i \in Players |-> IF connected[i] THEN Accelerated(pv[i], pa[i]) ELSE pv[i]]
    /\ py' = [i \in Players |-> IF connected[i]
                                THEN Clamp(py[i] + pv'[i], 0, Height - height[i])
                                ELSE py[i]]
    /\ phase' = "ball"
    /\ UNCHANGED <<connected, pa, height, ball, powerUp, over>>

-----------------------------------------------------------------------------
(* update_ball *)

(* Mutant of Faster: the speed before is compared. *)
FasterOnce == vx * vx + vy * vy <= MaxSpeed * MaxSpeed

(* update_velocity: no acceleration beyond the greatest speed *)
Faster == (vx + ax) * (vx + ax) + (vy + ay) * (vy + ay) <= MaxSpeed * MaxSpeed
Vx == IF Faster THEN vx + ax ELSE vx
Vy == IF Faster THEN vy + ay ELSE vy
FinX == x + Vx
FinY == y + Vy

Overlaps(i) ==
    /\ FinX + Radius >= PaddleX[i] /\ FinX - Radius <= PaddleX[i] + PaddleWidth
    /\ FinY + Radius >= py[i] /\ FinY - Radius <= py[i] + height[i]

(* Mutant of Hits: players are counted from 1. *)
HitsNext(i) ==
    /\ phase = "ball" /\ connected[i] /\ Overlaps(i)
    /\ touched' = i + 1
    /\ phase' = "power_up"
    /\ UNCHANGED <<connected, paddles, powerUp, over>>

(* The first connected paddle that the ball would overlap *)
Hits(i) ==
    /\ phase = "ball" /\ connected[i] /\ Overlaps(i)
    /\ \A j \in Players : j < i /\ connected[j] => ~Overlaps(j)
    /\ touched' = i
    /\ phase' = "power_up"
    /\ UNCHANGED <<connected, paddles, powerUp, over>>

TurnX == vx' = -Vx /\ ax' = -ax /\ vy' = Vy /\ UNCHANGED ay
TurnY == vy' = -Vy /\ ay' = -ay /\ vx' = Vx /\ UNCHANGED ax

HitSide(i) ==
    /\ Hits(i)
    /\ \/ x < PaddleX[i] /\ x' = PaddleX[i] - Radius
       \/ x > PaddleX[i] + PaddleWidth /\ x' = PaddleX[i] + PaddleWidth + Radius
    /\ y' = FinY
    /\ TurnX

Beside(i) == x < PaddleX[i] \/ x > PaddleX[i] + PaddleWidth

HitEnd(i) ==
    /\ Hits(i) /\ ~Beside(i)
    /\ \/ y < py[i] /\ y' = py[i] - Radius
       \/ y > py[i] + height[i] /\ y' = py[i] + height[i] + Radius
    /\ x' = FinX
    /\ TurnY

(* The centre of the ball is inside the paddle: it stays where it is. *)
HitInside(i) ==
    /\ Hits(i) /\ ~Beside(i)
    /\ py[i] <= y /\ y <= py[i] + height[i]
    /\ vx' = Vx /\ vy' = Vy
    /\ UNCHANGED <<x, y, ax, ay>>

Outside(z, lo, hi) == z < lo \/ z > hi

(* Mutant of HitWalls: the ball turns one step before the limits. *)
HitWallsEarly ==
    /\ phase = "ball" /\ \A i \in Players : connected[i] => ~Overlaps(i)
    /\ x' = Clamp(FinX, Radius + 1, Width - Radius - 1)
    /\ y' = Clamp(FinY, Radius, Height - Radius)
    /\ IF Outside(FinX, Radius + 1, Width - Radius - 1)
       THEN vx' = -Vx /\ ax' = -ax ELSE vx' = Vx /\ UNCHANGED ax
    /\ IF Outside(FinY, Radius, Height - Radius)
       THEN vy' = -Vy /\ ay' = -ay ELSE vy' = Vy /\ UNCHANGED ay
    /\ phase' = "power_up"
    /\ UNCHANGED <<connected, paddles, touched, powerUp, over>>

HitWalls ==
    /\ phase = "ball" /\ \A i \in Players : connected[i] => ~Overlaps(i)
    /\ x' = Clamp(FinX, Radius, Width - Radius)
    /\ y' = Clamp(FinY, Radius, Height - Radius)
    /\ IF Outside(FinX, Radius, Width - Radius)
       THEN vx' = -Vx /\ ax' = -ax ELSE vx' = Vx /\ UNCHANGED ax
    /\ IF Outside(FinY, Radius, Height - Radius)
       THEN vy' = -Vy /\ ay' = -ay ELSE vy' = Vy /\ UNCHANGED ay
    /\ phase' = "power_up"
    /\ UNCHANGED <<connected, paddles, touched, powerUp, over>>

-----------------------------------------------------------------------------
(* Power-ups and goals *)

NoPowerUp ==
    /\ phase = "power_up" /\ phase' = "goal"
    /\ UNCHANGED <<connected, paddles, ball, powerUp, over>>

PickUp ==
    /\ phase = "power_up" /\ touched # NoTouch /\ powerUp
    /\ powerUp' = FALSE
    /\ phase' = "goal"
    /\ UNCHANGED <<connected, py, pv, pa, x, y, vx, vy, touched, over>>

AccelerateBall ==
    /\ PickUp
    /\ ax' = IF vx > 0 THEN Acceleration ELSE -Acceleration
    /\ ay' = IF vy > 0 THEN Acceleration ELSE -Acceleration
    /\ UNCHANGED height

GrowPaddle ==
    /\ PickUp
    /\ height' = [height EXCEPT ![touched] = @ + Growth]
    /\ UNCHANGED <<ax, ay>>

(* A team without players concedes no goal. *)
Defended(t) == \E i \in Players : TeamOf(i) = t /\ connected[i]

(* |pos.x - goal1.x| <= radius *)
AtLine(t) == IF t = 0 THEN x <= Radius ELSE Width - x <= Radius

Scored == \E t \in {0, 1} : Defended(t) /\ AtLine(t)

(* end_game or restart_round *)
Goal ==
    /\ phase = "goal" /\ Scored
    /\ phase' = "spawn"
    /\ \/ over' = TRUE /\ UNCHANGED <<paddles, ball, powerUp>>
       \/ /\ ResetPlayers /\ InitBall /\ powerUp' = TRUE
          /\ UNCHANGED over
    /\ UNCHANGED connected

NoGoal ==
    /\ phase = "goal" /\ ~Scored
    /\ phase' = "spawn"
    /\ UNCHANGED <<connected, paddles, ball, powerUp, over>>

(* update_power_up, whether or not POWER_UP_SPAWN_TIME has passed *)
Spawn ==
    /\ phase = "spawn"
    /\ powerUp' \in {powerUp, TRUE}
    /\ phase' = "players"
    /\ UNCHANGED <<connected, paddles, ball, over>>

Tick ==
    \/ MovePlayers
    \/ (\E i \in Players : HitSide(i) \/ HitEnd(i) \/ HitInside(i)) \/ HitWalls
    \/ NoPowerUp \/ AccelerateBall \/ GrowPaddle
    \/ Goal \/ NoGoal \/ Spawn

Next == Tick \/ \E i \in Players : PlayerInput(i) \/ Leave(i)

Spec == Init /\ [][Next]_vars

(* The gameloop updates the game again and again.                          *)
FairSpec == Spec /\ WF_vars(Tick)

-----------------------------------------------------------------------------
TypeOK ==
    /\ connected \in [Players -> BOOLEAN]
    /\ py \in [Players -> Int] /\ pv \in [Players -> Int] /\ pa \in [Players -> Int]
    /\ height \in [Players -> Nat]
    /\ {x, y, vx, vy, ax, ay} \subseteq Int
    /\ touched \in Players \cup {NoTouch}
    /\ powerUp \in BOOLEAN /\ over \in BOOLEAN
    /\ phase \in {"players", "ball", "power_up", "goal", "spawn"}

(* The ball never gets further out of the window than its radius: where it *)
(* bounces off a paddle the walls are not looked at, and it is put down at *)
(* the end of a paddle that stands at the border.  A paddle that power-ups *)
(* have made higher than the window takes it as far out as it reaches.     *)
BallInReach ==
    /\ Radius <= x /\ x <= Width - Radius
    /\ \/ -Radius <= y /\ y <= Height + Radius
       \/ \E i \in Players : /\ height[i] > Height
                             /\ Height - height[i] - Radius <= y /\ y <= height[i] + Radius

(* Whatever its player presses: when the ball moves, a paddle lies on the  *)
(* screen, or, when power-ups have made it higher than the window and      *)
(* update_player's two limits have changed places, covers it from border   *)
(* to border.                                                              *)
PaddlesOnScreen ==
    phase = "ball" => \A i \in Players : connected[i] =>
        \/ 0 <= py[i] /\ py[i] <= Height - height[i]
        \/ Height - height[i] <= py[i] /\ py[i] <= 0

(* The ball never gets faster than BALL_MAX_VELOCITY_MOD, over bounces and *)
(* power-ups.                                                              *)
SpeedBounded == vx * vx + vy * vy <= MaxSpeed * MaxSpeed

(* Where update_ball puts the ball down at the side of a paddle *)
BesidePaddle ==
    touched # NoTouch /\ x \in {PaddleX[touched] - Radius, PaddleX[touched] + PaddleWidth + Radius}

(* The ball changes its direction along the field only at the side of a    *)
(* paddle, for a new round, or where a goal line sees it: the limit at     *)
(* which update_ball turns it round is one at which the goal counts, after *)
(* any bounces, power-ups and refused accelerations.                       *)
WallIsGoal ==
    [][phase # "goal" =>
         /\ vx < 0 /\ vx' > 0 => AtLine(0)' \/ BesidePaddle'
         /\ vx > 0 /\ vx' < 0 => AtLine(1)' \/ BesidePaddle']_vars
==============================================================================
