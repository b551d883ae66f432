----------------------------- MODULE FieldProofs -----------------------------
(***************************************************************************)
(* Theorems about Field, for a window, paddles and a ball of any size that *)
(* FieldAssumption allows, and for paddles that grow without bound.        *)
(***************************************************************************)
EXTENDS Field, TLAPS

(* From update_player on, a connected paddle lies on the screen or covers  *)
(* it; growing and a new round change it before the next update_player.    *)
Paddles ==
    phase \in {"ball", "power_up"} => \A i \in Players : connected[i] =>
        \/ 0 <= py[i] /\ py[i] <= Height - height[i]
        \/ Height - height[i] <= py[i] /\ py[i] <= 0

(* The ball is accelerated in the direction in which it moves. *)
Signs == (vx > 0 => ax >= 0) /\ (vx < 0 => ax <= 0)

(* Types, speed and direction, which depend on no place, and the places. *)
Motion == TypeOK /\ SpeedBounded /\ Signs
Places == Paddles /\ BallInReach

FieldInv == Motion /\ Places

-----------------------------------------------------------------------------
(* Arithmetic *)

(* A value is clamped into its limits. *)
LEMMA ClampBounds ==
    ASSUME NEW z \in Int, NEW lo \in Int, NEW hi \in Int, lo <= hi
    PROVE  Clamp(z, lo, hi) \in lo .. hi
  BY DEF Clamp

(* Turning a velocity round does not change its square. *)
LEMMA SquareOfMinus == \A a \in Int : (-a) * (-a) = a * a
  OBVIOUS

(* The constants, one by one *)
LEMMA Constants ==
    /\ Radius \in Nat /\ PaddleWidth \in Nat /\ PaddleHeight \in Nat /\ Growth \in Nat
    /\ Width \in Nat /\ Height \in Nat /\ MaxSpeed \in Nat /\ Acceleration \in Nat
    /\ 2 * Radius + 2 <= Width /\ 2 * Radius <= Height
    /\ \A i \in Players :
         /\ PaddleX[i] \in Int /\ 2 * Radius <= PaddleX[i]
         /\ PaddleX[i] <= Width - PaddleWidth - 2 * Radius
         /\ PaddleStart[i] \in Int /\ 0 <= PaddleStart[i]
         /\ PaddleStart[i] <= Height - PaddleHeight
    /\ \A v \in BallStarts :
         /\ v[1] \in Int /\ v[2] \in Int
         /\ v[1] * v[1] + v[2] * v[2] <= MaxSpeed * MaxSpeed
  BY FieldAssumption

(* The middle of the window *)
LEMMA Middle ==
    /\ Width \div 2 \in Int /\ Height \div 2 \in Int
    /\ Radius < Width \div 2 /\ Width \div 2 < Width - Radius
    /\ 0 <= Height \div 2 /\ Height \div 2 <= Height
  BY Constants

(* update_velocity keeps the speed within the greatest one. *)
LEMMA VelocityBounded ==
    ASSUME TypeOK, SpeedBounded
    PROVE  /\ Vx \in Int /\ Vy \in Int /\ FinX \in Int /\ FinY \in Int
           /\ Vx * Vx + Vy * Vy <= MaxSpeed * MaxSpeed
           /\ Vx \in {vx, vx + ax}
  <1>1. /\ x \in Int /\ y \in Int /\ vx \in Int /\ vy \in Int /\ ax \in Int /\ ay \in Int
    BY DEF TypeOK
  <1>2. Vx \in Int /\ Vy \in Int
    BY <1>1 DEF Vx, Vy
  <1>3. Vx * Vx + Vy * Vy <= MaxSpeed * MaxSpeed
    <2>1. CASE Faster
      <3>1. Vx = vx + ax /\ Vy = vy + ay
        BY <2>1 DEF Vx, Vy
      <3> QED
        BY <2>1, <3>1 DEF Faster
    <2>2. CASE ~Faster
      <3>1. Vx = vx /\ Vy = vy
        BY <2>2 DEF Vx, Vy
      <3> QED
        BY <3>1 DEF SpeedBounded
    <2> QED
      BY <2>1, <2>2
  <1>4. Vx \in {vx, vx + ax}
    BY DEF Vx
  <1> QED
    BY <1>1, <1>2, <1>3, <1>4 DEF FinX, FinY

-----------------------------------------------------------------------------
(* Types and speed *)

LEMMA MotionInit == Init => Motion
  <1> SUFFICES ASSUME Init
               PROVE  Motion
    OBVIOUS
  <1>1. PaddleStart \in [Players -> Int] /\ PaddleHeight \in Nat
    BY FieldAssumption
  <1>2. {x, y, vx, vy, ax, ay} \subseteq Int
    BY Constants, Middle DEF Init
  <1>3. SpeedBounded /\ Signs
    BY Constants DEF Init, SpeedBounded, Signs
  <1> QED
    BY <1>1, <1>2, <1>3 DEF Init, TypeOK, Motion, Signs

(* Keys, departures and update_player leave the ball alone. *)
LEMMA PlayersMotion ==
    ASSUME Motion, MovePlayers \/ \E i \in Players : PlayerInput(i) \/ Leave(i)
    PROVE  Motion'
  <1>1. CASE MovePlayers
    <2>1. /\ phase' = "ball"
          /\ UNCHANGED <<connected, pa, height, x, y, vx, vy, ax, ay, touched, powerUp, over>>
          /\ pv' = [i \in Players |-> IF connected[i] THEN Accelerated(pv[i], pa[i]) ELSE pv[i]]
          /\ py' = [i \in Players |-> IF connected[i]
                                      THEN Clamp(py[i] + pv'[i], 0, Height - height[i])
                                      ELSE py[i]]
      BY <1>1 DEF MovePlayers, ball
    <2>2. \A i \in Players : pv'[i] \in Int
      BY <2>1 DEF Motion, TypeOK, Accelerated
    <2>3. \A i \in Players : py'[i] \in Int
      <3> SUFFICES ASSUME NEW i \in Players
                   PROVE  py'[i] \in Int
        OBVIOUS
      <3>1. py[i] \in Int /\ py[i] + pv'[i] \in Int /\ Height - height[i] \in Int
        BY <2>2, Constants DEF Motion, TypeOK
      <3> QED
        BY <2>1, <3>1 DEF Clamp
    <2> QED
      BY <2>1, <2>2, <2>3 DEF Motion, Signs, TypeOK, SpeedBounded
  <1>2. ASSUME NEW i \in Players, PlayerInput(i)
        PROVE  Motion'
    <2>1. /\ UNCHANGED <<connected, py, height, ball, powerUp, phase, over>>
          /\ \/ \E a \in {-PaddleAcceleration, PaddleAcceleration} :
                  pa' = [pa EXCEPT ![i] = a] /\ UNCHANGED pv
             \/ pa' = [pa EXCEPT ![i] = 0] /\ pv' = [pv EXCEPT ![i] = Slowed(@)]
      BY <1>2 DEF PlayerInput
    <2>2. \A v \in Int : Slowed(v) \in Int
      BY DEF Slowed
    <2>3. -PaddleAcceleration \in Int /\ PaddleAcceleration \in Int
      BY FieldAssumption
    <2> QED
      BY <2>1, <2>2, <2>3 DEF Motion, Signs, TypeOK, SpeedBounded, ball
  <1>3. ASSUME NEW i \in Players, Leave(i)
        PROVE  Motion'
    BY <1>3 DEF Leave, paddles, Motion, Signs, TypeOK, SpeedBounded
  <1> QED
    BY <1>1, <1>2, <1>3

(* update_ball: collisions put the ball down somewhere and turn parts of   *)
(* its speed and acceleration round.                                       *)
LEMMA BallMotion ==
    ASSUME Motion, HitWalls \/ \E i \in Players : HitSide(i) \/ HitEnd(i) \/ HitInside(i)
    PROVE  /\ Motion' /\ phase = "ball" /\ phase' = "power_up"
           /\ UNCHANGED <<connected, py, pv, pa, height, powerUp, over>>
  <1>1. /\ Vx \in Int /\ Vy \in Int /\ FinX \in Int /\ FinY \in Int
        /\ Vx * Vx + Vy * Vy <= MaxSpeed * MaxSpeed
    BY VelocityBounded DEF Motion
  <1>2. /\ phase = "ball" /\ phase' = "power_up" /\ touched' \in Players \cup {NoTouch}
        /\ UNCHANGED <<connected, py, pv, pa, height, powerUp, over>>
    BY DEF HitWalls, HitSide, HitEnd, HitInside, Hits, paddles, Motion, TypeOK
  <1>3. vx' \in {Vx, -Vx} /\ vy' \in {Vy, -Vy} /\ ax' \in {ax, -ax} /\ ay' \in {ay, -ay}
    BY DEF HitWalls, HitSide, HitEnd, HitInside, TurnX, TurnY
  <1>4. x' \in Int /\ y' \in Int
    <2>1. CASE HitWalls
      <3>1. /\ Clamp(FinX, Radius, Width - Radius) \in Int
            /\ Clamp(FinY, Radius, Height - Radius) \in Int
        BY <1>1, Constants DEF Clamp
      <3> QED
        BY <2>1, <3>1 DEF HitWalls
    <2>2. ASSUME NEW i \in Players, HitSide(i) \/ HitEnd(i) \/ HitInside(i)
          PROVE  x' \in Int /\ y' \in Int
      <3>1. x \in Int /\ y \in Int /\ py[i] \in Int /\ height[i] \in Int /\ PaddleX[i] \in Int
        BY Constants DEF Motion, TypeOK
      <3> QED
        BY <1>1, <2>2, <3>1, Constants DEF HitSide, HitEnd, HitInside
    <2> QED
      BY <2>1, <2>2
  <1>5. SpeedBounded'
    BY <1>1, <1>3, SquareOfMinus DEF SpeedBounded
  <1>6. vx' \in Int /\ vy' \in Int /\ ax' \in Int /\ ay' \in Int
    BY <1>1, <1>3 DEF Motion, TypeOK
  <1>7. Signs'
    <2>1. vx \in Int /\ ax \in Int /\ Vx \in {vx, vx + ax} /\ Signs
      BY VelocityBounded DEF Motion, TypeOK
    <2>2. (vx' = Vx /\ ax' = ax) \/ (vx' = -Vx /\ ax' = -ax)
      BY DEF HitWalls, HitSide, HitEnd, HitInside, TurnX, TurnY
    <2> QED
      BY <2>1, <2>2 DEF Signs
  <1> QED
    BY <1>2, <1>4, <1>5, <1>6, <1>7 DEF Motion, TypeOK

(* Power-ups and goals; a round starts with one of the first velocities. *)
LEMMA RestMotion ==
    ASSUME Motion, NoPowerUp \/ AccelerateBall \/ GrowPaddle \/ Goal \/ NoGoal \/ Spawn
    PROVE  Motion'
  <1>1. CASE NoPowerUp \/ NoGoal \/ Spawn
    <2>1. /\ UNCHANGED <<connected, py, pv, pa, height, x, y, vx, vy, ax, ay, touched, over>>
          /\ powerUp' \in BOOLEAN /\ phase' \in {"goal", "spawn", "players"}
      BY <1>1 DEF NoPowerUp, NoGoal, Spawn, paddles, ball, Motion, TypeOK
    <2> QED
      BY <2>1 DEF Motion, Signs, TypeOK, SpeedBounded
  <1>2. CASE AccelerateBall
    <2>1. /\ phase' = "goal" /\ powerUp' = FALSE
          /\ UNCHANGED <<connected, py, pv, pa, height, x, y, vx, vy, touched, over>>
      BY <1>2 DEF AccelerateBall, PickUp
    <2>2. /\ ax' \in Int /\ ay' \in Int
          /\ ax' = IF vx > 0 THEN Acceleration ELSE -Acceleration
      BY <1>2, FieldAssumption DEF AccelerateBall
    <2>3. Signs'
      <3>1. vx \in Int /\ vx' = vx /\ Acceleration \in Nat
        BY <2>1, Constants DEF Motion, TypeOK
      <3> QED
        BY <2>2, <3>1 DEF Signs
    <2> QED
      BY <2>1, <2>2, <2>3 DEF Motion, TypeOK, SpeedBounded
  <1>3. CASE GrowPaddle
    <2>1. /\ phase' = "goal" /\ powerUp' = FALSE
          /\ UNCHANGED <<connected, py, pv, pa, x, y, vx, vy, ax, ay, touched, over>>
          /\ height' = [height EXCEPT ![touched] = @ + Growth]
          /\ touched # NoTouch
      BY <1>3 DEF GrowPaddle, PickUp
    <2>2. height' \in [Players -> Nat]
      BY <2>1, Constants DEF Motion, TypeOK
    <2> QED
      BY <2>1, <2>2 DEF Motion, Signs, TypeOK, SpeedBounded
  <1>4. CASE Goal
    <2>1. phase' = "spawn" /\ UNCHANGED connected
      BY <1>4 DEF Goal
    <2>2. CASE over' = TRUE /\ UNCHANGED <<paddles, ball, powerUp>>
      BY <2>1, <2>2 DEF Motion, Signs, TypeOK, SpeedBounded, paddles, ball
    <2>3. CASE ResetPlayers /\ InitBall /\ powerUp' = TRUE /\ UNCHANGED over
      <3>1. TypeOK'
        BY <2>1, <2>3, Constants, Middle, FieldAssumption
        DEF Motion, TypeOK, ResetPlayers, InitBall
      <3>2. SpeedBounded' /\ Signs'
        BY <2>3, Constants DEF InitBall, SpeedBounded, Signs
      <3> QED
        BY <3>1, <3>2 DEF Motion
    <2> QED
      BY <1>4, <2>2, <2>3 DEF Goal
  <1> QED
    BY <1>1, <1>2, <1>3, <1>4

LEMMA MotionStep == Motion /\ [Next]_vars => Motion'
  <1> SUFFICES ASSUME Motion, [Next]_vars
               PROVE  Motion'
    OBVIOUS
  <1>1. CASE UNCHANGED vars
    BY <1>1 DEF vars, paddles, ball, Motion, Signs, TypeOK, SpeedBounded
  <1> QED
    BY <1>1, PlayersMotion, BallMotion, RestMotion DEF Next, Tick

-----------------------------------------------------------------------------
(* Places *)

(* The field before the first tick *)
LEMMA FieldInit == Init => FieldInv
  <1> SUFFICES ASSUME Init
               PROVE  FieldInv
    OBVIOUS
  <1>1. Paddles
    BY DEF Init, Paddles
  <1>2. BallInReach
    BY Constants, Middle DEF Init, BallInReach
  <1> QED
    BY <1>1, <1>2, MotionInit DEF FieldInv, Places

(* Where nothing but a height changes, which grows, the ball is as far in  *)
(* reach as before.                                                        *)
LEMMA ReachKept ==
    ASSUME FieldInv, UNCHANGED <<x, y>>,
           \A i \in Players : height'[i] \in Int /\ height[i] <= height'[i]
    PROVE  BallInReach'
  <1>1. x \in Int /\ y \in Int /\ BallInReach
    BY DEF FieldInv, Motion, TypeOK, Places
  <1>2. CASE -Radius <= y /\ y <= Height + Radius
    BY <1>1, <1>2 DEF BallInReach
  <1>3. CASE \E i \in Players : /\ height[i] > Height
                                /\ Height - height[i] - Radius <= y /\ y <= height[i] + Radius
    <2>1. PICK i \in Players : /\ height[i] > Height
                               /\ Height - height[i] - Radius <= y /\ y <= height[i] + Radius
      BY <1>3
    <2>2. height[i] \in Int /\ height'[i] \in Int /\ height[i] <= height'[i]
      BY DEF FieldInv, Motion, TypeOK
    <2>3. /\ height'[i] > Height
          /\ Height - height'[i] - Radius <= y /\ y <= height'[i] + Radius
      BY <1>1, <2>1, <2>2, Constants
    <2> QED
      BY <1>1, <2>3 DEF BallInReach
  <1> QED
    BY <1>1, <1>2, <1>3 DEF BallInReach

(* A key changes the movement of a paddle and nothing else. *)
LEMMA InputPlaces ==
    ASSUME FieldInv, NEW i \in Players, PlayerInput(i)
    PROVE  Places'
  BY DEF PlayerInput, FieldInv, Places, Paddles, BallInReach, ball

(* A player who leaves takes a paddle off the field. *)
LEMMA LeavePlaces ==
    ASSUME FieldInv, NEW i \in Players, Leave(i)
    PROVE  Places'
  <1>1. /\ connected' = [connected EXCEPT ![i] = FALSE]
        /\ UNCHANGED <<py, pv, pa, height, x, y, vx, vy, ax, ay, powerUp, phase, over>>
    BY DEF Leave, paddles
  <1>2. \A j \in Players : connected'[j] => connected[j]
    BY <1>1 DEF FieldInv, Motion, TypeOK
  <1>3. Paddles'
    BY <1>1, <1>2 DEF FieldInv, Places, Paddles
  <1> QED
    BY <1>1, <1>3 DEF FieldInv, Places, BallInReach

(* update_player puts every connected paddle on the screen, or across it.  *)
LEMMA MovePlaces ==
    ASSUME FieldInv, MovePlayers
    PROVE  Places'
  <1>1. /\ phase' = "ball" /\ ~over
        /\ UNCHANGED <<connected, pa, height, x, y, vx, vy, ax, ay, touched, powerUp, over>>
        /\ pv' = [i \in Players |-> IF connected[i] THEN Accelerated(pv[i], pa[i]) ELSE pv[i]]
        /\ py' = [i \in Players |-> IF connected[i]
                                    THEN Clamp(py[i] + pv'[i], 0, Height - height[i])
                                    ELSE py[i]]
    BY DEF MovePlayers, ball
  <1>2. \A i \in Players : pv'[i] \in Int
    BY <1>1 DEF FieldInv, Motion, TypeOK, Accelerated
  <1>3. ASSUME NEW i \in Players, connected[i]
        PROVE  \/ 0 <= py'[i] /\ py'[i] <= Height - height[i]
               \/ Height - height[i] <= py'[i] /\ py'[i] <= 0
    <2>1. py[i] + pv'[i] \in Int /\ height[i] \in Int /\ Height \in Int
      BY <1>2, Constants DEF FieldInv, Motion, TypeOK
    <2>2. py'[i] = Clamp(py[i] + pv'[i], 0, Height - height[i])
      BY <1>1, <1>3
    <2> QED
      BY <2>1, <2>2, SMT DEF Clamp
  <1>4. Paddles'
    BY <1>1, <1>3 DEF Paddles
  <1> QED
    BY <1>1, <1>4 DEF FieldInv, Places, BallInReach

(* The geometry of a collision: the ball's centre is within the radius of  *)
(* the sides and the ends of the paddle that it overlaps.                  *)
LEMMA OverlapReach ==
    ASSUME FieldInv, NEW i \in Players, Hits(i)
    PROVE  /\ FinX \in Int /\ FinY \in Int /\ x \in Int /\ y \in Int
           /\ py[i] \in Int /\ height[i] \in Nat
           /\ PaddleX[i] - Radius <= FinX /\ FinX <= PaddleX[i] + PaddleWidth + Radius
           /\ py[i] - Radius <= FinY /\ FinY <= py[i] + height[i] + Radius
           /\ \/ 0 <= py[i] /\ py[i] <= Height - height[i]
              \/ Height - height[i] <= py[i] /\ py[i] <= 0
  <1>1. connected[i] /\ phase = "ball" /\ Overlaps(i)
    BY DEF Hits
  <1>2. FinX \in Int /\ FinY \in Int
    BY VelocityBounded DEF FieldInv, Motion
  <1>3. /\ py[i] \in Int /\ height[i] \in Nat /\ x \in Int /\ y \in Int
        /\ \/ 0 <= py[i] /\ py[i] <= Height - height[i]
           \/ Height - height[i] <= py[i] /\ py[i] <= 0
    BY <1>1 DEF FieldInv, Motion, TypeOK, Places, Paddles
  <1> QED
    BY <1>1, <1>2, <1>3, Constants DEF Overlaps

(* update_ball at a paddle: the ball is put down at its side or its end. *)
LEMMA PaddlePlaces ==
    ASSUME FieldInv, NEW i \in Players, HitSide(i) \/ HitEnd(i) \/ HitInside(i)
    PROVE  Places'
  <1>1. Hits(i)
    BY DEF HitSide, HitEnd, HitInside
  <1>2. /\ phase = "ball" /\ phase' = "power_up"
        /\ UNCHANGED <<connected, py, height, over>>
    BY <1>1 DEF Hits, paddles
  <1>3. Paddles'
    BY <1>2 DEF FieldInv, Places, Paddles
  <1>4. ASSUME x' \in Int, y' \in Int, Radius <= x', x' <= Width - Radius,
               py[i] - Radius <= y', y' <= py[i] + height[i] + Radius
        PROVE  BallInReach'
    <2>1. CASE height[i] > Height
      <3>1. Height - height[i] - Radius <= y' /\ y' <= height[i] + Radius
        BY <1>1, <1>4, <2>1, OverlapReach, Constants
      <3> QED
        BY <1>2, <1>4, <2>1, <3>1 DEF BallInReach
    <2>2. CASE ~(height[i] > Height)
      <3>1. -Radius <= y' /\ y' <= Height + Radius
        BY <1>1, <1>4, <2>2, OverlapReach, Constants
      <3> QED
        BY <1>4, <3>1 DEF BallInReach
    <2> QED
      BY <2>1, <2>2
  <1>5. CASE HitSide(i)
    <2>1. /\ x' = PaddleX[i] - Radius \/ x' = PaddleX[i] + PaddleWidth + Radius
          /\ y' = FinY
      BY <1>5 DEF HitSide
    <2>2. x' \in Int /\ Radius <= x' /\ x' <= Width - Radius
      BY <2>1, Constants
    <2> QED
      BY <1>1, <1>3, <1>4, <2>1, <2>2, OverlapReach DEF Places
  <1>6. CASE HitEnd(i)
    <2>1. /\ y' = py[i] - Radius \/ y' = py[i] + height[i] + Radius
          /\ x' = FinX
      BY <1>6 DEF HitEnd
    <2>2. /\ y' \in Int /\ py[i] - Radius <= y' /\ y' <= py[i] + height[i] + Radius
          /\ x' \in Int /\ Radius <= x' /\ x' <= Width - Radius
      BY <1>1, <2>1, OverlapReach, Constants
    <2> QED
      BY <1>3, <1>4, <2>2 DEF Places
  <1>7. CASE HitInside(i)
    BY <1>2, <1>3, <1>7 DEF HitInside, FieldInv, Places, BallInReach
  <1> QED
    BY <1>5, <1>6, <1>7

(* update_ball without a paddle in the way *)
LEMMA WallPlaces ==
    ASSUME FieldInv, HitWalls
    PROVE  Places'
  <1>1. phase' = "power_up" /\ phase = "ball" /\ UNCHANGED <<connected, py, height, over>>
    BY DEF HitWalls, paddles
  <1>2. FinX \in Int /\ FinY \in Int
    BY VelocityBounded DEF FieldInv, Motion
  <1>3. x' \in Radius .. Width - Radius /\ y' \in Radius .. Height - Radius
    BY <1>2, ClampBounds, Constants DEF HitWalls
  <1>4. BallInReach'
    BY <1>3, Constants DEF BallInReach
  <1> QED
    BY <1>1, <1>4 DEF FieldInv, Places, Paddles

(* A power-up changes the acceleration of the ball or the height of one    *)
(* paddle, which update_player will move.                                  *)
LEMMA PowerUpPlaces ==
    ASSUME FieldInv, AccelerateBall \/ GrowPaddle
    PROVE  Places'
  <1>1. phase' = "goal" /\ UNCHANGED <<connected, py, x, y, over>>
    BY DEF AccelerateBall, GrowPaddle, PickUp
  <1>2. \A i \in Players : height'[i] \in Int /\ height[i] <= height'[i]
    <2>1. height \in [Players -> Nat]
      BY DEF FieldInv, Motion, TypeOK
    <2>2. \/ height' = height
          \/ height' = [height EXCEPT ![touched] = @ + Growth]
      BY DEF AccelerateBall, GrowPaddle
    <2> QED
      BY <2>1, <2>2, Constants
  <1> QED
    BY <1>1, <1>2, ReachKept DEF Places, Paddles

(* A goal, or a ball at no defended line *)
LEMMA GoalPlaces ==
    ASSUME FieldInv, Goal \/ NoGoal
    PROVE  Places'
  <1>1. phase = "goal" /\ phase' = "spawn"
    BY DEF Goal, NoGoal
  <1>2. CASE UNCHANGED <<height, x, y>>
    BY <1>1, <1>2 DEF FieldInv, Places, Paddles, BallInReach
  <1>3. CASE ResetPlayers /\ InitBall /\ powerUp' = TRUE /\ UNCHANGED over
    <2>1. BallInReach'
      BY <1>3, Constants, Middle DEF InitBall, BallInReach
    <2> QED
      BY <1>1, <2>1 DEF Places, Paddles
  <1> QED
    BY <1>2, <1>3 DEF Goal, NoGoal, paddles, ball

(* Every step keeps the invariant. *)
LEMMA FieldStep == FieldInv /\ [Next]_vars => FieldInv'
  <1> SUFFICES ASSUME FieldInv, [Next]_vars
               PROVE  Places'
    BY MotionStep DEF FieldInv
  <1>1. CASE UNCHANGED <<connected, paddles, ball, phase, over>>
    BY <1>1 DEF FieldInv, Places, Paddles, BallInReach, paddles, ball
  <1>2. CASE NoPowerUp \/ Spawn
    <2>1. UNCHANGED <<connected, paddles, ball, over>> /\ phase' \in {"goal", "players"}
      BY <1>2 DEF NoPowerUp, Spawn
    <2> QED
      BY <2>1 DEF FieldInv, Places, Paddles, BallInReach, paddles, ball
  <1>3. CASE UNCHANGED vars
    BY <1>1, <1>3 DEF vars
  <1> QED
    BY <1>2, <1>3, InputPlaces, LeavePlaces, MovePlaces, PaddlePlaces, WallPlaces, PowerUpPlaces,
       GoalPlaces
    DEF Next, Tick

-----------------------------------------------------------------------------
(* Where the ball turns *)

(* A ball that update_ball does not turn round keeps its direction. *)
LEMMA DirectionKept ==
    ASSUME FieldInv
    PROVE  /\ vx \in Int /\ Vx \in Int
           /\ (vx < 0 => Vx <= 0) /\ (vx > 0 => Vx >= 0)
  <1>1. vx \in Int /\ ax \in Int /\ Signs
    BY DEF FieldInv, Motion, TypeOK
  <1>2. Vx \in {vx, vx + ax}
    BY VelocityBounded DEF FieldInv, Motion
  <1> QED
    BY <1>1, <1>2 DEF Signs

(* The ball turns round at a wall when it is on the goal line there. *)
LEMMA WallTurns ==
    ASSUME FieldInv, HitWalls
    PROVE  /\ vx < 0 /\ vx' > 0 => AtLine(0)'
           /\ vx > 0 /\ vx' < 0 => AtLine(1)'
  <1>1. /\ x \in Int /\ Radius <= x /\ x <= Width - Radius /\ FinX = x + Vx
    BY DEF FieldInv, Motion, TypeOK, Places, BallInReach, FinX
  <1>2. /\ vx \in Int /\ Vx \in Int /\ (vx < 0 => Vx <= 0) /\ (vx > 0 => Vx >= 0)
    BY DirectionKept
  <1>3. /\ vx' = IF Outside(FinX, Radius, Width - Radius) THEN -Vx ELSE Vx
        /\ x' = Clamp(FinX, Radius, Width - Radius)
    BY DEF HitWalls
  <1>4. ASSUME vx < 0, vx' > 0
        PROVE  x' = Radius
    BY <1>1, <1>2, <1>3, <1>4, Constants DEF Outside, Clamp
  <1>5. ASSUME vx > 0, vx' < 0
        PROVE  x' = Width - Radius
    BY <1>1, <1>2, <1>3, <1>5, Constants DEF Outside, Clamp
  <1> QED
    BY <1>4, <1>5, Constants DEF AtLine

(* At a paddle it turns round at a side. *)
LEMMA PaddleTurns ==
    ASSUME FieldInv, NEW i \in Players, HitSide(i) \/ HitEnd(i) \/ HitInside(i),
           (vx < 0 /\ vx' > 0) \/ (vx > 0 /\ vx' < 0)
    PROVE  BesidePaddle'
  <1>1. touched' = i /\ i # NoTouch
    BY FieldAssumption DEF HitSide, HitEnd, HitInside, Hits, Players, NoTouch
  <1>2. CASE HitSide(i)
    BY <1>1, <1>2 DEF HitSide, BesidePaddle
  <1>3. CASE HitEnd(i) \/ HitInside(i)
    <2>1. vx' = Vx
      BY <1>3 DEF HitEnd, HitInside, TurnY
    <2> QED
      BY <2>1, DirectionKept
  <1> QED
    BY <1>2, <1>3

-----------------------------------------------------------------------------
(* The theorems *)

(* update_game_state and the receive threads never leave the invariant. *)
THEOREM FieldInvariance == Spec => []FieldInv
  BY FieldInit, FieldStep, PTL DEF Spec

(* What update_player, update_ball and the receive threads assign has its   *)
(* type: no height is negative, and last_touched_id is a player or none.    *)
THEOREM FieldTypeCorrect == Spec => []TypeOK
  <1>1. FieldInv => TypeOK
    BY DEF FieldInv, Motion
  <1> QED
    BY <1>1, FieldInvariance, PTL

(* The ball is never faster than BALL_MAX_VELOCITY, through boosts, bounces *)
(* off paddles and walls, and restarts.                                     *)
THEOREM SpeedCorrect == Spec => []SpeedBounded
  <1>1. FieldInv => SpeedBounded
    BY DEF FieldInv, Motion
  <1> QED
    BY <1>1, FieldInvariance, PTL

(* The ball stays within its radius of the window, or of what the highest  *)
(* paddle has outgrown it by, although it skips the walls in a tick in     *)
(* which it hits a paddle.                                                 *)
THEOREM BallCorrect == Spec => []BallInReach
  <1>1. FieldInv => BallInReach
    BY DEF FieldInv, Places
  <1> QED
    BY <1>1, FieldInvariance, PTL

(* A paddle lies on the screen or covers it whenever the ball may hit it,  *)
(* however many power-ups it has taken.                                    *)
THEOREM PaddlesCorrect == Spec => []PaddlesOnScreen
  <1>1. FieldInv => PaddlesOnScreen
    BY DEF FieldInv, Places, Paddles, PaddlesOnScreen
  <1> QED
    BY <1>1, FieldInvariance, PTL

(* The ball turns round at the side of a paddle or on a goal line: the     *)
(* limits of update_ball and its test for goals agree.                     *)
THEOREM GoalsCorrect == Spec => WallIsGoal
  <1> DEFINE Turns == phase # "goal" =>
                        /\ vx < 0 /\ vx' > 0 => AtLine(0)' \/ BesidePaddle'
                        /\ vx > 0 /\ vx' < 0 => AtLine(1)' \/ BesidePaddle'
  <1>1. FieldInv /\ [Next]_vars => [Turns]_vars
    <2> SUFFICES ASSUME FieldInv, Next
                 PROVE  Turns
      OBVIOUS
    <2>1. CASE vx' = vx
      <3>1. ~(vx < 0 /\ vx > 0)
        BY DEF FieldInv, Motion, TypeOK
      <3> QED
        BY <2>1, <3>1
    <2>2. CASE HitWalls
      BY <2>2, WallTurns
    <2>3. ASSUME NEW i \in Players, HitSide(i) \/ HitEnd(i) \/ HitInside(i)
          PROVE  Turns
      BY <2>3, PaddleTurns
    <2>4. CASE Goal
      BY <2>4 DEF Goal
    <2>5. CASE MovePlayers \/ NoPowerUp \/ AccelerateBall \/ GrowPaddle \/ NoGoal \/ Spawn
      BY <2>1, <2>5 DEF MovePlayers, NoPowerUp, AccelerateBall, GrowPaddle, PickUp, NoGoal, Spawn, ball
    <2>6. ASSUME NEW i \in Players, PlayerInput(i) \/ Leave(i)
          PROVE  Turns
      BY <2>1, <2>6 DEF PlayerInput, Leave, ball
    <2> QED
      BY <2>2, <2>3, <2>4, <2>5, <2>6 DEF Next, Tick
  <1> HIDE DEF Turns
  <1>2. Spec => [][Turns]_vars
    BY <1>1, FieldInvariance, PTL DEF Spec
  <1> QED
    BY <1>2 DEF WallIsGoal, Turns
=============================================================================
