------------------------------- MODULE MCField -------------------------------
(* Instances of Field for TLC, and what the comments of the code claim. *)
EXTENDS Field, TLC

(* A round of the game lets paddles grow without bound: in an instance no  *)
(* power-up takes one beyond MaxHeight, which is beyond the window.        *)
CONSTANT MaxHeight
ASSUME MaxHeight > Height

HeightsBounded == \A i \in Players : height[i] <= MaxHeight

(* Two back players, one at each side *)
BackX == 0 :> 3 @@ 1 :> Width - 4
BackStart == 0 :> 1 @@ 1 :> 0

(* Velocities within 60 degrees of the horizon *)
Starts == {<<1, 1>>, <<-1, 1>>, <<-1, -1>>}

(* pong_game.c:411, "accelerate ball until it hits enemy's paddle": a      *)
(* paddle of the other team takes the acceleration away.                   *)
EnemyStopsAcceleration ==
    [][touched # NoTouch /\ touched' # NoTouch /\ TeamOf(touched) # TeamOf(touched')
         => ax' = 0 /\ ay' = 0]_vars

(* pong_game.c:141, of update_player: "make sure than nothing goes out of  *)
(* the screen's borders".                                                  *)
PaddlesInBorders ==
    phase = "ball" => \A i \in Players : connected[i] => 0 <= py[i] /\ py[i] + height[i] <= Height

(* The same when the state of the game is sent *)
PaddlesSentInBorders ==
    phase = "players" => \A i \in Players : connected[i] => 0 <= py[i] /\ py[i] + height[i] <= Height
==============================================================================
