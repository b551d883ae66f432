----------------------------- MODULE MatchProofs -----------------------------
(***************************************************************************)
(* Proofs about Match, for a 1v1 and a 2v2, every threshold and every set  *)
(* of players who may leave, at every statement of the tick.               *)
(***************************************************************************)
EXTENDS Match, TLAPS

(* Until the goals of a tick are counted nobody has won. *)
PlayedOn ==
    step \in {"collide", "touch", "power_up", "boost", "goal", "credit"} => status # "SUCCESS"

(* The power-up that is applied lies on the field. *)
BoostFromField == step = "boost" => powerUp

(* active_player_count may be too high after a lost update, never too low: *)
(* it covers those who have not stored their decrement yet.                *)
Pending(i) == leave[i] \in {"playing", "load", "store"}

Needed(i, j) == IF i = j THEN 1 ELSE 2

CountCovers ==
    \A i, j \in Players : TeamOf(i) = TeamOf(j) /\ Pending(i) /\ Pending(j) =>
        /\ active[TeamOf(i)] >= Needed(i, j)
        /\ leave[i] = "store" => loaded[i] >= Needed(i, j)

(* Who has not begun to leave is connected. *)
Present == \A i \in Players : connected[i] => leave[i] = "playing"

MatchInv ==
    /\ TypeOK /\ SuccessIffWon /\ PowerUpCountExact
    /\ PlayedOn /\ PlayersScoreForTeam /\ BoostFromField
    /\ CountCovers /\ Present /\ GivenUpForCause

-----------------------------------------------------------------------------
(* Players and teams *)

LEMMA Sides ==
    /\ \A i \in Players : i \in Int /\ TeamOf(i) \in Teams
    /\ \A t \in Teams : Other(t) \in Teams /\ Other(t) # t /\ t \in Int
    /\ \A t, u \in Teams : u = t \/ u = Other(t)
    /\ NumPlayers \div 2 \in {1, 2}
  BY MatchAssumption DEF Players, Teams, TeamOf, Other

(* A player has at most one team mate; a 1v1 has none. *)
LEMMA TeamMates ==
    /\ \A i, j, k \in Players :
         TeamOf(i) = TeamOf(j) /\ TeamOf(i) = TeamOf(k) /\ j # i /\ k # i => j = k
    /\ NumPlayers = 2 => \A i, j \in Players : TeamOf(i) = TeamOf(j) => i = j
    /\ NumPlayers = 2 => \A t \in Teams : t \in Players /\ TeamOf(t) = t
<1>1. CASE NumPlayers = 2
  <2>1. Players = {0, 1}
    BY <1>1 DEF Players
  <2>2. TeamOf(0) = 0 /\ TeamOf(1) = 1
    BY DEF TeamOf
  <2> QED BY <1>1, <2>1, <2>2 DEF Teams
<1>2. CASE NumPlayers = 4
  <2>1. Players = {0, 1, 2, 3}
    BY <1>2 DEF Players
  <2>2. TeamOf(0) = 0 /\ TeamOf(1) = 1 /\ TeamOf(2) = 0 /\ TeamOf(3) = 1
    BY DEF TeamOf
  <2> QED BY <1>2, <2>1, <2>2
<1> QED
  BY <1>1, <1>2, MatchAssumption

LEMMA MatchInit == Init => MatchInv
<1> SUFFICES ASSUME Init PROVE MatchInv
  OBVIOUS
<1>1. TypeOK
  BY Sides, MatchAssumption DEF Init, TypeOK, Players, Teams, NoTouch
<1>2. SuccessIffWon
  BY Sides, MatchAssumption DEF Init, SuccessIffWon, Wins
<1>3. PowerUpCountExact /\ PlayedOn /\ PlayersScoreForTeam /\ BoostFromField
  BY Sides DEF Init, PowerUpCountExact, PlayedOn, PlayersScoreForTeam, GoalsOf, BoostFromField
<1>4. CountCovers
  <2> SUFFICES ASSUME NEW i \in Players, NEW j \in Players, TeamOf(i) = TeamOf(j)
               PROVE  active[TeamOf(i)] >= Needed(i, j) /\ leave[i] # "store"
    BY DEF CountCovers
  <2>1. active[TeamOf(i)] = NumPlayers \div 2 /\ leave[i] = "playing"
    BY Sides DEF Init
  <2>2. i # j => NumPlayers # 2
    BY TeamMates
  <2>3. NumPlayers = 4 => NumPlayers \div 2 = 2
    OBVIOUS
  <2> QED BY <2>1, <2>2, <2>3, Sides, MatchAssumption DEF Needed
<1>5. Present /\ GivenUpForCause
  BY DEF Init, Present, GivenUpForCause
<1> QED
  BY <1>1, <1>2, <1>3, <1>4, <1>5 DEF MatchInv

-----------------------------------------------------------------------------
(* Leaving *)

LEMMA LeaveStep ==
  ASSUME MatchInv, NEW p \in Players, Leave(p)
  PROVE  MatchInv'
<1>0. UNCHANGED <<status, step, rules>>
  BY DEF Leave, LeaveEntry, LoadActive, StoreActive, ForgetTouch
<1>1. (SuccessIffWon /\ PowerUpCountExact /\ PlayedOn /\ PlayersScoreForTeam /\ BoostFromField)'
  BY <1>0 DEF MatchInv, rules, SuccessIffWon, Wins, PowerUpCountExact, PlayedOn,
              PlayersScoreForTeam, GoalsOf, BoostFromField
<1>1a. (Present /\ GivenUpForCause)'
  BY <1>0 DEF Leave, LeaveEntry, LoadActive, StoreActive, ForgetTouch, MatchInv, TypeOK, Present,
              GivenUpForCause
<1>2. CASE LeaveEntry(p)
  <2>1. TypeOK'
    BY <1>2 DEF LeaveEntry, MatchInv, TypeOK, rules
  <2>2. CountCovers'
    BY <1>2, Sides DEF LeaveEntry, MatchInv, TypeOK, CountCovers, Pending, Needed
  <2> QED BY <1>1, <1>1a, <2>1, <2>2 DEF MatchInv
<1>3. CASE LoadActive(p)
  <2>1. TypeOK'
    BY <1>3, Sides DEF LoadActive, MatchInv, TypeOK, rules
  <2>2. CountCovers'
    BY <1>3, Sides DEF LoadActive, MatchInv, TypeOK, CountCovers, Pending, Needed
  <2> QED BY <1>1, <1>1a, <2>1, <2>2 DEF MatchInv
<1>4. CASE StoreActive(p)
  <2>0. loaded[p] \in 1 .. NumPlayers \div 2
    BY <1>4, Sides DEF StoreActive, MatchInv, TypeOK, CountCovers, Pending, Needed
  <2>1. TypeOK'
    BY <1>4, <2>0, Sides DEF StoreActive, MatchInv, TypeOK, rules
  <2>2. CountCovers'
    <3> SUFFICES ASSUME NEW i \in Players, NEW j \in Players, TeamOf(i) = TeamOf(j),
                        Pending(i)', Pending(j)'
                 PROVE  /\ active'[TeamOf(i)] >= Needed(i, j)
                        /\ leave'[i] = "store" => loaded'[i] >= Needed(i, j)
      BY DEF CountCovers
    <3>1. i # p /\ j # p /\ Pending(i) /\ Pending(j) /\ Pending(p)
      BY <1>4 DEF StoreActive, MatchInv, TypeOK, Pending
    <3>2. leave'[i] = "store" => loaded'[i] >= Needed(i, j)
      BY <1>4, <3>1 DEF StoreActive, MatchInv, TypeOK, CountCovers
    <3>3. CASE TeamOf(i) = TeamOf(p)
      <4>1. i = j
        BY <3>1, <3>3, TeamMates
      <4>2. loaded[p] >= 2
        BY <1>4, <3>1, <3>3 DEF StoreActive, MatchInv, CountCovers, Needed
      <4>3. active'[TeamOf(i)] = loaded[p] - 1
        BY <1>4, <3>3, Sides DEF StoreActive, MatchInv, TypeOK
      <4> QED BY <2>0, <3>2, <4>1, <4>2, <4>3, Sides DEF Needed
    <3>4. CASE TeamOf(i) # TeamOf(p)
      BY <1>4, <3>1, <3>2, <3>4, Sides DEF StoreActive, MatchInv, TypeOK, CountCovers
    <3> QED BY <3>3, <3>4
  <2> QED BY <1>1, <1>1a, <2>1, <2>2 DEF MatchInv
<1>5. CASE ForgetTouch(p)
  <2>1. TypeOK'
    BY <1>5 DEF ForgetTouch, MatchInv, TypeOK, rules
  <2>2. CountCovers'
    BY <1>5, Sides DEF ForgetTouch, MatchInv, TypeOK, CountCovers, Pending, Needed
  <2> QED BY <1>1, <1>1a, <2>1, <2>2 DEF MatchInv
<1> QED
  BY <1>2, <1>3, <1>4, <1>5 DEF Leave

-----------------------------------------------------------------------------
(* A goal *)

(* The score of a team grows while nobody has won. *)
LEMMA AddGoalStep ==
  ASSUME TypeOK, SuccessIffWon, status # "SUCCESS", PowerUpCountExact,
         NEW t \in Teams, AddGoal(t)
  PROVE  /\ status' \in {"IN_PROGRESS", "SUCCESS", "ALL_TEAM_LEFT"}
         /\ score' \in [Teams -> 0 .. WinScore]
         /\ \A u \in Teams : score'[u] = IF u = t THEN score[u] + 1 ELSE score[u]
         /\ touched' \in Players \cup {NoTouch}
         /\ powerUp' \in BOOLEAN /\ powerUpCount' \in {0, 1}
         /\ SuccessIffWon' /\ PowerUpCountExact'
<1> USE Sides, MatchAssumption DEF TypeOK
<1>1. \A u \in Teams : ~Wins(score, u)
  BY DEF SuccessIffWon
<1>2. score[t] < WinScore
  BY <1>1 DEF Wins
<1>3. /\ score' \in [Teams -> 0 .. WinScore]
      /\ \A u \in Teams : score'[u] = IF u = t THEN score[u] + 1 ELSE score[u]
  BY <1>2 DEF AddGoal
<1>4. ~Wins(score', Other(t))
  <2>1. score'[Other(t)] = score[Other(t)] /\ score'[t] = score[t] + 1 /\ Other(Other(t)) = t
    BY <1>3 DEF Other, Teams
  <2> QED BY <1>1, <2>1 DEF Wins
<1>5. SuccessIffWon'
  BY <1>4 DEF AddGoal, SuccessIffWon
<1>6. PowerUpCountExact' /\ powerUp' \in BOOLEAN /\ powerUpCount' \in {0, 1}
  BY DEF AddGoal, PowerUpCountExact
<1> QED
  BY <1>3, <1>5, <1>6 DEF AddGoal

-----------------------------------------------------------------------------
(* The tick *)

LEMMA TickStep ==
  ASSUME MatchInv, Tick
  PROVE  MatchInv'
<1>0. UNCHANGED <<active, leave, loaded, connected>>
  BY DEF Tick, CheckTeams, Collide, Touch, ReachPowerUp, Boost, NoGoal, UntouchedGoal, TouchedGoal,
         Credit, Spawn
<1>1. (CountCovers /\ Present)'
  BY <1>0 DEF MatchInv, CountCovers, Pending, Present
(* CheckTeams alone gives the match up, for a team whose count is 0. *)
<1>1a. GivenUpForCause'
  <2>1. CASE CheckTeams
    <3>1. ASSUME NEW t \in Teams, active[t] = 0, NEW i \in Players, TeamOf(i) = t
          PROVE  ~connected[i]
      BY <3>1 DEF MatchInv, TypeOK, CountCovers, Present, Pending, Needed
    <3> QED BY <1>0, <2>1, <3>1 DEF CheckTeams, MatchInv, GivenUpForCause
  <2>2. CASE ~CheckTeams
    <3>1. status' = "ALL_TEAM_LEFT" => status = "ALL_TEAM_LEFT"
      BY <2>2 DEF Tick, Collide, Touch, ReachPowerUp, Boost, NoGoal, UntouchedGoal, TouchedGoal,
                  Credit, Spawn, AddGoal
    <3> QED BY <1>0, <3>1 DEF MatchInv, GivenUpForCause
  <2> QED BY <2>1, <2>2
<1>2. CASE CheckTeams \/ Collide \/ Touch \/ ReachPowerUp
  <2>1. TypeOK'
    BY <1>2 DEF CheckTeams, Collide, Touch, ReachPowerUp, MatchInv, TypeOK, rules
  <2>2. (SuccessIffWon /\ PowerUpCountExact /\ PlayedOn /\ PlayersScoreForTeam /\ BoostFromField)'
    BY <1>2 DEF CheckTeams, Collide, Touch, ReachPowerUp, MatchInv, TypeOK, rules, SuccessIffWon, Wins,
                PowerUpCountExact, PlayedOn, PlayersScoreForTeam, GoalsOf, BoostFromField
  <2> QED BY <1>1, <1>1a, <2>1, <2>2 DEF MatchInv
<1>3. CASE Boost
  <2>0. powerUpCount' = 0 /\ powerUp' \in BOOLEAN
    <3>1. powerUp /\ powerUpCount = IF powerUp THEN 1 ELSE 0
      BY <1>3 DEF Boost, MatchInv, PowerUpCountExact, BoostFromField
    <3>2. powerUpCount = 1
      BY <3>1
    <3>3. powerUp' = FALSE /\ powerUpCount' = powerUpCount - 1
      BY <1>3 DEF Boost
    <3>4. powerUpCount' = 0
      BY <3>2, <3>3
    <3>5. powerUp' \in BOOLEAN
      BY <3>3, Zenon
    <3> QED BY <3>4, <3>5
  <2>x. step = "boost" /\ step' \in {"goal", "corrupt"}
    BY <1>3 DEF Boost
  <2>y. UNCHANGED <<status, score, playerScore, active, connected, touched, paddle, leave, loaded>>
    BY <1>3 DEF Boost
  <2>1. TypeOK'
    BY <2>0, <2>x, <2>y DEF MatchInv, TypeOK
  <2>2. (SuccessIffWon /\ PowerUpCountExact /\ PlayedOn /\ PlayersScoreForTeam /\ BoostFromField)'
    BY <1>3, <2>0, <2>x, <2>y DEF Boost, MatchInv, SuccessIffWon, Wins,
                PowerUpCountExact, PlayedOn, PlayersScoreForTeam, GoalsOf, BoostFromField
  <2> QED BY <1>1, <1>1a, <2>1, <2>2 DEF MatchInv
<1>4. CASE NoGoal
  <2>1. TypeOK'
    BY <1>4 DEF NoGoal, MatchInv, TypeOK, rules
  <2>2. (SuccessIffWon /\ PowerUpCountExact /\ PlayedOn /\ PlayersScoreForTeam /\ BoostFromField)'
    BY <1>4 DEF NoGoal, MatchInv, TypeOK, rules, SuccessIffWon, Wins,
                PowerUpCountExact, PlayedOn, PlayersScoreForTeam, GoalsOf, BoostFromField
  <2> QED BY <1>1, <1>1a, <2>1, <2>2 DEF MatchInv
<1>5. ASSUME NEW t \in Teams, UntouchedGoal(t) PROVE MatchInv'
  <2>1. status # "SUCCESS" /\ Other(t) \in Teams /\ AddGoal(Other(t)) /\ step' = "spawn"
    BY <1>5, Sides DEF UntouchedGoal, MatchInv, PlayedOn
  <2>2. TypeOK' /\ SuccessIffWon' /\ PowerUpCountExact'
    BY <1>5, <2>1, AddGoalStep DEF UntouchedGoal, MatchInv, TypeOK
  <2>3. PlayersScoreForTeam'
    <3>1. \A u \in Teams : score'[u] >= score[u]
      BY <2>1, AddGoalStep, MatchAssumption DEF MatchInv, TypeOK
    <3> QED BY <1>5, <2>2, <3>1, Sides, MatchAssumption
            DEF UntouchedGoal, MatchInv, PlayersScoreForTeam, GoalsOf, TypeOK
  <2> QED BY <1>1, <1>1a, <2>1, <2>2, <2>3 DEF MatchInv, PlayedOn, BoostFromField
<1>6. ASSUME NEW t \in Teams, TouchedGoal(t) PROVE MatchInv'
  <2>1. TypeOK'
    BY <1>6 DEF TouchedGoal, MatchInv, TypeOK, rules
  <2>2. (SuccessIffWon /\ PowerUpCountExact /\ PlayedOn /\ PlayersScoreForTeam /\ BoostFromField)'
    BY <1>6 DEF TouchedGoal, MatchInv, TypeOK, rules, SuccessIffWon, Wins,
                PowerUpCountExact, PlayedOn, PlayersScoreForTeam, GoalsOf, BoostFromField
  <2> QED BY <1>1, <1>1a, <2>1, <2>2 DEF MatchInv
<1>7. CASE Credit /\ touched = NoTouch
  <2>1. TypeOK'
    BY <1>7 DEF Credit, MatchInv, TypeOK, rules
  <2>2. (SuccessIffWon /\ PowerUpCountExact /\ PlayedOn /\ PlayersScoreForTeam /\ BoostFromField)'
    BY <1>7 DEF Credit, MatchInv, TypeOK, rules, SuccessIffWon, Wins,
                PowerUpCountExact, PlayedOn, PlayersScoreForTeam, GoalsOf, BoostFromField
  <2> QED BY <1>1, <1>1a, <2>1, <2>2 DEF MatchInv
<1>8. CASE Credit /\ touched # NoTouch
  <2> DEFINE t == TeamOf(touched)
  <2>1. /\ touched \in Players /\ t \in Teams /\ status # "SUCCESS"
        /\ AddGoal(t) /\ step' = "spawn"
        /\ playerScore' = [playerScore EXCEPT ![touched] = @ + 1]
    BY <1>8, Sides DEF Credit, MatchInv, PlayedOn, TypeOK
  <2>2. \A u \in Teams : score'[u] = IF u = t THEN score[u] + 1 ELSE score[u]
    BY <2>1, AddGoalStep DEF MatchInv
  <2>3. score' \in [Teams -> 0 .. WinScore]
    BY <2>1, AddGoalStep DEF MatchInv
  <2> HIDE DEF t
  <2>3a. \A i \in Players :
           /\ playerScore[i] \in Nat /\ score[TeamOf(i)] \in Nat /\ TeamOf(i) \in Teams
           /\ playerScore'[i] = IF i = touched THEN playerScore[i] + 1 ELSE playerScore[i]
    BY <2>1, Sides, MatchAssumption DEF MatchInv, TypeOK
  <2>4. PlayersScoreForTeam'
    <3> SUFFICES ASSUME NEW i \in Players, NEW j \in Players, TeamOf(i) = TeamOf(j)
                 PROVE  GoalsOf(i, j)' <= score'[TeamOf(i)]
      BY DEF PlayersScoreForTeam
    <3>1. GoalsOf(i, j) <= score[TeamOf(i)]
      BY DEF MatchInv, PlayersScoreForTeam
    <3>2. score'[TeamOf(i)] = IF TeamOf(i) = t THEN score[TeamOf(i)] + 1 ELSE score[TeamOf(i)]
      BY <2>2, <2>3a
    <3>3. i = touched \/ j = touched => TeamOf(i) = t
      BY DEF t
    <3> QED BY <2>3a, <3>1, <3>2, <3>3 DEF GoalsOf
  <2>5. playerScore' \in [Players -> 0 .. WinScore]
    <3>1. ASSUME NEW i \in Players PROVE playerScore'[i] \in 0 .. WinScore
      <4>1. playerScore'[i] <= score'[TeamOf(i)]
        BY <2>4 DEF PlayersScoreForTeam, GoalsOf
      <4> QED BY <2>3, <2>3a, <4>1, MatchAssumption
    <3> QED BY <2>1, <3>1 DEF MatchInv, TypeOK
  <2>6. TypeOK' /\ SuccessIffWon' /\ PowerUpCountExact'
    BY <1>8, <2>1, <2>5, AddGoalStep DEF Credit, MatchInv, TypeOK
  <2> QED BY <1>1, <1>1a, <2>1, <2>4, <2>6 DEF MatchInv, PlayedOn, BoostFromField
<1>9. CASE Spawn
  <2>0. powerUp' \in BOOLEAN /\ powerUpCount' \in {0, 1} /\ PowerUpCountExact'
    <3>1. CASE ~powerUp /\ powerUp' = TRUE /\ powerUpCount' = powerUpCount + 1
      <4>1. powerUpCount = 0
        BY <3>1 DEF MatchInv, PowerUpCountExact
      <4> QED BY <3>1, <4>1 DEF PowerUpCountExact
    <3>2. CASE UNCHANGED <<powerUp, powerUpCount>>
      BY <3>2 DEF MatchInv, TypeOK, PowerUpCountExact
    <3> QED BY <1>9, <3>1, <3>2 DEF Spawn
  <2>x. step = "spawn" /\ step' = "idle"
    BY <1>9 DEF Spawn
  <2>y. UNCHANGED <<status, score, playerScore, active, connected, touched, paddle, leave, loaded>>
    BY <1>9 DEF Spawn
  <2>1. TypeOK' /\ PowerUpCountExact'
    BY <2>0, <2>x, <2>y DEF MatchInv, TypeOK
  <2>2. (SuccessIffWon /\ PlayedOn /\ PlayersScoreForTeam /\ BoostFromField)'
    BY <1>9 DEF Spawn, MatchInv, SuccessIffWon, Wins, PlayedOn, PlayersScoreForTeam, GoalsOf, BoostFromField
  <2> QED BY <1>1, <1>1a, <2>1, <2>2 DEF MatchInv
<1> QED
  BY <1>2, <1>3, <1>4, <1>5, <1>6, <1>7, <1>8, <1>9 DEF Tick

LEMMA MatchStep == MatchInv /\ [Next]_vars => MatchInv'
<1>1. CASE UNCHANGED vars
  BY <1>1 DEF vars, rules, MatchInv, TypeOK, SuccessIffWon, Wins, PowerUpCountExact, PlayedOn,
              PlayersScoreForTeam, GoalsOf, BoostFromField, CountCovers, Pending, Present, GivenUpForCause
<1> QED
  BY <1>1, TickStep, LeaveStep DEF Next

(* The invariant behind the rules. *)
THEOREM MatchInvariance == Spec => []MatchInv
<1> QED
  BY MatchInit, MatchStep, PTL DEF Spec

(* Scores stay within the threshold, and active_player_count, decremented  *)
(* by a load and a store, never becomes negative.                          *)
THEOREM MatchTypeCorrect == Spec => []TypeOK
<1>1. MatchInv => TypeOK
  BY DEF MatchInv
<1> QED
  BY <1>1, MatchInvariance, PTL

(* end_game for a winning goal is neither forgotten nor called without one. *)
THEOREM WinningCorrect == Spec => []SuccessIffWon
<1>1. MatchInv => SuccessIffWon
  BY DEF MatchInv
<1> QED
  BY <1>1, MatchInvariance, PTL

(* The goals of the players of a team are goals of the team, in spite of    *)
(* own goals and of players who leave.                                     *)
THEOREM ScoresCorrect == Spec => []PlayersScoreForTeam
<1>1. MatchInv => PlayersScoreForTeam
  BY DEF MatchInv
<1> QED
  BY <1>1, MatchInvariance, PTL

(* power_up_count does not drift over pick-ups, respawns and goals.        *)
THEOREM PowerUpsCorrect == Spec => []PowerUpCountExact
<1>1. MatchInv => PowerUpCountExact
  BY DEF MatchInv
<1> QED
  BY <1>1, MatchInvariance, PTL

(* Whoever leaves while his team mate does, and however the two decrements *)
(* and the tick overlap, a match with both teams present is not given up.  *)
THEOREM GivingUpCorrect == Spec => []GivenUpForCause
<1>1. MatchInv => GivenUpForCause
  BY DEF MatchInv
<1> QED
  BY <1>1, MatchInvariance, PTL
==============================================================================
