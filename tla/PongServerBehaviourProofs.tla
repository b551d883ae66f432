---------------------- MODULE PongServerBehaviourProofs ----------------------
(***************************************************************************)
(* What follows from the inductive invariant of PongServerProofs:          *)
(*  - the server implements Matchmaking: each step of the gameloop and of  *)
(*    a client's process maps to a step of Matchmaking or leaves what it   *)
(*    speaks of unchanged; where a lobby does not fill players[], the      *)
(*    client in slot 0 is a stray;                                         *)
(*  - while nobody quits, server and clients keep in step: InStep is an    *)
(*    invariant, and every packet finds its client on a screen that        *)
(*    expects it.                                                          *)
(***************************************************************************)
EXTENDS PongServerProofs, PongServerMatchmaking

-----------------------------------------------------------------------------
(* The server implements Matchmaking *)

(* What a step of the server has to be. *)
Matches == Matching!Next \/ UNCHANGED Matching!vars

(* c waits and plays where it did. *)
Stays(c) == clients'[c].lobby = clients[c].lobby /\ clients'[c].player = clients[c].player

KeepsStage(g) == StageOf(game_states'[g].status) = StageOf(game_states[g].status)

-----------------------------------------------------------------------------
(* The steps of Matchmaking in terms of the server's records *)

(* The stages, one by one *)
LEMMA Stages ==
    /\ StageOf("FREE") = "free" /\ StageOf("TAKEN") = "lost"
    /\ StageOf("LOADING") = "loading" /\ StageOf("IN_PROGRESS") = "running"
    /\ StageOf("STATISTICS") = "statistics"
    /\ StageOf("SUCCESS") = "over" /\ StageOf("CLIENT_FAILED_TO_LOAD") = "over"
    /\ StageOf("ALL_TEAM_LEFT") = "over"
  BY DEF StageOf

(* A step that no client and no stage notices *)
LEMMA StutterMatches ==
    ASSUME \A d \in Clients : Stays(d), \A g \in Games : KeepsStage(g)
    PROVE  Matches
  <1>1. [c \in Clients |-> clients[c].lobby]' = [c \in Clients |-> clients[c].lobby]
    BY DEF Stays
  <1>2. [c \in Clients |-> clients[c].player]' = [c \in Clients |-> clients[c].player]
    BY DEF Stays
  <1>3. [g \in Games |-> StageOf(game_states[g].status)]' =
            [g \in Games |-> StageOf(game_states[g].status)]
    BY DEF KeepsStage
  <1> QED
    BY <1>1, <1>2, <1>3 DEF Matches, Matching!vars

(* Whatever happens to a stray *)
LEMMA StrayMatches ==
    ASSUME NEW c \in Clients \ Spared, \A d \in Clients \ {c} : Stays(d),
           \A g \in Games : KeepsStage(g)
    PROVE  Matches
  <1> DEFINE waiting == [d \in Clients |-> clients[d].lobby]
             playing == [d \in Clients |-> clients[d].player]
  <1>1. DOMAIN waiting' = Clients /\ DOMAIN playing' = Clients
    OBVIOUS
  <1>2. \A d \in Clients \ {c} : waiting'[d] = waiting[d] /\ playing'[d] = playing[d]
    BY DEF Stays
  <1>3. [g \in Games |-> StageOf(game_states[g].status)]' =
            [g \in Games |-> StageOf(game_states[g].status)]
    BY DEF KeepsStage
  <1>4. Matching!Wander(c)
    BY <1>1, <1>2, <1>3 DEF Matching!Wander
  <1> QED
    BY <1>4 DEF Matches, Matching!Next

(* A client that waits and plays nowhere after the step *)
LEMMA LeaveMatches ==
    ASSUME NEW c \in Clients, \A d \in Clients \ {c} : Stays(d),
           clients'[c].lobby = NULL, clients'[c].player = NoPlayer,
           \A g \in Games : KeepsStage(g)
    PROVE  Matches
  <1>1. [d \in Clients |-> clients[d].lobby]' =
            [[d \in Clients |-> clients[d].lobby] EXCEPT ![c] = NULL]
    BY DEF Stays
  <1>2. [d \in Clients |-> clients[d].player]' =
            [[d \in Clients |-> clients[d].player] EXCEPT ![c] = NoPlayer]
    BY DEF Stays
  <1>3. [g \in Games |-> StageOf(game_states[g].status)]' =
            [g \in Games |-> StageOf(game_states[g].status)]
    BY DEF KeepsStage
  <1>4. Matching!Leave(c)
    BY <1>1, <1>2, <1>3 DEF Matching!Leave
  <1> QED
    BY <1>4 DEF Matches, Matching!Next

(* A client that gets into a lobby *)
LEMMA EnterMatches ==
    ASSUME NEW c \in Clients, NEW l \in Lobbies, \A d \in Clients \ {c} : Stays(d),
           clients[c].lobby = NULL, clients[c].player = NoPlayer,
           clients'[c].lobby = l, clients'[c].player = NoPlayer,
           UNCHANGED game_states
    PROVE  Matches
  <1>1. [d \in Clients |-> clients[d].lobby]' =
            [[d \in Clients |-> clients[d].lobby] EXCEPT ![c] = l]
    BY DEF Stays
  <1>2. [d \in Clients |-> clients[d].player]' = [d \in Clients |-> clients[d].player]
    BY DEF Stays
  <1>3. [g \in Games |-> StageOf(game_states[g].status)]' =
            [g \in Games |-> StageOf(game_states[g].status)]
    OBVIOUS
  <1>4. Matching!Enter(c, l)
    BY <1>1, <1>2, <1>3 DEF Matching!Enter
  <1> QED
    BY <1>4 DEF Matches, Matching!Next

(* A status that follows the one before *)
LEMMA AdvanceMatches ==
    ASSUME TypeOK, NEW g \in Games, \A d \in Clients : Stays(d),
           <<StageOf(game_states[g].status), StageOf(game_states'[g].status)>>
               \in Matching!Follows,
           \A h \in Games \ {g} : game_states'[h].status = game_states[h].status
    PROVE  Matches
  <1>1. [c \in Clients |-> clients[c].lobby]' = [c \in Clients |-> clients[c].lobby]
    BY DEF Stays
  <1>2. [c \in Clients |-> clients[c].player]' = [c \in Clients |-> clients[c].player]
    BY DEF Stays
  <1>3. [h \in Games |-> StageOf(game_states[h].status)]' =
            [[h \in Games |-> StageOf(game_states[h].status)] EXCEPT
                ![g] = StageOf(game_states'[g].status)]
    OBVIOUS
  <1>4. Matching!Advance(g)
    BY <1>1, <1>2, <1>3 DEF Matching!Advance, Matching!Follows
  <1> QED
    BY <1>4 DEF Matches, Matching!Next

(* A record of the statistics that is freed when nobody plays on it *)
LEMMA ReleaseMatches ==
    ASSUME TypeOK, Links, NEW g \in Games, \A d \in Clients : Stays(d),
           game_states[g].status = "STATISTICS", SetStatus(g, "FREE"),
           \A i \in Active(g) : game_states[g].players[i] = NULL
    PROVE  Matches
  <1>1. [c \in Clients |-> clients[c].lobby]' = [c \in Clients |-> clients[c].lobby]
    BY DEF Stays
  <1>2. [c \in Clients |-> clients[c].player]' = [c \in Clients |-> clients[c].player]
    BY DEF Stays
  <1>3. [h \in Games |-> StageOf(game_states[h].status)]' =
            [[h \in Games |-> StageOf(game_states[h].status)] EXCEPT ![g] = "free"]
    BY StatusEffect, Stages
  <1>4. ASSUME NEW c \in Spared, clients[c].player # NoPlayer
        PROVE  clients[c].player.game # g
    <2>1. PICK h \in Games, i \in Seats : clients[c].player = [game |-> h, seat |-> i]
      BY <1>4, SparedClients, ClientFields
    <2>2. i \in Active(h) /\ game_states[h].players[i] = c
      BY <1>4, <2>1, SparedClients DEF Links, PointersNamed
    <2> QED
      BY <2>1, <2>2, SparedClients
  <1>5. Matching!Release(g)
    BY <1>1, <1>2, <1>3, <1>4, Stages DEF Matching!Release, Matching!Players
  <1> QED
    BY <1>5 DEF Matches, Matching!Next

-----------------------------------------------------------------------------
(* The start of a game *)

(* The clients that a start takes out of a lobby *)
Sitters(l) == Clients \cap Dealt(l)

(* They wait in that lobby. *)
LEMMA SittersWait ==
    ASSUME TypeOK, Links, LobbyCounts, NEW l \in Lobbies
    PROVE  Sitters(l) \subseteq Matching!Waiters(l) \cup (Clients \ Spared)
  BY DealtSeated DEF Sitters, Matching!Waiters

(* A start that deals every place of the lobby *)
LEMMA BeginMatches ==
    ASSUME TypeOK, Links, LobbyCounts, NEW l \in Lobbies, NEW g \in Games,
           game_states[g].status = "FREE", Started(l, g)
    PROVE  Matches
  <1> DEFINE Places == 0 .. LobbySize[l] - 1
             holder == [i \in Places |-> lobbies[l].clients[i]]
             T == {holder[i] : i \in Places}
  <1>1. \A i \in Places : holder[i] \in Sitters(l)
    BY DEF Started, Sitters
  <1>2. \A c \in T : \E i \in Places : /\ holder[i] = c /\ clients'[c].lobby = NULL
                                       /\ clients'[c].player = [game |-> g, seat |-> i]
    <2> SUFFICES ASSUME NEW c \in T
                 PROVE  \E i \in Places : /\ holder[i] = c /\ clients'[c].lobby = NULL
                                          /\ clients'[c].player = [game |-> g, seat |-> i]
      OBVIOUS
    <2>1. c \in Clients \cap Dealt(l)
      BY <1>1 DEF Sitters
    <2> QED
      BY <2>1 DEF Started
  <1>3. \A d \in Clients \ T : clients'[d] = clients[d]
    <2> SUFFICES ASSUME NEW d \in Clients \ T
                 PROVE  clients'[d] = clients[d]
      OBVIOUS
    <2>1. CASE d \in Dealt(l)
      <3>1. PICK i \in Places : lobbies[l].clients[i] = d
        BY <2>1 DEF Started
      <3>2. holder[i] = d
        BY <3>1
      <3> QED
        BY <3>2
    <2>2. CASE d \notin Dealt(l)
      BY <2>2 DEF Started
    <2> QED
      BY <2>1, <2>2
  <1>4. holder \in [Places -> Matching!Waiters(l) \cup (Clients \ Spared)]
    BY <1>1, SittersWait
  <1>5. \A i, j \in Places : holder[i] = holder[j] => i = j \/ holder[i] \in Clients \ Spared
    <2> SUFFICES ASSUME NEW i \in Places, NEW j \in Places, holder[i] = holder[j],
                        holder[i] \in Spared
                 PROVE  i = j
      BY <1>1 DEF Sitters
    <2>1. i \in Seats /\ j \in Seats
      BY SlotsAreSeats
    <2> QED
      BY <2>1 DEF Links, SeatedInLobby
  <1>6. T \subseteq Clients
    BY <1>1 DEF Sitters
  <1> HIDE DEF T
  <1>7. [c \in Clients |-> clients[c].lobby]' =
           [c \in Clients |-> IF c \in T THEN NULL ELSE [d \in Clients |-> clients[d].lobby][c]]
    BY <1>2, <1>3
  <1>8. \A c \in Clients \ T : [d \in Clients |-> clients[d].player]'[c] =
                               [d \in Clients |-> clients[d].player][c]
    BY <1>3
  <1>9. \A c \in T : \E i \in Places : holder[i] = c
             /\ [d \in Clients |-> clients[d].player]'[c] = [game |-> g, seat |-> i]
    BY <1>2, <1>6
  <1>10. DOMAIN [d \in Clients |-> clients[d].player]' = Clients
    OBVIOUS
  <1>11. [h \in Games |-> StageOf(game_states[h].status)]' =
            [[h \in Games |-> StageOf(game_states[h].status)] EXCEPT ![g] = "loading"]
    <2>1. /\ game_states'[g].status = "LOADING"
          /\ \A h \in Games \ {g} : game_states'[h] = game_states[h]
      BY DEF Started
    <2> QED
      BY <2>1, Stages
  <1>12. Matching!Players(g) = {}
    <2> SUFFICES ASSUME NEW c \in Spared, clients[c].player # NoPlayer
                 PROVE  clients[c].player.game # g
      BY DEF Matching!Players
    <2>1. PICK h \in Games, i \in Seats : clients[c].player = [game |-> h, seat |-> i]
      BY SparedClients, ClientFields
    <2>2. Live(h)
      BY <2>1, SparedClients DEF Links, PointersNamed
    <2> QED
      BY <2>1, <2>2 DEF Live
  <1>13. [h \in Games |-> StageOf(game_states[h].status)][g] = "free"
    BY Stages
  <1>14. T = {holder[i] : i \in Places}
    BY DEF T
  <1> HIDE DEF holder
  <1>15. Matching!Begin(g, l)
    <2>1. \E f \in [Places -> Matching!Waiters(l) \cup (Clients \ Spared)] :
            LET U == {f[i] : i \in Places} IN
            /\ \A i, j \in Places : f[i] = f[j] => i = j \/ f[i] \in Clients \ Spared
            /\ [c \in Clients |-> clients[c].lobby]' =
                  [c \in Clients |-> IF c \in U THEN NULL
                                     ELSE [d \in Clients |-> clients[d].lobby][c]]
            /\ DOMAIN [d \in Clients |-> clients[d].player]' = Clients
            /\ \A c \in Clients \ U : [d \in Clients |-> clients[d].player]'[c] =
                                      [d \in Clients |-> clients[d].player][c]
            /\ \A c \in U : \E i \in Places : f[i] = c
                  /\ [d \in Clients |-> clients[d].player]'[c] = [game |-> g, seat |-> i]
      <3> WITNESS holder \in [Places -> Matching!Waiters(l) \cup (Clients \ Spared)]
      <3> QED
        BY <1>5, <1>7, <1>8, <1>9, <1>10, <1>14
    <2> QED
      BY <1>11, <1>12, <1>13, <2>1, Zenon DEF Matching!Begin, Matching!Stand
  <1> QED
    BY <1>15 DEF Matches, Matching!Next

(* A start that init_game_* rejects *)
LEMMA FailToBeginMatches ==
    ASSUME TypeOK, LobbyCounts, Links, NEW l \in Lobbies, NEW g \in Games,
           game_states[g].status = "FREE", Wasted(l, g)
    PROVE  Matches
  <1> DEFINE T == Sitters(l)
  <1>1. T \in SUBSET (Matching!Waiters(l) \cup (Clients \ Spared))
    BY SittersWait
  <1>2. \A c \in T : clients'[c].lobby = NULL /\ clients'[c].player = clients[c].player
    BY DEF Wasted, Sitters
  <1>3. \A d \in Clients \ T : clients'[d] = clients[d]
    BY DEF Wasted, Sitters
  <1> HIDE DEF T
  <1>4. [c \in Clients |-> clients[c].lobby]' =
           [c \in Clients |-> IF c \in T THEN NULL ELSE [d \in Clients |-> clients[d].lobby][c]]
    BY <1>2, <1>3
  <1>5. [c \in Clients |-> clients[c].player]' = [c \in Clients |-> clients[c].player]
    BY <1>2, <1>3
  <1>6. [h \in Games |-> StageOf(game_states[h].status)]' =
            [[h \in Games |-> StageOf(game_states[h].status)] EXCEPT ![g] = "lost"]
    BY Stages DEF Wasted
  <1>7. [h \in Games |-> StageOf(game_states[h].status)][g] = "free"
    BY Stages
  <1>8. Matching!FailToBegin(g, l)
    <2>1. \E S \in SUBSET (Matching!Waiters(l) \cup (Clients \ Spared)) :
            [c \in Clients |-> clients[c].lobby]' =
            [c \in Clients |-> IF c \in S THEN NULL
                               ELSE [d \in Clients |-> clients[d].lobby][c]]
      BY <1>1, <1>4
    <2> QED
      BY <1>5, <1>6, <1>7, <2>1, Zenon DEF Matching!FailToBegin, Matching!Stand
  <1> QED
    BY <1>8 DEF Matches, Matching!Next

-----------------------------------------------------------------------------
(* The steps of a client's process *)

(* A step that leaves clients and games alone *)
LEMMA UnchangedMatches == UNCHANGED <<clients, game_states>> => Matches
  BY StutterMatches DEF Stays, KeepsStage

(* A change of one client's state *)
LEMMA StateMatches ==
    ASSUME TypeOK, NEW c \in Clients, NEW s,
           clients' = [clients EXCEPT ![c].state = s], UNCHANGED game_states
    PROVE  Matches
  <1>1. \A d \in Clients : Stays(d)
    BY ClientFields DEF Stays, TypeOK, ClientType
  <1> QED
    BY <1>1, StutterMatches DEF KeepsStage

(* reset_client *)
LEMMA ResetMatches ==
    ASSUME TypeOK, Links, NEW c \in Clients, clients[c].taken,
           NEW taken \in BOOLEAN, ResetClient(c, taken)
    PROVE  Matches
  <1>1. Cut(c, taken)
    BY ResetEffect
  <1>2. clients'[c].lobby = NULL /\ clients'[c].player = NoPlayer
    BY <1>1 DEF Cut
  <1>3. \A d \in Clients \ {c} : Stays(d)
    BY <1>1 DEF Cut, Stays
  <1>4. \A g \in Games : KeepsStage(g)
    BY <1>1 DEF Cut, KeepsStage
  <1> QED
    BY <1>2, <1>3, <1>4, LeaveMatches

(* send_return_to_menu_to_player *)
LEMMA ReturnMatches ==
    ASSUME TypeOK, Links, NEW g \in Games, NEW j \in Seats, Live(g),
           game_states[g].players[j] # NULL,
           ReturnToMenu([game |-> g, seat |-> j])
    PROVE  Matches
  <1> DEFINE c == game_states[g].players[j]
  <1>1. Returned(c, g, j)
    BY ReturnToMenuEffect
  <1> HIDE DEF c
  <1>2. /\ c \in Clients /\ clients'[c].player = NoPlayer
        /\ c \in Spared => clients'[c].lobby = NULL
    BY <1>1 DEF Returned
  <1>3. \A d \in Clients \ {c} : Stays(d)
    BY <1>1 DEF Returned, Stays
  <1>4. \A h \in Games : KeepsStage(h)
    BY <1>1 DEF Returned, KeepsStage
  <1>5. CASE c \in Spared
    BY <1>2, <1>3, <1>4, <1>5, LeaveMatches
  <1>6. CASE c \notin Spared
    BY <1>2, <1>3, <1>4, <1>6, StrayMatches
  <1> QED
    BY <1>5, <1>6

(* Every step of a client's process *)
LEMMA ClientStepMatches ==
    ASSUME TypeOK, Rest, NEW c \in Clients, ClientStep(c)
    PROVE  Matches
  <1>0. Links /\ Threads /\ (recv[c].at # "down" => clients[c].taken)
    BY RunningIsTaken DEF Rest
  <1>1. CASE Connect(c)
    <2>1. clients'[c] = NewClient /\ \A d \in Clients \ {c} : clients'[d] = clients[d]
      BY <1>1 DEF Connect, TypeOK
    <2>2. clients'[c].lobby = NULL /\ clients'[c].player = NoPlayer
      BY <2>1 DEF NewClient
    <2> QED
      BY <1>1, <2>1, <2>2, LeaveMatches DEF Stays, KeepsStage, Connect
  <1>2. CASE Disconnect(c)
    BY <1>0, <1>2, ResetMatches DEF Disconnect
  <1>3. CASE ProcessJoin(c)
    BY <1>3, StateMatches, UnchangedMatches DEF ProcessJoin
  <1>4. CASE AddClientToLobby(c)
    <2> DEFINE l == recv[c].lobby
    <2>1. /\ recv[c].at = "spin" /\ UNCHANGED game_states
          /\ clients' = [clients EXCEPT ![c].lobby = l, ![c].state = "LOBBY"]
      BY <1>4 DEF AddClientToLobby
    <2>2. l \in Lobbies
      BY <2>1, RecvFields DEF TypeOK
    <2> HIDE DEF l
    <2>3. /\ clients'[c].lobby = l /\ clients'[c].player = clients[c].player
          /\ \A d \in Clients \ {c} : clients'[d] = clients[d]
      BY <2>1, ClientFields DEF TypeOK, ClientType
    <2>4. CASE c \in Spared
      <3>1. clients[c].lobby = NULL /\ clients[c].player = NoPlayer
        BY <1>0, <2>1, <2>4, Unnamed DEF Threads, SpinsInMenu, Links, NoPointersBeforeLobby
      <3> QED
        BY <2>1, <2>2, <2>3, <3>1, EnterMatches DEF Stays
    <2>5. CASE c \notin Spared
      BY <2>1, <2>3, <2>5, StrayMatches DEF Stays, KeepsStage
    <2> QED
      BY <2>4, <2>5
  <1>5. CASE ProcessPlayerReady(c)
    <2>1. PICK g \in Games, i \in Seats : clients[c].player = [game |-> g, seat |-> i]
      BY <1>5, ClientFields DEF ProcessPlayerReady
    <2>2. game_states' = [game_states EXCEPT ![g].ready[i] = TRUE] /\ UNCHANGED clients
      BY <1>5, <2>1 DEF ProcessPlayerReady
    <2>3. \A h \in Games : game_states'[h].status = game_states[h].status
      BY <2>2, GameFields DEF TypeOK, GameType
    <2> QED
      BY <2>2, <2>3, StutterMatches DEF Stays, KeepsStage
  <1>6. CASE ProcessExit(c)
    <2>1. clients[c].taken \in BOOLEAN
      BY ClientFields
    <2> QED
      BY <1>0, <1>6, <2>1, ResetMatches DEF ProcessExit
  <1>7. CASE ProcessExitStatistics(c)
    <2>1. CASE clients[c].player = NoPlayer
      BY <1>7, <2>1, UnchangedMatches DEF ProcessExitStatistics
    <2>2. CASE clients[c].player # NoPlayer
      <3>1. PICK g \in Games, i \in Seats : clients[c].player = [game |-> g, seat |-> i]
        BY <2>2, ClientFields
      <3>2. Live(g)
        BY <1>0, <1>7, <2>2, <3>1 DEF ProcessExitStatistics, Poll, Links, PointersNamed
      <3>3. /\ game_states[g].players[i] # NULL
            /\ ReturnToMenu([game |-> g, seat |-> i])
        BY <1>7, <2>2, <3>1 DEF ProcessExitStatistics
      <3> QED
        BY <1>0, <3>2, <3>3, ReturnMatches
    <2> QED
      BY <2>1, <2>2
  <1>8. CASE UNCHANGED <<clients, game_states>>
    BY <1>8, UnchangedMatches
  <1> QED
    BY <1>1, <1>2, <1>3, <1>4, <1>5, <1>6, <1>7, <1>8
    DEF ClientStep, Kill, ProcessGameType, ProcessMessage, SendChat, SendReply, SendServerPacket

-----------------------------------------------------------------------------
(* The steps of the gameloop *)

(* A change of status that follows the one before *)
LEMMA StatusMatches ==
    ASSUME TypeOK, NEW g \in Games, NEW s, SetStatus(g, s), \A d \in Clients : Stays(d),
           <<StageOf(game_states[g].status), StageOf(s)>> \in Matching!Follows
    PROVE  Matches
  BY StatusEffect, AdvanceMatches

(* The loop of send_game_statistics_to_all_players *)
LEMMA EndFromMatches ==
    ASSUME TypeOK, NEW g \in Games, NEW i \in Nat, Over(g), EndFrom(g, i)
    PROVE  Matches
  <1>1. CASE SetStatus(g, "STATISTICS") /\ UNCHANGED clients
    <2>1. StageOf(game_states[g].status) = "over"
      BY Stages DEF Over
    <2>2. <<"over", StageOf("STATISTICS")>> \in Matching!Follows
      BY Stages DEF Matching!Follows
    <2> QED
      BY <1>1, <2>1, <2>2, StatusMatches DEF Stays
  <1>2. ASSUME NEW c, clients' = [clients EXCEPT ![c].state = "STATISTICS"],
               UNCHANGED game_states
        PROVE  Matches
    <2>1. \A d \in Clients : Stays(d)
      BY <1>2, ClientFields DEF Stays, TypeOK, ClientType
    <2> QED
      BY <1>2, <2>1, StutterMatches DEF KeepsStage
  <1> QED
    BY <1>1, <1>2 DEF EndFrom

(* The loop of send_return_to_menu_to_all_players *)
LEMMA MenuFromMatches ==
    ASSUME TypeOK, Links, NEW g \in Games, game_states[g].status = "STATISTICS",
           NEW i \in Nat, i <= MaxPlayers, MenuFrom(g, i),
           \A k \in 0 .. i - 1 : game_states[g].players[k] = NULL
    PROVE  Matches
  <1> DEFINE S == Connected(g, i, MaxPlayers)
  <1>0. Live(g) /\ MaxPlayers \in Nat
    BY ServerAssumption DEF Live
  <1>1. CASE S = {} /\ SetStatus(g, "FREE") /\ UNCHANGED clients
    <2>1. \A k \in Seats : game_states[g].players[k] = NULL
      <3> SUFFICES ASSUME NEW k \in Seats
                   PROVE  game_states[g].players[k] = NULL
        OBVIOUS
      <3>1. CASE k \in i .. MaxPlayers - 1
        BY <1>1, <3>1 DEF Connected
      <3> QED
        BY <1>0, <3>1 DEF Seats
    <2> QED
      BY <1>1, <2>1, ActiveSeats, ReleaseMatches DEF Stays
  <1>2. ASSUME NEW j \in S, ReturnToMenu([game |-> g, seat |-> j])
        PROVE  Matches
    <2>1. j \in Seats /\ game_states[g].players[j] # NULL
      BY <1>0 DEF Connected, Seats
    <2> QED
      BY <1>0, <1>2, <2>1, ReturnMatches
  <1> QED
    BY <1>1, <1>2 DEF MenuFrom

(* update_game on a record in each of its stages *)
LEMMA UpdateGameMatches ==
    ASSUME TypeOK, Links, NEW g \in Games, UpdateGame(g)
    PROVE  Matches
  <1>1. CASE UpdateLoading(g)
    <2>1. CASE UNCHANGED <<clients, game_states>>
      BY <2>1, UnchangedMatches
    <2>2. CASE /\ clients' = [c \in Clients |->
                     IF \E i \in Active(g) : game_states[g].players[i] = c
                     THEN [clients[c] EXCEPT !.state = "GAME"] ELSE clients[c]]
               /\ SetStatus(g, "IN_PROGRESS")
      <3>1. \A d \in Clients : Stays(d)
        <4> SUFFICES ASSUME NEW d \in Clients
                     PROVE  Stays(d)
          OBVIOUS
        <4>1. \/ clients'[d] = clients[d]
              \/ clients'[d] = [clients[d] EXCEPT !.state = "GAME"]
          BY <2>2
        <4> QED
          BY <4>1, ClientFields DEF Stays, ClientType
      <3>2. game_states[g].status = "LOADING"
        BY <1>1 DEF UpdateLoading
      <3>3. <<StageOf("LOADING"), StageOf("IN_PROGRESS")>> \in Matching!Follows
        BY Stages DEF Matching!Follows
      <3> QED
        BY <2>2, <3>1, <3>2, <3>3, StatusMatches
    <2> QED
      BY <1>1, <2>1, <2>2 DEF UpdateLoading
  <1>2. CASE UpdateInProgress(g)
    <2>1. game_states[g].status = "IN_PROGRESS" /\ UNCHANGED clients
      BY <1>2 DEF UpdateInProgress
    <2>2. CASE UNCHANGED game_states
      BY <2>1, <2>2, UnchangedMatches
    <2>3. ASSUME NEW s \in {"SUCCESS", "ALL_TEAM_LEFT"}, SetStatus(g, s)
          PROVE  Matches
      <3>1. <<StageOf("IN_PROGRESS"), StageOf(s)>> \in Matching!Follows
        BY Stages DEF Matching!Follows
      <3> QED
        BY <2>1, <2>3, <3>1, StatusMatches DEF Stays
    <2> QED
      BY <1>2, <2>2, <2>3 DEF UpdateInProgress
  <1>3. CASE UpdateOver(g)
    BY <1>3, EndFromMatches DEF UpdateOver
  <1>4. CASE UpdateStatistics(g)
    <2>1. game_states[g].status = "STATISTICS"
      BY <1>4 DEF UpdateStatistics
    <2>2. CASE AllPlayersDisconnected(g) /\ SetStatus(g, "FREE") /\ UNCHANGED clients
      BY <2>1, <2>2, ReleaseMatches DEF Stays, AllPlayersDisconnected
    <2>3. CASE MenuFrom(g, 0)
      BY <2>1, <2>3, MenuFromMatches, ServerAssumption
    <2> QED
      BY <1>4, <2>2, <2>3 DEF UpdateStatistics
  <1> QED
    BY <1>1, <1>2, <1>3, <1>4 DEF UpdateGame

(* Every step of the gameloop *)
LEMMA GameloopMatches ==
    ASSUME TypeOK, Rest, Gameloop
    PROVE  Matches
  <1>0. Links /\ LobbyCounts /\ LoopKnows /\ gl \in LoopType
    BY DEF Rest, TypeOK
  <1>1. CASE UNCHANGED <<clients, game_states>>
    BY <1>1, UnchangedMatches
  <1>2. CASE StartGame
    BY <1>0, <1>2, StartEffect, BeginMatches, FailToBeginMatches, UnchangedMatches
  <1>3. ASSUME NEW g \in Games, UpdateGame(g)
        PROVE  Matches
    BY <1>0, <1>3, UpdateGameMatches
  <1>4. CASE SendGameEnd \/ SendError
    <2>1. gl.at \in {"end", "error"}
      BY <1>4 DEF SendGameEnd, SendError
    <2>2. gl.unit \in Games /\ gl.seat + 1 \in Nat /\ Over(gl.unit)
      BY <1>0, <2>1, LoopFields, ServerAssumption DEF LoopKnows, Seats
    <2>3. UNCHANGED <<clients, game_states>> \/ EndFrom(gl.unit, gl.seat + 1)
      BY <1>4 DEF SendGameEnd, SendError
    <2> QED
      BY <1>1, <2>2, <2>3, EndFromMatches
  <1>5. CASE SendReturnToMenu
    <2>1. gl.at = "menu" /\ MenuFrom(gl.unit, gl.seat + 1)
      BY <1>5 DEF SendReturnToMenu
    <2>2. gl.unit \in Games /\ gl.seat \in Seats
      BY <1>0, <2>1, LoopFields
    <2>3. /\ gl.seat + 1 \in Nat /\ gl.seat + 1 <= MaxPlayers
          /\ 0 .. (gl.seat + 1) - 1 = 0 .. gl.seat
      BY <2>2, ServerAssumption DEF Seats
    <2>4. /\ game_states[gl.unit].status = "STATISTICS"
          /\ \A k \in 0 .. (gl.seat + 1) - 1 : game_states[gl.unit].players[k] = NULL
      BY <1>0, <2>1, <2>3 DEF LoopKnows
    <2> QED
      BY <1>0, <2>1, <2>2, <2>3, <2>4, MenuFromMatches
  <1> QED
    BY <1>1, <1>2, <1>3, <1>4, <1>5
    DEF Gameloop, UpdateLobby, SendLobby, SendGameReady, SendGameState

-----------------------------------------------------------------------------
(* The refinement *)

(* The zero-filled shared memory is nobody waiting and nobody playing. *)
LEMMA InitMatches == Init => Matching!Init
  <1> SUFFICES ASSUME Init
               PROVE  Matching!Init
    OBVIOUS
  <1>1. [c \in Clients |-> clients[c].lobby] = [c \in Clients |-> NULL]
    BY DEF Init, NewClient
  <1>2. [c \in Clients |-> clients[c].player] = [c \in Clients |-> NoPlayer]
    BY DEF Init, NewClient
  <1>3. [g \in Games |-> StageOf(game_states[g].status)] = [g \in Games |-> "free"]
    BY Stages DEF Init, FreeGame
  <1> QED
    BY <1>1, <1>2, <1>3 DEF Matching!Init

(* In a state of the invariant every step is one that Matchmaking allows.  *)
LEMMA StepMatches == IInv /\ [Next]_vars => [Matching!Next]_(Matching!vars)
  <1> SUFFICES ASSUME IInv, [Next]_vars
               PROVE  Matches
    BY DEF Matches
  <1>1. TypeOK /\ Rest
    BY IInvParts DEF Rest
  <1>2. CASE UNCHANGED vars
    BY <1>2, UnchangedMatches DEF vars
  <1> QED
    BY <1>1, <1>2, GameloopMatches, ClientStepMatches DEF Next

(* Whatever clients do while the gameloop deals them into games, tells     *)
(* them and cuts their pointers one wait at a time, in every server: a     *)
(* game starts when every place of its lobby is somebody's, for clients    *)
(* that wait there, each with a seat of its own; its players only leave,   *)
(* and its record is freed after the last.  Where a lobby does not fill    *)
(* players[], this is said of all clients but the one in slot 0.           *)
THEOREM Refinement == Spec => MatchmakingSpec
  <1>1. IInv /\ [Next]_vars => [Matching!Next]_(Matching!vars)
    BY StepMatches
  <1> QED
    BY <1>1, InitMatches, Invariance, PTL DEF Spec, MatchmakingSpec, Matching!Spec

-----------------------------------------------------------------------------
(* Server and clients keep in step: packets and screens *)

(* Which clients are spared never changes. *)
LEMMA SparedConstant == Spared' = Spared
  BY DEF Spared, TablesFull

(* A client stays in step while its mail and its screen stay. *)
LEMMA AheadKept ==
    ASSUME NEW c \in Clients, packet'[c] = packet[c], screen'[c] = screen[c]
    PROVE  ScreenAhead(c)' = ScreenAhead(c) /\ (Expected(c) => Expected(c)')
  BY DEF ScreenAhead, ScreenAfter, Expected

(* The send thread delivers what was known to be on its way. *)
LEMMA AheadSent ==
    ASSUME TypeOK, NEW c \in Clients, SendServerPacket(c), NEW d \in Clients
    PROVE  /\ ScreenAhead(d)' = ScreenAhead(d)
           /\ Expected(d) => Expected(d)'
           /\ packet'[d] \in {packet[d], "none"}
  <1>1. /\ packet[c] # "none"
        /\ packet' = [packet EXCEPT ![c] = "none"]
        /\ screen' = [screen EXCEPT ![c] = ScreenAfter(screen[c], packet[c])]
    BY DEF SendServerPacket
  <1>2. CASE d = c
    <2>1. packet'[d] = "none" /\ screen'[d] = ScreenAfter(screen[c], packet[c])
      BY <1>1, <1>2 DEF TypeOK
    <2> QED
      BY <1>1, <1>2, <2>1 DEF ScreenAhead, Expected
  <1>3. CASE d # c
    <2>1. packet'[d] = packet[d] /\ screen'[d] = screen[d]
      BY <1>1, <1>3 DEF TypeOK
    <2> QED
      BY <2>1, AheadKept
  <1> QED
    BY <1>2, <1>3

(* The packets that a client on the screen s expects *)
Meets(s, pid) ==
    /\ pid \in {"ACCEPT", "ACCEPT_ERROR"} => s = "JOIN"
    /\ pid = "LOBBY"          => s \in {"MENU", "LOBBY"}
    /\ pid = "GAME_READY"     => s \in {"LOBBY", "LOADING"}
    /\ pid = "GAME_STATE"     => s \in {"LOADING", "GAME"}
    /\ pid = "GAME_END"       => s = "GAME"
    /\ pid = "RETURN_TO_MENU" => s = "STATISTICS"

(* A mailbox is filled: the client's screen is the one it was known to show. *)
LEMMA AheadFilled ==
    ASSUME TypeOK, NEW c \in Clients, NEW pid \in PacketIds, Fill(c, pid), UNCHANGED screen,
           NEW d \in Clients
    PROVE  /\ d # c => /\ ScreenAhead(d)' = ScreenAhead(d) /\ (Expected(d) => Expected(d)')
                       /\ packet'[d] = packet[d]
           /\ d = c => /\ ScreenAhead(d)' = ScreenAfter(ScreenAhead(d), pid)
                       /\ Meets(ScreenAhead(d), pid) => Expected(d)'
                       /\ packet'[d] = pid
  <1>1. packet[c] = "none" /\ packet'[c] = pid /\ pid # "none"
    BY DEF Fill, TypeOK, PacketIds
  <1>2. d # c => packet'[d] = packet[d]
    BY DEF Fill, TypeOK
  <1>3. CASE d # c
    BY <1>2, <1>3, AheadKept
  <1>4. CASE d = c
    <2>1. ScreenAhead(c) = screen[c] /\ screen'[c] = screen[c]
      BY <1>1 DEF ScreenAhead
    <2>2. ScreenAhead(c)' = ScreenAfter(screen[c], pid)
      BY <1>1, <2>1 DEF ScreenAhead
    <2>3. Meets(screen[c], pid) => Expected(c)'
      BY <1>1, <2>1 DEF Expected, Meets
    <2> QED
      BY <1>1, <1>4, <2>1, <2>2, <2>3
  <1> QED
    BY <1>3, <1>4

(* What a client shows is what it was known to, while it has mail that     *)
(* changes nothing, or is a step behind.                                   *)
LEMMA ScreenShown ==
    ASSUME TypeOK, NEW c \in Spared, PacketsMeet
    PROVE  /\ screen[c] = "MENU" => ScreenAhead(c) \in {"MENU", "LOBBY"}
           /\ screen[c] = "LOADING" => ScreenAhead(c) \in {"LOADING", "GAME"}
           /\ screen[c] = "JOIN" => ScreenAhead(c) \in {"JOIN", "MENU"}
  <1>1. packet[c] \in PacketIds \cup {"none"} /\ Expected(c) /\ packet[c] # "RETURN_TO_JOIN"
    BY SparedClients DEF TypeOK, PacketsMeet
  <1> QED
    BY <1>1 DEF ScreenAhead, ScreenAfter, Expected, PacketIds

-----------------------------------------------------------------------------
(* Steps of a client's process *)

(* A spared client that a live game names is in a state of the game. *)
LEMMA NamedPlays ==
    ASSUME TypeOK, Links, NEW g \in Games, NEW i \in Seats, Live(g), NEW c \in Spared,
           game_states[g].players[i] = c
    PROVE  clients[c].state \in {"LOADING", "GAME", "STATISTICS"}
  <1>1. clients[c].player = [game |-> g, seat |-> i]
    BY SparedActive DEF Links, SparedPointBack
  <1>2. clients[c].player # NoPlayer
    BY <1>1, NoPlayerIsNoEntry
  <1> QED
    BY <1>2 DEF Links, PlayersInGame

(* It is named once. *)
LEMMA NamedOnce ==
    ASSUME Links, NEW g \in Games, NEW i \in Seats, Live(g), NEW c \in Spared,
           game_states[g].players[i] = c,
           NEW h \in Games, NEW j \in Seats, Live(h), game_states[h].players[j] = c
    PROVE  h = g /\ j = i
  <1>1. clients[c].player = [game |-> g, seat |-> i]
    BY SparedActive DEF Links, SparedPointBack
  <1>2. clients[c].player = [game |-> h, seat |-> j]
    BY SparedActive DEF Links, SparedPointBack
  <1> QED
    BY <1>1, <1>2

(* Where a client's record, its mail and its screen stay, it stays in step; *)
(* a process that ends may stop anywhere.                                  *)
LEMMA FitKept ==
    ASSUME NEW c \in Spared, Fits(c),
           ScreenAhead(c)' = ScreenAhead(c), clients'[c].state = clients[c].state,
           Returning(c)' <=> Returning(c),
           \/ recv'[c].at = "down"
           \/ recv'[c] = recv[c]
           \/ ~Accepting(c) /\ ~Accepting(c)' /\ recv[c].at # "down"
    PROVE  Fits(c)'
  BY DEF Fits, Accepting

(* A step of a client's process leaves what gameloop, lobbies and games    *)
(* rely on alone: it changes state and screen of a client that is neither  *)
(* seated nor playing, and fills a place of a lobby that is not full.      *)
LEMMA WorldKept ==
    ASSUME TypeOK, Links, LoopInStep, LobbiesInStep, GamesInStep, UNCHANGED gl,
           \A d \in Spared :
              \/ clients'[d].state = clients[d].state /\ ScreenAhead(d)' = ScreenAhead(d)
              \/ clients[d].state \in {"JOIN", "MENU"},
           gl.at = "menu" /\ gl.to \in Spared =>
              clients'[gl.to].state = "MENU" /\ recv'[gl.to].at \notin {"send", "spin"},
           \A g \in Games :
              /\ game_states'[g].status = game_states[g].status
              /\ \A i \in Seats :
                    /\ game_states'[g].players[i] = game_states[g].players[i]
                    /\ game_states'[g].ready[i] /\ game_states[g].players[i] \in Spared =>
                          \/ game_states[g].ready[i]
                          \/ ScreenAhead(game_states[g].players[i]) = "LOADING",
           \A l \in Lobbies :
              \/ lobbies'[l] = lobbies[l]
              \/ /\ lobbies[l].client_count # LobbySize[l]
                 /\ \A i \in Seats : lobbies[l].clients[i] # NULL =>
                       lobbies'[l].clients[i] = lobbies[l].clients[i]
    PROVE  LoopInStep' /\ LobbiesInStep' /\ GamesInStep'
  <1>0. gl \in LoopType
    BY DEF TypeOK
  <1>1. LoopInStep'
    <2>1. gl.at \in {"lobby", "full"} => gl.to = lobbies'[gl.unit].clients[gl.seat]
      BY <1>0, LoopFields, NullIsNoIndex DEF LoopInStep
    <2>2. gl.at \in {"full", "start"} => lobbies'[gl.unit].client_count = LobbySize[gl.unit]
      BY <1>0, LoopFields DEF LoopInStep
    <2>3. gl.at \in {"ready", "state", "end", "error"} =>
             gl.to = game_states'[gl.unit].players[gl.seat]
      BY <1>0, LoopFields DEF LoopInStep
    <2>4. /\ gl.at = "ready" => game_states'[gl.unit].status = "LOADING"
          /\ gl.at = "state" => game_states'[gl.unit].status = "IN_PROGRESS" \/ Over(gl.unit)'
      BY <1>0, LoopFields DEF LoopInStep, Over
    <2> QED
      BY <2>1, <2>2, <2>3, <2>4, SparedConstant DEF LoopInStep
  <1>2. LobbiesInStep'
    <2> SUFFICES ASSUME NEW l \in Lobbies, NEW i \in Seats, NEW c \in Spared,
                        lobbies'[l].clients[i] = c, gl.at \in {"full", "start"}, gl.unit = l,
                        gl.at = "full" => i < gl.seat
                 PROVE  ScreenAhead(c)' = "LOBBY"
      BY SparedConstant DEF LobbiesInStep
    <2>1. lobbies'[l] = lobbies[l]
      BY DEF LoopInStep
    <2>2. ScreenAhead(c) = "LOBBY"
      BY <2>1 DEF LobbiesInStep
    <2>3. clients[c].state = "LOBBY"
      BY <2>1 DEF Links, SeatedInLobby
    <2> QED
      BY <2>2, <2>3
  <1>3. GamesInStep'
    <2> SUFFICES ASSUME gl.at # "stopped", NEW g \in Games, NEW i \in Seats, Live(g)',
                        NEW c \in Spared, game_states'[g].players[i] = c
                 PROVE  PlayerInStep(g, i, c)'
      BY SparedConstant DEF GamesInStep
    <2>1. /\ game_states'[g].status = game_states[g].status /\ Live(g) /\ (Over(g)' <=> Over(g))
          /\ game_states[g].players[i] = c
      BY DEF Live, Over
    <2>2. clients[c].state \in {"LOADING", "GAME", "STATISTICS"}
      BY <2>1, NamedPlays
    <2>3. clients'[c].state = clients[c].state /\ ScreenAhead(c)' = ScreenAhead(c)
      BY <2>2
    <2>4. PlayerInStep(g, i, c)
      BY <2>1 DEF GamesInStep
    <2>5. ReadyInStep(g, i, c)'
      BY <2>1, <2>3, <2>4 DEF ReadyInStep, PlayerInStep
    <2>6. StateInStep(g, i, c)' /\ EndInStep(g, i, c)' /\ MenuInStep(g, c)'
      BY <2>1, <2>3, <2>4 DEF StateInStep, EndInStep, MenuInStep, Told, Showing, PlayerInStep
    <2> QED
      BY <2>5, <2>6 DEF PlayerInStep
  <1> QED
    BY <1>1, <1>2, <1>3
(* A receive thread that moves leaves the replies of the others alone. *)
LEMMA RepliesNext ==
    ASSUME RepliesFit, NEW c \in Clients,
           \A d \in Clients \ {c} :
              recv'[d] = recv[d] /\ (d \in Spared => clients'[d].state = clients[d].state),
           recv'[c].at = "send" =>
              /\ recv'[c].to = c
              /\ recv'[c].todo \in {<<"ACCEPT">>, <<"ACCEPT_ERROR", "MESSAGE">>, <<"MESSAGE">>}
              /\ c \in Spared => clients'[c].state = IF Accepting(c)' THEN "MENU" ELSE "JOIN"
    PROVE  RepliesFit'
  <1> SUFFICES ASSUME NEW d \in Clients, recv'[d].at = "send"
               PROVE  /\ recv'[d].to = d
                      /\ recv'[d].todo \in
                            {<<"ACCEPT">>, <<"ACCEPT_ERROR", "MESSAGE">>, <<"MESSAGE">>}
                      /\ d \in Spared => clients'[d].state = IF Accepting(d)' THEN "MENU" ELSE "JOIN"
    BY SparedConstant DEF RepliesFit
  <1>1. CASE d = c
    BY <1>1
  <1>2. CASE d # c
    <2>1. recv'[d] = recv[d] /\ (d \in Spared => clients'[d].state = clients[d].state)
      BY <1>2
    <2>2. Accepting(d)' <=> Accepting(d)
      BY <2>1 DEF Accepting
    <2> QED
      BY <2>1, <2>2 DEF RepliesFit
  <1> QED
    BY <1>1, <1>2

(* What the clients show does not change: the receive thread of c moves on, *)
(* and at most the mark of a player who is ready is set.                   *)
LEMMA QuietStep ==
    ASSUME TypeOK, Links, InStep, NEW c \in Clients, UNCHANGED <<clients, lobbies, gl>>,
           \A d \in Spared : /\ ScreenAhead(d)' = ScreenAhead(d)
                             /\ Expected(d)' /\ packet'[d] # "RETURN_TO_JOIN",
           \A d \in Clients \ {c} : recv'[d] = recv[d],
           \/ recv'[c].at = "down"
           \/ recv'[c] = recv[c]
           \/ ~Accepting(c) /\ ~Accepting(c)' /\ recv[c].at # "down",
           recv'[c].at = "send" /\ recv'[c] # recv[c] =>
              /\ recv'[c].to = c
              /\ recv'[c].todo \in {<<"ACCEPT_ERROR", "MESSAGE">>, <<"MESSAGE">>}
              /\ c \in Spared => clients[c].state = "JOIN",
           c \in Spared /\ Returning(c) => recv'[c].at \notin {"send", "spin"},
           \A g \in Games :
              /\ game_states'[g].status = game_states[g].status
              /\ \A i \in Seats :
                    /\ game_states'[g].players[i] = game_states[g].players[i]
                    /\ game_states'[g].ready[i] /\ game_states[g].players[i] \in Spared =>
                          \/ game_states[g].ready[i]
                          \/ ScreenAhead(game_states[g].players[i]) = "LOADING"
    PROVE  InStep'
  <1>1. PacketsMeet'
    BY SparedConstant DEF PacketsMeet
  <1>2. ScreensFit'
    <2> SUFFICES ASSUME NEW d \in Spared
                 PROVE  Fits(d)'
      BY SparedConstant DEF ScreensFit
    <2>1. Fits(d) /\ (Returning(d)' <=> Returning(d))
      BY DEF InStep, ScreensFit, Returning
    <2>2. d \in Clients
      BY SparedClients
    <2>3. CASE d = c
      BY <2>1, <2>3, FitKept
    <2>4. CASE d # c
      BY <2>1, <2>2, <2>4, FitKept
    <2> QED
      BY <2>3, <2>4
  <1>3. RepliesFit'
    <2>1. CASE recv'[c] = recv[c]
      <3>1. recv'[c].at = "send" =>
              /\ recv'[c].to = c
              /\ recv'[c].todo \in {<<"ACCEPT">>, <<"ACCEPT_ERROR", "MESSAGE">>, <<"MESSAGE">>}
              /\ c \in Spared => clients'[c].state = IF Accepting(c)' THEN "MENU" ELSE "JOIN"
        BY <2>1 DEF InStep, RepliesFit, Accepting
      <3> QED
        BY <3>1, RepliesNext DEF InStep
    <2>2. CASE recv'[c] # recv[c]
      <3>1. recv'[c].at = "send" => ~Accepting(c)'
        BY <2>2 DEF Accepting
      <3> QED
        BY <2>2, <3>1, RepliesNext DEF InStep
    <2> QED
      BY <2>1, <2>2
  <1>4. gl.at = "menu" /\ gl.to \in Spared =>
           clients'[gl.to].state = "MENU" /\ recv'[gl.to].at \notin {"send", "spin"}
    BY SparedClients DEF InStep, LoopInStep, Returning
  <1>5. LoopInStep' /\ LobbiesInStep' /\ GamesInStep'
    BY <1>4, WorldKept DEF InStep
  <1> QED
    BY <1>1, <1>2, <1>3, <1>5 DEF InStep

(* Mail and screens stay. *)
LEMMA SameMail ==
    ASSUME PacketsMeet, UNCHANGED <<packet, screen>>
    PROVE  \A d \in Spared : /\ ScreenAhead(d)' = ScreenAhead(d)
                             /\ Expected(d)' /\ packet'[d] # "RETURN_TO_JOIN"
  BY SparedClients, AheadKept DEF PacketsMeet

(* A packet is filled in that the client's screen ignores. *)
LEMMA IdleMail ==
    ASSUME TypeOK, PacketsMeet, NEW c \in Clients, NEW pid \in {"MESSAGE", "ACCEPT_ERROR"},
           Fill(c, pid), UNCHANGED screen,
           c \in Spared /\ pid = "ACCEPT_ERROR" => ScreenAhead(c) = "JOIN"
    PROVE  \A d \in Spared : /\ ScreenAhead(d)' = ScreenAhead(d)
                             /\ Expected(d)' /\ packet'[d] # "RETURN_TO_JOIN"
  <1> SUFFICES ASSUME NEW d \in Spared
               PROVE  /\ ScreenAhead(d)' = ScreenAhead(d)
                      /\ Expected(d)' /\ packet'[d] # "RETURN_TO_JOIN"
    OBVIOUS
  <1>1. pid \in PacketIds /\ d \in Clients /\ Expected(d) /\ packet[d] # "RETURN_TO_JOIN"
    BY SparedClients DEF PacketIds, PacketsMeet
  <1>2. ScreenAfter(ScreenAhead(d), pid) = ScreenAhead(d)
    BY DEF ScreenAfter
  <1>3. d = c => Meets(ScreenAhead(d), pid)
    BY DEF Meets
  <1> QED
    BY <1>1, <1>2, <1>3, AheadFilled

(* The send thread puts the mail on the screen. *)
LEMMA SentMail ==
    ASSUME TypeOK, PacketsMeet, NEW c \in Clients, SendServerPacket(c)
    PROVE  \A d \in Spared : /\ ScreenAhead(d)' = ScreenAhead(d)
                             /\ Expected(d)' /\ packet'[d] # "RETURN_TO_JOIN"
  BY SparedClients, AheadSent DEF PacketsMeet

(* The quiet steps: nothing but recv[c] changes. *)
LEMMA MoveInStep ==
    ASSUME TypeOK, Links, InStep, NEW c \in Clients, recv[c].at # "down",
           UNCHANGED <<clients, packet, screen, lobbies, game_states, gl>>,
           NEW r, recv' = [recv EXCEPT ![c] = r],
           r.at = "down" \/ (~Accepting(c) /\ r.todo # <<"ACCEPT">>),
           r.at = "send" =>
              /\ r.to = c /\ r.todo = <<"ACCEPT_ERROR", "MESSAGE">>
              /\ c \in Spared => clients[c].state = "JOIN",
           c \in Spared /\ Returning(c) => r.at \notin {"send", "spin"}
    PROVE  InStep'
  <1>1. recv'[c] = r /\ \A d \in Clients \ {c} : recv'[d] = recv[d]
    BY DEF TypeOK
  <1>2. \A d \in Spared : /\ ScreenAhead(d)' = ScreenAhead(d)
                          /\ Expected(d)' /\ packet'[d] # "RETURN_TO_JOIN"
    BY SameMail DEF InStep
  <1>3. r.at = "down" \/ (~Accepting(c) /\ ~Accepting(c)')
    BY <1>1 DEF Accepting
  <1> QED
    BY <1>1, <1>2, <1>3, QuietStep

(* What the control points say of their replies. *)
LEMMA PointTodo ==
    /\ Down.todo = <<>> /\ Poll.todo = <<>>
    /\ \A l : Spin(l).todo = <<>>
    /\ \A i, c : Chat(i, c).todo = <<>>
    /\ \A c, pids : Send(c, pids).todo = pids /\ Send(c, pids).to = c
  BY DEF Down, Poll, Spin, Chat, Send

(* The chat loop goes on in the chat or the poll, or ends. *)
LEMMA ChatFromTodo ==
    ASSUME NEW c \in Clients, NEW i, ChatFrom(c, i)
    PROVE  \E r : recv' = [recv EXCEPT ![c] = r] /\ r.at \notin {"send", "spin"} /\ r.todo = <<>>
  <1>1. CASE recv' = [recv EXCEPT ![c] = Down]
    BY <1>1, PointFields, PointTodo
  <1>2. CASE recv' = [recv EXCEPT ![c] = Poll]
    BY <1>2, PointFields, PointTodo
  <1>3. ASSUME NEW j, NEW d, recv' = [recv EXCEPT ![c] = Chat(j, d)]
        PROVE  \E r : /\ recv' = [recv EXCEPT ![c] = r]
                      /\ r.at \notin {"send", "spin"} /\ r.todo = <<>>
    <2>1. PICK r : r = Chat(j, d)
      OBVIOUS
    <2>2. r.at = "chat" /\ r.todo = <<>>
      BY <2>1 DEF Chat, Down
    <2> QED
      BY <1>3, <2>1, <2>2
  <1> QED
    BY <1>1, <1>2, <1>3 DEF ChatFrom

(* A client that is being returned to the menu still shows the statistics. *)
LEMMA ReturningShows ==
    ASSUME TypeOK, InStep, NEW c \in Spared, Returning(c)
    PROVE  /\ clients[c].state = "MENU" /\ recv[c].at \notin {"send", "spin"}
           /\ ScreenAhead(c) = "STATISTICS" /\ screen[c] # "MENU"
  <1>1. clients[c].state = "MENU" /\ recv[c].at \notin {"send", "spin"}
    BY DEF InStep, LoopInStep, Returning
  <1>2. Fits(c)
    BY DEF InStep, ScreensFit
  <1>3. ScreenAhead(c) = "STATISTICS"
    BY <1>1, <1>2 DEF Fits, Accepting
  <1> QED
    BY <1>1, <1>3, ScreenShown DEF InStep

(* accept_clients keeps a new client in step: it starts at the join screen. *)
LEMMA ConnectInStep ==
    ASSUME TypeOK, Links, Threads, InStep, NEW c \in Clients, Connect(c)
    PROVE  InStep'
  <1>1. /\ clients' = [clients EXCEPT ![c] = NewClient]
        /\ packet' = [packet EXCEPT ![c] = "none"]
        /\ recv' = [recv EXCEPT ![c] = Poll]
        /\ screen' = [screen EXCEPT ![c] = "JOIN"]
        /\ UNCHANGED <<lobbies, game_states, gl>>
        /\ ~clients[c].taken
    BY DEF Connect, IsFirst
  <1>2. c \in Spared => clients[c].state = "JOIN"
    BY <1>1 DEF Threads, RemovedIsReset
  <1>3. /\ clients'[c].state = "JOIN" /\ packet'[c] = "none" /\ recv'[c] = Poll
        /\ screen'[c] = "JOIN"
    BY <1>1 DEF TypeOK, NewClient
  <1>4. ASSUME NEW d \in Clients \ {c}
        PROVE  /\ clients'[d] = clients[d] /\ recv'[d] = recv[d]
               /\ packet'[d] = packet[d] /\ screen'[d] = screen[d]
    BY <1>1 DEF TypeOK
  <1>5. ASSUME NEW d \in Clients \ {c}
        PROVE  ScreenAhead(d)' = ScreenAhead(d) /\ (Expected(d) => Expected(d)')
    BY <1>4, AheadKept
  <1>6. ScreenAhead(c)' = "JOIN" /\ Expected(c)' /\ packet'[c] # "RETURN_TO_JOIN"
    BY <1>3 DEF ScreenAhead, Expected
  <1>7. PacketsMeet'
    BY <1>4, <1>5, <1>6, SparedClients, SparedConstant DEF InStep, PacketsMeet
  <1>8. ScreensFit'
    <2> SUFFICES ASSUME NEW d \in Spared
                 PROVE  Fits(d)'
      BY SparedConstant DEF ScreensFit
    <2>1. CASE d = c
      BY <1>3, <1>6, <2>1 DEF Fits
    <2>2. CASE d # c
      <3>1. d \in Clients \ {c} /\ Fits(d) /\ (Returning(d)' <=> Returning(d))
        BY <1>1, <2>2, SparedClients DEF InStep, ScreensFit, Returning
      <3> QED
        BY <1>4, <1>5, <3>1, FitKept
    <2> QED
      BY <2>1, <2>2
  <1>9. RepliesFit'
    BY <1>3, <1>4, PointFields, RepliesNext DEF InStep
  <1>10. gl.at = "menu" /\ gl.to \in Spared =>
            clients'[gl.to].state = "MENU" /\ recv'[gl.to].at \notin {"send", "spin"}
    BY <1>2, <1>4, SparedClients DEF InStep, LoopInStep
  <1>11. \A d \in Spared :
            \/ clients'[d].state = clients[d].state /\ ScreenAhead(d)' = ScreenAhead(d)
            \/ clients[d].state \in {"JOIN", "MENU"}
    BY <1>2, <1>4, <1>5, SparedClients
  <1>12. LoopInStep' /\ LobbiesInStep' /\ GamesInStep'
    BY <1>1, <1>10, <1>11, WorldKept DEF InStep
  <1> QED
    BY <1>7, <1>8, <1>9, <1>12 DEF InStep

(* process_join: whoever is accepted is in the menu once ACCEPT is read. *)
LEMMA JoinInStep ==
    ASSUME TypeOK, Links, InStep, NEW c \in Clients, ProcessJoin(c)
    PROVE  InStep'
  <1>1. /\ recv[c].at = "poll" /\ clients[c].state = "JOIN" /\ ~Accepting(c)
        /\ UNCHANGED <<packet, screen, lobbies, game_states, gl>>
    BY DEF ProcessJoin, Accepting
  <1>2. c \in Spared => ~Returning(c)
    BY <1>1, ReturningShows
  <1>3. CASE /\ recv' = [recv EXCEPT ![c] = Send(c, <<"ACCEPT_ERROR", "MESSAGE">>)]
             /\ UNCHANGED clients
    <2>1. PICK r : r = Send(c, <<"ACCEPT_ERROR", "MESSAGE">>)
      OBVIOUS
    <2>2. r.at = "send" /\ r.to = c /\ r.todo = <<"ACCEPT_ERROR", "MESSAGE">>
      BY <2>1, PointFields, PointTodo
    <2>3. r.todo # <<"ACCEPT">>
      BY <2>2
    <2>4. UNCHANGED <<clients, packet, screen, lobbies, game_states, gl>>
      BY <1>1, <1>3
    <2>5. recv' = [recv EXCEPT ![c] = r] /\ recv[c].at # "down"
      BY <1>1, <1>3, <2>1
    <2> QED
      BY <1>1, <1>2, <2>2, <2>3, <2>4, <2>5, MoveInStep
  <1>4. CASE /\ clients' = [clients EXCEPT ![c].state = "MENU"]
             /\ recv' = [recv EXCEPT ![c] = Send(c, <<"ACCEPT">>)]
    <2>1. clients'[c].state = "MENU" /\ recv'[c] = Send(c, <<"ACCEPT">>)
      BY <1>4, ClientFields DEF TypeOK, ClientType
    <2>2. recv'[c].at = "send" /\ recv'[c].to = c /\ recv'[c].todo = <<"ACCEPT">>
      BY <2>1, PointFields, PointTodo
    <2>3. \A d \in Clients \ {c} : clients'[d] = clients[d] /\ recv'[d] = recv[d]
      BY <1>4 DEF TypeOK
    <2>4. \A d \in Spared : /\ ScreenAhead(d)' = ScreenAhead(d)
                            /\ Expected(d)' /\ packet'[d] # "RETURN_TO_JOIN"
      BY <1>1, SameMail DEF InStep
    <2>5. PacketsMeet'
      BY <2>4, SparedConstant DEF PacketsMeet
    <2>6. ScreensFit'
      <3> SUFFICES ASSUME NEW d \in Spared
                   PROVE  Fits(d)'
        BY SparedConstant DEF ScreensFit
      <3>1. Fits(d) /\ (Returning(d)' <=> Returning(d)) /\ ScreenAhead(d)' = ScreenAhead(d)
        BY <1>1, <2>4 DEF InStep, ScreensFit, Returning
      <3>2. CASE d = c
        <4>1. Accepting(d)' /\ ~Returning(d)'
          BY <1>2, <2>2, <3>1, <3>2 DEF Accepting
        <4>2. ScreenAhead(d) = "JOIN"
          BY <1>1, <3>1, <3>2 DEF Fits
        <4> QED
          BY <2>1, <3>1, <3>2, <4>1, <4>2 DEF Fits
      <3>3. CASE d # c
        BY <2>3, <3>1, <3>3, SparedClients, FitKept
      <3> QED
        BY <3>2, <3>3
    <2>7. RepliesFit'
      <3>1. Accepting(c)'
        BY <2>2 DEF Accepting
      <3> QED
        BY <2>1, <2>2, <2>3, <3>1, RepliesNext DEF InStep
    <2>8. gl.at = "menu" /\ gl.to \in Spared =>
             clients'[gl.to].state = "MENU" /\ recv'[gl.to].at \notin {"send", "spin"}
      BY <1>2, <2>3, SparedClients DEF InStep, LoopInStep, Returning
    <2>9. \A d \in Spared :
             \/ clients'[d].state = clients[d].state /\ ScreenAhead(d)' = ScreenAhead(d)
             \/ clients[d].state \in {"JOIN", "MENU"}
      BY <1>1, <2>3, <2>4, SparedClients
    <2>10. LoopInStep' /\ LobbiesInStep' /\ GamesInStep'
      BY <1>1, <2>8, <2>9, WorldKept DEF InStep
    <2> QED
      BY <2>5, <2>6, <2>7, <2>10 DEF InStep
  <1> QED
    BY <1>3, <1>4 DEF ProcessJoin

(* process_game_type: a client that shows the menu is not on its way back  *)
(* to it.                                                                  *)
LEMMA GameTypeInStep ==
    ASSUME TypeOK, Links, InStep, NEW c \in Clients, NEW l \in Lobbies, ProcessGameType(c, l)
    PROVE  InStep'
  <1>1. /\ recv[c].at = "poll" /\ screen[c] = "MENU"
        /\ recv' = [recv EXCEPT ![c] = Spin(l)]
        /\ UNCHANGED <<clients, packet, screen, lobbies, game_states, gl>>
    BY DEF ProcessGameType
  <1>2. PICK r : r = Spin(l)
    OBVIOUS
  <1>3. r.at = "spin" /\ r.todo = <<>>
    BY <1>2, PointFields, PointTodo
  <1>4. recv[c].at # "down" /\ ~Accepting(c) /\ r.todo # <<"ACCEPT">>
    BY <1>1, <1>3 DEF Accepting
  <1>5. c \in Spared => ~Returning(c)
    BY <1>1, ReturningShows
  <1> QED
    BY <1>1, <1>2, <1>3, <1>4, <1>5, MoveInStep

(* add_client_to_lobby: whoever waits for a place shows the menu, and a    *)
(* lobby with a place to give is not full.                                 *)
LEMMA AddClientInStep ==
    ASSUME TypeOK, Links, Threads, InStep, NEW c \in Clients, AddClientToLobby(c)
    PROVE  InStep'
  <1> DEFINE l == recv[c].lobby
             S == {i \in 0 .. LobbySize[l] - 1 : lobbies[l].clients[i] = NULL}
  <1>1. /\ recv[c].at = "spin" /\ ~Accepting(c)
        /\ lobbies[l].client_count # LobbySize[l]
        /\ clients' = [clients EXCEPT ![c].lobby = l, ![c].state = "LOBBY"]
        /\ lobbies' = [lobbies EXCEPT ![l] =
               [client_count |-> IF S = {} THEN @.client_count ELSE @.client_count + 1,
                clients |-> [i \in Seats |-> IF IsFirst(i, S) THEN c ELSE @.clients[i]]]]
        /\ recv' = [recv EXCEPT ![c] = Poll]
        /\ UNCHANGED <<packet, screen, game_states, gl>>
    BY DEF AddClientToLobby, Accepting
  <1>2. l \in Lobbies
    BY <1>1, RecvFields DEF TypeOK
  <1>3. c \in Spared => clients[c].state = "MENU" /\ ~Returning(c)
    BY <1>1, ReturningShows DEF Threads, SpinsInMenu
  <1>4. \A m \in Lobbies :
          \/ lobbies'[m] = lobbies[m]
          \/ /\ lobbies[m].client_count # LobbySize[m]
             /\ \A i \in Seats : lobbies[m].clients[i] # NULL =>
                   lobbies'[m].clients[i] = lobbies[m].clients[i]
    <2> SUFFICES ASSUME NEW m \in Lobbies, m = l, NEW i \in Seats, lobbies[m].clients[i] # NULL
                 PROVE  lobbies'[m].clients[i] = lobbies[m].clients[i]
      BY <1>1 DEF TypeOK
    <2>1. ~IsFirst(i, S)
      BY DEF IsFirst
    <2>2. lobbies'[l].clients[i] = IF IsFirst(i, S) THEN c ELSE lobbies[l].clients[i]
      BY <1>1, <1>2 DEF TypeOK
    <2> QED
      BY <2>1, <2>2
  <1> HIDE DEF l, S
  <1>5. clients'[c].state = "LOBBY" /\ recv'[c].at = "poll"
    BY <1>1, ClientFields, PointFields DEF TypeOK, ClientType
  <1>6. \A d \in Clients \ {c} : clients'[d] = clients[d] /\ recv'[d] = recv[d]
    BY <1>1 DEF TypeOK
  <1>7. \A d \in Spared : /\ ScreenAhead(d)' = ScreenAhead(d)
                          /\ Expected(d)' /\ packet'[d] # "RETURN_TO_JOIN"
    BY <1>1, SameMail DEF InStep
  <1>8. PacketsMeet'
    BY <1>7, SparedConstant DEF PacketsMeet
  <1>9. ScreensFit'
    <2> SUFFICES ASSUME NEW d \in Spared
                 PROVE  Fits(d)'
      BY SparedConstant DEF ScreensFit
    <2>1. Fits(d) /\ (Returning(d)' <=> Returning(d)) /\ ScreenAhead(d)' = ScreenAhead(d)
      BY <1>1, <1>7 DEF InStep, ScreensFit, Returning
    <2>2. CASE d = c
      <3>1. ScreenAhead(d) = "MENU"
        BY <1>1, <1>3, <2>1, <2>2 DEF Fits
      <3> QED
        BY <1>5, <2>1, <2>2, <3>1 DEF Fits
    <2>3. CASE d # c
      BY <1>6, <2>1, <2>3, SparedClients, FitKept
    <2> QED
      BY <2>2, <2>3
  <1>10. RepliesFit'
    BY <1>5, <1>6, RepliesNext DEF InStep
  <1>11. gl.at = "menu" /\ gl.to \in Spared =>
            clients'[gl.to].state = "MENU" /\ recv'[gl.to].at \notin {"send", "spin"}
    BY <1>3, <1>6, SparedClients DEF InStep, LoopInStep, Returning
  <1>12. \A d \in Spared :
            \/ clients'[d].state = clients[d].state /\ ScreenAhead(d)' = ScreenAhead(d)
            \/ clients[d].state \in {"JOIN", "MENU"}
    BY <1>3, <1>6, <1>7, SparedClients
  <1>13. LoopInStep' /\ LobbiesInStep' /\ GamesInStep'
    BY <1>1, <1>4, <1>11, <1>12, WorldKept DEF InStep
  <1> QED
    BY <1>8, <1>9, <1>10, <1>13 DEF InStep

(* process_player_ready: a client answers once it shows the loading screen. *)
LEMMA ReadyInStepKept ==
    ASSUME TypeOK, Links, Threads, InStep, NEW c \in Clients, ProcessPlayerReady(c)
    PROVE  InStep'
  <1>1. /\ recv[c].at = "poll" /\ screen[c] = "LOADING" /\ clients[c].state = "LOADING"
        /\ clients[c].player # NoPlayer
        /\ UNCHANGED <<clients, packet, recv, screen, lobbies, gl>>
    BY DEF ProcessPlayerReady
  <1>2. clients[c].taken
    BY <1>1, RunningIsTaken
  <1>3. PICK h \in Games, i \in Seats :
          clients[c].player = [game |-> h, seat |-> i] /\ game_states[h].players[i] = c
    BY <1>1, <1>2, Pointed
  <1>4. game_states' = [game_states EXCEPT ![h].ready[i] = TRUE]
    BY <1>3 DEF ProcessPlayerReady
  <1>5. c \in Spared => ScreenAhead(c) = "LOADING"
    <2> SUFFICES ASSUME c \in Spared
                 PROVE  ScreenAhead(c) = "LOADING"
      OBVIOUS
    <2>1. ScreenAhead(c) \in {"LOADING", "GAME"}
      BY <1>1, ScreenShown DEF InStep
    <2>2. ScreenAhead(c) \in {"LOBBY", "LOADING"}
      BY <1>1 DEF InStep, ScreensFit, Fits
    <2> QED
      BY <2>1, <2>2
  <1>6. \A g \in Games :
          /\ game_states'[g].status = game_states[g].status
          /\ \A j \in Seats :
                /\ game_states'[g].players[j] = game_states[g].players[j]
                /\ game_states'[g].ready[j] => game_states[g].ready[j] \/ (g = h /\ j = i)
    BY <1>4, GameFields DEF TypeOK, GameType
  <1>7. \A g \in Games :
          /\ game_states'[g].status = game_states[g].status
          /\ \A j \in Seats :
                /\ game_states'[g].players[j] = game_states[g].players[j]
                /\ game_states'[g].ready[j] /\ game_states[g].players[j] \in Spared =>
                      \/ game_states[g].ready[j]
                      \/ ScreenAhead(game_states[g].players[j]) = "LOADING"
    BY <1>3, <1>5, <1>6
  <1>8. \A d \in Spared : /\ ScreenAhead(d)' = ScreenAhead(d)
                          /\ Expected(d)' /\ packet'[d] # "RETURN_TO_JOIN"
    BY <1>1, SameMail DEF InStep
  <1>9. /\ recv'[c] = recv[c] /\ recv[c].at = "poll"
        /\ \A d \in Clients \ {c} : recv'[d] = recv[d]
    BY <1>1
  <1> QED
    BY <1>1, <1>7, <1>8, <1>9, QuietStep

(* send_accept: the client that asked to join shows the menu when it has   *)
(* the packet.                                                             *)
LEMMA AcceptInStep ==
    ASSUME TypeOK, Links, InStep, NEW c \in Clients, Accepting(c),
           Fill(c, "ACCEPT"), recv' = [recv EXCEPT ![c] = Poll],
           UNCHANGED <<clients, screen, lobbies, game_states, gl>>
    PROVE  InStep'
  <1>1. recv'[c].at = "poll" /\ \A d \in Clients \ {c} : recv'[d] = recv[d]
    BY PointFields DEF TypeOK
  <1>2. c \in Spared => clients[c].state = "MENU" /\ ~Returning(c) /\ Fits(c)
    BY ReturningShows DEF InStep, RepliesFit, Accepting, ScreensFit
  <1>3. c \in Spared => ScreenAhead(c) = "JOIN"
    BY <1>2 DEF Fits
  <1>4. "ACCEPT" \in PacketIds /\ ScreenAfter("JOIN", "ACCEPT") = "MENU" /\ Meets("JOIN", "ACCEPT")
    BY DEF PacketIds, ScreenAfter, Meets
  <1>5. \A d \in Spared \ {c} : /\ ScreenAhead(d)' = ScreenAhead(d)
                                /\ Expected(d) => Expected(d)'
                                /\ packet'[d] = packet[d]
    BY <1>4, SparedClients, AheadFilled
  <1>6. c \in Spared => ScreenAhead(c)' = "MENU" /\ Expected(c)' /\ packet'[c] = "ACCEPT"
    BY <1>3, <1>4, AheadFilled
  <1>7. PacketsMeet'
    BY <1>5, <1>6, SparedConstant DEF InStep, PacketsMeet
  <1>8. ScreensFit'
    <2> SUFFICES ASSUME NEW d \in Spared
                 PROVE  Fits(d)'
      BY SparedConstant DEF ScreensFit
    <2>1. Fits(d) /\ (Returning(d)' <=> Returning(d))
      BY DEF InStep, ScreensFit, Returning
    <2>2. CASE d = c
      BY <1>1, <1>2, <1>6, <2>1, <2>2 DEF Fits, Accepting
    <2>3. CASE d # c
      BY <1>1, <1>5, <2>1, <2>3, SparedClients, FitKept
    <2> QED
      BY <2>2, <2>3
  <1>9. RepliesFit'
    BY <1>1, RepliesNext DEF InStep
  <1>10. gl.at = "menu" /\ gl.to \in Spared =>
            clients'[gl.to].state = "MENU" /\ recv'[gl.to].at \notin {"send", "spin"}
    BY <1>2, <1>1, SparedClients DEF InStep, LoopInStep, Returning
  <1>11. \A d \in Spared :
            \/ clients'[d].state = clients[d].state /\ ScreenAhead(d)' = ScreenAhead(d)
            \/ clients[d].state \in {"JOIN", "MENU"}
    BY <1>2, <1>5
  <1>12. LoopInStep' /\ LobbiesInStep' /\ GamesInStep'
    BY <1>10, <1>11, WorldKept DEF InStep
  <1> QED
    BY <1>7, <1>8, <1>9, <1>12 DEF InStep

(* The other replies of a receive thread change no screen. *)
LEMMA RefuseInStep ==
    ASSUME TypeOK, Links, InStep, NEW c \in Clients, recv[c].at = "send",
           NEW pid \in {"MESSAGE", "ACCEPT_ERROR"}, Fill(c, pid),
           ~Accepting(c),
           NEW r, recv' = [recv EXCEPT ![c] = r],
           r.at = "poll" \/ (r.at = "send" /\ r.to = c /\ r.todo = <<"MESSAGE">>),
           UNCHANGED <<clients, screen, lobbies, game_states, gl>>
    PROVE  InStep'
  <1>1. recv'[c] = r /\ \A d \in Clients \ {c} : recv'[d] = recv[d]
    BY DEF TypeOK
  <1>2. c \in Spared => clients[c].state = "JOIN" /\ ~Returning(c) /\ Fits(c)
    BY ReturningShows DEF InStep, RepliesFit, ScreensFit
  <1>3. c \in Spared => ScreenAhead(c) = "JOIN"
    BY <1>2 DEF Fits
  <1>4. \A d \in Spared : /\ ScreenAhead(d)' = ScreenAhead(d)
                          /\ Expected(d)' /\ packet'[d] # "RETURN_TO_JOIN"
    BY <1>3, IdleMail DEF InStep
  <1>5. ~Accepting(c)'
    <2>1. <<"MESSAGE">> # <<"ACCEPT">>
      OBVIOUS
    <2> QED
      BY <1>1, <2>1 DEF Accepting
  <1> QED
    BY <1>1, <1>2, <1>4, <1>5, QuietStep

(* send_accept and send_message_from_server of a receive thread *)
LEMMA ReplyInStep ==
    ASSUME TypeOK, Links, InStep, NEW c \in Clients, SendReply(c)
    PROVE  InStep'
  <1>1. /\ recv[c].at = "send" /\ recv[c].to = c
        /\ recv[c].todo \in {<<"ACCEPT">>, <<"ACCEPT_ERROR", "MESSAGE">>, <<"MESSAGE">>}
    BY DEF SendReply, InStep, RepliesFit
  <1>2. /\ Fill(c, Head(recv[c].todo))
        /\ recv' = [recv EXCEPT ![c] = IF Len(recv[c].todo) = 1 THEN Poll
                                       ELSE Send(c, Tail(recv[c].todo))]
        /\ UNCHANGED <<clients, screen, lobbies, game_states, gl>>
    BY <1>1 DEF SendReply
  <1>3. CASE recv[c].todo = <<"ACCEPT">>
    <2>1. Head(recv[c].todo) = "ACCEPT" /\ Len(recv[c].todo) = 1
      BY <1>3
    <2> QED
      BY <1>1, <1>2, <1>3, <2>1, AcceptInStep DEF Accepting
  <1>4. CASE recv[c].todo = <<"MESSAGE">>
    <2>1. Head(recv[c].todo) = "MESSAGE" /\ Len(recv[c].todo) = 1
      BY <1>4
    <2>2. <<"MESSAGE">> # <<"ACCEPT">>
      OBVIOUS
    <2>3. ~Accepting(c)
      BY <1>4, <2>2 DEF Accepting
    <2>4. recv' = [recv EXCEPT ![c] = Poll] /\ Poll.at = "poll" /\ Fill(c, "MESSAGE")
      BY <1>2, <2>1, PointFields
    <2> QED
      BY <1>1, <1>2, <2>3, <2>4, RefuseInStep
  <1>5. CASE recv[c].todo = <<"ACCEPT_ERROR", "MESSAGE">>
    <2>1. /\ Head(recv[c].todo) = "ACCEPT_ERROR" /\ Len(recv[c].todo) # 1
          /\ Tail(recv[c].todo) = <<"MESSAGE">>
      BY <1>5
    <2>2. <<"ACCEPT_ERROR", "MESSAGE">> # <<"ACCEPT">>
      OBVIOUS
    <2>3. ~Accepting(c)
      BY <1>5, <2>2 DEF Accepting
    <2>4. PICK r : r = Send(c, <<"MESSAGE">>)
      OBVIOUS
    <2>5. r.at = "send" /\ r.to = c /\ r.todo = <<"MESSAGE">>
      BY <2>4, PointFields, PointTodo
    <2>6. recv' = [recv EXCEPT ![c] = r] /\ Fill(c, "ACCEPT_ERROR")
      BY <1>2, <2>1, <2>4
    <2> QED
      BY <1>1, <1>2, <2>3, <2>5, <2>6, RefuseInStep
  <1> QED
    BY <1>1, <1>3, <1>4, <1>5

(* A step of a client's process keeps clients and server in step. *)
LEMMA ClientInStep ==
    ASSUME NobodyQuits, TypeOK, Links, Threads, InStep, NEW c \in Clients, ClientStep(c)
    PROVE  InStep'
  <1>1. CASE Connect(c)
    BY <1>1, ConnectInStep
  <1>2. CASE Kill(c)
    <2>1. /\ recv' = [recv EXCEPT ![c] = Down]
          /\ UNCHANGED <<clients, packet, screen, lobbies, game_states, gl>>
      BY <1>2 DEF Kill
    <2>2. recv'[c].at = "down" /\ \A d \in Clients \ {c} : recv'[d] = recv[d]
      BY <2>1, PointFields DEF TypeOK
    <2>3. \A d \in Spared : /\ ScreenAhead(d)' = ScreenAhead(d)
                            /\ Expected(d)' /\ packet'[d] # "RETURN_TO_JOIN"
      BY <2>1, SameMail DEF InStep
    <2> QED
      BY <2>1, <2>2, <2>3, QuietStep
  <1>3. CASE ProcessJoin(c)
    BY <1>3, JoinInStep
  <1>4. ASSUME NEW l \in Lobbies, ProcessGameType(c, l)
        PROVE  InStep'
    BY <1>4, GameTypeInStep
  <1>5. CASE AddClientToLobby(c)
    BY <1>5, AddClientInStep
  <1>6. CASE ProcessMessage(c)
    <2>1. /\ recv[c].at = "poll" /\ ~Accepting(c) /\ ChatFrom(c, 0)
          /\ UNCHANGED <<clients, packet, screen, lobbies, game_states, gl>>
      BY <1>6 DEF ProcessMessage, Accepting
    <2>2. PICK r : recv' = [recv EXCEPT ![c] = r] /\ r.at \notin {"send", "spin"} /\ r.todo = <<>>
      BY <2>1, ChatFromTodo
    <2>3. r.todo # <<"ACCEPT">>
      BY <2>2
    <2> QED
      BY <2>1, <2>2, <2>3, MoveInStep
  <1>7. CASE SendChat(c)
    <2>1. /\ recv[c].at = "chat" /\ ~Accepting(c) /\ ChatFrom(c, recv[c].seat + 1)
          /\ Fill(recv[c].to, "MESSAGE") /\ recv[c].to \in Clients
          /\ UNCHANGED <<clients, screen, lobbies, game_states, gl>>
      BY <1>7, RecvFields DEF SendChat, Accepting, TypeOK
    <2>2. PICK r : recv' = [recv EXCEPT ![c] = r] /\ r.at \notin {"send", "spin"} /\ r.todo = <<>>
      BY <2>1, ChatFromTodo
    <2>3. recv'[c] = r /\ \A d \in Clients \ {c} : recv'[d] = recv[d]
      BY <2>2 DEF TypeOK
    <2>4. \A d \in Spared : /\ ScreenAhead(d)' = ScreenAhead(d)
                            /\ Expected(d)' /\ packet'[d] # "RETURN_TO_JOIN"
      BY <2>1, IdleMail DEF InStep
    <2>5. ~Accepting(c)'
      BY <2>2, <2>3 DEF Accepting
    <2> QED
      BY <2>1, <2>2, <2>3, <2>4, <2>5, QuietStep
  <1>8. CASE ProcessPlayerReady(c)
    BY <1>8, ReadyInStepKept
  <1>9. CASE SendReply(c)
    BY <1>9, ReplyInStep
  <1>10. CASE SendServerPacket(c)
    <2>1. UNCHANGED <<clients, recv, lobbies, game_states, gl>>
      BY <1>10 DEF SendServerPacket
    <2>2. \A d \in Spared : /\ ScreenAhead(d)' = ScreenAhead(d)
                            /\ Expected(d)' /\ packet'[d] # "RETURN_TO_JOIN"
      BY <1>10, SentMail DEF InStep
    <2>3. c \in Spared /\ Returning(c) => recv'[c].at \notin {"send", "spin"}
      BY <2>1, ReturningShows
    <2> QED
      BY <2>1, <2>2, <2>3, QuietStep
  <1> QED
    BY <1>1, <1>2, <1>3, <1>4, <1>5, <1>6, <1>7, <1>8, <1>9, <1>10
    DEF ClientStep, NobodyQuits, Disconnect, ProcessExit, ProcessExitStatistics

-----------------------------------------------------------------------------
(* Steps of the gameloop *)

(* The gameloop moves only clients whose threads owe no reply. *)
LEMMA RepliesKept ==
    ASSUME RepliesFit, UNCHANGED recv,
           \A d \in Spared : \/ clients'[d].state = clients[d].state
                             \/ clients[d].state \notin {"JOIN", "MENU"}
    PROVE  RepliesFit'
  <1> SUFFICES ASSUME NEW d \in Clients, recv[d].at = "send", d \in Spared
               PROVE  clients'[d].state = IF Accepting(d) THEN "MENU" ELSE "JOIN"
    BY SparedConstant DEF RepliesFit, Accepting
  <1>1. clients[d].state = IF Accepting(d) THEN "MENU" ELSE "JOIN"
    BY DEF RepliesFit
  <1> QED
    BY <1>1

(* A packet of the gameloop that its client expects. *)
LEMMA MailFilled ==
    ASSUME TypeOK, PacketsMeet, NEW c \in Clients, NEW pid \in PacketIds,
           pid # "RETURN_TO_JOIN", Fill(c, pid), UNCHANGED screen,
           c \in Spared => Meets(ScreenAhead(c), pid)
    PROVE  /\ PacketsMeet'
           /\ \A d \in Spared \ {c} : ScreenAhead(d)' = ScreenAhead(d)
           /\ c \in Spared => ScreenAhead(c)' = ScreenAfter(ScreenAhead(c), pid)
  <1>1. \A d \in Spared \ {c} : /\ ScreenAhead(d)' = ScreenAhead(d)
                                /\ Expected(d) => Expected(d)'
                                /\ packet'[d] = packet[d]
    BY SparedClients, AheadFilled
  <1>2. c \in Spared => /\ ScreenAhead(c)' = ScreenAfter(ScreenAhead(c), pid)
                        /\ Expected(c)' /\ packet'[c] = pid
    BY AheadFilled
  <1>3. PacketsMeet'
    BY <1>1, <1>2, SparedConstant DEF PacketsMeet
  <1> QED
    BY <1>1, <1>2, <1>3

(* The gameloop leaves mail and screens alone. *)
LEMMA MailStays ==
    ASSUME PacketsMeet, UNCHANGED <<packet, screen>>
    PROVE  PacketsMeet' /\ \A d \in Spared : ScreenAhead(d)' = ScreenAhead(d)
  BY SameMail, SparedConstant DEF PacketsMeet

(* Where the gameloop moves a client, the client fits its new state. *)
LEMMA FitsNext ==
    ASSUME ScreensFit, UNCHANGED recv,
           \A d \in Spared :
              \/ /\ clients'[d].state = clients[d].state /\ ScreenAhead(d)' = ScreenAhead(d)
                 /\ clients[d].state # "MENU" \/ (Returning(d)' <=> Returning(d))
              \/ Fits(d)'
    PROVE  ScreensFit'
  <1> SUFFICES ASSUME NEW d \in Spared,
                      clients'[d].state = clients[d].state, ScreenAhead(d)' = ScreenAhead(d),
                      clients[d].state # "MENU" \/ (Returning(d)' <=> Returning(d))
               PROVE  Fits(d)'
    BY SparedConstant DEF ScreensFit
  <1>1. Fits(d) /\ (Accepting(d)' <=> Accepting(d)) /\ recv'[d] = recv[d]
    BY DEF ScreensFit, Accepting
  <1> QED
    BY <1>1 DEF Fits

(* The walks over players[] pass no spared player over. *)
LEMMA ConnectedNext ==
    ASSUME TypeOK, Links, NEW g \in Games, Live(g), NEW i \in Nat,
           NEW n \in {game_states[g].player_count, MaxPlayers}
    PROVE  /\ Connected(g, i, n) = {} =>
                \A k \in Seats, d \in Spared : game_states[g].players[k] = d => k < i
           /\ \A j : IsFirst(j, Connected(g, i, n)) =>
                /\ j \in Seats /\ i <= j
                /\ game_states[g].players[j] \in Clients /\ game_states[g].players[j] # NULL
                /\ \A k \in Seats, d \in Spared :
                      game_states[g].players[k] = d => k < i \/ j <= k
  <1>1. game_states[g].player_count \in 0 .. MaxPlayers /\ MaxPlayers \in Nat
    BY ActiveSeats, ServerAssumption
  <1>2. Connected(g, i, n) \subseteq Seats
    BY <1>1 DEF Connected, Seats
  <1>3. ASSUME NEW k \in Seats, NEW d \in Spared, game_states[g].players[k] = d, i <= k
        PROVE  k \in Connected(g, i, n)
    <2>1. k \in 0 .. game_states[g].player_count - 1
      BY <1>3, SparedActive DEF Active
    <2>2. k \in 0 .. MaxPlayers - 1
      BY DEF Seats
    <2>3. k \in i .. n - 1
      BY <1>1, <1>3, <2>1, <2>2
    <2> QED
      BY <1>3, <2>3, SparedClients DEF Connected
  <1>4. \A k \in Seats : k \in Int
    BY DEF Seats
  <1>5. ASSUME NEW j, IsFirst(j, Connected(g, i, n))
        PROVE  /\ j \in Seats /\ i <= j
               /\ game_states[g].players[j] \in Clients /\ game_states[g].players[j] # NULL
               /\ \A k \in Seats, d \in Spared :
                     game_states[g].players[k] = d => k < i \/ j <= k
    <2>1. j \in Connected(g, i, n) /\ \A k \in Connected(g, i, n) : j <= k
      BY <1>5 DEF IsFirst
    <2>2. j \in Seats /\ i <= j /\ game_states[g].players[j] # NULL
      BY <1>2, <2>1 DEF Connected
    <2>3. game_states[g].players[j] \in Clients
      BY <2>2, GameFields
    <2>4. \A k \in Seats, d \in Spared : game_states[g].players[k] = d => k < i \/ j <= k
      BY <1>3, <1>4, <2>1
    <2> QED
      BY <2>2, <2>3, <2>4
  <1>6. Connected(g, i, n) = {} =>
           \A k \in Seats, d \in Spared : game_states[g].players[k] = d => k < i
    BY <1>3, <1>4
  <1> QED
    BY <1>5, <1>6

(* Away from the walks that tell the players, the games stay in step with  *)
(* their players as long as these stay as they are.                        *)
LEMMA GamesKept ==
    ASSUME TypeOK, Links, GamesInStep, UNCHANGED game_states,
           gl.at \notin {"stopped", "state", "end", "error"},
           gl'.at \notin {"state", "end", "error"},
           \A d \in Spared :
              \/ clients'[d].state = clients[d].state /\ ScreenAhead(d)' = ScreenAhead(d)
              \/ clients[d].state \notin {"LOADING", "GAME", "STATISTICS"}
    PROVE  GamesInStep'
  <1> SUFFICES ASSUME NEW g \in Games, NEW i \in Seats, NEW c \in Spared,
                      Live(g), game_states[g].players[i] = c
               PROVE  PlayerInStep(g, i, c)'
    BY SparedConstant DEF GamesInStep, Live
  <1>1. clients[c].state \in {"LOADING", "GAME", "STATISTICS"}
    BY NamedPlays
  <1>2. clients'[c].state = clients[c].state /\ ScreenAhead(c)' = ScreenAhead(c)
    BY <1>1
  <1>3. PlayerInStep(g, i, c)
    BY DEF GamesInStep
  <1>4. ~Showing(g) /\ ~Showing(g)' /\ ~Told(g, i) /\ ~Told(g, i)' /\ (Over(g)' <=> Over(g))
    BY DEF Showing, Told, Over
  <1> QED
    BY <1>2, <1>3, <1>4
    DEF PlayerInStep, ReadyInStep, StateInStep, EndInStep, MenuInStep

(* Where the lobby loop leads, everybody it has passed knows the lobby.    *)
LEMMA LobbyFromInStep ==
    ASSUME TypeOK, Links, LobbyCounts, NEW l \in Lobbies, NEW at \in {"lobby", "full"},
           NEW i \in Nat, LobbyFrom(at, l, i), UNCHANGED <<clients, lobbies>>,
           at = "full" => lobbies[l].client_count = LobbySize[l],
           at = "full" => \A k \in Seats, c \in Spared :
                             lobbies[l].clients[k] = c /\ k < i => ScreenAhead(c)' = "LOBBY"
    PROVE  LoopInStep' /\ LobbiesInStep' /\ gl'.at \in {"idle", "start", "lobby", "full"}
  <1> DEFINE S == {j \in i .. LobbySize[l] - 1 :
                     /\ lobbies[l].clients[j] # NULL
                     /\ clients[lobbies[l].clients[j]].lobby # NULL}
  <1>1. \/ S = {} /\ gl' = (IF at = "full" THEN Start(l) ELSE Idle)
        \/ \E j \in S : IsFirst(j, S) /\ gl' = Waiting(at, l, j, lobbies[l].clients[j], NULL)
    BY DEF LobbyFrom
  <1>2. \A k \in Seats, c \in Spared : lobbies[l].clients[k] = c /\ i <= k => k \in S
    <2> SUFFICES ASSUME NEW k \in Seats, NEW c \in Spared, lobbies[l].clients[k] = c, i <= k
                 PROVE  k \in S
      OBVIOUS
    <2>1. c # NULL /\ clients[c].lobby = l /\ l # NULL
      BY SparedClients, NullIsNoIndex DEF Links, SeatedInLobby
    <2>2. k \in 0 .. LobbySize[l] - 1
      BY <2>1 DEF LobbyCounts, Occupied
    <2> QED
      BY <2>1, <2>2
  <1>3. i .. LobbySize[l] - 1 \subseteq Int /\ Seats \subseteq Int /\ S \subseteq Int
    BY DEF Seats
  <1> HIDE DEF S
  <1>4. CASE S = {} /\ gl' = (IF at = "full" THEN Start(l) ELSE Idle)
    <2>1. CASE at = "lobby"
      <3>1. gl'.at = "idle"
        BY <1>4, <2>1, PointFields
      <3> QED
        BY <3>1 DEF LoopInStep, LobbiesInStep
    <2>2. CASE at = "full"
      <3>1. gl'.at = "start" /\ gl'.unit = l
        BY <1>4, <2>2 DEF Start, Idle
      <3>2. LoopInStep'
        BY <2>2, <3>1 DEF LoopInStep
      <3>3. \A k \in Seats, c \in Spared : lobbies[l].clients[k] = c => ScreenAhead(c)' = "LOBBY"
        BY <1>2, <1>3, <1>4, <2>2
      <3>4. LobbiesInStep'
        BY <3>1, <3>3, SparedConstant DEF LobbiesInStep
      <3> QED
        BY <3>1, <3>2, <3>4
    <2> QED
      BY <2>1, <2>2
  <1>5. ASSUME NEW j \in S, IsFirst(j, S), gl' = Waiting(at, l, j, lobbies[l].clients[j], NULL)
        PROVE  LoopInStep' /\ LobbiesInStep' /\ gl'.at \in {"idle", "start", "lobby", "full"}
    <2>1. gl'.at = at /\ gl'.unit = l /\ gl'.seat = j /\ gl'.to = lobbies[l].clients[j]
      BY <1>5 DEF Waiting
    <2>2. LoopInStep'
      BY <2>1 DEF LoopInStep
    <2>3. at = "full" => \A k \in Seats, c \in Spared :
                            lobbies[l].clients[k] = c /\ k < j => ScreenAhead(c)' = "LOBBY"
      BY <1>2, <1>3, <1>5 DEF IsFirst
    <2>4. LobbiesInStep'
      BY <2>1, <2>3, SparedConstant DEF LobbiesInStep
    <2> QED
      BY <2>1, <2>2, <2>4
  <1> QED
    BY <1>1, <1>4, <1>5

(* update_lobby up to its first wait *)
LEMMA UpdateLobbyInStep ==
    ASSUME TypeOK, Links, LobbyCounts, InStep, NEW l \in Lobbies, UpdateLobby(l)
    PROVE  InStep'
  <1> DEFINE at == IF lobbies[l].client_count = LobbySize[l] THEN "full" ELSE "lobby"
  <1>1. /\ gl.at = "idle" /\ LobbyFrom(at, l, 0)
        /\ UNCHANGED <<clients, packet, recv, screen, lobbies, game_states>>
    BY DEF UpdateLobby
  <1>2. PacketsMeet' /\ \A d \in Spared : ScreenAhead(d)' = ScreenAhead(d)
    BY <1>1, MailStays DEF InStep
  <1>3. LoopInStep' /\ LobbiesInStep' /\ gl'.at \in {"idle", "start", "lobby", "full"}
    <2>1. at \in {"lobby", "full"} /\ (at = "full" => lobbies[l].client_count = LobbySize[l])
      OBVIOUS
    <2>2. 0 \in Nat /\ \A k \in Seats : ~(k < 0)
      BY DEF Seats
    <2> HIDE DEF at
    <2> QED
      BY <1>1, <2>1, <2>2, LobbyFromInStep
  <1>4. GamesInStep'
    BY <1>1, <1>2, <1>3, GamesKept DEF InStep
  <1>5. ScreensFit'
    BY <1>1, <1>2, <1>3, FitsNext DEF InStep, Returning
  <1>6. RepliesFit'
    BY <1>1, RepliesKept DEF InStep
  <1> QED
    BY <1>2, <1>3, <1>4, <1>5, <1>6 DEF InStep

(* send_lobby: a client in the lobby shows the menu or the lobby. *)
LEMMA SendLobbyInStep ==
    ASSUME TypeOK, Links, LobbyCounts, InStep, SendLobby
    PROVE  InStep'
  <1>1. /\ gl.at \in {"lobby", "full"}
        /\ UNCHANGED <<clients, recv, screen, lobbies, game_states>>
        /\ \/ gl' = Stopped /\ UNCHANGED packet
           \/ Fill(gl.to, "LOBBY") /\ LobbyFrom(gl.at, gl.unit, gl.seat + 1)
    BY DEF SendLobby
  <1>2. RepliesFit'
    BY <1>1, RepliesKept DEF InStep
  <1>3. CASE gl' = Stopped /\ UNCHANGED packet
    <2>1. PacketsMeet' /\ \A d \in Spared : ScreenAhead(d)' = ScreenAhead(d)
      BY <1>1, <1>3, MailStays DEF InStep
    <2>2. gl'.at = "stopped"
      BY <1>3, PointFields
    <2>3. LoopInStep' /\ LobbiesInStep' /\ GamesInStep'
      BY <2>2 DEF LoopInStep, LobbiesInStep, GamesInStep
    <2>4. ScreensFit'
      BY <1>1, <2>1, <2>2, FitsNext DEF InStep, Returning
    <2> QED
      BY <1>2, <2>1, <2>3, <2>4 DEF InStep
  <1>4. CASE Fill(gl.to, "LOBBY") /\ LobbyFrom(gl.at, gl.unit, gl.seat + 1)
    <2>1. PICK c \in Clients, l \in Lobbies, i \in Seats : c = gl.to /\ l = gl.unit /\ i = gl.seat
      BY <1>1, LoopFields DEF TypeOK
    <2>2. lobbies[l].clients[i] = c /\ (gl.at = "full" => lobbies[l].client_count = LobbySize[l])
      BY <1>1, <2>1 DEF InStep, LoopInStep
    <2>3. c \in Spared => clients[c].state = "LOBBY"
      BY <2>2 DEF Links, SeatedInLobby
    <2>4. c \in Spared => ScreenAhead(c) \in {"MENU", "LOBBY"}
      BY <2>3 DEF InStep, ScreensFit, Fits
    <2>5. /\ "LOBBY" \in PacketIds
          /\ \A s \in {"MENU", "LOBBY"} : Meets(s, "LOBBY") /\ ScreenAfter(s, "LOBBY") = "LOBBY"
      BY DEF PacketIds, Meets, ScreenAfter
    <2>6. /\ PacketsMeet'
          /\ \A d \in Spared \ {c} : ScreenAhead(d)' = ScreenAhead(d)
          /\ c \in Spared => ScreenAhead(c)' = ScreenAfter(ScreenAhead(c), "LOBBY")
      BY <1>1, <1>4, <2>1, <2>4, <2>5, MailFilled DEF InStep
    <2>7. c \in Spared => ScreenAhead(c)' = "LOBBY"
      BY <2>4, <2>5, <2>6
    <2>8. gl.at = "full" => \A k \in Seats, d \in Spared :
             lobbies[l].clients[k] = d /\ k < i + 1 => ScreenAhead(d)' = "LOBBY"
      <3> SUFFICES ASSUME gl.at = "full", NEW k \in Seats, NEW d \in Spared,
                          lobbies[l].clients[k] = d, k < i + 1, d # c
                   PROVE  ScreenAhead(d)' = "LOBBY"
        BY <2>7
      <3>1. k # i /\ k \in Int /\ i \in Int
        BY <2>2 DEF Seats
      <3>2. k < i
        BY <3>1
      <3>3. ScreenAhead(d) = "LOBBY"
        BY <2>1, <3>2 DEF InStep, LobbiesInStep
      <3> QED
        BY <2>6, <3>3
    <2>9. i + 1 \in Nat
      BY DEF Seats
    <2>10. LoopInStep' /\ LobbiesInStep' /\ gl'.at \in {"idle", "start", "lobby", "full"}
      BY <1>1, <1>4, <2>1, <2>2, <2>8, <2>9, LobbyFromInStep
    <2>11. GamesInStep'
      BY <1>1, <2>3, <2>6, <2>10, GamesKept DEF InStep
    <2>12. ScreensFit'
      <3>1. c \in Spared => Fits(c)'
        BY <1>1, <2>3, <2>7 DEF Fits
      <3> QED
        BY <1>1, <2>6, <2>10, <3>1, FitsNext DEF InStep, Returning
    <2> QED
      BY <1>2, <2>6, <2>10, <2>11, <2>12 DEF InStep
  <1> QED
    BY <1>1, <1>3, <1>4

(* The start of a game: a lobby that is still full when it is dealt, so the *)
(* record is never wasted while nobody quits.                              *)
LEMMA StartNotWasted ==
    ASSUME TypeOK, LobbyCounts, LoopInStep, StartGame
    PROVE  \/ UNCHANGED <<clients, lobbies, game_states>>
           \/ \E g \in Games :
                /\ game_states[g].status = "FREE" /\ gl.unit \in Lobbies
                /\ Started(gl.unit, g)
                /\ \A i \in 0 .. LobbySize[gl.unit] - 1 : game_states'[g].ready[i] = FALSE
  <1> DEFINE l == gl.unit
             n == LobbySize[l]
  <1>1. l \in Lobbies /\ lobbies[l].client_count = n /\ gl.at = "start"
    BY LoopFields DEF StartGame, TypeOK, LoopInStep
  <1>2. CASE UNCHANGED <<clients, lobbies, game_states>>
    BY <1>2
  <1>3. ASSUME NEW g \in Games, game_states[g].status = "FREE",
               game_states' = [game_states EXCEPT ![g] = InitGame(g, l, n)],
               ~UNCHANGED <<clients, lobbies, game_states>>
        PROVE  /\ Started(l, g)
               /\ \A i \in 0 .. n - 1 : game_states'[g].ready[i] = FALSE
    <2>1. n \in 1 .. MaxPlayers /\ n \in Int /\ 0 .. n - 1 \subseteq Seats
      BY <1>1, SlotsAreSeats
    <2>2. game_states'[g] = InitGame(g, l, n) /\ game_states[g] \in GameType
      BY <1>3, GameFields DEF TypeOK
    <2> HIDE DEF l, n
    <2>3. /\ game_states'[g].status = "LOADING"
          /\ game_states'[g].ready = [i \in Seats |->
                IF i < n THEN FALSE ELSE game_states[g].ready[i]]
      BY <2>2 DEF InitGame, GameType
    <2>4. \A i \in 0 .. n - 1 : game_states'[g].ready[i] = FALSE
      BY <2>1, <2>3
    <2>5. \A h \in Games : game_states'[h].status # game_states[h].status => h = g
      BY <1>3 DEF TypeOK
    <2>6. PICK m \in Lobbies, h \in Games :
            game_states[h].status = "FREE" /\ (Started(m, h) \/ Wasted(m, h))
      BY <1>3, StartEffect
    <2>7. h = g
      BY <2>5, <2>6 DEF Started, Wasted
    <2>8. Started(m, g)
      BY <2>3, <2>6, <2>7 DEF Wasted
    <2>9. m = l
      <3>1. lobbies' = [lobbies EXCEPT ![l] = EmptyLobby]
        BY <1>3 DEF StartGame, l
      <3>2. SUFFICES ASSUME m # l
                     PROVE  FALSE
        OBVIOUS
      <3>3. lobbies'[m] = lobbies[m]
        BY <3>1, <3>2 DEF TypeOK
      <3>4. 0 \in 0 .. LobbySize[m] - 1 /\ 0 \in Seats
        BY SlotsAreSeats
      <3>5. lobbies[m].clients[0] \in Clients /\ lobbies'[m].clients[0] = NULL
        BY <2>8, <3>4 DEF Started
      <3> QED
        BY <3>3, <3>5, NullIsNoIndex
    <2> QED
      BY <2>4, <2>8, <2>9
  <1>4. \/ UNCHANGED <<clients, lobbies, game_states>>
        \/ \E g \in Games :
             /\ game_states[g].status = "FREE"
             /\ game_states' = [game_states EXCEPT ![g] = InitGame(g, l, n)]
    BY <1>1 DEF StartGame, FreeGames
  <1> QED
    BY <1>1, <1>2, <1>3, <1>4

(* StartGame: whoever is dealt into the game shows the lobby. *)
LEMMA StartInStep ==
    ASSUME TypeOK, Links, LobbyCounts, InStep, StartGame
    PROVE  InStep'
  <1>1. /\ gl.at = "start" /\ gl'.at \in {"idle", "stopped"}
        /\ UNCHANGED <<packet, recv, screen>>
    BY PointFields DEF StartGame
  <1>2. PacketsMeet' /\ \A d \in Spared : ScreenAhead(d)' = ScreenAhead(d)
    BY <1>1, MailStays DEF InStep
  <1>3. LoopInStep' /\ LobbiesInStep'
    BY <1>1 DEF LoopInStep, LobbiesInStep
  <1>4. CASE UNCHANGED <<clients, lobbies, game_states>>
    <2>1. GamesInStep'
      BY <1>1, <1>2, <1>4, GamesKept DEF InStep
    <2>2. ScreensFit'
      BY <1>1, <1>2, <1>4, FitsNext DEF InStep, Returning
    <2>3. RepliesFit'
      BY <1>1, <1>4, RepliesKept DEF InStep
    <2> QED
      BY <1>2, <1>3, <2>1, <2>2, <2>3 DEF InStep
  <1>5. ASSUME NEW g \in Games, NEW l \in Lobbies, l = gl.unit, game_states[g].status = "FREE",
               Started(l, g), \A i \in 0 .. LobbySize[l] - 1 : game_states'[g].ready[i] = FALSE
        PROVE  InStep'
    <2>1. \A d \in Clients \ Dealt(l) : clients'[d] = clients[d]
      BY <1>5 DEF Started
    <2>2. \A d \in Spared \cap Dealt(l) :
             /\ clients[d].state = "LOBBY" /\ clients'[d].state = "LOADING"
             /\ ScreenAhead(d) = "LOBBY"
      <3> SUFFICES ASSUME NEW d \in Spared, d \in Dealt(l)
                   PROVE  /\ clients[d].state = "LOBBY" /\ clients'[d].state = "LOADING"
                          /\ ScreenAhead(d) = "LOBBY"
        OBVIOUS
      <3>1. clients[d].state = "LOBBY" /\ \E i \in Seats : lobbies[l].clients[i] = d
        BY DealtSeated
      <3>2. ScreenAhead(d) = "LOBBY"
        BY <1>1, <1>5, <3>1 DEF InStep, LobbiesInStep
      <3>3. clients'[d].state = "LOADING"
        BY <1>5, SparedClients DEF Started
      <3> QED
        BY <3>1, <3>2, <3>3
    <2>3. ScreensFit'
      <3>1. \A d \in Spared \cap Dealt(l) : Fits(d)'
        BY <1>2, <2>2 DEF Fits
      <3> QED
        BY <1>1, <1>2, <2>1, <3>1, SparedClients, FitsNext DEF InStep, Returning
    <2>4. RepliesFit'
      BY <1>1, <2>1, <2>2, SparedClients, RepliesKept DEF InStep
    <2>5. GamesInStep'
      <3> SUFFICES ASSUME NEW h \in Games, NEW i \in Seats, NEW c \in Spared,
                          Live(h)', game_states'[h].players[i] = c
                   PROVE  PlayerInStep(h, i, c)'
        BY SparedConstant DEF GamesInStep
      <3>1. ~Showing(h) /\ ~Showing(h)' /\ ~Told(h, i) /\ ~Told(h, i)'
        BY <1>1 DEF Showing, Told
      <3>2. CASE h = g
        <4>1. game_states'[g].status = "LOADING" /\ game_states'[g].player_count = LobbySize[l]
          BY <1>5 DEF Started
        <4>2. i \in 0 .. LobbySize[l] - 1
          <5>1. CASE TablesFull
            BY <5>1 DEF TablesFull, Seats
          <5>2. CASE ~TablesFull
            <6>1. game_states[g].players[i] \in {0, NULL}
              BY <1>5 DEF Links, UnusedEntries, Live
            <6> QED
              BY <1>5, <3>2, <5>2, <6>1, SparedClients DEF Started
          <5> QED
            BY <5>1, <5>2
        <4>3. c \in Dealt(l) /\ game_states'[g].ready[i] = FALSE
          <5>1. c = IdOf(lobbies[l].clients[i]) /\ lobbies[l].clients[i] \in Dealt(l)
            BY <1>5, <3>2, <4>2 DEF Started
          <5> QED
            BY <1>5, <4>2, <5>1, SparedClients DEF IdOf
        <4>4. clients'[c].state = "LOADING"
          BY <2>2, <4>3
        <4> QED
          BY <3>2, <4>1, <4>3, <4>4
          DEF PlayerInStep, ReadyInStep, StateInStep, EndInStep, MenuInStep, Over
      <3>3. CASE h # g
        <4>1. game_states'[h] = game_states[h] /\ Live(h)
          BY <1>5, <3>3 DEF Started, Live
        <4>2. clients[c].state \in {"LOADING", "GAME", "STATISTICS"}
          BY <4>1, NamedPlays
        <4>3. clients'[c].state = clients[c].state
          BY <2>1, <2>2, <4>2, SparedClients
        <4>4. PlayerInStep(h, i, c)
          BY <1>1, <4>1 DEF InStep, GamesInStep
        <4> QED
          BY <1>2, <3>1, <4>1, <4>3, <4>4
          DEF PlayerInStep, ReadyInStep, StateInStep, EndInStep, MenuInStep, Over
      <3> QED
        BY <3>2, <3>3
    <2> QED
      BY <1>2, <1>3, <2>3, <2>4, <2>5 DEF InStep
  <1> QED
    BY <1>4, <1>5, StartNotWasted DEF InStep

(* Where the ready loop leads. *)
LEMMA ReadyFromInStep ==
    ASSUME NEW g \in Games, game_states[g].status = "LOADING", NEW i, ReadyFrom(g, i),
           UNCHANGED game_states
    PROVE  LoopInStep' /\ LobbiesInStep' /\ gl'.at \in {"idle", "ready"}
  <1>1. CASE gl' = Idle
    <2>1. gl'.at = "idle"
      BY <1>1, PointFields
    <2> QED
      BY <2>1 DEF LoopInStep, LobbiesInStep
  <1>2. CASE WaitFor("ready", g, i)
    <2>1. gl'.at = "ready" /\ gl'.unit = g /\ gl'.seat = i /\ gl'.to = game_states[g].players[i]
      BY <1>2 DEF WaitFor, Waiting
    <2> QED
      BY <2>1 DEF LoopInStep, LobbiesInStep
  <1> QED
    BY <1>1, <1>2 DEF ReadyFrom

(* set_all_player_client_status_to_game, once everybody has answered *)
LEMMA AllReadyInStep ==
    ASSUME TypeOK, Links, InStep, NEW g \in Games, gl.at = "idle",
           game_states[g].status = "LOADING", AllPlayersReady(g),
           clients' = [c \in Clients |->
               IF \E i \in Active(g) : game_states[g].players[i] = c
               THEN [clients[c] EXCEPT !.state = "GAME"] ELSE clients[c]],
           SetStatus(g, "IN_PROGRESS"),
           UNCHANGED <<gl, packet, recv, screen, lobbies>>
    PROVE  InStep'
  <1>1. PacketsMeet' /\ \A d \in Spared : ScreenAhead(d)' = ScreenAhead(d)
    BY MailStays DEF InStep
  <1>2. LoopInStep' /\ LobbiesInStep'
    BY DEF LoopInStep, LobbiesInStep
  <1>3. /\ game_states'[g].status = "IN_PROGRESS"
        /\ \A h \in Games :
             /\ game_states'[h].players = game_states[h].players
             /\ game_states'[h].ready = game_states[h].ready
             /\ h # g => game_states'[h].status = game_states[h].status
    BY GameFields DEF SetStatus, TypeOK, GameType
  <1>4. Live(g)
    BY DEF Live
  <1>5. \A i \in Active(g) : i \in Seats
    BY ActiveSeats
  <1>6. ASSUME NEW i \in Active(g), NEW d \in Spared, game_states[g].players[i] = d
        PROVE  /\ clients[d].state = "LOADING" /\ ScreenAhead(d) = "LOADING"
               /\ clients'[d].state = "GAME"
    <2>1. PlayerInStep(g, i, d) /\ game_states[g].ready[i]
      BY <1>4, <1>5, <1>6 DEF InStep, GamesInStep, AllPlayersReady
    <2>2. clients[d].state = "LOADING" /\ ScreenAhead(d) = "LOADING"
      BY <2>1 DEF PlayerInStep, ReadyInStep
    <2>3. clients'[d] = [clients[d] EXCEPT !.state = "GAME"]
      BY <1>6, SparedClients
    <2> QED
      BY <2>2, <2>3, SparedClients, ClientFields DEF ClientType
  <1>7. \A d \in Spared : (\E i \in Active(g) : game_states[g].players[i] = d)
                          \/ clients'[d] = clients[d]
    BY SparedClients
  <1>8. ScreensFit'
    <2>1. \A d \in Spared : (\E i \in Active(g) : game_states[g].players[i] = d) => Fits(d)'
      BY <1>1, <1>6 DEF Fits
    <2> QED
      BY <1>1, <1>7, <2>1, FitsNext DEF InStep, Returning
  <1>9. RepliesFit'
    BY <1>6, <1>7, RepliesKept DEF InStep
  <1>10. GamesInStep'
    <2> SUFFICES ASSUME NEW h \in Games, NEW i \in Seats, NEW c \in Spared,
                        Live(h)', game_states'[h].players[i] = c
                 PROVE  PlayerInStep(h, i, c)'
      BY SparedConstant DEF GamesInStep
    <2>1. Live(h) /\ game_states[h].players[i] = c
      BY <1>3, <1>4 DEF Live
    <2>2. ~Showing(h) /\ ~Showing(h)' /\ ~Told(h, i) /\ ~Told(h, i)'
      BY DEF Showing, Told
    <2>3. CASE h = g
      <3>1. i \in Active(g)
        BY <2>1, <2>3, SparedActive
      <3> QED
        BY <1>3, <1>6, <2>1, <2>2, <2>3, <3>1
        DEF PlayerInStep, ReadyInStep, StateInStep, EndInStep, MenuInStep, Over
    <2>4. CASE h # g
      <3>1. ~\E j \in Active(g) : game_states[g].players[j] = c
        BY <1>4, <1>5, <2>1, <2>4, NamedOnce
      <3>2. clients'[c] = clients[c] /\ PlayerInStep(h, i, c)
        BY <1>7, <2>1, <3>1 DEF InStep, GamesInStep
      <3>3. /\ game_states'[h].status = game_states[h].status
            /\ game_states'[h].ready = game_states[h].ready
        BY <1>3, <2>4
      <3> QED
        BY <1>1, <2>2, <3>2, <3>3
        DEF PlayerInStep, ReadyInStep, StateInStep, EndInStep, MenuInStep, Over
    <2> QED
      BY <2>3, <2>4
  <1> QED
    BY <1>1, <1>2, <1>8, <1>9, <1>10 DEF InStep

(* A step of the gameloop that only moves it, away from the walks that tell *)
(* the players.                                                             *)
LEMMA LoopMoves ==
    ASSUME TypeOK, Links, InStep, UNCHANGED <<clients, packet, recv, screen, lobbies, game_states>>,
           gl.at \notin {"stopped", "state", "end", "error", "menu"},
           gl'.at \notin {"state", "end", "error", "menu"}, LoopInStep', LobbiesInStep'
    PROVE  InStep'
  <1>1. PacketsMeet' /\ \A d \in Spared : ScreenAhead(d)' = ScreenAhead(d)
    BY MailStays DEF InStep
  <1>2. GamesInStep'
    BY <1>1, GamesKept DEF InStep
  <1>3. ScreensFit'
    BY <1>1, FitsNext DEF InStep, Returning
  <1>4. RepliesFit'
    BY RepliesKept DEF InStep
  <1> QED
    BY <1>1, <1>2, <1>3, <1>4 DEF InStep

(* The gameloop ends. *)
LEMMA StopInStep ==
    ASSUME InStep, gl' = Stopped, gl.at # "menu",
           UNCHANGED <<clients, packet, recv, screen, lobbies, game_states>>
    PROVE  InStep'
  <1>1. gl'.at = "stopped"
    BY PointFields
  <1>2. PacketsMeet' /\ \A d \in Spared : ScreenAhead(d)' = ScreenAhead(d)
    BY MailStays DEF InStep
  <1>3. LoopInStep' /\ LobbiesInStep' /\ GamesInStep'
    BY <1>1 DEF LoopInStep, LobbiesInStep, GamesInStep
  <1>4. ScreensFit'
    BY <1>1, <1>2, FitsNext DEF InStep, Returning
  <1>5. RepliesFit'
    BY RepliesKept DEF InStep
  <1> QED
    BY <1>2, <1>3, <1>4, <1>5 DEF InStep

(* update_game of a game that loads *)
LEMMA LoadingInStep ==
    ASSUME TypeOK, Links, InStep, NEW g \in Games, UpdateLoading(g)
    PROVE  InStep'
  <1>1. /\ gl.at = "idle" /\ game_states[g].status = "LOADING"
        /\ UNCHANGED <<packet, recv, screen, lobbies>>
    BY DEF UpdateLoading
  <1>2. CASE /\ AllPlayersReady(g)
             /\ clients' = [c \in Clients |->
                   IF \E i \in Active(g) : game_states[g].players[i] = c
                   THEN [clients[c] EXCEPT !.state = "GAME"] ELSE clients[c]]
             /\ SetStatus(g, "IN_PROGRESS")
             /\ UNCHANGED gl
    BY <1>1, <1>2, AllReadyInStep
  <1>3. CASE gl' = Stopped /\ UNCHANGED <<clients, game_states>>
    BY <1>1, <1>3, StopInStep
  <1>4. CASE ReadyFrom(g, 0) /\ UNCHANGED <<clients, game_states>>
    BY <1>1, <1>4, ReadyFromInStep, LoopMoves
  <1> QED
    BY <1>2, <1>3, <1>4 DEF UpdateLoading

(* send_game_ready: a client whose game loads shows the lobby or the       *)
(* loading screen already.                                                 *)
LEMMA SendReadyInStep ==
    ASSUME TypeOK, Links, InStep, SendGameReady
    PROVE  InStep'
  <1>1. /\ gl.at = "ready"
        /\ UNCHANGED <<clients, recv, screen, lobbies, game_states>>
    BY DEF SendGameReady
  <1>2. PICK g \in Games, i \in Seats : g = gl.unit /\ i = gl.seat
    BY <1>1, LoopFields DEF TypeOK
  <1>3. game_states[g].status = "LOADING" /\ gl.to = game_states[g].players[i] /\ Live(g)
    BY <1>1, <1>2 DEF InStep, LoopInStep, Live
  <1>4. CASE gl' = Stopped /\ UNCHANGED packet
    BY <1>1, <1>4, StopInStep
  <1>5. CASE ReadyFrom(gl.unit, gl.seat + 1) /\ UNCHANGED packet
    <2>1. LoopInStep' /\ LobbiesInStep' /\ gl'.at \in {"idle", "ready"}
      BY <1>1, <1>2, <1>3, <1>5, ReadyFromInStep
    <2> QED
      BY <1>1, <1>5, <2>1, LoopMoves
  <1>6. CASE gl.to # NULL /\ Fill(gl.to, "GAME_READY") /\ ReadyFrom(gl.unit, gl.seat + 1)
    <2>1. PICK c \in Clients : c = gl.to
      BY <1>1, <1>6, LoopFields DEF TypeOK
    <2>2. LoopInStep' /\ LobbiesInStep' /\ gl'.at \in {"idle", "ready"}
      BY <1>1, <1>2, <1>3, <1>6, ReadyFromInStep
    <2>3. c \in Spared => clients[c].state = "LOADING"
      BY <1>1, <1>3, <2>1 DEF InStep, GamesInStep, PlayerInStep, ReadyInStep
    <2>4. c \in Spared => ScreenAhead(c) \in {"LOBBY", "LOADING"}
      BY <2>3 DEF InStep, ScreensFit, Fits
    <2>5. /\ "GAME_READY" \in PacketIds
          /\ \A s \in {"LOBBY", "LOADING"} :
               Meets(s, "GAME_READY") /\ ScreenAfter(s, "GAME_READY") = "LOADING"
      BY DEF PacketIds, Meets, ScreenAfter
    <2>6. /\ PacketsMeet'
          /\ \A d \in Spared \ {c} : ScreenAhead(d)' = ScreenAhead(d)
          /\ c \in Spared => ScreenAhead(c)' = ScreenAfter(ScreenAhead(c), "GAME_READY")
      BY <1>1, <1>6, <2>1, <2>4, <2>5, MailFilled DEF InStep
    <2>7. c \in Spared => ScreenAhead(c)' = "LOADING"
      BY <2>4, <2>5, <2>6
    <2>8. GamesInStep'
      <3> SUFFICES ASSUME NEW h \in Games, NEW j \in Seats, NEW d \in Spared,
                          Live(h), game_states[h].players[j] = d
                   PROVE  PlayerInStep(h, j, d)'
        BY <1>1, SparedConstant DEF GamesInStep, Live
      <3>1. PlayerInStep(h, j, d)
        BY <1>1 DEF InStep, GamesInStep
      <3>2. ~Showing(h) /\ ~Showing(h)' /\ ~Told(h, j) /\ ~Told(h, j)'
        BY <1>1, <2>2 DEF Showing, Told
      <3>3. CASE d # c
        <4>1. ScreenAhead(d)' = ScreenAhead(d)
          BY <2>6, <3>3
        <4> QED
          BY <1>1, <3>1, <3>2, <4>1
          DEF PlayerInStep, ReadyInStep, StateInStep, EndInStep, MenuInStep, Over
      <3>4. CASE d = c
        <4>1. h = g
          BY <1>3, <2>1, <3>4, NamedOnce
        <4> QED
          BY <1>1, <1>3, <2>3, <2>7, <3>4, <4>1
          DEF PlayerInStep, ReadyInStep, StateInStep, EndInStep, MenuInStep, Over
      <3> QED
        BY <3>3, <3>4
    <2>9. ScreensFit'
      <3>1. c \in Spared => Fits(c)'
        BY <1>1, <2>3, <2>7 DEF Fits
      <3> QED
        BY <1>1, <2>2, <2>6, <3>1, FitsNext DEF InStep, Returning
    <2>10. RepliesFit'
      BY <1>1, RepliesKept DEF InStep
    <2> QED
      BY <2>2, <2>6, <2>8, <2>9, <2>10 DEF InStep
  <1> QED
    BY <1>4, <1>5, <1>6 DEF SendGameReady

(* Where the state loop leads, everybody it has passed is shown the game.  *)
LEMMA StateFromInStep ==
    ASSUME TypeOK, Links, GamesInStep, NEW g \in Games, Live(g), NEW i \in Nat, StateFrom(g, i),
           gl.at = "idle" \/ Showing(g), UNCHANGED clients,
           game_states'[g].status = "IN_PROGRESS" \/ Over(g)',
           \A h \in Games :
              /\ game_states'[h].players = game_states[h].players
              /\ game_states'[h].ready = game_states[h].ready
              /\ h # g => game_states'[h].status = game_states[h].status,
           \A d \in Spared : \/ ScreenAhead(d)' = ScreenAhead(d)
                             \/ \E k \in Seats : game_states[g].players[k] = d,
           \A k \in Seats, d \in Spared : game_states[g].players[k] = d =>
              clients[d].state = "GAME" /\ (k < i => ScreenAhead(d)' = "GAME")
    PROVE  LoopInStep' /\ LobbiesInStep' /\ GamesInStep' /\ gl'.at \in {"idle", "state"}
  <1> DEFINE S == Connected(g, i, game_states[g].player_count)
  <1>1. \/ S = {} /\ gl' = Idle
        \/ \E j \in S : IsFirst(j, S) /\ WaitFor("state", g, j)
    BY DEF StateFrom
  <1>2. ASSUME gl'.at \in {"idle", "state"}, gl'.at = "state" => gl'.unit = g,
               NEW h \in Games \ {g}, NEW k \in Seats, NEW d \in Spared,
               Live(h)', game_states'[h].players[k] = d
        PROVE  PlayerInStep(h, k, d)'
    <2>1. Live(h) /\ game_states[h].players[k] = d
      BY <1>2 DEF Live
    <2>2. ScreenAhead(d)' = ScreenAhead(d)
      BY <2>1, NamedOnce
    <2>3. PlayerInStep(h, k, d)
      BY <2>1 DEF GamesInStep, Showing
    <2>4. ~Showing(h) /\ ~Showing(h)' /\ ~Told(h, k) /\ ~Told(h, k)'
      BY <1>2 DEF Showing, Told
    <2>5. /\ game_states'[h].status = game_states[h].status
          /\ game_states'[h].ready = game_states[h].ready
      OBVIOUS
    <2> QED
      BY <2>2, <2>3, <2>4, <2>5
      DEF PlayerInStep, ReadyInStep, StateInStep, EndInStep, MenuInStep, Over
  <1>3. game_states'[g].status \notin {"LOADING", "STATISTICS"}
    BY DEF Over
  <1>4. CASE S = {} /\ gl' = Idle
    <2>1. gl'.at = "idle"
      BY <1>4, PointFields
    <2>2. ASSUME NEW k \in Seats, NEW d \in Spared, game_states[g].players[k] = d
          PROVE  clients'[d].state = "GAME" /\ ScreenAhead(d)' = "GAME"
      BY <1>4, <2>2, ConnectedNext
    <2>3. ASSUME NEW k \in Seats, NEW d \in Spared, game_states'[g].players[k] = d
          PROVE  PlayerInStep(g, k, d)'
      <3>1. ~Showing(g)' /\ ~Told(g, k)'
        BY <2>1 DEF Showing, Told
      <3> QED
        BY <1>3, <2>2, <2>3, <3>1
        DEF PlayerInStep, ReadyInStep, StateInStep, EndInStep, MenuInStep
    <2>4. GamesInStep'
      BY <1>2, <2>1, <2>3, SparedConstant DEF GamesInStep
    <2> QED
      BY <2>1, <2>4 DEF LoopInStep, LobbiesInStep
  <1>5. ASSUME NEW j \in S, IsFirst(j, S), WaitFor("state", g, j)
        PROVE  LoopInStep' /\ LobbiesInStep' /\ GamesInStep' /\ gl'.at \in {"idle", "state"}
    <2>1. gl'.at = "state" /\ gl'.unit = g /\ gl'.seat = j /\ gl'.to = game_states[g].players[j]
      BY <1>5 DEF WaitFor, Waiting
    <2>2. \A k \in Seats, d \in Spared : game_states[g].players[k] = d => k < i \/ j <= k
      BY <1>5, ConnectedNext
    <2>3. j \in Int /\ \A k \in Seats : k \in Int
      BY ConnectedNext, <1>5 DEF Seats
    <2>4. ASSUME NEW k \in Seats, NEW d \in Spared, game_states'[g].players[k] = d
          PROVE  PlayerInStep(g, k, d)'
      <3>1. clients'[d].state = "GAME" /\ (k < j => ScreenAhead(d)' = "GAME")
        BY <2>2, <2>3, <2>4
      <3>2. Showing(g)'
        BY <2>1 DEF Showing
      <3> QED
        BY <1>3, <2>1, <3>1, <3>2
        DEF PlayerInStep, ReadyInStep, StateInStep, EndInStep, MenuInStep
    <2>5. GamesInStep'
      BY <1>2, <2>1, <2>4, SparedConstant DEF GamesInStep
    <2>6. LoopInStep'
      BY <2>1 DEF LoopInStep
    <2> QED
      BY <2>1, <2>5, <2>6 DEF LobbiesInStep
  <1> QED
    BY <1>1, <1>4, <1>5

(* update_game of a game in progress *)
LEMMA InProgressInStep ==
    ASSUME TypeOK, Links, InStep, NEW g \in Games, UpdateInProgress(g)
    PROVE  InStep'
  <1>1. /\ gl.at = "idle" /\ game_states[g].status = "IN_PROGRESS" /\ StateFrom(g, 0)
        /\ \/ SetStatus(g, "SUCCESS") \/ SetStatus(g, "ALL_TEAM_LEFT") \/ UNCHANGED game_states
        /\ UNCHANGED <<clients, packet, recv, screen, lobbies>>
    BY DEF UpdateInProgress
  <1>2. PacketsMeet' /\ \A d \in Spared : ScreenAhead(d)' = ScreenAhead(d)
    BY <1>1, MailStays DEF InStep
  <1>3. /\ game_states'[g].status \in {"IN_PROGRESS", "SUCCESS", "ALL_TEAM_LEFT"}
        /\ \A h \in Games :
             /\ game_states'[h].players = game_states[h].players
             /\ game_states'[h].ready = game_states[h].ready
             /\ h # g => game_states'[h].status = game_states[h].status
    BY <1>1, GameFields DEF SetStatus, TypeOK, GameType
  <1>4. Live(g) /\ (game_states'[g].status = "IN_PROGRESS" \/ Over(g)')
    BY <1>1, <1>3 DEF Live, Over
  <1>5. \A k \in Seats, d \in Spared : game_states[g].players[k] = d =>
           clients[d].state = "GAME" /\ (k < 0 => ScreenAhead(d)' = "GAME")
    BY <1>1, <1>4 DEF InStep, GamesInStep, PlayerInStep, StateInStep, Seats
  <1>6. LoopInStep' /\ LobbiesInStep' /\ GamesInStep' /\ gl'.at \in {"idle", "state"}
    BY <1>1, <1>2, <1>3, <1>4, <1>5, StateFromInStep DEF InStep
  <1>7. ScreensFit'
    BY <1>1, <1>2, <1>6, FitsNext DEF InStep, Returning
  <1>8. RepliesFit'
    BY <1>1, RepliesKept DEF InStep
  <1> QED
    BY <1>2, <1>6, <1>7, <1>8 DEF InStep

(* send_game_state: a client that plays shows the loading screen or the    *)
(* game, also while the last states of a game that is over are sent.       *)
LEMMA SendStateInStep ==
    ASSUME TypeOK, Links, InStep, SendGameState
    PROVE  InStep'
  <1>1. /\ gl.at = "state"
        /\ UNCHANGED <<clients, recv, screen, lobbies, game_states>>
    BY DEF SendGameState
  <1>2. PICK g \in Games, i \in Seats, c \in Clients : g = gl.unit /\ i = gl.seat /\ c = gl.to
    BY <1>1, LoopFields DEF TypeOK
  <1>3. /\ game_states[g].status = "IN_PROGRESS" \/ Over(g)
        /\ c = game_states[g].players[i] /\ Live(g) /\ Showing(g)
    BY <1>1, <1>2 DEF InStep, LoopInStep, Live, Over, Showing
  <1>4. CASE gl' = Stopped /\ UNCHANGED packet
    BY <1>1, <1>4, StopInStep
  <1>5. CASE Fill(c, "GAME_STATE") /\ StateFrom(g, i + 1)
    <2>1. \A k \in Seats, d \in Spared : game_states[g].players[k] = d =>
             clients[d].state = "GAME" /\ (k < i => ScreenAhead(d) = "GAME")
      BY <1>1, <1>2, <1>3 DEF InStep, GamesInStep, PlayerInStep, StateInStep
    <2>2. c \in Spared => ScreenAhead(c) \in {"LOADING", "GAME"}
      BY <1>3, <2>1 DEF InStep, ScreensFit, Fits
    <2>3. /\ "GAME_STATE" \in PacketIds
          /\ \A s \in {"LOADING", "GAME"} :
               Meets(s, "GAME_STATE") /\ ScreenAfter(s, "GAME_STATE") = "GAME"
      BY DEF PacketIds, Meets, ScreenAfter
    <2>4. /\ PacketsMeet'
          /\ \A d \in Spared \ {c} : ScreenAhead(d)' = ScreenAhead(d)
          /\ c \in Spared => ScreenAhead(c)' = ScreenAfter(ScreenAhead(c), "GAME_STATE")
      BY <1>1, <1>5, <2>2, <2>3, MailFilled DEF InStep
    <2>5. c \in Spared => ScreenAhead(c)' = "GAME"
      BY <2>2, <2>3, <2>4
    <2>6. \A k \in Seats, d \in Spared : game_states[g].players[k] = d =>
             clients[d].state = "GAME" /\ (k < i + 1 => ScreenAhead(d)' = "GAME")
      <3> SUFFICES ASSUME NEW k \in Seats, NEW d \in Spared, game_states[g].players[k] = d,
                          k < i + 1, d # c
                   PROVE  ScreenAhead(d)' = "GAME"
        BY <2>1, <2>5
      <3>1. k # i /\ k \in Int /\ i \in Int
        BY <1>3 DEF Seats
      <3>2. k < i
        BY <3>1
      <3> QED
        BY <2>1, <2>4, <3>2
    <2>7. \A d \in Spared : \/ ScreenAhead(d)' = ScreenAhead(d)
                            \/ \E k \in Seats : game_states[g].players[k] = d
      BY <1>3, <2>4
    <2>8. i + 1 \in Nat /\ (Over(g)' <=> Over(g))
      BY <1>1 DEF Seats, Over
    <2>9. LoopInStep' /\ LobbiesInStep' /\ GamesInStep' /\ gl'.at \in {"idle", "state"}
      BY <1>1, <1>3, <1>5, <2>6, <2>7, <2>8, StateFromInStep DEF InStep
    <2>10. ScreensFit'
      <3>1. c \in Spared => Fits(c)'
        BY <1>1, <1>3, <2>1, <2>5 DEF Fits
      <3> QED
        BY <1>1, <2>4, <2>9, <3>1, FitsNext DEF InStep, Returning
    <2>11. RepliesFit'
      BY <1>1, RepliesKept DEF InStep
    <2> QED
      BY <2>4, <2>9, <2>10, <2>11 DEF InStep
  <1> QED
    BY <1>1, <1>2, <1>4, <1>5 DEF SendGameState

(* Where the walk at the end of a game leads, everybody it has passed is   *)
(* shown the statistics, and the next player is put in them.               *)
LEMMA EndFromInStep ==
    ASSUME TypeOK, Links, GamesInStep, NEW g \in Games, Over(g), NEW i \in Nat, EndFrom(g, i),
           gl.at = "idle" \/ (gl.at \in {"end", "error"} /\ gl.unit = g),
           \A d \in Spared : \/ ScreenAhead(d)' = ScreenAhead(d)
                             \/ \E k \in Seats : game_states[g].players[k] = d,
           \A k \in Seats, d \in Spared : game_states[g].players[k] = d =>
              \/ k < i /\ clients[d].state = "STATISTICS" /\ ScreenAhead(d)' = "STATISTICS"
              \/ i <= k /\ clients[d].state = "GAME" /\ ScreenAhead(d)' = "GAME"
    PROVE  /\ LoopInStep' /\ LobbiesInStep' /\ GamesInStep' /\ gl'.at \in {"idle", "end"}
           /\ \A d \in Spared :
                \/ clients'[d].state = clients[d].state
                \/ /\ clients[d].state = "GAME" /\ clients'[d].state = "STATISTICS"
                   /\ ScreenAhead(d)' = "GAME"
  <1> DEFINE S == Connected(g, i, game_states[g].player_count)
  <1>1. \/ S = {} /\ SetStatus(g, "STATISTICS") /\ gl' = Idle /\ UNCHANGED clients
        \/ \E j \in S :
             /\ IsFirst(j, S)
             /\ clients' = [clients EXCEPT ![game_states[g].players[j]].state = "STATISTICS"]
             /\ WaitFor("end", g, j)
             /\ UNCHANGED game_states
    BY DEF EndFrom
  <1>2. Live(g) /\ game_states[g].status \notin {"LOADING", "IN_PROGRESS", "STATISTICS"}
    BY DEF Over, Live
  <1>3. ASSUME gl'.at \in {"idle", "end"}, gl'.at = "end" => gl'.unit = g,
               NEW h \in Games \ {g}, NEW k \in Seats, NEW d \in Spared,
               Live(h), game_states[h].players[k] = d,
               game_states'[h] = game_states[h], clients'[d].state = clients[d].state
        PROVE  PlayerInStep(h, k, d)'
    <2>1. ScreenAhead(d)' = ScreenAhead(d)
      BY <1>2, <1>3, NamedOnce
    <2>2. PlayerInStep(h, k, d)
      BY <1>3 DEF GamesInStep
    <2>3. ~Showing(h) /\ ~Showing(h)' /\ ~Told(h, k) /\ ~Told(h, k)'
      BY <1>3 DEF Showing, Told
    <2> QED
      BY <1>3, <2>1, <2>2, <2>3
      DEF PlayerInStep, ReadyInStep, StateInStep, EndInStep, MenuInStep, Over
  <1>4. CASE S = {} /\ SetStatus(g, "STATISTICS") /\ gl' = Idle /\ UNCHANGED clients
    <2>1. gl'.at = "idle"
      BY <1>4, PointFields
    <2>2. /\ game_states'[g].status = "STATISTICS"
          /\ game_states'[g].players = game_states[g].players
          /\ \A h \in Games \ {g} : game_states'[h] = game_states[h]
      BY <1>4, GameFields DEF SetStatus, TypeOK, GameType
    <2>3. ASSUME NEW k \in Seats, NEW d \in Spared, game_states'[g].players[k] = d
          PROVE  PlayerInStep(g, k, d)'
      <3>1. k < i /\ k \in Int
        BY <1>2, <1>4, <2>2, <2>3, ConnectedNext DEF Seats
      <3>2. clients'[d].state = "STATISTICS" /\ ScreenAhead(d)' = "STATISTICS"
        BY <1>4, <2>2, <2>3, <3>1
      <3> QED
        BY <2>2, <3>2
        DEF PlayerInStep, ReadyInStep, StateInStep, EndInStep, MenuInStep, Over
    <2>4. GamesInStep'
      <3> SUFFICES ASSUME NEW h \in Games, NEW k \in Seats, NEW d \in Spared,
                          Live(h)', game_states'[h].players[k] = d, h # g
                   PROVE  PlayerInStep(h, k, d)'
        BY <2>3, SparedConstant DEF GamesInStep
      <3>1. game_states'[h] = game_states[h] /\ Live(h)
        BY <2>2 DEF Live
      <3> QED
        BY <1>3, <1>4, <2>1, <3>1
    <2> QED
      BY <1>4, <2>1, <2>4 DEF LoopInStep, LobbiesInStep
  <1>5. ASSUME NEW j \in S, IsFirst(j, S),
               clients' = [clients EXCEPT ![game_states[g].players[j]].state = "STATISTICS"],
               WaitFor("end", g, j), UNCHANGED game_states
        PROVE  /\ LoopInStep' /\ LobbiesInStep' /\ GamesInStep' /\ gl'.at \in {"idle", "end"}
               /\ \A d \in Spared :
                    \/ clients'[d].state = clients[d].state
                    \/ /\ clients[d].state = "GAME" /\ clients'[d].state = "STATISTICS"
                       /\ ScreenAhead(d)' = "GAME"
    <2>0. game_states' = game_states
      BY <1>5
    <2>1. gl'.at = "end" /\ gl'.unit = g /\ gl'.seat = j /\ gl'.to = game_states[g].players[j]
      BY <1>5 DEF WaitFor, Waiting
    <2>2. PICK c \in Clients : c = game_states[g].players[j]
      BY <1>2, <1>5, ConnectedNext
    <2>3. j \in Seats /\ i <= j
      BY <1>2, <1>5, ConnectedNext
    <2>4. \A k \in Seats, d \in Spared : game_states[g].players[k] = d => k < i \/ j <= k
      BY <1>2, <1>5, ConnectedNext
    <2>5. \A k \in Seats : k \in Int
      BY DEF Seats
    <2>6. /\ clients'[c].state = "STATISTICS"
          /\ \A d \in Clients \ {c} : clients'[d] = clients[d]
      BY <1>5, <2>2, ClientFields DEF TypeOK, ClientType
    <2>7. ASSUME NEW k \in Seats, NEW d \in Spared, game_states[g].players[k] = d
          PROVE  PlayerInStep(g, k, d)'
      <3>1. CASE k < i
        <4>1. clients[d].state = "STATISTICS" /\ ScreenAhead(d)' = "STATISTICS" /\ k < j
          BY <2>3, <2>5, <2>7, <3>1
        <4>2. clients'[d].state = "STATISTICS"
          BY <2>6, <4>1, SparedClients
        <4>3. Told(g, k)' /\ k # gl'.seat
          BY <2>1, <2>3, <2>5, <4>1 DEF Told
        <4> QED
          BY <1>2, <2>0, <2>1, <4>1, <4>2, <4>3
          DEF PlayerInStep, ReadyInStep, StateInStep, EndInStep, MenuInStep, Showing, Over
      <3>2. CASE k = j
        <4>1. d = c /\ ScreenAhead(d)' = "GAME" /\ clients'[d].state = "STATISTICS"
          BY <2>2, <2>3, <2>5, <2>6, <2>7, <3>2
        <4>2. Told(g, k)' /\ gl'.at = "end" /\ k = gl'.seat
          BY <2>1, <2>5, <3>2 DEF Told
        <4> QED
          BY <1>2, <2>0, <4>1, <4>2
          DEF PlayerInStep, ReadyInStep, StateInStep, EndInStep, MenuInStep, Showing, Over
      <3>3. CASE j < k
        <4>1. clients[d].state = "GAME" /\ ScreenAhead(d)' = "GAME"
          BY <2>3, <2>5, <2>7, <3>3
        <4>2. d # c
          BY <1>2, <2>2, <2>3, <2>5, <2>7, <3>3, NamedOnce
        <4>3. clients'[d].state = "GAME"
          BY <2>6, <4>1, <4>2, SparedClients
        <4>4. ~Told(g, k)'
          BY <2>1, <2>3, <2>5, <3>3 DEF Told
        <4> QED
          BY <1>2, <2>0, <2>1, <4>1, <4>3, <4>4
          DEF PlayerInStep, ReadyInStep, StateInStep, EndInStep, MenuInStep, Showing, Over
      <3> QED
        BY <2>3, <2>4, <2>5, <2>7, <3>1, <3>2, <3>3
    <2>8. GamesInStep'
      <3> SUFFICES ASSUME NEW h \in Games, NEW k \in Seats, NEW d \in Spared,
                          Live(h), game_states[h].players[k] = d, h # g
                   PROVE  PlayerInStep(h, k, d)'
        BY <2>0, <2>7, SparedConstant DEF GamesInStep, Live
      <3>1. d # c
        BY <1>2, <2>2, <2>3, NamedOnce
      <3>2. clients'[d].state = clients[d].state /\ game_states'[h] = game_states[h]
        BY <2>0, <2>6, <3>1, SparedClients
      <3> QED
        BY <1>3, <2>1, <3>2
    <2>9. ASSUME NEW d \in Spared, clients'[d].state # clients[d].state
          PROVE  /\ clients[d].state = "GAME" /\ clients'[d].state = "STATISTICS"
                 /\ ScreenAhead(d)' = "GAME"
      <3>1. d = c
        BY <2>6, <2>9, SparedClients
      <3> QED
        BY <2>2, <2>3, <2>5, <2>6, <2>9, <3>1
    <2>10. LoopInStep'
      BY <1>5, <2>1 DEF LoopInStep
    <2> QED
      BY <2>1, <2>8, <2>9, <2>10 DEF LobbiesInStep
  <1> QED
    BY <1>1, <1>4, <1>5

(* The rest of the invariant where the walk at the end of a game leads. *)
LEMMA EndFits ==
    ASSUME InStep, UNCHANGED recv, gl.at # "menu", gl'.at # "menu",
           \A d \in Spared :
              \/ clients'[d].state = clients[d].state
              \/ /\ clients[d].state = "GAME" /\ clients'[d].state = "STATISTICS"
                 /\ ScreenAhead(d)' = "GAME",
           \A d \in Spared : \/ ScreenAhead(d)' = ScreenAhead(d)
                             \/ /\ clients[d].state = "STATISTICS"
                                /\ ScreenAhead(d)' \in {"GAME", "STATISTICS"}
    PROVE  ScreensFit' /\ RepliesFit'
  <1>1. RepliesFit'
    BY RepliesKept DEF InStep
  <1>2. ScreensFit'
    <2> SUFFICES ASSUME NEW d \in Spared
                 PROVE  \/ /\ clients'[d].state = clients[d].state
                           /\ ScreenAhead(d)' = ScreenAhead(d)
                           /\ Returning(d)' <=> Returning(d)
                        \/ Fits(d)'
      BY FitsNext DEF InStep
    <2>1. Returning(d)' <=> Returning(d)
      BY DEF Returning
    <2>2. CASE clients'[d].state = clients[d].state /\ ScreenAhead(d)' = ScreenAhead(d)
      BY <2>1, <2>2
    <2>3. CASE clients'[d].state = "STATISTICS" /\ ScreenAhead(d)' \in {"GAME", "STATISTICS"}
      BY <2>3 DEF Fits
    <2> QED
      BY <2>2, <2>3
  <1> QED
    BY <1>1, <1>2

(* update_game of a game that is over *)
LEMMA OverInStep ==
    ASSUME TypeOK, Links, InStep, NEW g \in Games, UpdateOver(g)
    PROVE  InStep'
  <1>1. /\ gl.at = "idle" /\ Over(g) /\ EndFrom(g, 0)
        /\ UNCHANGED <<packet, recv, screen, lobbies>>
    BY DEF UpdateOver
  <1>2. PacketsMeet' /\ \A d \in Spared : ScreenAhead(d)' = ScreenAhead(d)
    BY <1>1, MailStays DEF InStep
  <1>3. Live(g) /\ ~Showing(g)
    BY <1>1 DEF Live, Over, Showing
  <1>4. ASSUME NEW k \in Seats, NEW d \in Spared, game_states[g].players[k] = d
        PROVE  0 <= k /\ clients[d].state = "GAME" /\ ScreenAhead(d)' = "GAME"
    <2>1. EndInStep(g, k, d) /\ ~Told(g, k)
      BY <1>1, <1>3, <1>4 DEF InStep, GamesInStep, PlayerInStep, Told
    <2>2. clients[d].state = "GAME" /\ ScreenAhead(d) = "GAME"
      BY <1>1, <1>3, <2>1 DEF EndInStep
    <2> QED
      BY <1>2, <2>2 DEF Seats
  <1>5. /\ LoopInStep' /\ LobbiesInStep' /\ GamesInStep' /\ gl'.at \in {"idle", "end"}
        /\ \A d \in Spared :
             \/ clients'[d].state = clients[d].state
             \/ /\ clients[d].state = "GAME" /\ clients'[d].state = "STATISTICS"
                /\ ScreenAhead(d)' = "GAME"
    BY <1>1, <1>2, <1>4, EndFromInStep DEF InStep
  <1>6. ScreensFit' /\ RepliesFit'
    BY <1>1, <1>2, <1>5, EndFits
  <1> QED
    BY <1>2, <1>5, <1>6 DEF InStep

(* Whom the walk at the end of a game waits for *)
LEMMA EndWait ==
    ASSUME TypeOK, Links, LoopKnows, InStep, gl.at \in {"end", "error"}
    PROVE  \E g \in Games, i \in Seats, c \in Clients :
             /\ g = gl.unit /\ i = gl.seat /\ c = gl.to
             /\ Over(g) /\ Live(g) /\ ~Showing(g) /\ c = game_states[g].players[i]
             /\ \A k \in Seats, d \in Spared : game_states[g].players[k] = d =>
                  \/ k < i /\ clients[d].state = "STATISTICS" /\ ScreenAhead(d) = "STATISTICS"
                  \/ i < k /\ clients[d].state = "GAME" /\ ScreenAhead(d) = "GAME"
                  \/ /\ k = i /\ d = c /\ clients[d].state = "STATISTICS"
                     /\ ScreenAhead(d) = IF gl.at = "end" THEN "GAME" ELSE "STATISTICS"
             /\ \A k \in Seats, d \in Spared :
                  game_states[g].players[k] = d => (d = c <=> k = i)
  <1>1. PICK g \in Games, i \in Seats, c \in Clients : g = gl.unit /\ i = gl.seat /\ c = gl.to
    BY LoopFields DEF TypeOK
  <1>2. Over(g) /\ Live(g) /\ ~Showing(g) /\ c = game_states[g].players[i]
    BY <1>1 DEF LoopKnows, InStep, LoopInStep, Over, Live, Showing
  <1>3. i \in Int /\ \A k \in Seats : k \in Int
    BY DEF Seats
  <1>4. ASSUME NEW k \in Seats, NEW d \in Spared, game_states[g].players[k] = d
        PROVE  /\ \/ k < i /\ clients[d].state = "STATISTICS" /\ ScreenAhead(d) = "STATISTICS"
                  \/ i < k /\ clients[d].state = "GAME" /\ ScreenAhead(d) = "GAME"
                  \/ /\ k = i /\ d = c /\ clients[d].state = "STATISTICS"
                     /\ ScreenAhead(d) = IF gl.at = "end" THEN "GAME" ELSE "STATISTICS"
               /\ d = c <=> k = i
    <2>1. EndInStep(g, k, d) /\ (d = c <=> k = i)
      <3>1. EndInStep(g, k, d)
        BY <1>2, <1>4 DEF InStep, GamesInStep, PlayerInStep
      <3>2. d = c => k = i
        BY <1>2, <1>4, NamedOnce
      <3> QED
        BY <1>2, <1>4, <3>1, <3>2
    <2>2. Told(g, k) <=> k <= i
      BY <1>1 DEF Told
    <2>3. /\ clients[d].state = IF k <= i THEN "STATISTICS" ELSE "GAME"
          /\ ScreenAhead(d) = IF k <= i /\ ~(gl.at = "end" /\ k = i) THEN "STATISTICS" ELSE "GAME"
      BY <1>1, <1>2, <2>1, <2>2 DEF EndInStep
    <2>4. k < i \/ i < k \/ k = i
      BY <1>3
    <2>5. CASE k < i
      <3>1. k <= i /\ k # i
        BY <1>3, <2>5
      <3> QED
        BY <2>1, <2>3, <2>5, <3>1
    <2>6. CASE i < k
      <3>1. ~(k <= i) /\ k # i
        BY <1>3, <2>6
      <3> QED
        BY <2>1, <2>3, <2>6, <3>1
    <2>7. CASE k = i
      <3>1. k <= i
        BY <1>3, <2>7
      <3> QED
        BY <2>1, <2>3, <2>7, <3>1
    <2> QED
      BY <2>4, <2>5, <2>6, <2>7
  <1> QED
    BY <1>1, <1>2, <1>4

(* send_game_end: a player of a game that is over shows the game. *)
LEMMA SendEndInStep ==
    ASSUME TypeOK, Links, LoopKnows, InStep, SendGameEnd
    PROVE  InStep'
  <1>1. gl.at = "end" /\ UNCHANGED <<recv, screen, lobbies>>
    BY DEF SendGameEnd
  <1>2. PICK g \in Games, i \in Seats, c \in Clients :
          /\ g = gl.unit /\ i = gl.seat /\ c = gl.to
          /\ Over(g) /\ Live(g) /\ ~Showing(g) /\ c = game_states[g].players[i]
          /\ \A k \in Seats, d \in Spared : game_states[g].players[k] = d =>
               \/ k < i /\ clients[d].state = "STATISTICS" /\ ScreenAhead(d) = "STATISTICS"
               \/ i < k /\ clients[d].state = "GAME" /\ ScreenAhead(d) = "GAME"
               \/ /\ k = i /\ d = c /\ clients[d].state = "STATISTICS"
                  /\ ScreenAhead(d) = IF gl.at = "end" THEN "GAME" ELSE "STATISTICS"
          /\ \A k \in Seats, d \in Spared : game_states[g].players[k] = d => (d = c <=> k = i)
    BY <1>1, EndWait
  <1>3. CASE gl' = Stopped /\ UNCHANGED <<clients, packet, game_states>>
    BY <1>1, <1>3, StopInStep
  <1>4. CASE /\ Fill(c, "GAME_END")
             /\ \/ EndFrom(g, i + 1)
                \/ gl' = [gl EXCEPT !.at = "error"] /\ UNCHANGED <<clients, game_states>>
    <2>1. c \in Spared => clients[c].state = "STATISTICS" /\ ScreenAhead(c) = "GAME"
      BY <1>1, <1>2 DEF Seats
    <2>2. /\ "GAME_END" \in PacketIds /\ Meets("GAME", "GAME_END")
          /\ ScreenAfter("GAME", "GAME_END") = "STATISTICS"
      BY DEF PacketIds, Meets, ScreenAfter
    <2>3. /\ PacketsMeet'
          /\ \A d \in Spared \ {c} : ScreenAhead(d)' = ScreenAhead(d)
          /\ c \in Spared => ScreenAhead(c)' = ScreenAfter(ScreenAhead(c), "GAME_END")
      BY <1>1, <1>4, <2>1, <2>2, MailFilled DEF InStep
    <2>4. c \in Spared => ScreenAhead(c)' = "STATISTICS"
      BY <2>1, <2>2, <2>3
    <2>5. i \in Int /\ i + 1 \in Nat /\ \A k \in Seats : k \in Int
      BY DEF Seats
    <2>6. \A k \in Seats, d \in Spared : game_states[g].players[k] = d =>
             \/ k < i + 1 /\ clients[d].state = "STATISTICS" /\ ScreenAhead(d)' = "STATISTICS"
             \/ i + 1 <= k /\ clients[d].state = "GAME" /\ ScreenAhead(d)' = "GAME"
      <3> SUFFICES ASSUME NEW k \in Seats, NEW d \in Spared, game_states[g].players[k] = d
                   PROVE  \/ /\ k < i + 1
                             /\ clients[d].state = "STATISTICS" /\ ScreenAhead(d)' = "STATISTICS"
                          \/ i + 1 <= k /\ clients[d].state = "GAME" /\ ScreenAhead(d)' = "GAME"
        OBVIOUS
      <3>1. CASE k = i
        BY <1>2, <2>1, <2>4, <2>5, <3>1
      <3>2. CASE k < i
        <4>1. d # c /\ k < i + 1 /\ ~(i < k) /\ k # i
          BY <1>2, <2>5, <3>2
        <4> QED
          BY <1>2, <2>3, <4>1
      <3>3. CASE i < k
        <4>1. d # c /\ i + 1 <= k /\ ~(k < i) /\ k # i
          BY <1>2, <2>5, <3>3
        <4> QED
          BY <1>2, <2>3, <4>1
      <3>4. k = i \/ k < i \/ i < k
        BY DEF Seats
      <3> QED
        BY <3>1, <3>2, <3>3, <3>4
    <2>7. \A d \in Spared : \/ ScreenAhead(d)' = ScreenAhead(d)
                            \/ \E k \in Seats : game_states[g].players[k] = d
      BY <1>2, <2>3
    <2>8. \A d \in Spared : \/ ScreenAhead(d)' = ScreenAhead(d)
                            \/ /\ clients[d].state = "STATISTICS"
                               /\ ScreenAhead(d)' \in {"GAME", "STATISTICS"}
      BY <2>1, <2>3, <2>4
    <2>9. CASE EndFrom(g, i + 1)
      <3>1. /\ LoopInStep' /\ LobbiesInStep' /\ GamesInStep' /\ gl'.at \in {"idle", "end"}
            /\ \A d \in Spared :
                 \/ clients'[d].state = clients[d].state
                 \/ /\ clients[d].state = "GAME" /\ clients'[d].state = "STATISTICS"
                    /\ ScreenAhead(d)' = "GAME"
        BY <1>1, <1>2, <2>5, <2>6, <2>7, <2>9, EndFromInStep DEF InStep
      <3>2. ScreensFit' /\ RepliesFit'
        BY <1>1, <2>8, <3>1, EndFits
      <3> QED
        BY <2>3, <3>1, <3>2 DEF InStep
    <2>10. CASE gl' = [gl EXCEPT !.at = "error"] /\ UNCHANGED <<clients, game_states>>
      <3>1. gl'.at = "error" /\ gl'.unit = g /\ gl'.seat = i /\ gl'.to = c
        BY <1>1, <1>2, <2>10 DEF TypeOK, LoopType
      <3>0. UNCHANGED game_states
        BY <2>10
      <3>2. LoopInStep' /\ LobbiesInStep'
        BY <1>2, <3>0, <3>1 DEF LoopInStep, LobbiesInStep
      <3>3. GamesInStep'
        <4> SUFFICES ASSUME NEW h \in Games, NEW k \in Seats, NEW d \in Spared,
                            Live(h), game_states[h].players[k] = d
                     PROVE  PlayerInStep(h, k, d)'
          BY <2>10, SparedConstant DEF GamesInStep, Live
        <4>1. CASE h = g
          <5>1. \/ k <= i /\ clients[d].state = "STATISTICS" /\ ScreenAhead(d)' = "STATISTICS"
                \/ ~(k <= i) /\ clients[d].state = "GAME" /\ ScreenAhead(d)' = "GAME"
            <6>1. k \in Int /\ (k < i + 1 => k <= i) /\ (i + 1 <= k => ~(k <= i))
              BY <2>5
            <6>2. \/ /\ k < i + 1
                     /\ clients[d].state = "STATISTICS" /\ ScreenAhead(d)' = "STATISTICS"
                  \/ i + 1 <= k /\ clients[d].state = "GAME" /\ ScreenAhead(d)' = "GAME"
              BY <2>6, <4>1
            <6> QED
              BY <6>1, <6>2
          <5>2. (Told(g, k)' <=> k <= i) /\ ~Showing(g)' /\ gl'.at # "end"
            BY <3>1 DEF Told, Showing
          <5>3. game_states[g].status \notin {"LOADING", "IN_PROGRESS", "STATISTICS"}
            BY <1>2 DEF Over
          <5> QED
            BY <2>10, <4>1, <5>1, <5>2, <5>3
            DEF PlayerInStep, ReadyInStep, StateInStep, EndInStep, MenuInStep, Over
        <4>2. CASE h # g
          <5>1. ScreenAhead(d)' = ScreenAhead(d)
            BY <1>2, <2>3, <4>2, NamedOnce
          <5>2. PlayerInStep(h, k, d)
            BY <1>1 DEF InStep, GamesInStep
          <5>3. ~Showing(h) /\ ~Showing(h)' /\ ~Told(h, k) /\ ~Told(h, k)'
            BY <1>1, <1>2, <3>1, <4>2 DEF Showing, Told
          <5> QED
            BY <2>10, <5>1, <5>2, <5>3
            DEF PlayerInStep, ReadyInStep, StateInStep, EndInStep, MenuInStep, Over
        <4> QED
          BY <4>1, <4>2
      <3>4. ScreensFit' /\ RepliesFit'
        BY <1>1, <2>8, <2>10, <3>1, EndFits
      <3> QED
        BY <2>3, <3>2, <3>3, <3>4 DEF InStep
    <2> QED
      BY <1>4, <2>9, <2>10
  <1> QED
    BY <1>2, <1>3, <1>4 DEF SendGameEnd

(* send_message_from_server with the reason changes no screen. *)
LEMMA SendErrorInStep ==
    ASSUME TypeOK, Links, LoopKnows, InStep, SendError
    PROVE  InStep'
  <1>1. gl.at = "error" /\ UNCHANGED <<recv, screen, lobbies>>
    BY DEF SendError
  <1>2. PICK g \in Games, i \in Seats, c \in Clients :
          /\ g = gl.unit /\ i = gl.seat /\ c = gl.to
          /\ Over(g) /\ Live(g) /\ ~Showing(g) /\ c = game_states[g].players[i]
          /\ \A k \in Seats, d \in Spared : game_states[g].players[k] = d =>
               \/ k < i /\ clients[d].state = "STATISTICS" /\ ScreenAhead(d) = "STATISTICS"
               \/ i < k /\ clients[d].state = "GAME" /\ ScreenAhead(d) = "GAME"
               \/ /\ k = i /\ d = c /\ clients[d].state = "STATISTICS"
                  /\ ScreenAhead(d) = IF gl.at = "end" THEN "GAME" ELSE "STATISTICS"
    BY <1>1, EndWait
  <1>3. Fill(c, "MESSAGE") /\ EndFrom(g, i + 1)
    BY <1>2 DEF SendError
  <1>4. \A d \in Spared : /\ ScreenAhead(d)' = ScreenAhead(d)
                          /\ Expected(d)' /\ packet'[d] # "RETURN_TO_JOIN"
    BY <1>1, <1>3, IdleMail DEF InStep
  <1>5. PacketsMeet'
    BY <1>4, SparedConstant DEF PacketsMeet
  <1>6. i \in Int /\ i + 1 \in Nat /\ \A k \in Seats : k \in Int
    BY DEF Seats
  <1>7. \A k \in Seats : (k < i => k < i + 1) /\ (i < k => i + 1 <= k) /\ (k = i => k < i + 1)
    BY <1>6
  <1>8. \A k \in Seats, d \in Spared : game_states[g].players[k] = d =>
           \/ k < i + 1 /\ clients[d].state = "STATISTICS" /\ ScreenAhead(d)' = "STATISTICS"
           \/ i + 1 <= k /\ clients[d].state = "GAME" /\ ScreenAhead(d)' = "GAME"
    BY <1>1, <1>2, <1>4, <1>7
  <1>9. /\ LoopInStep' /\ LobbiesInStep' /\ GamesInStep' /\ gl'.at \in {"idle", "end"}
        /\ \A d \in Spared :
             \/ clients'[d].state = clients[d].state
             \/ /\ clients[d].state = "GAME" /\ clients'[d].state = "STATISTICS"
                /\ ScreenAhead(d)' = "GAME"
    BY <1>1, <1>2, <1>3, <1>4, <1>6, <1>8, EndFromInStep DEF InStep
  <1>10. ScreensFit' /\ RepliesFit'
    BY <1>1, <1>4, <1>9, EndFits
  <1> QED
    BY <1>5, <1>9, <1>10 DEF InStep

(* Where the walk back to the menu leads, the next player is put in the    *)
(* menu and shows the statistics until its packet is sent.                 *)
LEMMA MenuFromInStep ==
    ASSUME TypeOK, Links, Threads, RepliesFit, GamesInStep, NEW g \in Games,
           game_states[g].status = "STATISTICS", NEW i \in Nat, MenuFrom(g, i),
           gl.at \in {"idle", "menu"}, UNCHANGED recv,
           \A d \in Spared : \/ ScreenAhead(d)' = ScreenAhead(d)
                             \/ clients[d].state \notin {"LOADING", "GAME", "STATISTICS"}
    PROVE  /\ LoopInStep' /\ LobbiesInStep' /\ GamesInStep' /\ gl'.at \in {"idle", "menu"}
           /\ \A d \in Spared :
                \/ clients'[d].state = clients[d].state /\ ~Returning(d)'
                \/ /\ clients[d].state = "STATISTICS" /\ clients'[d].state = "MENU"
                   /\ ScreenAhead(d)' = "STATISTICS" /\ Returning(d)' /\ ~Accepting(d)
  <1> DEFINE S == Connected(g, i, MaxPlayers)
  <1>1. \/ S = {} /\ SetStatus(g, "FREE") /\ gl' = Idle /\ UNCHANGED clients
        \/ \E j \in S :
             /\ IsFirst(j, S)
             /\ ReturnToMenu([game |-> g, seat |-> j])
             /\ gl' = Waiting("menu", g, j, game_states[g].players[j], NULL)
    BY DEF MenuFrom
  <1>2. Live(g)
    BY DEF Live
  <1>3. ASSUME gl'.at \in {"idle", "menu"}, NEW h \in Games, NEW k \in Seats, NEW d \in Spared,
               Live(h), game_states[h].players[k] = d, clients'[d].state = clients[d].state,
               game_states'[h].status = game_states[h].status,
               game_states'[h].ready = game_states[h].ready
        PROVE  PlayerInStep(h, k, d)'
    <2>1. ScreenAhead(d)' = ScreenAhead(d)
      BY <1>3, NamedPlays
    <2>2. PlayerInStep(h, k, d)
      BY <1>3 DEF GamesInStep
    <2>3. ~Showing(h) /\ ~Showing(h)' /\ ~Told(h, k) /\ ~Told(h, k)'
      BY <1>3 DEF Showing, Told
    <2> QED
      BY <1>3, <2>1, <2>2, <2>3
      DEF PlayerInStep, ReadyInStep, StateInStep, EndInStep, MenuInStep, Over
  <1>4. CASE S = {} /\ SetStatus(g, "FREE") /\ gl' = Idle /\ UNCHANGED clients
    <2>1. gl'.at = "idle"
      BY <1>4, PointFields
    <2>2. /\ game_states'[g].status = "FREE"
          /\ \A h \in Games \ {g} : game_states'[h] = game_states[h]
      BY <1>4, GameFields DEF SetStatus, TypeOK, GameType
    <2>3. GamesInStep'
      <3> SUFFICES ASSUME NEW h \in Games, NEW k \in Seats, NEW d \in Spared,
                          Live(h)', game_states'[h].players[k] = d
                   PROVE  PlayerInStep(h, k, d)'
        BY SparedConstant DEF GamesInStep
      <3>1. h # g
        BY <2>2 DEF Live
      <3>2. game_states'[h] = game_states[h] /\ Live(h)
        BY <2>2, <3>1 DEF Live
      <3> QED
        BY <1>3, <1>4, <2>1, <3>2
    <2>4. \A d \in Spared : ~Returning(d)'
      BY <2>1 DEF Returning
    <2> QED
      BY <1>4, <2>1, <2>3, <2>4 DEF LoopInStep, LobbiesInStep
  <1>5. ASSUME NEW j \in S, IsFirst(j, S), ReturnToMenu([game |-> g, seat |-> j]),
               gl' = Waiting("menu", g, j, game_states[g].players[j], NULL)
        PROVE  /\ LoopInStep' /\ LobbiesInStep' /\ GamesInStep' /\ gl'.at \in {"idle", "menu"}
               /\ \A d \in Spared :
                    \/ clients'[d].state = clients[d].state /\ ~Returning(d)'
                    \/ /\ clients[d].state = "STATISTICS" /\ clients'[d].state = "MENU"
                       /\ ScreenAhead(d)' = "STATISTICS" /\ Returning(d)' /\ ~Accepting(d)
    <2>1. /\ j \in Seats /\ game_states[g].players[j] \in Clients
          /\ game_states[g].players[j] # NULL
      BY <1>2, <1>5, ConnectedNext
    <2>2. PICK c \in Clients : c = game_states[g].players[j]
      BY <2>1
    <2>3. Returned(c, g, j)
      BY <1>2, <1>5, <2>1, <2>2, ReturnToMenuEffect
    <2>4. gl'.at = "menu" /\ gl'.unit = g /\ gl'.seat = j /\ gl'.to = c
      BY <1>5, <2>2 DEF Waiting
    <2>5. /\ clients'[c].state = "MENU"
          /\ \A d \in Clients \ {c} : clients'[d] = clients[d]
          /\ \A h \in Games : game_states'[h].status = game_states[h].status
          /\ \A h \in Games, k \in Seats : game_states'[h].players[k] =
                IF h = g /\ k = j THEN NULL ELSE game_states[h].players[k]
      BY <2>3 DEF Returned
    <2>6. \A h \in Games : game_states'[h].ready = game_states[h].ready
      BY <1>5, GameFields DEF ReturnToMenu, TypeOK, GameType
    <2>7. c \in Spared => /\ clients[c].state = "STATISTICS" /\ ScreenAhead(c) = "STATISTICS"
                          /\ ScreenAhead(c)' = "STATISTICS"
      BY <1>2, <2>1, <2>2 DEF GamesInStep, PlayerInStep, MenuInStep
    <2>8. c \in Spared => recv[c].at \notin {"send", "spin"}
      <3>1. c \in Spared => recv[c].at # "send"
        BY <2>7 DEF RepliesFit
      <3>2. c \in Spared => recv[c].at # "spin"
        BY <2>7 DEF Threads, SpinsInMenu
      <3> QED
        BY <3>1, <3>2
    <2>9. LoopInStep'
      BY <2>4, <2>5, <2>8, SparedConstant DEF LoopInStep
    <2>10. GamesInStep'
      <3> SUFFICES ASSUME NEW h \in Games, NEW k \in Seats, NEW d \in Spared,
                          Live(h)', game_states'[h].players[k] = d
                   PROVE  PlayerInStep(h, k, d)'
        BY SparedConstant DEF GamesInStep
      <3>1. Live(h) /\ game_states[h].players[k] = d /\ ~(h = g /\ k = j)
        BY <2>5, SparedClients DEF Live
      <3>2. d # c
        BY <1>2, <2>1, <2>2, <3>1, NamedOnce
      <3>3. clients'[d].state = clients[d].state
        BY <2>5, <3>2, SparedClients
      <3> QED
        BY <1>3, <2>4, <2>5, <2>6, <3>1, <3>3
    <2>11. \A d \in Spared \ {c} : clients'[d].state = clients[d].state /\ ~Returning(d)'
      BY <2>4, <2>5, SparedClients DEF Returning
    <2>12. c \in Spared => /\ clients[c].state = "STATISTICS" /\ clients'[c].state = "MENU"
                           /\ ScreenAhead(c)' = "STATISTICS" /\ Returning(c)' /\ ~Accepting(c)
      BY <2>4, <2>5, <2>7, <2>8 DEF Returning, Accepting
    <2> QED
      BY <2>4, <2>9, <2>10, <2>11, <2>12 DEF LobbiesInStep
  <1> QED
    BY <1>1, <1>4, <1>5

(* Where the walk back to the menu leads, the clients fit. *)
LEMMA MenuFits ==
    ASSUME InStep, UNCHANGED recv,
           \A d \in Spared : \/ clients'[d].state = clients[d].state
                             \/ clients[d].state = "STATISTICS",
           \A d \in Spared :
              \/ Fits(d)'
              \/ /\ clients'[d].state = clients[d].state /\ ~Returning(d)' /\ ~Returning(d)
                 /\ ScreenAhead(d)' = ScreenAhead(d)
              \/ /\ clients[d].state = "STATISTICS" /\ clients'[d].state = "MENU"
                 /\ ScreenAhead(d)' = "STATISTICS" /\ Returning(d)' /\ ~Accepting(d)
    PROVE  ScreensFit' /\ RepliesFit'
  <1>1. RepliesFit'
    BY RepliesKept DEF InStep
  <1>2. ASSUME NEW d \in Spared, clients'[d].state = "MENU", ScreenAhead(d)' = "STATISTICS",
               Returning(d)', ~Accepting(d)
        PROVE  Fits(d)'
    <2>1. ~Accepting(d)'
      BY <1>2 DEF Accepting
    <2> QED
      BY <1>2, <2>1 DEF Fits
  <1>3. ScreensFit'
    BY <1>2, FitsNext DEF InStep
  <1> QED
    BY <1>1, <1>3

(* update_game of a game that shows its statistics *)
LEMMA StatisticsInStep ==
    ASSUME TypeOK, Links, Threads, InStep, NEW g \in Games, UpdateStatistics(g)
    PROVE  InStep'
  <1>1. /\ gl.at = "idle" /\ game_states[g].status = "STATISTICS"
        /\ UNCHANGED <<packet, recv, screen, lobbies>>
    BY DEF UpdateStatistics
  <1>2. PacketsMeet' /\ \A d \in Spared : ScreenAhead(d)' = ScreenAhead(d)
    BY <1>1, MailStays DEF InStep
  <1>3. \A d \in Spared : ~Returning(d)
    BY <1>1 DEF Returning
  <1>4. CASE SetStatus(g, "FREE") /\ UNCHANGED <<clients, gl>>
    <2>1. /\ game_states'[g].status = "FREE"
          /\ \A h \in Games \ {g} : game_states'[h] = game_states[h]
      BY <1>4, GameFields DEF SetStatus, TypeOK, GameType
    <2>2. GamesInStep'
      <3> SUFFICES ASSUME NEW h \in Games, NEW k \in Seats, NEW d \in Spared,
                          Live(h)', game_states'[h].players[k] = d
                   PROVE  PlayerInStep(h, k, d)'
        BY SparedConstant DEF GamesInStep
      <3>1. h # g
        BY <2>1 DEF Live
      <3>2. game_states'[h] = game_states[h] /\ Live(h)
        BY <2>1, <3>1 DEF Live
      <3>3. PlayerInStep(h, k, d)
        BY <1>1, <3>2 DEF InStep, GamesInStep
      <3>4. ScreenAhead(d)' = ScreenAhead(d)
        BY <1>2
      <3> QED
        BY <1>4, <3>2, <3>3, <3>4
        DEF PlayerInStep, ReadyInStep, StateInStep, EndInStep, MenuInStep, Over, Showing, Told
    <2>3. LoopInStep' /\ LobbiesInStep'
      BY <1>1, <1>4 DEF LoopInStep, LobbiesInStep
    <2>4. \A d \in Spared : ~Returning(d)'
      BY <1>1, <1>4 DEF Returning
    <2>5. ScreensFit' /\ RepliesFit'
      BY <1>1, <1>2, <1>3, <1>4, <2>4, MenuFits
    <2> QED
      BY <1>2, <2>2, <2>3, <2>5 DEF InStep
  <1>5. CASE MenuFrom(g, 0)
    <2>1. /\ LoopInStep' /\ LobbiesInStep' /\ GamesInStep'
          /\ \A d \in Spared :
               \/ clients'[d].state = clients[d].state /\ ~Returning(d)'
               \/ /\ clients[d].state = "STATISTICS" /\ clients'[d].state = "MENU"
                  /\ ScreenAhead(d)' = "STATISTICS" /\ Returning(d)' /\ ~Accepting(d)
      BY <1>1, <1>2, <1>5, MenuFromInStep DEF InStep
    <2>2. ScreensFit' /\ RepliesFit'
      BY <1>1, <1>2, <1>3, <2>1, MenuFits
    <2> QED
      BY <1>2, <2>1, <2>2 DEF InStep
  <1> QED
    BY <1>4, <1>5 DEF UpdateStatistics

(* send_return_to_menu: its client shows the statistics. *)
LEMMA SendMenuInStep ==
    ASSUME TypeOK, Links, Threads, LoopKnows, InStep, SendReturnToMenu
    PROVE  InStep'
  <1>1. gl.at = "menu" /\ UNCHANGED <<recv, screen, lobbies>>
    BY DEF SendReturnToMenu
  <1>2. PICK g \in Games, i \in Seats, c \in Clients : g = gl.unit /\ i = gl.seat /\ c = gl.to
    BY <1>1, LoopFields DEF TypeOK
  <1>3. Fill(c, "RETURN_TO_MENU") /\ MenuFrom(g, i + 1) /\ game_states[g].status = "STATISTICS"
    BY <1>1, <1>2 DEF SendReturnToMenu, LoopKnows
  <1>4. c \in Spared => /\ clients[c].state = "MENU" /\ recv[c].at \notin {"send", "spin"}
                        /\ ScreenAhead(c) = "STATISTICS"
    BY <1>1, <1>2, ReturningShows DEF Returning
  <1>5. /\ "RETURN_TO_MENU" \in PacketIds /\ Meets("STATISTICS", "RETURN_TO_MENU")
        /\ ScreenAfter("STATISTICS", "RETURN_TO_MENU") = "MENU"
    BY DEF PacketIds, Meets, ScreenAfter
  <1>6. /\ PacketsMeet'
        /\ \A d \in Spared \ {c} : ScreenAhead(d)' = ScreenAhead(d)
        /\ c \in Spared => ScreenAhead(c)' = ScreenAfter(ScreenAhead(c), "RETURN_TO_MENU")
    BY <1>1, <1>3, <1>4, <1>5, MailFilled DEF InStep
  <1>7. c \in Spared => ScreenAhead(c)' = "MENU"
    BY <1>4, <1>5, <1>6
  <1>8. i + 1 \in Nat
    BY DEF Seats
  <1>9. \A d \in Spared : \/ ScreenAhead(d)' = ScreenAhead(d)
                          \/ clients[d].state \notin {"LOADING", "GAME", "STATISTICS"}
    BY <1>4, <1>6
  <1>10. /\ LoopInStep' /\ LobbiesInStep' /\ GamesInStep'
         /\ \A d \in Spared :
              \/ clients'[d].state = clients[d].state /\ ~Returning(d)'
              \/ /\ clients[d].state = "STATISTICS" /\ clients'[d].state = "MENU"
                 /\ ScreenAhead(d)' = "STATISTICS" /\ Returning(d)' /\ ~Accepting(d)
    BY <1>1, <1>3, <1>8, <1>9, MenuFromInStep DEF InStep
  <1>11. \A d \in Spared \ {c} : ~Returning(d)
    BY <1>2 DEF Returning
  <1>12. c \in Spared => Fits(c)'
    <2> SUFFICES ASSUME c \in Spared
                 PROVE  Fits(c)'
      OBVIOUS
    <2>1. clients'[c].state = "MENU" /\ ~Returning(c)' /\ ScreenAhead(c)' = "MENU"
      BY <1>4, <1>7, <1>10
    <2>2. ~Accepting(c)'
      BY <1>1, <1>4 DEF Accepting
    <2> QED
      BY <2>1, <2>2 DEF Fits
  <1>13. ScreensFit' /\ RepliesFit'
    BY <1>1, <1>6, <1>10, <1>11, <1>12, MenuFits
  <1> QED
    BY <1>6, <1>10, <1>13 DEF InStep

(* A step of the gameloop keeps every spared client in step. *)
LEMMA GameloopInStep ==
    ASSUME IInv, InStep, Gameloop
    PROVE  InStep'
  <1>1. TypeOK /\ Links /\ LobbyCounts /\ Threads /\ LoopKnows
    BY IInvParts
  <1>2. ASSUME NEW g \in Games, UpdateGame(g)
        PROVE  InStep'
    BY <1>1, <1>2, LoadingInStep, InProgressInStep, OverInStep, StatisticsInStep DEF UpdateGame
  <1> QED
    BY <1>1, <1>2, UpdateLobbyInStep, SendLobbyInStep, StartInStep, SendReadyInStep,
       SendStateInStep, SendEndInStep, SendErrorInStep, SendMenuInStep
    DEF Gameloop

-----------------------------------------------------------------------------
(* The theorems *)

LEMMA InStepInit == Init => InStep
  <1> SUFFICES ASSUME Init
               PROVE  InStep
    OBVIOUS
  <1>1. \A c \in Clients : /\ packet[c] = "none" /\ screen[c] = "JOIN" /\ recv[c] = Down
                           /\ clients[c].state = "JOIN"
    BY DEF Init, NewClient
  <1>2. \A g \in Games : ~Live(g)
    BY DEF Init, FreeGame, Live
  <1>3. gl.at = "idle" /\ Down.at = "down"
    BY PointFields DEF Init
  <1>4. PacketsMeet
    BY <1>1, SparedClients DEF PacketsMeet, Expected
  <1>5. ScreensFit /\ RepliesFit
    BY <1>1, <1>3, SparedClients DEF ScreensFit, Fits, ScreenAhead, RepliesFit
  <1>6. LoopInStep /\ LobbiesInStep /\ GamesInStep
    BY <1>2, <1>3 DEF LoopInStep, LobbiesInStep, GamesInStep
  <1> QED
    BY <1>4, <1>5, <1>6 DEF InStep

(* Nothing changes in a step that changes nothing. *)
LEMMA InStepStutters ==
    ASSUME InStep, UNCHANGED vars
    PROVE  InStep'
  BY DEF InStep, vars, PacketsMeet, Expected, ScreensFit, Fits, ScreenAhead, ScreenAfter,
     Accepting, Returning, RepliesFit, LoopInStep, LobbiesInStep, GamesInStep, PlayerInStep,
     ReadyInStep, StateInStep, EndInStep, MenuInStep, Showing, Told, Over, Live, Spared, TablesFull

LEMMA InStepNext ==
    ASSUME NobodyQuits, IInv, InStep, [Next]_vars
    PROVE  InStep'
  <1>1. TypeOK /\ Links /\ Threads
    BY IInvParts
  <1>2. ASSUME NEW c \in Clients, ClientStep(c)
        PROVE  InStep'
    BY <1>1, <1>2, ClientInStep
  <1>3. CASE UNCHANGED vars
    BY <1>3, InStepStutters
  <1> QED
    BY <1>2, <1>3, GameloopInStep DEF Next

(* Nobody quits: what each client shows once it has its mail, what the     *)
(* gameloop is about to send and what the records say of the client stay   *)
(* in step, through joins, chats, deaths of receive threads and whatever   *)
(* the order in which the threads run.                                     *)
THEOREM InStepCorrect ==
    ASSUME NobodyQuits
    PROVE  Spec => []InStep
  <1>1. IInv /\ InStep /\ [Next]_vars => InStep'
    BY InStepNext
  <1> QED
    BY <1>1, InStepInit, Invariance, PTL DEF Spec

(* Nobody quits: every packet reaches its client on a screen that handles  *)
(* it.                                                                     *)
THEOREM PacketsCorrect ==
    ASSUME NobodyQuits
    PROVE  Spec => []PacketExpected
  <1>1. InStep => PacketExpected
    BY DEF InStep, PacketsMeet, PacketExpected
  <1> QED
    BY <1>1, InStepCorrect, PTL
=============================================================================
