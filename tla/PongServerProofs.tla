-------------------------- MODULE PongServerProofs --------------------------
(***************************************************************************)
(* Theorems about PongServer, for every number of clients, games and       *)
(* lobbies: type correctness first, then that IInv is an inductive         *)
(* invariant, and what follows from it.                                    *)
(***************************************************************************)
EXTENDS PongServerInv, FiniteSetTheorems, SequenceTheorems, TLAPS

-----------------------------------------------------------------------------
(* Facts about the constants *)

(* The slots that a loop runs over are slots of the array. *)
LEMMA SlotsAreSeats ==
    ASSUME NEW l \in Lobbies
    PROVE  /\ LobbySize[l] \in 1 .. MaxPlayers
           /\ LobbySize[l] \in Int /\ MaxPlayers \in Nat
           /\ 0 .. LobbySize[l] - 1 \subseteq Seats
  <1>1. LobbySize[l] \in 1 .. MaxPlayers
    BY ServerAssumption DEF Lobbies
  <1>2. MaxPlayers \in Nat
    BY ServerAssumption
  <1> QED
    BY <1>1, <1>2 DEF Seats

(* NULL is no index. *)
LEMMA NullIsNoIndex ==
    /\ NULL \notin Lobbies /\ NULL \notin Games
    /\ NULL \notin Clients /\ NULL \notin Seats
  BY ServerAssumption DEF NULL, Lobbies, Games, Clients, Seats

(* The NULL player pointer is not a pointer to an entry. *)
LEMMA NoPlayerIsNoEntry == NoPlayer \notin [game : Games, seat : Seats]
  BY NullIsNoIndex DEF NoPlayer

-----------------------------------------------------------------------------
(* Seats *)

(* The seats of a lobby can be counted. *)
LEMMA SeatsFinite == IsFiniteSet(Seats) /\ Cardinality(Seats) = MaxPlayers
  <1>1. MaxPlayers \in Nat \ {0}
    BY ServerAssumption
  <1>2. 0 \in Int /\ MaxPlayers - 1 \in Int
    BY <1>1
  <1>3. /\ IsFiniteSet(0 .. MaxPlayers - 1)
        /\ Cardinality(0 .. MaxPlayers - 1) =
              IF 0 > MaxPlayers - 1 THEN 0 ELSE (MaxPlayers - 1) - 0 + 1
    BY <1>2, FS_Interval
  <1> QED
    BY <1>1, <1>3 DEF Seats

(* A loop over an array finds a first element if it finds any: among the   *)
(* initial segments of S one has no smaller one.                           *)
LEMMA FirstExists ==
    ASSUME NEW S, S \subseteq Seats, S # {}
    PROVE  \E i \in S : IsFirst(i, S)
  <1> DEFINE Upto(i) == {j \in S : j <= i}
             T == {Upto(i) : i \in S}
             R == StrictSubsetOrdering(Seats)
  <1>1. IsFiniteSet(Seats)
    BY SeatsFinite
  <1>2. T \subseteq FiniteSubsetsOf(Seats)
    BY <1>1, FS_Subset DEF FiniteSubsetsOf
  <1>3. IsWellFoundedOn(R, FiniteSubsetsOf(Seats))
    BY FS_StrictSubsetOrderingWellFounded
  <1>4. T # {}
    OBVIOUS
  <1>5. \E x \in T : \A y \in T : <<y, x>> \notin R
    <2> HIDE DEF T, R
    <2> QED
      BY <1>2, <1>3, <1>4, WFMin
  <1>6. PICK i \in S : \A j \in S : <<Upto(j), Upto(i)>> \notin R
    BY <1>5
  <1>7. ASSUME NEW j \in S, ~(i <= j)
        PROVE  FALSE
    <2>1. i \in Int /\ j \in Int
      BY ServerAssumption DEF Seats
    <2>2. \A k \in S : k \in Int
      BY ServerAssumption DEF Seats
    <2>3. Upto(j) \subseteq Upto(i)
      <3> SUFFICES ASSUME NEW k \in S, k <= j
                   PROVE  k <= i
        OBVIOUS
      <3> QED
        BY <1>7, <2>1, <2>2
    <2>5. i \in Upto(i) /\ i \notin Upto(j)
      BY <1>7, <2>1
    <2>4. <<Upto(j), Upto(i)>> \in R
      BY <2>3, <2>5 DEF StrictSubsetOrdering
    <2> QED
      BY <1>6, <2>4
  <1> QED
    BY <1>7 DEF IsFirst

(* ... and what a loop writes last stays: S has a last element, the first  *)
(* one of its mirror image.                                                *)
LEMMA LastExists ==
    ASSUME NEW S, S \subseteq Seats, S # {}
    PROVE  \E i \in S : \A j \in S : j <= i
  <1> DEFINE Mirror(i) == MaxPlayers - 1 - i
             M == {Mirror(i) : i \in S}
  <1>1. MaxPlayers \in Nat /\ \A i \in S : i \in 0 .. MaxPlayers - 1
    BY ServerAssumption DEF Seats
  <1>2. M \subseteq Seats /\ M # {}
    <2>1. \A i \in S : Mirror(i) \in Seats
      BY <1>1 DEF Seats
    <2> QED
      BY <2>1
  <1>3. PICK m \in M : IsFirst(m, M)
    <2> HIDE DEF M
    <2> QED
      BY <1>2, FirstExists
  <1>4. PICK i \in S : m = Mirror(i)
    BY <1>3
  <1>5. ASSUME NEW j \in S
        PROVE  j <= i
    <2>1. Mirror(j) \in M
      OBVIOUS
    <2>2. Mirror(i) <= Mirror(j)
      BY <1>3, <1>4, <2>1 DEF IsFirst
    <2> QED
      BY <1>1, <2>2
  <1> QED
    BY <1>5

-----------------------------------------------------------------------------
(* The points where a thread waits have their types. *)

(* The control points of a receive thread have its type. *)
LEMMA RecvPoints ==
    /\ Down \in RecvType /\ Poll \in RecvType
    /\ \A l \in Lobbies : Spin(l) \in RecvType
    /\ \A i \in Seats, c \in Clients : Chat(i, c) \in RecvType
    /\ \A c \in Clients, pids \in Replies : Send(c, pids) \in RecvType
  BY DEF Down, Poll, Spin, Chat, Send, RecvType

(* What the type of a receive thread says of its fields. *)
LEMMA RecvFields ==
    ASSUME NEW r \in RecvType
    PROVE  /\ r.at \in {"down", "poll", "spin", "chat", "send"}
           /\ r.at = "spin" => r.lobby \in Lobbies
           /\ r.at = "chat" => r.seat \in Seats /\ r.to \in Clients
           /\ r.at = "send" => r.to \in Clients /\ r.todo \in Replies
  BY DEF RecvType

(* The control points of the gameloop have its type. *)
LEMMA LoopPoints ==
    /\ Idle \in LoopType /\ Stopped \in LoopType
    /\ \A l \in Lobbies : Start(l) \in LoopType
    /\ \A at \in {"lobby", "full"}, l \in Lobbies, i \in Seats, c \in Clients :
          Waiting(at, l, i, c, NULL) \in LoopType
    /\ \A g \in Games, i \in Seats, c \in Clients \cup {NULL}, gs \in Games \cup {NULL} :
          Waiting("ready", g, i, c, gs) \in LoopType
    /\ \A at \in {"state", "end", "error"}, g \in Games, i \in Seats, c \in Clients,
          gs \in Games \cup {NULL} : Waiting(at, g, i, c, gs) \in LoopType
    /\ \A g \in Games, i \in Seats, c \in Clients :
          Waiting("menu", g, i, c, NULL) \in LoopType
  BY DEF Idle, Stopped, Start, Waiting, LoopType

(* What the type of the gameloop says of its fields. *)
LEMMA LoopFields ==
    ASSUME NEW r \in LoopType
    PROVE  /\ r.at = "start" => r.unit \in Lobbies
           /\ r.at \in {"lobby", "full"} =>
                r.unit \in Lobbies /\ r.seat \in Seats /\ r.to \in Clients
           /\ r.at = "ready" =>
                /\ r.unit \in Games /\ r.seat \in Seats
                /\ r.to \in Clients \cup {NULL} /\ r.gs \in Games \cup {NULL}
           /\ r.at \in {"state", "end", "error"} =>
                /\ r.unit \in Games /\ r.seat \in Seats
                /\ r.to \in Clients /\ r.gs \in Games \cup {NULL}
           /\ r.at = "menu" =>
                r.unit \in Games /\ r.seat \in Seats /\ r.to \in Clients
  BY DEF LoopType
-----------------------------------------------------------------------------
(* The parts of the actions keep the types. *)

(* The active players of a game are seats. *)
LEMMA ActiveSeats ==
    ASSUME TypeOK, NEW g \in Games
    PROVE  /\ game_states[g].player_count \in 0 .. MaxPlayers
           /\ Active(g) \subseteq Seats
           /\ \A i : Connected(g, i, game_states[g].player_count) \subseteq i .. MaxPlayers - 1
  <1>1. game_states[g] \in GameType
    BY DEF TypeOK
  <1>2. game_states[g].player_count \in 0 .. MaxPlayers
    BY <1>1 DEF GameType
  <1>3. MaxPlayers \in Nat
    BY ServerAssumption
  <1> QED
    BY <1>2, <1>3 DEF Active, Connected, Seats

(* Assignments to a client record keep its type. *)
LEMMA ClientUpdates ==
    ASSUME NEW r \in ClientType
    PROVE  /\ \A s \in Screens : [r EXCEPT !.state = s] \in ClientType
           /\ \A l \in Lobbies \cup {NULL} : [r EXCEPT !.lobby = l] \in ClientType
           /\ \A g \in Games \cup {NULL} : [r EXCEPT !.game_state = g] \in ClientType
           /\ \A p \in [game : Games, seat : Seats] \cup {NoPlayer} :
                 [r EXCEPT !.player = p] \in ClientType
  BY DEF ClientType

(* Assignments to a game record keep its type. *)
LEMMA GameUpdates ==
    ASSUME NEW r \in GameType, NEW i \in Seats
    PROVE  /\ [r EXCEPT !.players[i] = NULL] \in GameType
           /\ [r EXCEPT !.ready[i] = TRUE] \in GameType
           /\ \A t \in Teams : [r EXCEPT !.active[t] = @ - 1] \in GameType
  <1>1. r.players \in [Seats -> Clients \cup {NULL}] /\ r.active \in [Teams -> Int]
    BY DEF GameType
  <1>2. [r.players EXCEPT ![i] = NULL] \in [Seats -> Clients \cup {NULL}]
    BY <1>1
  <1>3. \A t \in Teams : [r.active EXCEPT ![t] = @ - 1] \in [Teams -> Int]
    BY <1>1
  <1>4. [r.ready EXCEPT ![i] = TRUE] \in [Seats -> BOOLEAN]
    BY DEF GameType
  <1> QED
    BY <1>2, <1>3, <1>4 DEF GameType

(* The lobby loop of the gameloop keeps its type. *)
LEMMA LobbyFromType ==
    ASSUME TypeOK, NEW at \in {"lobby", "full"}, NEW l \in Lobbies, NEW i \in Nat,
           LobbyFrom(at, l, i)
    PROVE  gl' \in LoopType
  <1>1. lobbies[l] \in LobbyType
    BY DEF TypeOK
  <1>2. \A j \in i .. LobbySize[l] - 1 : j \in Seats
    BY SlotsAreSeats DEF Seats
  <1>3. ASSUME NEW j \in i .. LobbySize[l] - 1, lobbies[l].clients[j] # NULL,
               gl' = Waiting(at, l, j, lobbies[l].clients[j], NULL)
        PROVE  gl' \in LoopType
    <2>1. j \in Seats
      BY <1>2
    <2>2. lobbies[l].clients[j] \in Clients
      BY <1>1, <1>3, <2>1 DEF LobbyType
    <2> QED
      BY <1>3, <2>1, <2>2, LoopPoints
  <1>4. ASSUME gl' = (IF at = "full" THEN Start(l) ELSE Idle)
        PROVE  gl' \in LoopType
    BY <1>4, LoopPoints
  <1> QED
    BY <1>3, <1>4 DEF LobbyFrom

(* The wait for the client of a connected player. *)
LEMMA WaitForType ==
    ASSUME TypeOK, NEW g \in Games, NEW j \in Seats,
           NEW at \in {"ready", "state", "end"},
           at # "ready" => game_states[g].players[j] # NULL,
           WaitFor(at, g, j)
    PROVE  gl' \in LoopType
  <1> DEFINE c == game_states[g].players[j]
  <1>1. game_states[g] \in GameType
    BY DEF TypeOK
  <1>2. c \in Clients \cup {NULL}
    BY <1>1 DEF GameType
  <1>3. c # NULL => clients[c].game_state \in Games \cup {NULL}
    BY <1>2 DEF TypeOK, ClientType
  <1>4. gl' = Waiting(at, g, j, c, IF c = NULL THEN NULL ELSE clients[c].game_state)
    BY DEF WaitFor
  <1>5. CASE at = "ready"
    BY <1>2, <1>3, <1>4, <1>5, LoopPoints
  <1>6. CASE at # "ready"
    BY <1>2, <1>3, <1>4, <1>6, LoopPoints
  <1> QED
    BY <1>5, <1>6

(* So does the ready loop. *)
LEMMA ReadyFromType ==
    ASSUME TypeOK, NEW g \in Games, NEW i \in Nat, ReadyFrom(g, i)
    PROVE  gl' \in LoopType
  <1>1. CASE gl' = Idle
    BY <1>1, LoopPoints
  <1>2. CASE i \in Active(g) /\ WaitFor("ready", g, i)
    BY <1>2, ActiveSeats, WaitForType
  <1> QED
    BY <1>1, <1>2 DEF ReadyFrom

(* So does the state loop. *)
LEMMA StateFromType ==
    ASSUME TypeOK, NEW g \in Games, NEW i \in Nat, StateFrom(g, i)
    PROVE  gl' \in LoopType
  <1>1. CASE gl' = Idle
    BY <1>1, LoopPoints
  <1>2. ASSUME NEW j \in Connected(g, i, game_states[g].player_count), WaitFor("state", g, j)
        PROVE  gl' \in LoopType
    <2>1. j \in Seats
      BY ActiveSeats DEF Seats, Connected
    <2>2. game_states[g].players[j] # NULL
      BY DEF Connected
    <2> QED
      BY <1>2, <2>1, <2>2, WaitForType
  <1> QED
    BY <1>1, <1>2 DEF StateFrom

(* A status is assigned. *)
LEMMA SetStatusType ==
    ASSUME TypeOK, NEW g \in Games, NEW s \in Statuses, SetStatus(g, s)
    PROVE  game_states' \in [Games -> GameType]
  BY DEF TypeOK, SetStatus, GameType

(* The loop that sends the statistics keeps the types. *)
LEMMA EndFromType ==
    ASSUME TypeOK, NEW g \in Games, NEW i \in Nat, EndFrom(g, i)
    PROVE  /\ gl' \in LoopType
           /\ clients' \in [Clients -> ClientType]
           /\ game_states' \in [Games -> GameType]
  <1>1. CASE SetStatus(g, "STATISTICS") /\ gl' = Idle /\ UNCHANGED clients
    BY <1>1, LoopPoints, SetStatusType DEF Statuses, TypeOK
  <1>2. ASSUME NEW j \in Connected(g, i, game_states[g].player_count),
               clients' = [clients EXCEPT ![game_states[g].players[j]].state = "STATISTICS"],
               WaitFor("end", g, j), UNCHANGED game_states
        PROVE  /\ gl' \in LoopType
               /\ clients' \in [Clients -> ClientType]
               /\ game_states' \in [Games -> GameType]
    <2>1. j \in Seats
      BY ActiveSeats DEF Seats, Connected
    <2>2. game_states[g].players[j] # NULL
      BY DEF Connected
    <2>3. gl' \in LoopType
      BY <1>2, <2>1, <2>2, WaitForType
    <2> DEFINE c == game_states[g].players[j]
    <2>4. game_states[g] \in GameType
      BY DEF TypeOK
    <2>5. c \in Clients
      BY <2>1, <2>2, <2>4 DEF GameType
    <2>6. clients' = [clients EXCEPT ![c].state = "STATISTICS"]
      BY <1>2
    <2> HIDE DEF c
    <2>7. clients' \in [Clients -> ClientType]
      BY <2>5, <2>6, ClientUpdates DEF TypeOK, Screens
    <2> QED
      BY <1>2, <2>3, <2>7 DEF TypeOK
  <1> QED
    BY <1>1, <1>2 DEF EndFrom

(* ReturnToMenu keeps the types. *)
LEMMA ReturnToMenuType ==
    ASSUME TypeOK, NEW g \in Games, NEW j \in Seats,
           ReturnToMenu([game |-> g, seat |-> j])
    PROVE  /\ clients' \in [Clients -> ClientType]
           /\ game_states' \in [Games -> GameType]
  <1> DEFINE c == game_states[g].players[j]
  <1>1. /\ clients' = [clients EXCEPT ![c].game_state = NULL,
                                     ![c].player = NoPlayer, ![c].state = "MENU"]
        /\ game_states' = [game_states EXCEPT ![g].players[j] = NULL]
    BY DEF ReturnToMenu
  <1>2. clients' \in [Clients -> ClientType]
    <2> HIDE DEF c
    <2>1. CASE c \notin Clients
      BY <1>1, <2>1 DEF TypeOK
    <2>2. CASE c \in Clients
      <3>1. clients[c] \in ClientType
        BY <2>2 DEF TypeOK
      <3>2. [clients[c] EXCEPT !.game_state = NULL, !.player = NoPlayer, !.state = "MENU"]
              \in ClientType
        BY <3>1 DEF ClientType, Screens
      <3>3. clients' = [clients EXCEPT ![c] =
               [clients[c] EXCEPT !.game_state = NULL, !.player = NoPlayer, !.state = "MENU"]]
        BY <1>1, <2>2 DEF TypeOK
      <3> QED
        BY <3>2, <3>3 DEF TypeOK
    <2> QED
      BY <2>1, <2>2
  <1>3. game_states[g] \in GameType
    BY DEF TypeOK
  <1>4. game_states' \in [Games -> GameType]
    BY <1>1, <1>3, GameUpdates DEF TypeOK
  <1> QED
    BY <1>2, <1>4

(* The loop that returns the players to the menu keeps the types. *)
LEMMA MenuFromType ==
    ASSUME TypeOK, NEW g \in Games, NEW i \in Nat, MenuFrom(g, i)
    PROVE  /\ gl' \in LoopType
           /\ clients' \in [Clients -> ClientType]
           /\ game_states' \in [Games -> GameType]
  <1>1. CASE SetStatus(g, "FREE") /\ gl' = Idle /\ UNCHANGED clients
    BY <1>1, LoopPoints, SetStatusType DEF Statuses, TypeOK
  <1>2. ASSUME NEW j \in Connected(g, i, MaxPlayers),
               ReturnToMenu([game |-> g, seat |-> j]),
               gl' = Waiting("menu", g, j, game_states[g].players[j], NULL)
        PROVE  /\ gl' \in LoopType
               /\ clients' \in [Clients -> ClientType]
               /\ game_states' \in [Games -> GameType]
    <2>1. j \in Seats /\ game_states[g].players[j] # NULL
      BY ServerAssumption DEF Seats, Connected
    <2>2. game_states[g] \in GameType
      BY DEF TypeOK
    <2>3. game_states[g].players[j] \in Clients
      BY <2>1, <2>2 DEF GameType
    <2> QED
      BY <1>2, <2>1, <2>3, LoopPoints, ReturnToMenuType
  <1> QED
    BY <1>1, <1>2 DEF MenuFrom

(* ResetClient keeps the types. *)
LEMMA ResetClientType ==
    ASSUME TypeOK, NEW c \in Clients, NEW taken \in BOOLEAN, ResetClient(c, taken)
    PROVE  /\ clients' \in [Clients -> ClientType]
           /\ lobbies' \in [Lobbies -> LobbyType]
           /\ game_states' \in [Games -> GameType]
  <1>0. clients[c] \in ClientType
    BY DEF TypeOK
  <1>1. clients' \in [Clients -> ClientType]
    BY <1>0 DEF ResetClient, Reset, TypeOK, ClientType, Screens
  <1>2. lobbies' \in [Lobbies -> LobbyType]
    <2>1. CASE lobbies' = lobbies
      BY <2>1 DEF TypeOK
    <2>2. CASE lobbies' # lobbies
      <3>1. clients[c].lobby \in Lobbies
        BY <1>0, <2>2 DEF ResetClient, LobbiesWithout, ClientType
      <3> DEFINE l == clients[c].lobby
                 S == {i \in Seats : lobbies[l].clients[i] = c}
      <3>2. lobbies' = [lobbies EXCEPT ![l] =
                [client_count |-> @.client_count - 1,
                 clients |-> [i \in Seats |-> IF IsFirst(i, S) THEN NULL ELSE @.clients[i]]]]
        BY <2>2 DEF ResetClient, LobbiesWithout
      <3> HIDE DEF S, l
      <3>3. lobbies[l] \in LobbyType
        BY <3>1 DEF TypeOK, l
      <3> DEFINE r == [client_count |-> lobbies[l].client_count - 1,
                       clients |-> [i \in Seats |->
                            IF IsFirst(i, S) THEN NULL ELSE lobbies[l].clients[i]]]
      <3>4. r \in LobbyType
        BY <3>3 DEF LobbyType
      <3>5. lobbies' = [lobbies EXCEPT ![l] = r]
        BY <3>2
      <3> HIDE DEF r
      <3> QED
        BY <3>4, <3>5 DEF TypeOK
    <2> QED
      BY <2>1, <2>2
  <1>3. game_states' \in [Games -> GameType]
    <2>1. CASE game_states' = game_states
      BY <2>1 DEF TypeOK
    <2>2. CASE game_states' # game_states
      <3> DEFINE p == clients[c].player
                 g == clients[c].game_state
      <3>1. p \in [game : Games, seat : Seats] /\ g \in Games
        BY <1>0, <2>2 DEF ResetClient, GamesWithout, ClientType
      <3>2. game_states' = [game_states EXCEPT
                ![p.game].players[p.seat] = NULL,
                ![g].active[TeamOf(p.seat)] = @ - 1]
        BY <2>2 DEF ResetClient, GamesWithout
      <3>3. TeamOf(p.seat) \in Teams
        BY <3>1, ServerAssumption DEF TeamOf, Teams, Seats
      <3>4. p.game \in Games /\ p.seat \in Seats
        BY <3>1
      <3> HIDE DEF p, g
      <3> DEFINE gs == [game_states EXCEPT ![p.game].players[p.seat] = NULL]
      <3>5. gs \in [Games -> GameType]
        BY <3>4, GameUpdates DEF TypeOK
      <3>6. game_states' = [gs EXCEPT ![g].active[TeamOf(p.seat)] = @ - 1]
        BY <3>2
      <3> HIDE DEF gs
      <3>7. gs[g] \in GameType
        BY <3>1, <3>5
      <3>8. [gs[g] EXCEPT !.active[TeamOf(p.seat)] = @ - 1] \in GameType
        BY <3>3, <3>4, <3>7, GameUpdates
      <3> QED
        BY <3>1, <3>5, <3>6, <3>8
    <2> QED
      BY <2>1, <2>2
  <1> QED
    BY <1>1, <1>2, <1>3

(* The chat loop keeps the type of the receive threads. *)
LEMMA ChatFromType ==
    ASSUME TypeOK, NEW c \in Clients, NEW i \in Nat, ChatFrom(c, i)
    PROVE  recv' \in [Clients -> RecvType]
  <1> DEFINE l == clients[c].lobby
  <1>1. l \in Lobbies \cup {NULL}
    BY DEF TypeOK, ClientType
  <1>2. CASE recv' = [recv EXCEPT ![c] = Down] \/ recv' = [recv EXCEPT ![c] = Poll]
    BY <1>2, RecvPoints DEF TypeOK
  <1>3. ASSUME l # NULL, NEW j \in i .. LobbySize[l] - 1, lobbies[l].clients[j] # NULL,
               recv' = [recv EXCEPT ![c] = Chat(j, lobbies[l].clients[j])]
        PROVE  recv' \in [Clients -> RecvType]
    <2>1. l \in Lobbies
      BY <1>1, <1>3
    <2> HIDE DEF l
    <2>2. j \in Seats
      BY <1>3, <2>1, SlotsAreSeats DEF Seats
    <2>3. lobbies[l] \in LobbyType
      BY <2>1 DEF TypeOK
    <2>4. lobbies[l].clients[j] \in Clients
      BY <1>3, <2>2, <2>3 DEF LobbyType
    <2> QED
      BY <1>3, <2>2, <2>4, RecvPoints DEF TypeOK
  <1> QED
    BY <1>2, <1>3 DEF ChatFrom

(* Filling a mailbox keeps its type. *)
LEMMA FillType ==
    ASSUME TypeOK, NEW c, NEW pid \in PacketIds, Fill(c, pid)
    PROVE  packet' \in [Clients -> PacketIds \cup {"none"}]
  BY DEF Fill, TypeOK

(* init_game_* makes a game record. *)
LEMMA InitGameType ==
    ASSUME TypeOK, NEW g \in Games, NEW l \in Lobbies
    PROVE  InitGame(g, l, LobbySize[l]) \in GameType
  <1> DEFINE n == LobbySize[l]
  <1>1. game_states[g] \in GameType /\ lobbies[l] \in LobbyType
    BY DEF TypeOK
  <1>2. n \in 0 .. MaxPlayers
    BY SlotsAreSeats
  <1>3. [i \in Seats |-> IF i < n THEN IdOf(lobbies[l].clients[i])
                        ELSE game_states[g].players[i]] \in [Seats -> Clients \cup {NULL}]
    BY <1>1 DEF GameType, IdOf
  <1>4. [i \in Seats |-> IF i < n THEN FALSE ELSE game_states[g].ready[i]]
          \in [Seats -> BOOLEAN]
    BY <1>1 DEF GameType
  <1>5. \A t \in Teams : Cardinality({i \in 0 .. n - 1 : TeamOf(i) = t}) \in Nat
    <2> TAKE t \in Teams
    <2>1. IsFiniteSet(0 .. n - 1)
      BY <1>2, FS_Interval
    <2>2. IsFiniteSet({i \in 0 .. n - 1 : TeamOf(i) = t})
      BY <2>1, FS_Subset
    <2> QED
      BY <2>2, FS_CardinalityType
  <1>6. [t \in Teams |-> Cardinality({i \in 0 .. n - 1 : TeamOf(i) = t})] \in [Teams -> Int]
    BY <1>5
  <1> HIDE DEF n
  <1> QED
    BY <1>1, <1>2, <1>3, <1>4, <1>6 DEF InitGame, GameType, Statuses, n

(* A client with a place is dealt one of its places. *)
LEMMA SeatOfPlace ==
    ASSUME NEW l \in Lobbies, NEW c, NEW i \in 0 .. LobbySize[l] - 1, lobbies[l].clients[i] = c
    PROVE  /\ SeatOf(c, l) \in 0 .. LobbySize[l] - 1 /\ SeatOf(c, l) \in Seats
           /\ lobbies[l].clients[SeatOf(c, l)] = c
  <1> DEFINE S == {j \in 0 .. LobbySize[l] - 1 : lobbies[l].clients[j] = c}
  <1>1. S \subseteq Seats /\ S # {}
    BY SlotsAreSeats
  <1>2. \E k \in S : \A j \in S : j <= k
    <2> HIDE DEF S
    <2> QED
      BY <1>1, LastExists
  <1>3. \E k \in 0 .. LobbySize[l] - 1 :
          /\ lobbies[l].clients[k] = c
          /\ \A j \in 0 .. LobbySize[l] - 1 : lobbies[l].clients[j] = c => j <= k
    BY <1>2
  <1>4. SeatOf(c, l) \in 0 .. LobbySize[l] - 1 /\ lobbies[l].clients[SeatOf(c, l)] = c
    BY <1>3 DEF SeatOf
  <1> QED
    BY <1>4, SlotsAreSeats

(* reset_lobby makes a lobby record. *)
LEMMA EmptyLobbyType == EmptyLobby \in LobbyType
  BY DEF EmptyLobby, LobbyType

(* init_server establishes the types. *)
LEMMA TypeInit == Init => TypeOK
  <1> SUFFICES ASSUME Init PROVE TypeOK
    OBVIOUS
  <1>1. [NewClient EXCEPT !.taken = FALSE] \in ClientType
    BY DEF NewClient, ClientType, Screens
  <1>2. FreeGame \in GameType
    BY ServerAssumption DEF FreeGame, GameType, Statuses, Clients
  <1> QED
    BY <1>1, <1>2, RecvPoints, LoopPoints, EmptyLobbyType
    DEF Init, TypeOK, Screens
(* What a receive thread sends, and what is left of it after the first. *)
LEMMA ReplyTypes ==
    /\ <<"ACCEPT">> \in Replies /\ <<"ACCEPT_ERROR", "MESSAGE">> \in Replies
    /\ <<"RETURN_TO_JOIN">> \in Replies /\ <<"RETURN_TO_MENU">> \in Replies
    /\ \A s \in Replies : Head(s) \in PacketIds /\ (Len(s) # 1 => Tail(s) \in Replies)
  <1>1. /\ <<"ACCEPT">> \in Replies /\ <<"ACCEPT_ERROR", "MESSAGE">> \in Replies
        /\ <<"RETURN_TO_JOIN">> \in Replies /\ <<"RETURN_TO_MENU">> \in Replies
    BY DEF Replies, PacketIds
  <1>2. ASSUME NEW s \in Replies
        PROVE  Head(s) \in PacketIds /\ (Len(s) # 1 => Tail(s) \in Replies)
    <2>1. s \in Seq(PacketIds) /\ s # <<>>
      BY DEF Replies
    <2>2. Head(s) \in PacketIds /\ Tail(s) \in Seq(PacketIds) /\ Len(Tail(s)) = Len(s) - 1
      BY <2>1, HeadTailProperties
    <2>3. Len(s) # 1 => Len(Tail(s)) # 0
      BY <2>2
    <2>4. Len(s) # 1 => Tail(s) # <<>>
      BY <2>3
    <2> QED
      BY <2>2, <2>4 DEF Replies
  <1> QED
    BY <1>1, <1>2

(* Every step of a client's process keeps the types. *)
LEMMA TypeClientStep ==
    ASSUME TypeOK, NEW c \in Clients, ClientStep(c)
    PROVE  TypeOK'
  <1>0. clients[c] \in ClientType /\ recv[c] \in RecvType
    BY DEF TypeOK
  <1>1. CASE Connect(c)
    <2>1. NewClient \in ClientType
      BY DEF NewClient, ClientType, Screens
    <2> QED
      BY <1>1, <2>1, RecvPoints DEF Connect, TypeOK, Screens
  <1>2. CASE Disconnect(c)
    <2>1. ResetClient(c, FALSE)
      BY <1>2 DEF Disconnect
    <2> QED
      BY <1>2, <2>1, ResetClientType, RecvPoints DEF Disconnect, TypeOK
  <1>3. CASE Kill(c)
    BY <1>3, RecvPoints DEF Kill, TypeOK
  <1>4. CASE ProcessJoin(c)
    <2>2. recv' \in [Clients -> RecvType]
      BY <1>4, ReplyTypes, RecvPoints DEF ProcessJoin, TypeOK
    <2>3. clients' \in [Clients -> ClientType]
      BY <1>0, <1>4, ClientUpdates DEF ProcessJoin, TypeOK, Screens
    <2> QED
      BY <1>4, <2>2, <2>3 DEF ProcessJoin, TypeOK
  <1>5. ASSUME NEW l \in Lobbies, ProcessGameType(c, l)
        PROVE  TypeOK'
    BY <1>5, RecvPoints DEF ProcessGameType, TypeOK
  <1>6. CASE AddClientToLobby(c)
    <2> DEFINE l == recv[c].lobby
               S == {i \in 0 .. LobbySize[l] - 1 : lobbies[l].clients[i] = NULL}
               r == [client_count |-> IF S = {} THEN lobbies[l].client_count
                                      ELSE lobbies[l].client_count + 1,
                     clients |-> [i \in Seats |->
                            IF IsFirst(i, S) THEN c ELSE lobbies[l].clients[i]]]
    <2>1. /\ recv[c].at = "spin"
          /\ clients' = [clients EXCEPT ![c].lobby = l, ![c].state = "LOBBY"]
          /\ lobbies' = [lobbies EXCEPT ![l] = r]
          /\ recv' = [recv EXCEPT ![c] = Poll]
          /\ UNCHANGED <<packet, screen, game_states, gl>>
      BY <1>6 DEF AddClientToLobby
    <2>2. l \in Lobbies
      BY <1>0, <2>1, RecvFields
    <2> HIDE DEF l, S
    <2>3. lobbies[l] \in LobbyType
      BY <2>2 DEF TypeOK
    <2>4. r \in LobbyType
      BY <2>3 DEF LobbyType
    <2>5. [clients[c] EXCEPT !.lobby = l, !.state = "LOBBY"] \in ClientType
      BY <1>0, <2>2 DEF ClientType, Screens
    <2> HIDE DEF r
    <2>6. lobbies' \in [Lobbies -> LobbyType]
      BY <2>1, <2>4 DEF TypeOK
    <2>7. clients' \in [Clients -> ClientType]
      BY <2>1, <2>5 DEF TypeOK
    <2> QED
      BY <2>1, <2>6, <2>7, RecvPoints DEF TypeOK
  <1>7. CASE ProcessMessage(c)
    <2>1. ChatFrom(c, 0)
      BY <1>7 DEF ProcessMessage
    <2> QED
      BY <1>7, <2>1, ChatFromType DEF ProcessMessage, TypeOK
  <1>8. CASE SendChat(c)
    <2>1. ChatFrom(c, recv[c].seat + 1) /\ Fill(recv[c].to, "MESSAGE")
      BY <1>8 DEF SendChat
    <2>2. recv[c].seat + 1 \in Nat
      BY <1>0, <1>8, RecvFields, ServerAssumption DEF SendChat, Seats
    <2>3. recv' \in [Clients -> RecvType]
      BY <2>1, <2>2, ChatFromType
    <2> QED
      BY <1>8, <2>1, <2>3, FillType DEF SendChat, TypeOK, PacketIds
  <1>9. CASE ProcessPlayerReady(c)
    <2> DEFINE p == clients[c].player
    <2>1. p.game \in Games /\ p.seat \in Seats
      BY <1>0, <1>9 DEF ProcessPlayerReady, ClientType
    <2>2. /\ game_states' = [game_states EXCEPT ![p.game].ready[p.seat] = TRUE]
          /\ UNCHANGED <<clients, packet, recv, screen, lobbies, gl>>
      BY <1>9 DEF ProcessPlayerReady
    <2> HIDE DEF p
    <2>3. game_states[p.game] \in GameType
      BY <2>1 DEF TypeOK
    <2>4. game_states' \in [Games -> GameType]
      BY <2>1, <2>2, <2>3, GameUpdates DEF TypeOK
    <2> QED
      BY <2>2, <2>4 DEF TypeOK
  <1>10. CASE ProcessExit(c)
    <2>1. ResetClient(c, clients[c].taken) /\ clients[c].taken \in BOOLEAN
      BY <1>0, <1>10 DEF ProcessExit, ClientType
    <2>2. Send(c, <<"RETURN_TO_JOIN">>) \in RecvType
      BY ReplyTypes, RecvPoints
    <2> QED
      BY <1>10, <2>1, <2>2, ResetClientType DEF ProcessExit, TypeOK
  <1>11. CASE ProcessExitStatistics(c)
    <2> DEFINE p == clients[c].player
    <2>1. CASE p = NoPlayer
      BY <1>11, <2>1, RecvPoints DEF ProcessExitStatistics, TypeOK
    <2>2. CASE p # NoPlayer
      <3>1. p \in [game : Games, seat : Seats]
        BY <1>0, <2>2 DEF ClientType
      <3>2. PICK g \in Games, j \in Seats : p = [game |-> g, seat |-> j]
        BY <3>1
      <3>3. /\ game_states[g].players[j] # NULL
            /\ ReturnToMenu(p)
            /\ recv' = [recv EXCEPT ![c] =
                         Send(game_states[g].players[j], <<"RETURN_TO_MENU">>)]
            /\ UNCHANGED <<packet, screen, lobbies, gl>>
        BY <1>11, <2>2, <3>2 DEF ProcessExitStatistics
      <3>4. game_states[g] \in GameType
        BY DEF TypeOK
      <3>5. game_states[g].players[j] \in Clients
        BY <3>3, <3>4 DEF GameType
      <3>6. recv' \in [Clients -> RecvType]
        BY <3>3, <3>5, RecvPoints, ReplyTypes DEF TypeOK
      <3>7. ReturnToMenu([game |-> g, seat |-> j])
        BY <3>2, <3>3
      <3> HIDE DEF p
      <3> QED
        BY <3>3, <3>6, <3>7, ReturnToMenuType DEF TypeOK
    <2> QED
      BY <2>1, <2>2
  <1>12. CASE SendReply(c)
    <2>1. recv[c].to \in Clients /\ recv[c].todo \in Replies
      BY <1>0, <1>12, RecvFields DEF SendReply
    <2>2. Head(recv[c].todo) \in PacketIds
      BY <2>1, ReplyTypes
    <2>3. Len(recv[c].todo) # 1 => Tail(recv[c].todo) \in Replies
      BY <2>1, ReplyTypes
    <2>4. recv' \in [Clients -> RecvType]
      BY <1>12, <2>1, <2>3, RecvPoints DEF SendReply, TypeOK
    <2> QED
      BY <1>12, <2>2, <2>4, FillType DEF SendReply, TypeOK
  <1>13. CASE SendServerPacket(c)
    <2>1. ScreenAfter(screen[c], packet[c]) \in Screens
      BY DEF ScreenAfter, Screens, TypeOK
    <2> QED
      BY <1>13, <2>1 DEF SendServerPacket, TypeOK
  <1> QED
    BY <1>1, <1>2, <1>3, <1>4, <1>5, <1>6, <1>7, <1>8, <1>9, <1>10, <1>11, <1>12, <1>13
    DEF ClientStep

(* StartGame keeps the types. *)
LEMMA StartGameType ==
    ASSUME TypeOK, StartGame
    PROVE  TypeOK'
  <1> DEFINE l == gl.unit
             n == LobbySize[l]
  <1>1. l \in Lobbies
    BY LoopFields DEF StartGame, TypeOK
  <1>2. UNCHANGED <<packet, recv, screen>>
    BY DEF StartGame
  <1>3. CASE gl' = Idle /\ UNCHANGED <<clients, lobbies, game_states>>
    BY <1>2, <1>3, LoopPoints DEF TypeOK
  <1>4. ASSUME NEW g \in Games,
               lobbies' = [lobbies EXCEPT ![l] = EmptyLobby],
               lobbies[l].client_count = n,
               clients' = [c \in Clients |->
                   IF c \notin Dealt(l) THEN clients[c]
                   ELSE [Deal(c, g) EXCEPT !.player = [game |-> g, seat |-> SeatOf(c, l)]]],
               game_states' = [game_states EXCEPT ![g] = InitGame(g, l, n)],
               gl' = IF NULL \in Dealt(l) THEN Stopped ELSE Idle
        PROVE  TypeOK'
    <2> HIDE DEF l
    <2>1. lobbies' \in [Lobbies -> LobbyType]
      BY <1>4, EmptyLobbyType DEF TypeOK
    <2>2. game_states' \in [Games -> GameType]
      BY <1>1, <1>4, InitGameType DEF TypeOK
    <2>3. ASSUME NEW c \in Clients, c \in Dealt(l)
          PROVE  [Deal(c, g) EXCEPT !.player = [game |-> g, seat |-> SeatOf(c, l)]] \in ClientType
      <3>1. PICK i \in 0 .. n - 1 : lobbies[l].clients[i] = c
        BY <1>4, <2>3 DEF Dealt
      <3>3. SeatOf(c, l) \in Seats
        BY <1>1, <3>1, SeatOfPlace
      <3>4. clients[c] \in ClientType
        BY DEF TypeOK
      <3>5. Deal(c, g) \in ClientType
        BY <3>4 DEF Deal, ClientType, Screens
      <3> QED
        BY <3>3, <3>5, ClientUpdates
    <2>4. clients' \in [Clients -> ClientType]
      BY <1>4, <2>3 DEF TypeOK
    <2> QED
      BY <1>2, <1>4, <2>1, <2>2, <2>4, LoopPoints DEF TypeOK
  <1>5. ASSUME NEW g \in Games,
               lobbies' = [lobbies EXCEPT ![l] = EmptyLobby],
               clients' = [c \in Clients |->
                   IF c \notin Dealt(l) THEN clients[c] ELSE Deal(c, g)],
               game_states' = [game_states EXCEPT ![g].status = "TAKEN"],
               gl' = Idle
        PROVE  TypeOK'
    <2> HIDE DEF l
    <2>1. lobbies' \in [Lobbies -> LobbyType]
      BY <1>5, EmptyLobbyType DEF TypeOK
    <2>2. game_states' \in [Games -> GameType]
      BY <1>5, SetStatusType DEF SetStatus, Statuses
    <2>3. ASSUME NEW c \in Clients
          PROVE  Deal(c, g) \in ClientType
      <3>1. clients[c] \in ClientType
        BY DEF TypeOK
      <3> QED
        BY <3>1 DEF Deal, ClientType, Screens
    <2>4. clients' \in [Clients -> ClientType]
      BY <1>5, <2>3 DEF TypeOK
    <2> QED
      BY <1>2, <1>5, <2>1, <2>2, <2>4, LoopPoints DEF TypeOK
  <1>6. \/ gl' = Idle /\ UNCHANGED <<clients, lobbies, game_states>>
        \/ \E g \in Games :
             /\ lobbies' = [lobbies EXCEPT ![l] = EmptyLobby]
             /\ \/ /\ lobbies[l].client_count = n
                   /\ clients' = [c \in Clients |->
                        IF c \notin Dealt(l) THEN clients[c]
                        ELSE [Deal(c, g) EXCEPT
                                !.player = [game |-> g, seat |-> SeatOf(c, l)]]]
                   /\ game_states' = [game_states EXCEPT ![g] = InitGame(g, l, n)]
                   /\ gl' = IF NULL \in Dealt(l) THEN Stopped ELSE Idle
                \/ /\ clients' = [c \in Clients |->
                        IF c \notin Dealt(l) THEN clients[c] ELSE Deal(c, g)]
                   /\ game_states' = [game_states EXCEPT ![g].status = "TAKEN"]
                   /\ gl' = Idle
    BY DEF StartGame, FreeGames
  <1> QED
    BY <1>3, <1>4, <1>5, <1>6

(* Every step of the gameloop keeps the types. *)
LEMMA TypeGameloop ==
    ASSUME TypeOK, Gameloop
    PROVE  TypeOK'
  <1>0. gl \in LoopType
    BY DEF TypeOK
  <1>1. ASSUME NEW l \in Lobbies, UpdateLobby(l)
        PROVE  TypeOK'
    <2>1. PICK at \in {"lobby", "full"} : LobbyFrom(at, l, 0)
      BY <1>1 DEF UpdateLobby
    <2>2. gl' \in LoopType
      BY <2>1, LobbyFromType
    <2> QED
      BY <1>1, <2>2 DEF UpdateLobby, TypeOK
  <1>2. CASE SendLobby
    <2>1. gl.unit \in Lobbies /\ gl.seat + 1 \in Nat /\ gl.at \in {"lobby", "full"}
      BY <1>0, <1>2, LoopFields, ServerAssumption DEF SendLobby, Seats
    <2>2. CASE gl' = Stopped /\ UNCHANGED packet
      BY <1>2, <2>2, LoopPoints DEF SendLobby, TypeOK
    <2>3. CASE Fill(gl.to, "LOBBY") /\ LobbyFrom(gl.at, gl.unit, gl.seat + 1)
      <3>1. gl' \in LoopType
        BY <2>1, <2>3, LobbyFromType
      <3> QED
        BY <1>2, <2>3, <3>1, FillType DEF SendLobby, TypeOK, PacketIds
    <2> QED
      BY <1>2, <2>2, <2>3 DEF SendLobby
  <1>3. CASE StartGame
    BY <1>3, StartGameType
  <1>4. ASSUME NEW g \in Games, UpdateLoading(g)
        PROVE  TypeOK'
    <2>1. CASE /\ clients' = [c \in Clients |->
                     IF \E i \in Active(g) : game_states[g].players[i] = c
                     THEN [clients[c] EXCEPT !.state = "GAME"] ELSE clients[c]]
               /\ SetStatus(g, "IN_PROGRESS")
               /\ UNCHANGED gl
      <3>1. \A c \in Clients : [clients[c] EXCEPT !.state = "GAME"] \in ClientType
        BY ClientUpdates DEF TypeOK, Screens
      <3>2. clients' \in [Clients -> ClientType]
        BY <2>1, <3>1 DEF TypeOK
      <3> QED
        BY <1>4, <2>1, <3>2, SetStatusType DEF UpdateLoading, TypeOK, Statuses
    <2>2. CASE gl' = Stopped /\ UNCHANGED <<clients, game_states>>
      BY <1>4, <2>2, LoopPoints DEF UpdateLoading, TypeOK
    <2>3. CASE ReadyFrom(g, 0) /\ UNCHANGED <<clients, game_states>>
      <3>1. gl' \in LoopType
        BY <2>3, ReadyFromType
      <3> QED
        BY <1>4, <2>3, <3>1 DEF UpdateLoading, TypeOK
    <2> QED
      BY <1>4, <2>1, <2>2, <2>3 DEF UpdateLoading
  <1>5. ASSUME NEW g \in Games, UpdateInProgress(g)
        PROVE  TypeOK'
    <2>1. game_states' \in [Games -> GameType]
      BY <1>5, SetStatusType DEF UpdateInProgress, TypeOK, Statuses
    <2>2. gl' \in LoopType
      BY <1>5, StateFromType DEF UpdateInProgress
    <2> QED
      BY <1>5, <2>1, <2>2 DEF UpdateInProgress, TypeOK
  <1>6. ASSUME NEW g \in Games, UpdateOver(g)
        PROVE  TypeOK'
    <2>1. EndFrom(g, 0)
      BY <1>6 DEF UpdateOver
    <2> QED
      BY <1>6, <2>1, EndFromType DEF UpdateOver, TypeOK
  <1>7. ASSUME NEW g \in Games, UpdateStatistics(g)
        PROVE  TypeOK'
    <2>1. CASE SetStatus(g, "FREE") /\ UNCHANGED <<clients, gl>>
      BY <1>7, <2>1, SetStatusType DEF UpdateStatistics, TypeOK, Statuses
    <2>2. CASE MenuFrom(g, 0)
      BY <1>7, <2>2, MenuFromType DEF UpdateStatistics, TypeOK
    <2> QED
      BY <1>7, <2>1, <2>2 DEF UpdateStatistics
  <1>8. CASE SendGameReady
    <2>1. gl.unit \in Games /\ gl.seat + 1 \in Nat
      BY <1>0, <1>8, LoopFields, ServerAssumption DEF SendGameReady, Seats
    <2>2. gl' \in LoopType
      BY <1>8, <2>1, ReadyFromType, LoopPoints DEF SendGameReady
    <2>3. packet' \in [Clients -> PacketIds \cup {"none"}]
      BY <1>8, FillType DEF SendGameReady, TypeOK, PacketIds
    <2> QED
      BY <1>8, <2>2, <2>3 DEF SendGameReady, TypeOK
  <1>9. CASE SendGameState
    <2>1. gl.unit \in Games /\ gl.seat + 1 \in Nat
      BY <1>0, <1>9, LoopFields, ServerAssumption DEF SendGameState, Seats
    <2>2. gl' \in LoopType
      BY <1>9, <2>1, StateFromType, LoopPoints DEF SendGameState
    <2>3. packet' \in [Clients -> PacketIds \cup {"none"}]
      BY <1>9, FillType DEF SendGameState, TypeOK, PacketIds
    <2> QED
      BY <1>9, <2>2, <2>3 DEF SendGameState, TypeOK
  <1>10. CASE SendGameEnd
    <2>1. /\ gl.unit \in Games /\ gl.seat \in Seats /\ gl.seat + 1 \in Nat
          /\ gl.to \in Clients /\ gl.gs \in Games \cup {NULL} /\ gl.at = "end"
      BY <1>0, <1>10, LoopFields, ServerAssumption DEF SendGameEnd, Seats
    <2>2. CASE gl' = Stopped /\ UNCHANGED <<clients, packet, game_states>>
      BY <1>10, <2>2, LoopPoints DEF SendGameEnd, TypeOK
    <2>3. CASE Fill(gl.to, "GAME_END") /\ EndFrom(gl.unit, gl.seat + 1)
      BY <1>10, <2>1, <2>3, EndFromType, FillType DEF SendGameEnd, TypeOK, PacketIds
    <2>4. CASE /\ Fill(gl.to, "GAME_END")
               /\ gl' = [gl EXCEPT !.at = "error"] /\ UNCHANGED <<clients, game_states>>
      <3>1. gl' \in LoopType
        BY <1>0, <2>1, <2>4 DEF LoopType
      <3> QED
        BY <1>10, <2>4, <3>1, FillType DEF SendGameEnd, TypeOK, PacketIds
    <2> QED
      BY <1>10, <2>2, <2>3, <2>4 DEF SendGameEnd
  <1>11. CASE SendError
    <2>1. gl.unit \in Games /\ gl.seat + 1 \in Nat
      BY <1>0, <1>11, LoopFields, ServerAssumption DEF SendError, Seats
    <2> QED
      BY <1>11, <2>1, EndFromType, FillType DEF SendError, TypeOK, PacketIds
  <1>12. CASE SendReturnToMenu
    <2>1. gl.unit \in Games /\ gl.seat + 1 \in Nat
      BY <1>0, <1>12, LoopFields, ServerAssumption DEF SendReturnToMenu, Seats
    <2> QED
      BY <1>12, <2>1, MenuFromType, FillType DEF SendReturnToMenu, TypeOK, PacketIds
  <1> QED
    BY <1>1, <1>2, <1>3, <1>4, <1>5, <1>6, <1>7, <1>8, <1>9, <1>10, <1>11, <1>12
    DEF Gameloop, UpdateGame

(* Every step keeps the types. *)
LEMMA TypeStep == TypeOK /\ [Next]_vars => TypeOK'
  <1>1. ASSUME TypeOK, UNCHANGED vars PROVE TypeOK'
    BY <1>1 DEF vars, TypeOK
  <1> QED
    BY <1>1, TypeGameloop, TypeClientStep DEF Next

(* The shared memory is well typed whatever the numbers of clients, games  *)
(* and places: no index leaves its array, apart from the clients[-1] of    *)
(* send_game_ready_to_all_players that the model names.                    *)
THEOREM TypeCorrect == Spec => []TypeOK
  BY TypeInit, TypeStep, PTL DEF Spec

-----------------------------------------------------------------------------
(* The inductive invariant *)

(* The part of the invariant about clients, lobbies and game_states alone. *)
Links ==
    /\ PointersNamed /\ SparedPointBack /\ UnusedEntries
    /\ SeatedInLobby /\ NoPointersBeforeLobby /\ PlayersInGame /\ PlayerlessGameTaken
    /\ (TablesFull => GameStatesFull)

(* The part about the receive threads. *)
Threads == SpinsInMenu /\ RemovedIsReset

(* The invariant in three parts that are disturbed by different steps. *)
LEMMA IInvParts == IInv <=> TypeOK /\ Links /\ LobbyCounts /\ Threads /\ LoopKnows
  BY DEF IInv, Links, Threads

-----------------------------------------------------------------------------
(* Types, record by record *)

(* The fields of a client record. *)
LEMMA ClientFields ==
    ASSUME TypeOK, NEW c \in Clients
    PROVE  /\ clients[c] \in ClientType
           /\ clients[c].taken \in BOOLEAN /\ clients[c].state \in Screens
           /\ clients[c].lobby \in Lobbies \cup {NULL}
           /\ clients[c].game_state \in Games \cup {NULL}
           /\ \/ clients[c].player = NoPlayer
              \/ \E g \in Games, i \in Seats : clients[c].player = [game |-> g, seat |-> i]
  BY DEF TypeOK, ClientType

(* The fields of a game record. *)
LEMMA GameFields ==
    ASSUME TypeOK, NEW g \in Games
    PROVE  /\ game_states[g] \in GameType
           /\ game_states[g].status \in Statuses
           /\ game_states[g].players \in [Seats -> Clients \cup {NULL}]
  BY DEF TypeOK, GameType

(* The fields of a lobby record. *)
LEMMA LobbyFields ==
    ASSUME TypeOK, NEW l \in Lobbies
    PROVE  /\ lobbies[l] \in LobbyType
           /\ lobbies[l].clients \in [Seats -> Clients \cup {NULL}]
  BY DEF TypeOK, LobbyType

-----------------------------------------------------------------------------
(* The spared clients *)

(* Spared clients are clients, and all of them where the tables are full. *)
LEMMA SparedClients ==
    /\ Spared \subseteq Clients /\ NULL \notin Spared
    /\ TablesFull => Spared = Clients
    /\ ~TablesFull => Spared = Clients \ {0}
  BY NullIsNoIndex DEF Spared

(* Every place of a live game is a player's, where the tables are full.    *)
LEMMA ActiveAll ==
    ASSUME GameStatesFull, NEW g \in Games, Live(g)
    PROVE  Active(g) = Seats
  BY DEF GameStatesFull, Active, Seats

(* An entry of a live game that names a spared client is a player's.       *)
LEMMA SparedActive ==
    ASSUME Links, NEW g \in Games, Live(g), NEW i \in Seats, game_states[g].players[i] \in Spared
    PROVE  i \in Active(g)
  <1>1. CASE TablesFull
    BY <1>1, ActiveAll DEF Links
  <1>2. CASE ~TablesFull
    BY <1>2, SparedClients DEF Links, UnusedEntries
  <1> QED
    BY <1>1, <1>2

(* A client outside all games points at no player entry. *)
LEMMA NoGameNoPlayer ==
    ASSUME Links, NEW c \in Clients, clients[c].taken \/ c \in Spared,
           clients[c].game_state = NULL
    PROVE  clients[c].player = NoPlayer
  BY DEF Links, PointersNamed

(* A spared client outside all games is named by no live game; one that is *)
(* not in the lobby state is seated nowhere.                               *)
LEMMA Unnamed ==
    ASSUME TypeOK, Links, NEW c \in Spared
    PROVE  /\ clients[c].game_state = NULL => clients[c].player = NoPlayer
           /\ clients[c].player = NoPlayer =>
                \A g \in Games, i \in Seats : Live(g) => game_states[g].players[i] # c
           /\ clients[c].state # "LOBBY" =>
                \A l \in Lobbies, i \in Seats : lobbies[l].clients[i] # c
  <1>1. clients[c].game_state = NULL => clients[c].player = NoPlayer
    BY SparedClients, NoGameNoPlayer
  <1>2. ASSUME clients[c].player = NoPlayer, NEW g \in Games, NEW i \in Seats, Live(g)
        PROVE  game_states[g].players[i] # c
    <2>1. game_states[g].players[i] = c => i \in Active(g)
      BY <1>2, SparedActive
    <2>2. [game |-> g, seat |-> i] # NoPlayer
      BY NullIsNoIndex DEF NoPlayer
    <2> QED
      BY <1>2, <2>1, <2>2 DEF Links, SparedPointBack
  <1>3. ASSUME clients[c].state # "LOBBY", NEW l \in Lobbies, NEW i \in Seats
        PROVE  lobbies[l].clients[i] # c
    BY <1>3 DEF Links, SeatedInLobby
  <1> QED
    BY <1>1, <1>2, <1>3

-----------------------------------------------------------------------------
(* What a step does to the links *)

(* PointersNamed after a step, with the entry that is pointed at named. *)
LEMMA PointersNamedNext ==
    ASSUME \A d \in Clients :
              clients'[d].player # NoPlayer /\ (clients'[d].taken \/ d \in Spared) =>
              \E h \in Games, i \in Seats :
                 /\ clients'[d].player = [game |-> h, seat |-> i]
                 /\ Live(h)' /\ i \in Active(h)'
                 /\ game_states'[h].players[i] = d
                 /\ clients'[d].game_state # NULL
                 /\ d \in Spared => clients'[d].game_state = h
    PROVE  PointersNamed'
  <1> SUFFICES ASSUME NEW d \in Clients, clients'[d].player # NoPlayer,
                      clients'[d].taken \/ d \in Spared
               PROVE  /\ game_states'[clients'[d].player.game].status \notin {"FREE", "TAKEN"}
                      /\ clients'[d].player.seat \in
                            0 .. game_states'[clients'[d].player.game].player_count - 1
                      /\ game_states'[clients'[d].player.game].players[clients'[d].player.seat] = d
                      /\ clients'[d].game_state # NULL
                      /\ d \in Spared => clients'[d].game_state = clients'[d].player.game
    BY DEF PointersNamed, Live, Active
  <1>1. PICK h \in Games, i \in Seats :
           /\ clients'[d].player = [game |-> h, seat |-> i]
           /\ Live(h)' /\ i \in Active(h)'
           /\ game_states'[h].players[i] = d
           /\ clients'[d].game_state # NULL
           /\ d \in Spared => clients'[d].game_state = h
    OBVIOUS
  <1> QED
    BY <1>1 DEF Live, Active

(* The entry that a client points at, before a step. *)
LEMMA Pointed ==
    ASSUME TypeOK, Links, NEW d \in Clients, clients[d].player # NoPlayer,
           clients[d].taken \/ d \in Spared
    PROVE  \E h \in Games, i \in Seats :
             /\ clients[d].player = [game |-> h, seat |-> i]
             /\ Live(h) /\ i \in Active(h)
             /\ game_states[h].players[i] = d
             /\ clients[d].game_state # NULL
             /\ d \in Spared => clients[d].game_state = h
  <1>1. PICK h \in Games, i \in Seats : clients[d].player = [game |-> h, seat |-> i]
    BY ClientFields
  <1> QED
    BY <1>1 DEF Links, PointersNamed

(* A step that leaves the shared memory alone keeps the links. *)
LEMMA LinksUnchanged ==
    ASSUME Links, UNCHANGED <<clients, lobbies, game_states>>
    PROVE  Links'
  BY DEF Links, PointersNamed, SparedPointBack, UnusedEntries, SeatedInLobby,
         NoPointersBeforeLobby, PlayersInGame, PlayerlessGameTaken, GameStatesFull, Live, Active

(* reset_client cuts the links of c: the pointers of its record, its first *)
(* place in its lobby and the entry it points at.  A spared client has no  *)
(* other places and entries.                                               *)
Cut(c, taken) ==
    /\ \A d \in Clients \ {c} : clients'[d] = clients[d]
    /\ clients'[c].taken = taken /\ clients'[c].state = "JOIN" /\ clients'[c].lobby = NULL
    /\ clients'[c].game_state = NULL /\ clients'[c].player = NoPlayer
    /\ \A l \in Lobbies, i \in Seats :
         \/ lobbies'[l].clients[i] = lobbies[l].clients[i]
         \/ lobbies[l].clients[i] = c /\ lobbies'[l].clients[i] = NULL
    /\ c \in Spared => \A l \in Lobbies, i \in Seats : lobbies'[l].clients[i] # c
    /\ \A g \in Games :
         /\ game_states'[g].status = game_states[g].status
         /\ game_states'[g].player_count = game_states[g].player_count
         /\ \A i \in Seats :
              \/ game_states'[g].players[i] = game_states[g].players[i]
              \/ game_states[g].players[i] = c /\ game_states'[g].players[i] = NULL
         /\ Live(g) /\ c \in Spared => \A i \in Seats : game_states'[g].players[i] # c

(* What ResetClient does to clients, lobbies and games. *)
LEMMA ResetEffect ==
    ASSUME TypeOK, Links, NEW c \in Clients, clients[c].taken,
           NEW taken \in BOOLEAN, ResetClient(c, taken)
    PROVE  Cut(c, taken)
  <1>0. c # NULL
    BY NullIsNoIndex
  <1>1. \A d \in Clients \ {c} : clients'[d] = clients[d]
    BY DEF ResetClient, TypeOK
  <1>2. /\ clients'[c].taken = taken /\ clients'[c].state = "JOIN" /\ clients'[c].lobby = NULL
        /\ clients'[c].game_state = NULL /\ clients'[c].player = NoPlayer
    <2>1. clients'[c] = [Reset(c) EXCEPT !.taken = taken]
      BY DEF ResetClient, TypeOK
    <2>2. clients[c].game_state = NULL => clients[c].player = NoPlayer
      BY NoGameNoPlayer
    <2>3. clients[c] \in ClientType
      BY ClientFields
    <2>4. Reset(c) = [clients[c] EXCEPT !.state = "JOIN", !.lobby = NULL,
                                        !.game_state = NULL, !.player = NoPlayer]
      BY <2>2, <2>3 DEF Reset, ClientType
    <2> QED
      BY <2>1, <2>3, <2>4 DEF ClientType
  <1>3. ASSUME NEW l \in Lobbies, NEW i \in Seats
        PROVE  /\ \/ lobbies'[l].clients[i] = lobbies[l].clients[i]
                  \/ lobbies[l].clients[i] = c /\ lobbies'[l].clients[i] = NULL
               /\ c \in Spared => lobbies'[l].clients[i] # c
    <2> DEFINE m == clients[c].lobby
               S == {j \in Seats : lobbies[m].clients[j] = c}
    <2>1. c \in Spared /\ lobbies[l].clients[i] = c => m = l /\ S = {i}
      BY DEF Links, SeatedInLobby
    <2>2. CASE m = NULL \/ S = {}
      <3>1. lobbies' = lobbies
        BY <2>2 DEF ResetClient, LobbiesWithout
      <3>2. c \in Spared => lobbies[l].clients[i] # c
        BY <2>1, <2>2, NullIsNoIndex
      <3> QED
        BY <3>1, <3>2
    <2>3. CASE m # NULL /\ S # {}
      <3>1. m \in Lobbies
        BY <2>3, ClientFields
      <3>2. lobbies' = [lobbies EXCEPT ![m] =
                [client_count |-> @.client_count - 1,
                 clients |-> [j \in Seats |-> IF IsFirst(j, S) THEN NULL ELSE @.clients[j]]]]
        BY <2>3 DEF ResetClient, LobbiesWithout
      <3>3. CASE l # m
        BY <2>1, <3>2, <3>3 DEF TypeOK
      <3>4. CASE l = m
        <4>1. lobbies'[l].clients[i] = IF IsFirst(i, S) THEN NULL ELSE lobbies[l].clients[i]
          <5> HIDE DEF S, m
          <5> QED
            BY <3>1, <3>2, <3>4 DEF TypeOK
        <4>2. IsFirst(i, S) => lobbies[l].clients[i] = c
          BY <3>4 DEF IsFirst
        <4>3. c \in Spared /\ lobbies[l].clients[i] = c => IsFirst(i, S)
          BY <2>1, ServerAssumption DEF IsFirst, Seats
        <4> QED
          BY <1>0, <4>1, <4>2, <4>3
      <3> QED
        BY <3>3, <3>4
    <2> QED
      BY <2>2, <2>3
  <1>4. ASSUME NEW g \in Games
        PROVE  /\ game_states'[g].status = game_states[g].status
               /\ game_states'[g].player_count = game_states[g].player_count
               /\ \A i \in Seats :
                    \/ game_states'[g].players[i] = game_states[g].players[i]
                    \/ game_states[g].players[i] = c /\ game_states'[g].players[i] = NULL
               /\ Live(g) /\ c \in Spared => \A i \in Seats : game_states'[g].players[i] # c
    <2>1. CASE clients[c].game_state = NULL \/ clients[c].player = NoPlayer
      <3>1. game_states' = game_states
        BY <2>1 DEF ResetClient, GamesWithout
      <3>2. c \in Spared => \A i \in Seats : Live(g) => game_states[g].players[i] # c
        BY <2>1, Unnamed
      <3> QED
        BY <3>1, <3>2
    <2>2. CASE clients[c].game_state # NULL /\ clients[c].player # NoPlayer
      <3>1. PICK h \in Games, k \in Seats :
              clients[c].player = [game |-> h, seat |-> k] /\ game_states[h].players[k] = c
        BY <2>2, Pointed
      <3> DEFINE e == clients[c].game_state
      <3>2. e \in Games
        BY <2>2, ClientFields
      <3>3. game_states' = [game_states EXCEPT ![h].players[k] = NULL,
                                               ![e].active[TeamOf(k)] = @ - 1]
        BY <2>2, <3>1 DEF ResetClient, GamesWithout
      <3> HIDE DEF e
      <3>4. /\ game_states'[g].status = game_states[g].status
            /\ game_states'[g].player_count = game_states[g].player_count
            /\ \A i \in Seats : game_states'[g].players[i] =
                 IF g = h /\ i = k THEN NULL ELSE game_states[g].players[i]
        BY <3>2, <3>3, GameFields DEF TypeOK, GameType
      <3>5. ASSUME Live(g), NEW i \in Seats, game_states[g].players[i] = c, c \in Spared
            PROVE  g = h /\ i = k
        <4>1. i \in Active(g)
          BY <3>5, SparedActive
        <4>2. clients[c].player = [game |-> g, seat |-> i]
          BY <3>5, <4>1 DEF Links, SparedPointBack
        <4> QED
          BY <3>1, <4>2
      <3> QED
        BY <1>0, <3>1, <3>4, <3>5
    <2> QED
      BY <2>1, <2>2
  <1> QED
    BY <1>1, <1>2, <1>3, <1>4 DEF Cut

(* ResetClient keeps the links. *)
LEMMA ResetLinks ==
    ASSUME TypeOK, Links, NEW c \in Clients, clients[c].taken,
           NEW taken \in BOOLEAN, ResetClient(c, taken)
    PROVE  Links'
  <1>c. Cut(c, taken)
    BY ResetEffect
  <1>1. /\ \A d \in Clients \ {c} : clients'[d] = clients[d]
        /\ clients'[c].state = "JOIN" /\ clients'[c].lobby = NULL
        /\ clients'[c].game_state = NULL /\ clients'[c].player = NoPlayer
    BY <1>c DEF Cut
  <1>2. /\ \A l \in Lobbies, i \in Seats :
              lobbies'[l].clients[i] = lobbies[l].clients[i] \/ lobbies'[l].clients[i] = NULL
        /\ c \in Spared => \A l \in Lobbies, i \in Seats : lobbies'[l].clients[i] # c
    BY <1>c DEF Cut
  <1>3. \A g \in Games :
          /\ game_states'[g].status = game_states[g].status
          /\ game_states'[g].player_count = game_states[g].player_count
          /\ \A i \in Seats :
               \/ game_states'[g].players[i] = game_states[g].players[i]
               \/ game_states[g].players[i] = c /\ game_states'[g].players[i] = NULL
          /\ Live(g) /\ c \in Spared => \A i \in Seats : game_states'[g].players[i] # c
    BY <1>c DEF Cut
  <1>4. \A g \in Games : (Live(g)' <=> Live(g)) /\ Active(g)' = Active(g)
    BY <1>3 DEF Live, Active
  <1>5. PointersNamed'
    <2> SUFFICES ASSUME NEW d \in Clients, clients'[d].player # NoPlayer,
                        clients'[d].taken \/ d \in Spared
                 PROVE  \E h \in Games, i \in Seats :
                          /\ clients'[d].player = [game |-> h, seat |-> i]
                          /\ Live(h)' /\ i \in Active(h)'
                          /\ game_states'[h].players[i] = d
                          /\ clients'[d].game_state # NULL
                          /\ d \in Spared => clients'[d].game_state = h
      BY PointersNamedNext
    <2>1. d # c /\ clients'[d] = clients[d]
      BY <1>1
    <2>2. PICK g \in Games, i \in Seats :
            /\ clients[d].player = [game |-> g, seat |-> i]
            /\ Live(g) /\ i \in Active(g) /\ game_states[g].players[i] = d
            /\ clients[d].game_state # NULL
            /\ d \in Spared => clients[d].game_state = g
      BY <2>1, Pointed
    <2> QED
      BY <1>3, <1>4, <2>1, <2>2
  <1>6. SparedPointBack'
    <2> SUFFICES ASSUME NEW g \in Games, Live(g)', NEW i \in Active(g)',
                        game_states'[g].players[i] \in Spared
                 PROVE  clients'[game_states'[g].players[i]].player = [game |-> g, seat |-> i]
      BY DEF SparedPointBack
    <2>1. Live(g) /\ i \in Active(g) /\ i \in Seats
      BY <1>4, ActiveSeats
    <2> DEFINE d == game_states[g].players[i]
    <2>2. d # c /\ d \in Spared /\ game_states'[g].players[i] = d
      BY <1>3, <2>1, SparedClients
    <2>3. clients[d].player = [game |-> g, seat |-> i]
      BY <2>1, <2>2 DEF Links, SparedPointBack
    <2> QED
      BY <1>1, <2>2, <2>3, SparedClients
  <1>7. UnusedEntries'
    BY <1>3, <1>4 DEF Links, UnusedEntries
  <1>8. SeatedInLobby'
    <2> SUFFICES ASSUME NEW l \in Lobbies, NEW i \in Seats, lobbies'[l].clients[i] \in Spared
                 PROVE  LET d == lobbies'[l].clients[i] IN
                          /\ clients'[d].lobby = l /\ clients'[d].state = "LOBBY"
                          /\ clients'[d].game_state = NULL
                          /\ \A j \in Seats : lobbies'[l].clients[j] = d => j = i
      BY DEF SeatedInLobby
    <2> DEFINE d == lobbies[l].clients[i]
    <2>1. d # c /\ d \in Spared /\ lobbies'[l].clients[i] = d
      BY <1>2, SparedClients
    <2>2. /\ clients[d].lobby = l /\ clients[d].state = "LOBBY" /\ clients[d].game_state = NULL
          /\ \A j \in Seats : lobbies[l].clients[j] = d => j = i
      BY <2>1 DEF Links, SeatedInLobby
    <2>3. \A j \in Seats : lobbies'[l].clients[j] = d => lobbies[l].clients[j] = d
      BY <1>2, <2>1, SparedClients
    <2> QED
      BY <1>1, <2>1, <2>2, <2>3, SparedClients
  <1>9. NoPointersBeforeLobby' /\ PlayersInGame'
    BY <1>1, SparedClients DEF Links, NoPointersBeforeLobby, PlayersInGame
  <1>10. PlayerlessGameTaken'
    <2> SUFFICES ASSUME NEW d \in Spared, clients'[d].game_state # NULL,
                        clients'[d].player = NoPlayer
                 PROVE  game_states'[clients'[d].game_state].status = "TAKEN"
      BY DEF PlayerlessGameTaken
    <2>1. d # c /\ clients'[d] = clients[d]
      BY <1>1, SparedClients
    <2>2. clients[d].game_state \in Games
      BY <2>1, ClientFields, SparedClients
    <2> QED
      BY <1>3, <2>1, <2>2 DEF Links, PlayerlessGameTaken
  <1>11. TablesFull => GameStatesFull'
    BY <1>3, <1>4 DEF Links, GameStatesFull
  <1> QED
    BY <1>5, <1>6, <1>7, <1>8, <1>9, <1>10, <1>11 DEF Links

(* send_return_to_menu_to_player on an entry of a live game: the client    *)
(* goes to the menu without pointers and its entry is cleared.             *)
Returned(c, g, j) ==
    /\ c \in Clients
    /\ c \in Spared => clients[c].player = [game |-> g, seat |-> j]
    /\ \A d \in Clients \ {c} : clients'[d] = clients[d]
    /\ clients'[c].taken = clients[c].taken /\ clients'[c].state = "MENU"
    /\ c \in Spared => clients'[c].lobby = NULL
    /\ clients'[c].game_state = NULL /\ clients'[c].player = NoPlayer
    /\ \A h \in Games :
         /\ game_states'[h].status = game_states[h].status
         /\ game_states'[h].player_count = game_states[h].player_count
         /\ \A i \in Seats : game_states'[h].players[i] =
              IF h = g /\ i = j THEN NULL ELSE game_states[h].players[i]

(* What ReturnToMenu does to clients and games. *)
LEMMA ReturnToMenuEffect ==
    ASSUME TypeOK, Links, NEW g \in Games, NEW j \in Seats, Live(g),
           game_states[g].players[j] # NULL,
           ReturnToMenu([game |-> g, seat |-> j])
    PROVE  Returned(game_states[g].players[j], g, j)
  <1> DEFINE c == game_states[g].players[j]
  <1>1. c \in Clients
    BY GameFields
  <1>2. c \in Spared => clients[c].player = [game |-> g, seat |-> j]
    BY SparedActive DEF Links, SparedPointBack
  <1>3. /\ clients' = [clients EXCEPT ![c].game_state = NULL,
                                     ![c].player = NoPlayer, ![c].state = "MENU"]
        /\ game_states' = [game_states EXCEPT ![g].players[j] = NULL]
    BY DEF ReturnToMenu
  <1>4. c \in Spared => clients[c].player # NoPlayer
    BY <1>2, NullIsNoIndex DEF NoPlayer
  <1>5. c \in Spared => clients[c].lobby = NULL
    BY <1>1, <1>4 DEF Links, PlayersInGame
  <1>6. \A h \in Games :
           /\ game_states'[h].status = game_states[h].status
           /\ game_states'[h].player_count = game_states[h].player_count
           /\ \A i \in Seats : game_states'[h].players[i] =
                IF h = g /\ i = j THEN NULL ELSE game_states[h].players[i]
    BY <1>3, GameFields DEF TypeOK, GameType
  <1> HIDE DEF c
  <1>7. clients[c] \in ClientType
    BY <1>1, ClientFields
  <1>8. /\ \A d \in Clients \ {c} : clients'[d] = clients[d]
        /\ clients'[c].taken = clients[c].taken /\ clients'[c].state = "MENU"
        /\ clients'[c].lobby = clients[c].lobby /\ clients'[c].game_state = NULL
        /\ clients'[c].player = NoPlayer
    BY <1>1, <1>3, <1>7 DEF TypeOK, ClientType
  <1> QED
    BY <1>1, <1>2, <1>5, <1>6, <1>8 DEF c, Returned

(* ReturnToMenu keeps the links. *)
LEMMA ReturnToMenuLinks ==
    ASSUME TypeOK, Links, NEW g \in Games, NEW j \in Seats, Live(g),
           game_states[g].players[j] # NULL,
           ReturnToMenu([game |-> g, seat |-> j]), UNCHANGED lobbies
    PROVE  Links'
  <1> DEFINE c == game_states[g].players[j]
  <1>r. Returned(c, g, j)
    BY ReturnToMenuEffect
  <1>1. /\ c \in Clients
        /\ c \in Spared => clients[c].player = [game |-> g, seat |-> j]
        /\ \A d \in Clients \ {c} : clients'[d] = clients[d]
        /\ clients'[c].state = "MENU"
        /\ c \in Spared => clients'[c].lobby = NULL
        /\ clients'[c].game_state = NULL /\ clients'[c].player = NoPlayer
    BY <1>r DEF Returned
  <1>2. \A h \in Games :
           /\ game_states'[h].status = game_states[h].status
           /\ game_states'[h].player_count = game_states[h].player_count
           /\ \A i \in Seats : game_states'[h].players[i] =
                IF h = g /\ i = j THEN NULL ELSE game_states[h].players[i]
    BY <1>r DEF Returned
  <1>3. \A h \in Games : (Live(h)' <=> Live(h)) /\ Active(h)' = Active(h)
    BY <1>2 DEF Live, Active
  <1> HIDE DEF c
  <1>4. PointersNamed'
    <2> SUFFICES ASSUME NEW d \in Clients, clients'[d].player # NoPlayer,
                        clients'[d].taken \/ d \in Spared
                 PROVE  \E h \in Games, i \in Seats :
                          /\ clients'[d].player = [game |-> h, seat |-> i]
                          /\ Live(h)' /\ i \in Active(h)'
                          /\ game_states'[h].players[i] = d
                          /\ clients'[d].game_state # NULL
                          /\ d \in Spared => clients'[d].game_state = h
      BY PointersNamedNext
    <2>1. d # c /\ clients'[d] = clients[d]
      BY <1>1
    <2>2. PICK h \in Games, i \in Seats :
            /\ clients[d].player = [game |-> h, seat |-> i]
            /\ Live(h) /\ i \in Active(h) /\ game_states[h].players[i] = d
            /\ clients[d].game_state # NULL
            /\ d \in Spared => clients[d].game_state = h
      BY <2>1, Pointed
    <2>3. ~(h = g /\ i = j)
      BY <2>1, <2>2 DEF c
    <2> QED
      BY <1>2, <1>3, <2>1, <2>2, <2>3
  <1>5. SparedPointBack'
    <2> SUFFICES ASSUME NEW h \in Games, Live(h)', NEW i \in Active(h)',
                        game_states'[h].players[i] \in Spared
                 PROVE  clients'[game_states'[h].players[i]].player = [game |-> h, seat |-> i]
      BY DEF SparedPointBack
    <2>1. Live(h) /\ i \in Active(h) /\ i \in Seats
      BY <1>3, ActiveSeats
    <2> DEFINE d == game_states[h].players[i]
    <2>2. ~(h = g /\ i = j) /\ game_states'[h].players[i] = d /\ d \in Spared
      BY <1>2, <2>1, SparedClients
    <2>3. clients[d].player = [game |-> h, seat |-> i]
      BY <2>1, <2>2 DEF Links, SparedPointBack
    <2>4. d # c
      BY <1>1, <2>2, <2>3
    <2> QED
      BY <1>1, <2>2, <2>3, <2>4, SparedClients
  <1>6. UnusedEntries'
    BY <1>2, <1>3 DEF Links, UnusedEntries
  <1>7. SeatedInLobby'
    <2> SUFFICES ASSUME NEW l \in Lobbies, NEW i \in Seats, lobbies[l].clients[i] \in Spared
                 PROVE  LET d == lobbies[l].clients[i] IN
                          /\ clients'[d].lobby = l /\ clients'[d].state = "LOBBY"
                          /\ clients'[d].game_state = NULL
                          /\ \A k \in Seats : lobbies[l].clients[k] = d => k = i
      BY DEF SeatedInLobby
    <2> DEFINE d == lobbies[l].clients[i]
    <2>1. /\ clients[d].lobby = l /\ clients[d].state = "LOBBY" /\ clients[d].game_state = NULL
          /\ \A k \in Seats : lobbies[l].clients[k] = d => k = i
      BY DEF Links, SeatedInLobby
    <2>2. d # c
      <3>1. clients[d].player = NoPlayer
        BY <2>1, Unnamed
      <3> QED
        BY <1>1, <3>1, NoPlayerIsNoEntry
    <2> QED
      BY <1>1, <2>1, <2>2, SparedClients
  <1>8. NoPointersBeforeLobby' /\ PlayersInGame'
    BY <1>1, SparedClients DEF Links, NoPointersBeforeLobby, PlayersInGame
  <1>9. PlayerlessGameTaken'
    <2> SUFFICES ASSUME NEW d \in Spared, clients'[d].game_state # NULL,
                        clients'[d].player = NoPlayer
                 PROVE  game_states'[clients'[d].game_state].status = "TAKEN"
      BY DEF PlayerlessGameTaken
    <2>1. d # c /\ clients'[d] = clients[d]
      BY <1>1, SparedClients
    <2>2. clients[d].game_state \in Games
      BY <2>1, ClientFields, SparedClients
    <2> QED
      BY <1>2, <2>1, <2>2 DEF Links, PlayerlessGameTaken
  <1>10. TablesFull => GameStatesFull'
    BY <1>2, <1>3 DEF Links, GameStatesFull
  <1> QED
    BY <1>4, <1>5, <1>6, <1>7, <1>8, <1>9, <1>10 DEF Links

(* A step of a game that only writes the state of clients that play in it, *)
(* and status or ready fields of games that are and stay alive.            *)
LEMMA StateLinks ==
    ASSUME TypeOK, Links, UNCHANGED lobbies,
           \A d \in Clients :
              \/ clients'[d] = clients[d]
              \/ /\ d \in Spared => clients[d].player # NoPlayer
                 /\ \E s \in {"GAME", "STATISTICS"} :
                       clients'[d] = [clients[d] EXCEPT !.state = s],
           \A g \in Games :
              /\ game_states'[g].players = game_states[g].players
              /\ game_states'[g].player_count = game_states[g].player_count
              /\ \/ game_states'[g].status = game_states[g].status
                 \/ Live(g) /\ Live(g)'
    PROVE  Links'
  <1>1. \A d \in Clients :
          /\ clients'[d].taken = clients[d].taken
          /\ clients'[d].lobby = clients[d].lobby
          /\ clients'[d].game_state = clients[d].game_state
          /\ clients'[d].player = clients[d].player
          /\ \/ clients'[d].state = clients[d].state
             \/ /\ d \in Spared => clients[d].player # NoPlayer
                /\ clients'[d].state \in {"GAME", "STATISTICS"}
    BY ClientFields DEF ClientType
  <1>2. \A g \in Games : (Live(g)' <=> Live(g)) /\ Active(g)' = Active(g)
    BY DEF Live, Active
  <1>3. PointersNamed'
    <2> SUFFICES ASSUME NEW d \in Clients, clients'[d].player # NoPlayer,
                        clients'[d].taken \/ d \in Spared
                 PROVE  \E h \in Games, i \in Seats :
                          /\ clients'[d].player = [game |-> h, seat |-> i]
                          /\ Live(h)' /\ i \in Active(h)'
                          /\ game_states'[h].players[i] = d
                          /\ clients'[d].game_state # NULL
                          /\ d \in Spared => clients'[d].game_state = h
      BY PointersNamedNext
    <2>1. clients[d].player # NoPlayer /\ (clients[d].taken \/ d \in Spared)
      BY <1>1
    <2>2. PICK g \in Games, i \in Seats :
            /\ clients[d].player = [game |-> g, seat |-> i]
            /\ Live(g) /\ i \in Active(g) /\ game_states[g].players[i] = d
            /\ clients[d].game_state # NULL
            /\ d \in Spared => clients[d].game_state = g
      BY <2>1, Pointed
    <2> QED
      BY <1>1, <1>2, <2>2
  <1>4. SparedPointBack'
    <2> SUFFICES ASSUME NEW g \in Games, Live(g)', NEW i \in Active(g)',
                        game_states'[g].players[i] \in Spared
                 PROVE  clients'[game_states'[g].players[i]].player = [game |-> g, seat |-> i]
      BY DEF SparedPointBack
    <2> DEFINE d == game_states[g].players[i]
    <2>1. Live(g) /\ i \in Active(g) /\ game_states'[g].players[i] = d
      BY <1>2
    <2>2. d \in Spared /\ d \in Clients
      BY <2>1, SparedClients
    <2>3. clients[d].player = [game |-> g, seat |-> i]
      BY <2>1, <2>2 DEF Links, SparedPointBack
    <2> QED
      BY <1>1, <2>1, <2>2, <2>3
  <1>5. UnusedEntries'
    BY <1>2 DEF Links, UnusedEntries
  <1>6. SeatedInLobby'
    <2> SUFFICES ASSUME NEW l \in Lobbies, NEW i \in Seats, lobbies[l].clients[i] \in Spared
                 PROVE  LET d == lobbies[l].clients[i] IN
                          /\ clients'[d].lobby = l /\ clients'[d].state = "LOBBY"
                          /\ clients'[d].game_state = NULL
                          /\ \A j \in Seats : lobbies[l].clients[j] = d => j = i
      BY DEF SeatedInLobby
    <2> DEFINE d == lobbies[l].clients[i]
    <2>1. /\ clients[d].lobby = l /\ clients[d].state = "LOBBY" /\ clients[d].game_state = NULL
          /\ \A j \in Seats : lobbies[l].clients[j] = d => j = i
      BY DEF Links, SeatedInLobby
    <2>2. clients[d].player = NoPlayer
      BY <2>1, Unnamed
    <2> QED
      BY <1>1, <2>1, <2>2, SparedClients
  <1>7. NoPointersBeforeLobby'
    BY <1>1, SparedClients DEF Links, NoPointersBeforeLobby
  <1>8. PlayersInGame'
    BY <1>1, SparedClients DEF Links, PlayersInGame
  <1>9. PlayerlessGameTaken'
    <2> SUFFICES ASSUME NEW d \in Spared, clients'[d].game_state # NULL,
                        clients'[d].player = NoPlayer
                 PROVE  game_states'[clients'[d].game_state].status = "TAKEN"
      BY DEF PlayerlessGameTaken
    <2>1. clients[d].game_state \in Games /\ clients[d].game_state # NULL
      BY <1>1, ClientFields, SparedClients
    <2>2. game_states[clients[d].game_state].status = "TAKEN"
      BY <1>1, <2>1, SparedClients DEF Links, PlayerlessGameTaken
    <2>3. clients'[d].game_state = clients[d].game_state
      BY <1>1, SparedClients
    <2> QED
      BY <2>1, <2>2, <2>3 DEF Live
  <1>10. TablesFull => GameStatesFull'
    BY <1>2 DEF Links, GameStatesFull
  <1> QED
    BY <1>3, <1>4, <1>5, <1>6, <1>7, <1>8, <1>9, <1>10 DEF Links

(* A game without connected players is freed: nobody points at it. *)
LEMMA FreeLinks ==
    ASSUME TypeOK, Links, NEW g \in Games, game_states[g].status = "STATISTICS",
           AllPlayersDisconnected(g), SetStatus(g, "FREE"), UNCHANGED <<clients, lobbies>>
    PROVE  Links'
  <1>1. \A h \in Games :
          /\ game_states'[h].players = game_states[h].players
          /\ game_states'[h].player_count = game_states[h].player_count
          /\ h # g => game_states'[h].status = game_states[h].status
    BY GameFields DEF SetStatus, TypeOK, GameType
  <1>2. Live(g) /\ ~Live(g)'
    BY DEF SetStatus, Live, TypeOK
  <1>3. \A h \in Games \ {g} : (Live(h)' <=> Live(h)) /\ Active(h)' = Active(h)
    BY <1>1 DEF Live, Active
  <1>4. PointersNamed'
    <2> SUFFICES ASSUME NEW d \in Clients, clients'[d].player # NoPlayer,
                        clients'[d].taken \/ d \in Spared
                 PROVE  \E h \in Games, i \in Seats :
                          /\ clients'[d].player = [game |-> h, seat |-> i]
                          /\ Live(h)' /\ i \in Active(h)'
                          /\ game_states'[h].players[i] = d
                          /\ clients'[d].game_state # NULL
                          /\ d \in Spared => clients'[d].game_state = h
      BY PointersNamedNext
    <2>1. PICK h \in Games, i \in Seats :
            /\ clients[d].player = [game |-> h, seat |-> i]
            /\ Live(h) /\ i \in Active(h) /\ game_states[h].players[i] = d
            /\ clients[d].game_state # NULL
            /\ d \in Spared => clients[d].game_state = h
      BY Pointed
    <2>2. h # g
      BY <2>1, NullIsNoIndex DEF AllPlayersDisconnected
    <2> QED
      BY <1>1, <1>3, <2>1, <2>2
  <1>5. SparedPointBack'
    BY <1>1, <1>2, <1>3 DEF Links, SparedPointBack
  <1>6. UnusedEntries'
    BY <1>1, <1>2, <1>3 DEF Links, UnusedEntries, AllPlayersDisconnected
  <1>7. SeatedInLobby' /\ NoPointersBeforeLobby' /\ PlayersInGame'
    BY DEF Links, SeatedInLobby, NoPointersBeforeLobby, PlayersInGame
  <1>8. PlayerlessGameTaken'
    <2> SUFFICES ASSUME NEW d \in Spared, clients[d].game_state # NULL,
                        clients[d].player = NoPlayer
                 PROVE  game_states'[clients[d].game_state].status = "TAKEN"
      BY DEF PlayerlessGameTaken
    <2>1. clients[d].game_state \in Games
      BY ClientFields, SparedClients
    <2>2. game_states[clients[d].game_state].status = "TAKEN"
      BY DEF Links, PlayerlessGameTaken
    <2> QED
      BY <1>1, <2>1, <2>2
  <1>9. TablesFull => GameStatesFull'
    BY <1>1, <1>2, <1>3 DEF Links, GameStatesFull
  <1> QED
    BY <1>4, <1>5, <1>6, <1>7, <1>8, <1>9 DEF Links

(* A client without links gets a new state, before it is in the lobby.     *)
LEMMA FreshLinks ==
    ASSUME TypeOK, Links, NEW c \in Clients, UNCHANGED <<lobbies, game_states>>,
           c \in Spared => clients[c].state \in {"JOIN", "MENU"},
           \A d \in Clients \ {c} : clients'[d] = clients[d],
           \/ /\ clients'[c].lobby = NULL
              /\ clients'[c].game_state = NULL /\ clients'[c].player = NoPlayer
           \/ /\ clients'[c].taken = clients[c].taken /\ clients'[c].lobby = clients[c].lobby
              /\ clients'[c].game_state = clients[c].game_state
              /\ clients'[c].player = clients[c].player
    PROVE  Links'
  <1>1. c \in Spared => /\ clients[c].lobby = NULL /\ clients[c].game_state = NULL
                        /\ clients[c].player = NoPlayer
    BY Unnamed DEF Links, NoPointersBeforeLobby
  <1>2. c \in Spared => /\ clients'[c].lobby = NULL /\ clients'[c].game_state = NULL
                        /\ clients'[c].player = NoPlayer
    BY <1>1
  <1>3. c \in Spared =>
          /\ \A g \in Games, i \in Seats : Live(g) => game_states[g].players[i] # c
          /\ \A l \in Lobbies, i \in Seats : lobbies[l].clients[i] # c
    BY <1>1, Unnamed
  <1>4. PointersNamed'
    <2> SUFFICES ASSUME NEW d \in Clients, clients'[d].player # NoPlayer,
                        clients'[d].taken \/ d \in Spared
                 PROVE  \E h \in Games, i \in Seats :
                          /\ clients'[d].player = [game |-> h, seat |-> i]
                          /\ Live(h)' /\ i \in Active(h)'
                          /\ game_states'[h].players[i] = d
                          /\ clients'[d].game_state # NULL
                          /\ d \in Spared => clients'[d].game_state = h
      BY PointersNamedNext
    <2>1. /\ clients'[d].player = clients[d].player
          /\ clients'[d].game_state = clients[d].game_state
          /\ clients[d].taken \/ d \in Spared
      OBVIOUS
    <2>2. PICK h \in Games, i \in Seats :
            /\ clients[d].player = [game |-> h, seat |-> i]
            /\ Live(h) /\ i \in Active(h) /\ game_states[h].players[i] = d
            /\ clients[d].game_state # NULL
            /\ d \in Spared => clients[d].game_state = h
      BY <2>1, Pointed
    <2> QED
      BY <2>1, <2>2 DEF Live, Active
  <1>5. SparedPointBack'
    <2> SUFFICES ASSUME NEW g \in Games, Live(g)', NEW i \in Active(g)',
                        game_states'[g].players[i] \in Spared
                 PROVE  clients'[game_states'[g].players[i]].player = [game |-> g, seat |-> i]
      BY DEF SparedPointBack
    <2> DEFINE d == game_states[g].players[i]
    <2>1. Live(g) /\ i \in Active(g) /\ i \in Seats
      BY ActiveSeats DEF Live, Active
    <2>2. d \in Spared /\ d \in Clients /\ d # c
      BY <1>3, <2>1, SparedClients
    <2>3. clients[d].player = [game |-> g, seat |-> i]
      BY <2>1, <2>2 DEF Links, SparedPointBack
    <2> QED
      BY <2>2, <2>3
  <1>6. UnusedEntries'
    BY DEF Links, UnusedEntries, Live, Active
  <1>7. SeatedInLobby'
    BY <1>3, SparedClients DEF Links, SeatedInLobby
  <1>8. NoPointersBeforeLobby' /\ PlayersInGame' /\ PlayerlessGameTaken'
    BY <1>2, SparedClients
    DEF Links, NoPointersBeforeLobby, PlayersInGame, PlayerlessGameTaken
  <1>9. TablesFull => GameStatesFull'
    BY DEF Links, GameStatesFull, Live
  <1> QED
    BY <1>4, <1>5, <1>6, <1>7, <1>8, <1>9 DEF Links

(* AddClientToLobby keeps the links. *)
LEMMA AddClientLinks ==
    ASSUME TypeOK, Links, NEW c \in Clients, c \in Spared => clients[c].state = "MENU",
           AddClientToLobby(c)
    PROVE  Links'
  <1> DEFINE m == recv[c].lobby
             S == {i \in 0 .. LobbySize[m] - 1 : lobbies[m].clients[i] = NULL}
  <1>1. /\ clients' = [clients EXCEPT ![c].lobby = m, ![c].state = "LOBBY"]
        /\ lobbies' = [lobbies EXCEPT ![m] =
               [client_count |-> IF S = {} THEN @.client_count ELSE @.client_count + 1,
                clients |-> [i \in Seats |-> IF IsFirst(i, S) THEN c ELSE @.clients[i]]]]
        /\ UNCHANGED game_states
        /\ recv[c].at = "spin"
    BY DEF AddClientToLobby
  <1>2. m \in Lobbies
    BY <1>1, RecvFields DEF TypeOK
  <1>3. \A i, j \in Seats : IsFirst(i, S) /\ IsFirst(j, S) => i = j
    BY ServerAssumption DEF IsFirst, Seats
  <1> HIDE DEF S, m
  <1>4. /\ \A d \in Clients \ {c} : clients'[d] = clients[d]
        /\ clients'[c].state = "LOBBY" /\ clients'[c].lobby = m
        /\ clients'[c].taken = clients[c].taken
        /\ clients'[c].game_state = clients[c].game_state
        /\ clients'[c].player = clients[c].player
    <2>1. clients[c] \in ClientType
      BY ClientFields
    <2> QED
      BY <1>1, <2>1 DEF TypeOK, ClientType
  <1>5. \A l \in Lobbies, i \in Seats : lobbies'[l].clients[i] =
           IF l = m /\ IsFirst(i, S) THEN c ELSE lobbies[l].clients[i]
    BY <1>1 DEF TypeOK
  <1>6. c \in Spared => clients[c].game_state = NULL /\ clients[c].player = NoPlayer
    BY Unnamed DEF Links, NoPointersBeforeLobby
  <1>7. c \in Spared =>
          /\ \A g \in Games, i \in Seats : Live(g) => game_states[g].players[i] # c
          /\ \A l \in Lobbies, i \in Seats : lobbies[l].clients[i] # c
    BY <1>6, Unnamed
  <1>8. PointersNamed'
    <2> SUFFICES ASSUME NEW d \in Clients, clients'[d].player # NoPlayer,
                        clients'[d].taken \/ d \in Spared
                 PROVE  \E h \in Games, i \in Seats :
                          /\ clients'[d].player = [game |-> h, seat |-> i]
                          /\ Live(h)' /\ i \in Active(h)'
                          /\ game_states'[h].players[i] = d
                          /\ clients'[d].game_state # NULL
                          /\ d \in Spared => clients'[d].game_state = h
      BY PointersNamedNext
    <2>1. /\ clients'[d].player = clients[d].player
          /\ clients'[d].game_state = clients[d].game_state
          /\ clients[d].taken \/ d \in Spared
      BY <1>4
    <2>2. PICK h \in Games, i \in Seats :
            /\ clients[d].player = [game |-> h, seat |-> i]
            /\ Live(h) /\ i \in Active(h) /\ game_states[h].players[i] = d
            /\ clients[d].game_state # NULL
            /\ d \in Spared => clients[d].game_state = h
      BY <2>1, Pointed
    <2> QED
      BY <1>1, <2>1, <2>2 DEF Live, Active
  <1>9. SparedPointBack'
    <2> SUFFICES ASSUME NEW g \in Games, Live(g)', NEW i \in Active(g)',
                        game_states'[g].players[i] \in Spared
                 PROVE  clients'[game_states'[g].players[i]].player = [game |-> g, seat |-> i]
      BY DEF SparedPointBack
    <2> DEFINE d == game_states[g].players[i]
    <2>1. Live(g) /\ i \in Active(g) /\ i \in Seats /\ game_states' = game_states
      BY <1>1, ActiveSeats DEF Live, Active
    <2>2. d \in Spared /\ d \in Clients /\ d # c
      BY <1>7, <2>1, SparedClients
    <2>3. clients[d].player = [game |-> g, seat |-> i]
      BY <2>1, <2>2 DEF Links, SparedPointBack
    <2> QED
      BY <1>4, <2>1, <2>2, <2>3
  <1>10. UnusedEntries'
    BY <1>1 DEF Links, UnusedEntries, Live, Active
  <1>11. SeatedInLobby'
    <2> SUFFICES ASSUME NEW l \in Lobbies, NEW i \in Seats, lobbies'[l].clients[i] \in Spared
                 PROVE  LET d == lobbies'[l].clients[i] IN
                          /\ clients'[d].lobby = l /\ clients'[d].state = "LOBBY"
                          /\ clients'[d].game_state = NULL
                          /\ \A j \in Seats : lobbies'[l].clients[j] = d => j = i
      BY DEF SeatedInLobby
    <2>1. CASE l = m /\ IsFirst(i, S)
      <3>1. lobbies'[l].clients[i] = c /\ c \in Spared
        BY <1>5, <2>1
      <3>2. \A j \in Seats : lobbies'[l].clients[j] = c => j = i
        BY <1>3, <1>5, <1>7, <2>1, <3>1
      <3> QED
        BY <1>4, <1>6, <2>1, <3>1, <3>2
    <2>2. CASE ~(l = m /\ IsFirst(i, S))
      <3> DEFINE d == lobbies[l].clients[i]
      <3>1. lobbies'[l].clients[i] = d /\ d \in Spared /\ d # c /\ d \in Clients
        BY <1>5, <1>7, <2>2, SparedClients
      <3>2. /\ clients[d].lobby = l /\ clients[d].state = "LOBBY" /\ clients[d].game_state = NULL
            /\ \A j \in Seats : lobbies[l].clients[j] = d => j = i
        BY <3>1 DEF Links, SeatedInLobby
      <3>3. \A j \in Seats : lobbies'[l].clients[j] = d => lobbies[l].clients[j] = d
        BY <1>5, <3>1
      <3> QED
        BY <1>4, <3>1, <3>2, <3>3
    <2> QED
      BY <2>1, <2>2
  <1>12. NoPointersBeforeLobby'
    BY <1>4, SparedClients DEF Links, NoPointersBeforeLobby
  <1>13. PlayersInGame'
    BY <1>4, <1>6, SparedClients DEF Links, PlayersInGame
  <1>14. PlayerlessGameTaken'
    BY <1>1, <1>4, <1>6, SparedClients DEF Links, PlayerlessGameTaken
  <1>15. TablesFull => GameStatesFull'
    BY <1>1 DEF Links, GameStatesFull, Live
  <1> QED
    BY <1>8, <1>9, <1>10, <1>11, <1>12, <1>13, <1>14, <1>15 DEF Links

-----------------------------------------------------------------------------
(* Places of a lobby *)

(* The places of a lobby can be counted. *)
LEMMA PlacesFinite ==
    ASSUME NEW l \in Lobbies
    PROVE  /\ IsFiniteSet(0 .. LobbySize[l] - 1)
           /\ Cardinality(0 .. LobbySize[l] - 1) = LobbySize[l]
  <1> DEFINE n == LobbySize[l]
  <1>1. n \in Nat \ {0}
    BY SlotsAreSeats
  <1> HIDE DEF n
  <1>2. 0 \in Int /\ n - 1 \in Int
    BY <1>1
  <1>3. /\ IsFiniteSet(0 .. n - 1)
        /\ Cardinality(0 .. n - 1) = IF 0 > n - 1 THEN 0 ELSE (n - 1) - 0 + 1
    BY <1>2, FS_Interval
  <1>4. IsFiniteSet(0 .. n - 1) /\ Cardinality(0 .. n - 1) = n
    BY <1>1, <1>3
  <1> QED
    BY <1>4 DEF n

(* A lobby is as full as it can be when every place is occupied.           *)
LEMMA OccupiedBound ==
    ASSUME LobbyCounts, NEW l \in Lobbies
    PROVE  /\ IsFiniteSet(Occupied(l))
           /\ lobbies[l].client_count \in 0 .. LobbySize[l]
           /\ lobbies[l].client_count = LobbySize[l] <=> Occupied(l) = 0 .. LobbySize[l] - 1
  <1> DEFINE n == LobbySize[l]
  <1>1. IsFiniteSet(0 .. n - 1) /\ Cardinality(0 .. n - 1) = n /\ n \in Nat
    BY PlacesFinite, SlotsAreSeats
  <1>2. Occupied(l) \subseteq 0 .. n - 1 /\ lobbies[l].client_count = Cardinality(Occupied(l))
    BY DEF LobbyCounts
  <1> HIDE DEF n
  <1>3. /\ IsFiniteSet(Occupied(l))
        /\ Cardinality(Occupied(l)) <= n
        /\ Cardinality(0 .. n - 1) = Cardinality(Occupied(l)) => 0 .. n - 1 = Occupied(l)
    BY <1>1, <1>2, FS_Subset
  <1>4. Cardinality(Occupied(l)) \in Nat
    BY <1>3, FS_CardinalityType
  <1>5. lobbies[l].client_count \in 0 .. n
    BY <1>1, <1>2, <1>3, <1>4
  <1>6. lobbies[l].client_count = n <=> Occupied(l) = 0 .. n - 1
    BY <1>1, <1>2, <1>3
  <1> QED
    BY <1>3, <1>5, <1>6 DEF n

(* What a step that takes or gives back one place does to the counts.      *)
LEMMA CountsNext ==
    ASSUME LobbyCounts,
           \A l \in Lobbies :
              \/ /\ lobbies'[l].client_count = lobbies[l].client_count
                 /\ \A i \in Seats : lobbies'[l].clients[i] = lobbies[l].clients[i]
              \/ \E k \in 0 .. LobbySize[l] - 1 :
                   /\ lobbies[l].clients[k] = NULL /\ lobbies'[l].clients[k] # NULL
                   /\ lobbies'[l].client_count = lobbies[l].client_count + 1
                   /\ \A i \in Seats \ {k} : lobbies'[l].clients[i] = lobbies[l].clients[i]
              \/ \E k \in Seats :
                   /\ lobbies[l].clients[k] # NULL /\ lobbies'[l].clients[k] = NULL
                   /\ lobbies'[l].client_count = lobbies[l].client_count - 1
                   /\ \A i \in Seats \ {k} : lobbies'[l].clients[i] = lobbies[l].clients[i]
    PROVE  LobbyCounts'
  <1> SUFFICES ASSUME NEW l \in Lobbies
               PROVE  /\ lobbies'[l].client_count = Cardinality(Occupied(l)')
                      /\ Occupied(l)' \subseteq 0 .. LobbySize[l] - 1
    BY DEF LobbyCounts
  <1>1. /\ IsFiniteSet(Occupied(l)) /\ lobbies[l].client_count = Cardinality(Occupied(l))
        /\ Occupied(l) \subseteq 0 .. LobbySize[l] - 1
    BY OccupiedBound DEF LobbyCounts
  <1>2. CASE /\ lobbies'[l].client_count = lobbies[l].client_count
             /\ \A i \in Seats : lobbies'[l].clients[i] = lobbies[l].clients[i]
    <2>1. Occupied(l)' = Occupied(l)
      BY <1>2 DEF Occupied
    <2> QED
      BY <1>1, <1>2, <2>1
  <1>3. ASSUME NEW k \in 0 .. LobbySize[l] - 1,
               lobbies[l].clients[k] = NULL, lobbies'[l].clients[k] # NULL,
               lobbies'[l].client_count = lobbies[l].client_count + 1,
               \A i \in Seats \ {k} : lobbies'[l].clients[i] = lobbies[l].clients[i]
        PROVE  /\ lobbies'[l].client_count = Cardinality(Occupied(l)')
               /\ Occupied(l)' \subseteq 0 .. LobbySize[l] - 1
    <2>1. Occupied(l)' = Occupied(l) \cup {k} /\ k \notin Occupied(l)
      BY <1>3, SlotsAreSeats DEF Occupied
    <2>2. Cardinality(Occupied(l) \cup {k}) = Cardinality(Occupied(l)) + 1
      BY <1>1, <2>1, FS_AddElement
    <2> QED
      BY <1>1, <1>3, <2>1, <2>2
  <1>4. ASSUME NEW k \in Seats,
               lobbies[l].clients[k] # NULL, lobbies'[l].clients[k] = NULL,
               lobbies'[l].client_count = lobbies[l].client_count - 1,
               \A i \in Seats \ {k} : lobbies'[l].clients[i] = lobbies[l].clients[i]
        PROVE  /\ lobbies'[l].client_count = Cardinality(Occupied(l)')
               /\ Occupied(l)' \subseteq 0 .. LobbySize[l] - 1
    <2>1. Occupied(l)' = Occupied(l) \ {k} /\ k \in Occupied(l)
      BY <1>4 DEF Occupied
    <2> QED
      BY <1>1, <1>4, <2>1, FS_RemoveElement
  <1> QED
    BY <1>2, <1>3, <1>4

(* A step that leaves the lobbies alone leaves their counts right. *)
LEMMA CountsUnchanged == LobbyCounts /\ UNCHANGED lobbies => LobbyCounts'
  BY DEF LobbyCounts, Occupied

(* A client that leaves a lobby is taken off its count, once. *)
LEMMA ResetCounts ==
    ASSUME TypeOK, LobbyCounts,
           NEW c \in Clients, NEW taken \in BOOLEAN, ResetClient(c, taken)
    PROVE  LobbyCounts'
  <1> DEFINE m == clients[c].lobby
             S == {j \in Seats : lobbies[m].clients[j] = c}
  <1>1. CASE m = NULL \/ S = {}
    BY <1>1, CountsUnchanged DEF ResetClient, LobbiesWithout
  <1>2. CASE m # NULL /\ S # {}
    <2>1. m \in Lobbies
      BY <1>2, ClientFields
    <2>2. lobbies' = [lobbies EXCEPT ![m] =
              [client_count |-> @.client_count - 1,
               clients |-> [j \in Seats |-> IF IsFirst(j, S) THEN NULL ELSE @.clients[j]]]]
      BY <1>2 DEF ResetClient, LobbiesWithout
    <2>3. PICK k \in S : IsFirst(k, S)
      <3>1. S \subseteq Seats
        OBVIOUS
      <3> HIDE DEF S
      <3> QED
        BY <1>2, <3>1, FirstExists
    <2>4. k \in Seats /\ lobbies[m].clients[k] = c /\ c # NULL
      BY NullIsNoIndex
    <2>5. \A j \in Seats : IsFirst(j, S) <=> j = k
      BY <2>3, ServerAssumption DEF IsFirst, Seats
    <2> HIDE DEF S, m
    <2>6. /\ lobbies'[m].client_count = lobbies[m].client_count - 1
          /\ lobbies'[m].clients[k] = NULL
          /\ \A i \in Seats \ {k} : lobbies'[m].clients[i] = lobbies[m].clients[i]
          /\ \A l \in Lobbies \ {m} : lobbies'[l] = lobbies[l]
      BY <2>1, <2>2, <2>4, <2>5 DEF TypeOK
    <2> QED
      BY <2>1, <2>4, <2>6, CountsNext
  <1> QED
    BY <1>1, <1>2

(* A client that enters a lobby is added to its count. *)
LEMMA AddClientCounts ==
    ASSUME TypeOK, LobbyCounts, NEW c \in Clients, AddClientToLobby(c)
    PROVE  LobbyCounts'
  <1> DEFINE m == recv[c].lobby
             S == {i \in 0 .. LobbySize[m] - 1 : lobbies[m].clients[i] = NULL}
  <1>1. /\ lobbies' = [lobbies EXCEPT ![m] =
               [client_count |-> IF S = {} THEN @.client_count ELSE @.client_count + 1,
                clients |-> [i \in Seats |-> IF IsFirst(i, S) THEN c ELSE @.clients[i]]]]
        /\ lobbies[m].client_count # LobbySize[m]
        /\ recv[c].at = "spin"
    BY DEF AddClientToLobby
  <1>2. m \in Lobbies /\ c # NULL
    BY <1>1, RecvFields, NullIsNoIndex DEF TypeOK
  <1>3. S = (0 .. LobbySize[m] - 1) \ Occupied(m) /\ S \subseteq Seats
    BY <1>2, SlotsAreSeats DEF Occupied
  <1>4. S # {}
    BY <1>1, <1>2, <1>3, OccupiedBound DEF LobbyCounts
  <1>5. PICK k \in S : IsFirst(k, S)
    <2> HIDE DEF S
    <2> QED
      BY <1>3, <1>4, FirstExists
  <1>6. k \in 0 .. LobbySize[m] - 1 /\ k \in Seats /\ lobbies[m].clients[k] = NULL
    BY <1>3
  <1>7. \A j \in Seats : IsFirst(j, S) <=> j = k
    BY <1>3, <1>5, ServerAssumption DEF IsFirst, Seats
  <1> HIDE DEF S, m
  <1>8. /\ lobbies'[m].client_count = lobbies[m].client_count + 1
        /\ lobbies'[m].clients[k] = c
        /\ \A i \in Seats \ {k} : lobbies'[m].clients[i] = lobbies[m].clients[i]
        /\ \A l \in Lobbies \ {m} : lobbies'[l] = lobbies[l]
    BY <1>1, <1>2, <1>4, <1>6, <1>7 DEF TypeOK
  <1> QED
    BY <1>2, <1>6, <1>8, CountsNext

-----------------------------------------------------------------------------
(* The start of a game *)

(* The clients that a start deals into a game sit in the lobby; the spared *)
(* ones point nowhere else.                                                *)
LEMMA DealtSeated ==
    ASSUME TypeOK, Links, LobbyCounts, NEW l \in Lobbies, NEW c \in Spared, c \in Dealt(l)
    PROVE  /\ \E i \in Seats : lobbies[l].clients[i] = c
           /\ clients[c].lobby = l /\ clients[c].state = "LOBBY"
           /\ clients[c].game_state = NULL /\ clients[c].player = NoPlayer
  <1>1. PICK i \in 0 .. lobbies[l].client_count - 1 : lobbies[l].clients[i] = c
    BY DEF Dealt
  <1>2. i \in 0 .. LobbySize[l] - 1
    BY <1>1, OccupiedBound, SlotsAreSeats
  <1>3. i \in Seats
    BY <1>2, SlotsAreSeats
  <1>4. clients[c].lobby = l /\ clients[c].state = "LOBBY" /\ clients[c].game_state = NULL
    BY <1>1, <1>3 DEF Links, SeatedInLobby
  <1> QED
    BY <1>1, <1>3, <1>4, Unnamed

(* update_lobby with a lobby that is still full: every place becomes a     *)
(* player of the new game, the rest of players[] stays.                    *)
Started(l, g) ==
    /\ \A c \in Clients \ Dealt(l) : clients'[c] = clients[c]
    /\ \A c \in Clients \cap Dealt(l) : \E i \in 0 .. LobbySize[l] - 1 :
         /\ lobbies[l].clients[i] = c
         /\ clients'[c].player = [game |-> g, seat |-> i]
         /\ clients'[c].lobby = NULL /\ clients'[c].game_state = g
         /\ clients'[c].state = "LOADING" /\ clients'[c].taken = clients[c].taken
    /\ \A i \in 0 .. LobbySize[l] - 1 :
         /\ lobbies[l].clients[i] \in Clients \cap Dealt(l)
         /\ game_states'[g].players[i] = IdOf(lobbies[l].clients[i])
    /\ \A i \in Seats \ (0 .. LobbySize[l] - 1) :
         game_states'[g].players[i] = game_states[g].players[i]
    /\ game_states'[g].status = "LOADING" /\ game_states'[g].player_count = LobbySize[l]
    /\ \A h \in Games \ {g} : game_states'[h] = game_states[h]
    /\ \A i \in Seats : lobbies'[l].clients[i] = NULL
    /\ \A m \in Lobbies \ {l} : lobbies'[m] = lobbies[m]

(* update_lobby with a lobby that somebody has left since it was found     *)
(* full: those who are left are taken out of it, and the record is wasted. *)
Wasted(l, g) ==
    /\ \A c \in Clients \ Dealt(l) : clients'[c] = clients[c]
    /\ \A c \in Clients \cap Dealt(l) :
         /\ clients'[c].player = clients[c].player
         /\ clients'[c].lobby = NULL /\ clients'[c].game_state = g
         /\ clients'[c].state = "LOADING" /\ clients'[c].taken = clients[c].taken
    /\ game_states'[g].status = "TAKEN" /\ game_states'[g].players = game_states[g].players
    /\ \A h \in Games \ {g} : game_states'[h] = game_states[h]
    /\ \A i \in Seats : lobbies'[l].clients[i] = NULL
    /\ \A m \in Lobbies \ {l} : lobbies'[m] = lobbies[m]

(* What StartGame does to clients, lobbies and games. *)
LEMMA StartEffect ==
    ASSUME TypeOK, LobbyCounts, StartGame
    PROVE  \/ UNCHANGED <<clients, lobbies, game_states>>
           \/ \E l \in Lobbies, g \in Games :
                /\ game_states[g].status = "FREE"
                /\ Started(l, g) \/ Wasted(l, g)
  <1> DEFINE l == gl.unit
             n == LobbySize[l]
  <1>1. l \in Lobbies
    BY LoopFields DEF StartGame, TypeOK
  <1>2. CASE UNCHANGED <<clients, lobbies, game_states>>
    BY <1>2
  <1>3. ASSUME NEW g \in Games,
               lobbies' = [lobbies EXCEPT ![l] = EmptyLobby],
               lobbies[l].client_count = n,
               clients' = [c \in Clients |->
                   IF c \notin Dealt(l) THEN clients[c]
                   ELSE [Deal(c, g) EXCEPT !.player = [game |-> g, seat |-> SeatOf(c, l)]]],
               game_states' = [game_states EXCEPT ![g] = InitGame(g, l, n)]
        PROVE  Started(l, g)
    <2>1. n \in 1 .. MaxPlayers /\ n \in Int /\ 0 .. n - 1 \subseteq Seats
      BY <1>1, SlotsAreSeats
    <2>2. Occupied(l) = 0 .. n - 1
      BY <1>1, <1>3, OccupiedBound
    <2> HIDE DEF l
    <2>3. \A i \in 0 .. n - 1 : lobbies[l].clients[i] \in Clients
      BY <1>1, <2>2, LobbyFields DEF Occupied
    <2>4. Dealt(l) = {lobbies[l].clients[i] : i \in 0 .. n - 1}
      BY <1>3 DEF Dealt
    <2>5. \A i \in 0 .. n - 1 : lobbies[l].clients[i] \in Clients \cap Dealt(l)
      BY <2>3, <2>4
    <2>6. \A c \in Clients \ Dealt(l) : clients'[c] = clients[c]
      BY <1>3
    <2>7. ASSUME NEW c \in Clients \cap Dealt(l)
          PROVE  \E i \in 0 .. n - 1 :
                   /\ lobbies[l].clients[i] = c
                   /\ clients'[c].player = [game |-> g, seat |-> i]
                   /\ clients'[c].lobby = NULL /\ clients'[c].game_state = g
                   /\ clients'[c].state = "LOADING" /\ clients'[c].taken = clients[c].taken
      <3> DEFINE i == SeatOf(c, l)
      <3>1. i \in 0 .. n - 1 /\ lobbies[l].clients[i] = c
        BY <1>1, <2>4, SeatOfPlace
      <3> HIDE DEF i
      <3>2. clients'[c] = [Deal(c, g) EXCEPT !.player = [game |-> g, seat |-> i]]
        BY <1>3 DEF i
      <3>3. clients[c] \in ClientType
        BY ClientFields
      <3>4. clients'[c] = [taken |-> clients[c].taken, state |-> "LOADING", lobby |-> NULL,
                           game_state |-> g, player |-> [game |-> g, seat |-> i]]
        BY <3>2, <3>3 DEF Deal, ClientType
      <3> QED
        BY <3>1, <3>4
    <2>8. game_states'[g] = InitGame(g, l, n)
      BY <1>3 DEF TypeOK
    <2>9. game_states[g] \in GameType
      BY GameFields
    <2> HIDE DEF n
    <2>10. /\ game_states'[g].status = "LOADING"
           /\ game_states'[g].player_count = n
           /\ game_states'[g].players = [i \in Seats |->
                  IF i < n THEN IdOf(lobbies[l].clients[i]) ELSE game_states[g].players[i]]
      BY <2>8, <2>9 DEF InitGame, GameType
    <2>11. /\ \A i \in 0 .. n - 1 :
                game_states'[g].players[i] = IdOf(lobbies[l].clients[i])
           /\ \A i \in Seats \ (0 .. n - 1) :
                game_states'[g].players[i] = game_states[g].players[i]
      BY <2>1, <2>10, ServerAssumption DEF Seats
    <2>12. \A h \in Games \ {g} : game_states'[h] = game_states[h]
      BY <1>3 DEF TypeOK
    <2>13. \A i \in Seats : lobbies'[l].clients[i] = NULL
      BY <1>1, <1>3 DEF TypeOK, EmptyLobby
    <2>14. \A m \in Lobbies \ {l} : lobbies'[m] = lobbies[m]
      BY <1>3 DEF TypeOK
    <2> QED
      BY <2>5, <2>6, <2>7, <2>10, <2>11, <2>12, <2>13, <2>14 DEF Started, n
  <1>4. ASSUME NEW g \in Games,
               lobbies' = [lobbies EXCEPT ![l] = EmptyLobby],
               clients' = [c \in Clients |->
                   IF c \notin Dealt(l) THEN clients[c] ELSE Deal(c, g)],
               game_states' = [game_states EXCEPT ![g].status = "TAKEN"]
        PROVE  Wasted(l, g)
    <2> HIDE DEF l
    <2>1. ASSUME NEW c \in Clients \cap Dealt(l)
          PROVE  /\ clients'[c].player = clients[c].player
                 /\ clients'[c].lobby = NULL /\ clients'[c].game_state = g
                 /\ clients'[c].state = "LOADING" /\ clients'[c].taken = clients[c].taken
      <3>1. clients[c] \in ClientType
        BY ClientFields
      <3>2. clients'[c] = Deal(c, g)
        BY <1>4
      <3> QED
        BY <3>1, <3>2 DEF Deal, ClientType
    <2>2. \A c \in Clients \ Dealt(l) : clients'[c] = clients[c]
      BY <1>4
    <2>3. game_states'[g].status = "TAKEN" /\ game_states'[g].players = game_states[g].players
      BY <1>4, GameFields DEF TypeOK, GameType
    <2>4. \A h \in Games \ {g} : game_states'[h] = game_states[h]
      BY <1>4 DEF TypeOK
    <2>5. \A i \in Seats : lobbies'[l].clients[i] = NULL
      BY <1>1, <1>4 DEF TypeOK, EmptyLobby
    <2>6. \A m \in Lobbies \ {l} : lobbies'[m] = lobbies[m]
      BY <1>4 DEF TypeOK
    <2> QED
      BY <2>1, <2>2, <2>3, <2>4, <2>5, <2>6 DEF Wasted
  <1>5. \/ UNCHANGED <<clients, lobbies, game_states>>
        \/ \E g \in Games :
             /\ game_states[g].status = "FREE"
             /\ lobbies' = [lobbies EXCEPT ![l] = EmptyLobby]
             /\ \/ /\ lobbies[l].client_count = n
                   /\ clients' = [c \in Clients |->
                        IF c \notin Dealt(l) THEN clients[c]
                        ELSE [Deal(c, g) EXCEPT
                                !.player = [game |-> g, seat |-> SeatOf(c, l)]]]
                   /\ game_states' = [game_states EXCEPT ![g] = InitGame(g, l, n)]
                \/ /\ clients' = [c \in Clients |->
                        IF c \notin Dealt(l) THEN clients[c] ELSE Deal(c, g)]
                   /\ game_states' = [game_states EXCEPT ![g].status = "TAKEN"]
    BY DEF StartGame, FreeGames
  <1> QED
    BY <1>1, <1>3, <1>4, <1>5

(* A start that succeeds keeps the links. *)
LEMMA StartedLinks ==
    ASSUME TypeOK, Links, LobbyCounts, RemovedIsReset, NEW l \in Lobbies, NEW g \in Games,
           game_states[g].status = "FREE", Started(l, g)
    PROVE  Links'
  <1> DEFINE Places == 0 .. LobbySize[l] - 1
  <1>1. \A d \in Clients \ Dealt(l) : clients'[d] = clients[d]
    BY DEF Started
  <1>2. \A d \in Clients \cap Dealt(l) : \E i \in Places :
          /\ lobbies[l].clients[i] = d
          /\ clients'[d].player = [game |-> g, seat |-> i]
          /\ clients'[d].lobby = NULL /\ clients'[d].game_state = g
          /\ clients'[d].state = "LOADING" /\ clients'[d].taken = clients[d].taken
    BY DEF Started
  <1>3. \A i \in Places : lobbies[l].clients[i] \in Clients \cap Dealt(l)
    BY DEF Started
  <1>4. /\ Live(g)' /\ Active(g)' = Places /\ game_states'[g].player_count = LobbySize[l]
        /\ \A i \in Places : game_states'[g].players[i] = IdOf(lobbies[l].clients[i])
        /\ \A i \in Seats \ Places : game_states'[g].players[i] = game_states[g].players[i]
    BY DEF Started, Live, Active
  <1>5. \A h \in Games \ {g} : game_states'[h] = game_states[h]
    BY DEF Started
  <1>6. \A h \in Games \ {g} : (Live(h)' <=> Live(h)) /\ Active(h)' = Active(h)
    BY <1>5 DEF Live, Active
  <1>7. /\ \A i \in Seats : lobbies'[l].clients[i] = NULL
        /\ \A m \in Lobbies \ {l} : lobbies'[m] = lobbies[m]
    BY DEF Started
  <1>8. ~Live(g) /\ g # NULL
    BY NullIsNoIndex DEF Live
  <1>9. Places \subseteq Seats
    BY SlotsAreSeats
  <1>10. \A i \in Seats : [game |-> g, seat |-> i] # NoPlayer
    BY NoPlayerIsNoEntry
  <1> HIDE DEF Places
  <1>d. ASSUME NEW d \in Clients, d \in Dealt(l)
        PROVE  \E i \in Places :
                 /\ lobbies[l].clients[i] = d
                 /\ clients'[d].player = [game |-> g, seat |-> i]
                 /\ clients'[d].player # NoPlayer
                 /\ clients'[d].lobby = NULL /\ clients'[d].game_state = g
                 /\ clients'[d].state = "LOADING" /\ clients'[d].taken = clients[d].taken
    <2>1. d \in Clients \cap Dealt(l)
      BY <1>d
    <2>2. PICK i \in Places :
            /\ lobbies[l].clients[i] = d
            /\ clients'[d].player = [game |-> g, seat |-> i]
            /\ clients'[d].lobby = NULL /\ clients'[d].game_state = g
            /\ clients'[d].state = "LOADING" /\ clients'[d].taken = clients[d].taken
      BY <1>2, <2>1
    <2> QED
      BY <1>9, <1>10, <2>2
  <1>s. \A d \in Spared : d \in Clients
    BY SparedClients
  <1>t. ASSUME NEW d \in Spared, d \in Dealt(l)
        PROVE  clients[d].taken
    <2>1. clients[d].state = "LOBBY"
      BY <1>t, DealtSeated
    <2> QED
      BY <1>s, <2>1 DEF RemovedIsReset
  <1>11. PointersNamed'
    <2> SUFFICES ASSUME NEW d \in Clients, clients'[d].player # NoPlayer,
                        clients'[d].taken \/ d \in Spared
                 PROVE  \E h \in Games, i \in Seats :
                          /\ clients'[d].player = [game |-> h, seat |-> i]
                          /\ Live(h)' /\ i \in Active(h)'
                          /\ game_states'[h].players[i] = d
                          /\ clients'[d].game_state # NULL
                          /\ d \in Spared => clients'[d].game_state = h
      BY PointersNamedNext
    <2>1. CASE d \in Dealt(l)
      <3>1. PICK i \in Places : /\ lobbies[l].clients[i] = d
                                /\ clients'[d].player = [game |-> g, seat |-> i]
                                /\ clients'[d].game_state = g
                                /\ clients'[d].taken = clients[d].taken
        BY <1>d, <2>1
      <3>2. clients[d].taken
        BY <1>t, <2>1, <3>1
      <3>3. game_states'[g].players[i] = d
        BY <1>4, <3>1, <3>2 DEF IdOf
      <3> QED
        BY <1>4, <1>8, <1>9, <3>1, <3>3
    <2>2. CASE d \notin Dealt(l)
      <3>1. clients'[d] = clients[d]
        BY <1>1, <2>2
      <3>2. PICK h \in Games, i \in Seats :
              /\ clients[d].player = [game |-> h, seat |-> i]
              /\ Live(h) /\ i \in Active(h)
              /\ game_states[h].players[i] = d
              /\ clients[d].game_state # NULL
              /\ d \in Spared => clients[d].game_state = h
        BY <3>1, Pointed
      <3>3. h # g
        BY <1>8, <3>2
      <3> QED
        BY <1>5, <1>6, <3>1, <3>2, <3>3
    <2> QED
      BY <2>1, <2>2
  <1>12. SparedPointBack'
    <2> SUFFICES ASSUME NEW h \in Games, Live(h)', NEW i \in Active(h)',
                        game_states'[h].players[i] \in Spared
                 PROVE  clients'[game_states'[h].players[i]].player = [game |-> h, seat |-> i]
      BY DEF SparedPointBack, Spared, TablesFull
    <2>1. CASE h = g
      <3> DEFINE d == lobbies[l].clients[i]
      <3>1. i \in Places /\ i \in Seats /\ game_states'[h].players[i] = IdOf(d)
        BY <1>4, <1>9, <2>1
      <3>2. d \in Clients \cap Dealt(l)
        BY <1>3, <3>1
      <3>3. IdOf(d) = d /\ d \in Spared
        BY <3>1, SparedClients DEF IdOf
      <3>4. PICK j \in Places : /\ lobbies[l].clients[j] = d
                                /\ clients'[d].player = [game |-> g, seat |-> j]
        BY <1>2, <3>2
      <3>5. j = i
        BY <1>9, <3>1, <3>3, <3>4 DEF Links, SeatedInLobby
      <3> QED
        BY <2>1, <3>1, <3>3, <3>4, <3>5
    <2>2. CASE h # g
      <3> DEFINE d == game_states[h].players[i]
      <3>1. Live(h) /\ i \in Active(h) /\ game_states'[h].players[i] = d /\ d \in Spared
        BY <1>5, <1>6, <2>2
      <3>2. i \in Seats
        BY <3>1, ActiveSeats
      <3>3. clients[d].player = [game |-> h, seat |-> i]
        BY <3>1 DEF Links, SparedPointBack
      <3>4. clients[d].player # NoPlayer
        BY <3>2, <3>3, NoPlayerIsNoEntry
      <3>5. d \notin Dealt(l)
        BY <3>1, <3>4, DealtSeated
      <3> QED
        BY <1>1, <1>s, <3>1, <3>3, <3>5
    <2> QED
      BY <2>1, <2>2
  <1>13. UnusedEntries'
    <2> SUFFICES ASSUME NEW h \in Games, NEW i \in Seats, ~(Live(h)' /\ i \in Active(h)')
                 PROVE  game_states'[h].players[i] \in {0, NULL}
      BY DEF UnusedEntries
    <2>1. CASE h = g
      <3>1. game_states'[g].players[i] = game_states[g].players[i]
        BY <1>4, <2>1
      <3> QED
        BY <1>8, <2>1, <3>1 DEF Links, UnusedEntries
    <2>2. CASE h # g
      BY <1>5, <1>6, <2>2 DEF Links, UnusedEntries
    <2> QED
      BY <2>1, <2>2
  <1>14. SeatedInLobby'
    <2> SUFFICES ASSUME NEW m \in Lobbies, NEW i \in Seats, lobbies'[m].clients[i] \in Spared
                 PROVE  LET d == lobbies'[m].clients[i] IN
                          /\ clients'[d].lobby = m /\ clients'[d].state = "LOBBY"
                          /\ clients'[d].game_state = NULL
                          /\ \A j \in Seats : lobbies'[m].clients[j] = d => j = i
      BY DEF SeatedInLobby, Spared, TablesFull
    <2> DEFINE d == lobbies[m].clients[i]
    <2>1. m # l /\ lobbies'[m] = lobbies[m] /\ d \in Spared
      BY <1>7, SparedClients
    <2>2. /\ clients[d].lobby = m /\ clients[d].state = "LOBBY" /\ clients[d].game_state = NULL
          /\ \A j \in Seats : lobbies[m].clients[j] = d => j = i
      BY <2>1 DEF Links, SeatedInLobby
    <2>3. d \notin Dealt(l)
      BY <2>1, <2>2, DealtSeated
    <2> QED
      BY <1>1, <1>s, <2>1, <2>2, <2>3
  <1>15. NoPointersBeforeLobby'
    <2> SUFFICES ASSUME NEW d \in Spared, clients'[d].state \in {"JOIN", "MENU"}
                 PROVE  clients'[d].lobby = NULL /\ clients'[d].game_state = NULL
      BY DEF NoPointersBeforeLobby, Spared, TablesFull
    <2>1. d \notin Dealt(l)
      BY <1>d, <1>s
    <2> QED
      BY <1>1, <1>s, <2>1 DEF Links, NoPointersBeforeLobby
  <1>16. PlayersInGame'
    <2> SUFFICES ASSUME NEW d \in Spared, clients'[d].player # NoPlayer
                 PROVE  /\ clients'[d].lobby = NULL
                        /\ clients'[d].state \in {"LOADING", "GAME", "STATISTICS"}
      BY DEF PlayersInGame, Spared, TablesFull
    <2>1. CASE d \in Dealt(l)
      BY <1>d, <1>s, <2>1
    <2>2. CASE d \notin Dealt(l)
      BY <1>1, <1>s, <2>2 DEF Links, PlayersInGame
    <2> QED
      BY <2>1, <2>2
  <1>17. PlayerlessGameTaken'
    <2> SUFFICES ASSUME NEW d \in Spared, clients'[d].game_state # NULL,
                        clients'[d].player = NoPlayer
                 PROVE  game_states'[clients'[d].game_state].status = "TAKEN"
      BY DEF PlayerlessGameTaken, Spared, TablesFull
    <2>1. clients'[d] = clients[d]
      BY <1>1, <1>d, <1>s
    <2>2. clients[d].game_state \in Games
      BY <1>s, <2>1, ClientFields
    <2>3. game_states[clients[d].game_state].status = "TAKEN"
      BY <2>1 DEF Links, PlayerlessGameTaken
    <2>4. clients[d].game_state # g
      BY <2>3
    <2> QED
      BY <1>5, <2>1, <2>2, <2>3, <2>4
  <1>18. (TablesFull => GameStatesFull)'
    <2> SUFFICES ASSUME TablesFull, NEW h \in Games, Live(h)'
                 PROVE  game_states'[h].player_count = MaxPlayers
      BY DEF GameStatesFull, TablesFull
    <2> QED
      BY <1>4, <1>5, <1>6 DEF Links, GameStatesFull, TablesFull
  <1> QED
    BY <1>11, <1>12, <1>13, <1>14, <1>15, <1>16, <1>17, <1>18 DEF Links

(* A start that init_game_* rejects keeps the links. *)
LEMMA WastedLinks ==
    ASSUME TypeOK, Links, LobbyCounts, NEW l \in Lobbies, NEW g \in Games,
           game_states[g].status = "FREE", Wasted(l, g)
    PROVE  Links'
  <1>1. /\ \A d \in Clients \ Dealt(l) : clients'[d] = clients[d]
        /\ \A d \in Clients \cap Dealt(l) :
             /\ clients'[d].player = clients[d].player
             /\ clients'[d].lobby = NULL /\ clients'[d].game_state = g
             /\ clients'[d].state = "LOADING" /\ clients'[d].taken = clients[d].taken
    BY DEF Wasted
  <1>2. /\ game_states'[g].status = "TAKEN" /\ game_states'[g].players = game_states[g].players
        /\ \A h \in Games \ {g} : game_states'[h] = game_states[h]
        /\ \A i \in Seats : lobbies'[l].clients[i] = NULL
        /\ \A m \in Lobbies \ {l} : lobbies'[m] = lobbies[m]
    BY DEF Wasted
  <1>3. ~Live(g) /\ ~Live(g)' /\ g # NULL
    BY <1>2, NullIsNoIndex DEF Live
  <1>4. \A h \in Games \ {g} : (Live(h)' <=> Live(h)) /\ Active(h)' = Active(h)
    BY <1>2 DEF Live, Active
  <1>s. \A d \in Spared : d \in Clients
    BY SparedClients
  <1>t. \A d \in Spared : d \in Dealt(l) => clients[d].player = NoPlayer
    BY DealtSeated
  <1>5. PointersNamed'
    <2> SUFFICES ASSUME NEW d \in Clients, clients'[d].player # NoPlayer,
                        clients'[d].taken \/ d \in Spared
                 PROVE  \E h \in Games, i \in Seats :
                          /\ clients'[d].player = [game |-> h, seat |-> i]
                          /\ Live(h)' /\ i \in Active(h)'
                          /\ game_states'[h].players[i] = d
                          /\ clients'[d].game_state # NULL
                          /\ d \in Spared => clients'[d].game_state = h
      BY PointersNamedNext
    <2>1. /\ clients'[d].player = clients[d].player /\ clients'[d].taken = clients[d].taken
          /\ clients'[d].game_state \in {g, clients[d].game_state}
          /\ d \in Spared => clients'[d].game_state = clients[d].game_state
      BY <1>1, <1>t
    <2>2. PICK h \in Games, i \in Seats :
            /\ clients[d].player = [game |-> h, seat |-> i]
            /\ Live(h) /\ i \in Active(h)
            /\ game_states[h].players[i] = d
            /\ clients[d].game_state # NULL
            /\ d \in Spared => clients[d].game_state = h
      BY <2>1, Pointed
    <2>3. h # g
      BY <1>3, <2>2
    <2> QED
      BY <1>2, <1>3, <1>4, <2>1, <2>2, <2>3
  <1>6. SparedPointBack'
    <2> SUFFICES ASSUME NEW h \in Games, Live(h)', NEW i \in Active(h)',
                        game_states'[h].players[i] \in Spared
                 PROVE  clients'[game_states'[h].players[i]].player = [game |-> h, seat |-> i]
      BY DEF SparedPointBack, Spared, TablesFull
    <2> DEFINE d == game_states[h].players[i]
    <2>1. Live(h) /\ i \in Active(h) /\ game_states'[h].players[i] = d /\ d \in Spared
      BY <1>2, <1>3, <1>4
    <2>2. clients[d].player = [game |-> h, seat |-> i]
      BY <2>1 DEF Links, SparedPointBack
    <2> QED
      BY <1>1, <1>s, <2>1, <2>2
  <1>7. UnusedEntries'
    <2> SUFFICES ASSUME NEW h \in Games, NEW i \in Seats, ~(Live(h)' /\ i \in Active(h)')
                 PROVE  game_states'[h].players[i] \in {0, NULL}
      BY DEF UnusedEntries
    <2> QED
      BY <1>2, <1>3, <1>4 DEF Links, UnusedEntries
  <1>8. SeatedInLobby'
    <2> SUFFICES ASSUME NEW m \in Lobbies, NEW i \in Seats, lobbies'[m].clients[i] \in Spared
                 PROVE  LET d == lobbies'[m].clients[i] IN
                          /\ clients'[d].lobby = m /\ clients'[d].state = "LOBBY"
                          /\ clients'[d].game_state = NULL
                          /\ \A j \in Seats : lobbies'[m].clients[j] = d => j = i
      BY DEF SeatedInLobby, Spared, TablesFull
    <2> DEFINE d == lobbies[m].clients[i]
    <2>1. m # l /\ lobbies'[m] = lobbies[m] /\ d \in Spared
      BY <1>2, SparedClients
    <2>2. /\ clients[d].lobby = m /\ clients[d].state = "LOBBY" /\ clients[d].game_state = NULL
          /\ \A j \in Seats : lobbies[m].clients[j] = d => j = i
      BY <2>1 DEF Links, SeatedInLobby
    <2>3. d \notin Dealt(l)
      BY <2>1, <2>2, DealtSeated
    <2> QED
      BY <1>1, <1>s, <2>1, <2>2, <2>3
  <1>9. NoPointersBeforeLobby'
    BY <1>1, <1>s DEF Links, NoPointersBeforeLobby, Spared, TablesFull
  <1>10. PlayersInGame'
    BY <1>1, <1>s DEF Links, PlayersInGame, Spared, TablesFull
  <1>11. PlayerlessGameTaken'
    <2> SUFFICES ASSUME NEW d \in Spared, clients'[d].game_state # NULL,
                        clients'[d].player = NoPlayer
                 PROVE  game_states'[clients'[d].game_state].status = "TAKEN"
      BY DEF PlayerlessGameTaken, Spared, TablesFull
    <2>1. CASE d \in Dealt(l)
      BY <1>1, <1>2, <1>s, <2>1
    <2>2. CASE d \notin Dealt(l)
      <3>1. clients'[d] = clients[d]
        BY <1>1, <1>s, <2>2
      <3>2. clients[d].game_state \in Games
        BY <1>s, <3>1, ClientFields
      <3>3. game_states[clients[d].game_state].status = "TAKEN"
        BY <3>1 DEF Links, PlayerlessGameTaken
      <3> QED
        BY <1>2, <3>1, <3>2, <3>3
    <2> QED
      BY <2>1, <2>2
  <1>12. (TablesFull => GameStatesFull)'
    <2> SUFFICES ASSUME TablesFull, NEW h \in Games, Live(h)'
                 PROVE  game_states'[h].player_count = MaxPlayers
      BY DEF GameStatesFull, TablesFull
    <2> QED
      BY <1>2, <1>3, <1>4 DEF Links, GameStatesFull
  <1> QED
    BY <1>5, <1>6, <1>7, <1>8, <1>9, <1>10, <1>11, <1>12 DEF Links

-----------------------------------------------------------------------------
(* What the threads and the gameloop know *)

(* A step of one receive thread keeps what is known of all. *)
LEMMA ThreadsNext ==
    ASSUME Threads, NEW c \in Clients,
           \A d \in Clients \ {c} : clients'[d] = clients[d] /\ recv'[d] = recv[d],
           c \in Spared /\ recv'[c].at = "spin" => clients'[c].state = "MENU",
           \/ clients'[c].taken
           \/ recv'[c].at = "down" /\ (c \in Spared => clients'[c].state = "JOIN")
    PROVE  Threads'
  <1>1. SpinsInMenu'
    BY SparedClients DEF Threads, SpinsInMenu, Spared, TablesFull
  <1>2. RemovedIsReset'
    BY DEF Threads, RemovedIsReset, Spared, TablesFull
  <1> QED
    BY <1>1, <1>2 DEF Threads

(* What is known of the receive threads depends on few variables. *)
LEMMA ThreadsKept ==
    ASSUME Threads, UNCHANGED recv,
           \A d \in Clients :
              \/ clients'[d] = clients[d]
              \/ /\ clients'[d].taken = clients[d].taken
                 /\ d \in Spared => clients[d].state \notin {"JOIN", "MENU"}
    PROVE  Threads'
  <1>1. SpinsInMenu'
    BY SparedClients DEF Threads, SpinsInMenu, Spared, TablesFull
  <1>2. RemovedIsReset'
    BY DEF Threads, RemovedIsReset, Spared, TablesFull
  <1> QED
    BY <1>1, <1>2 DEF Threads

(* A receive thread never changes the status of a game and only clears     *)
(* entries, so what the gameloop knows stays true while it waits.          *)
LEMMA LoopKept ==
    ASSUME TypeOK, LoopKnows, UNCHANGED gl,
           \A g \in Games :
              /\ game_states'[g].status = game_states[g].status
              /\ \A i \in Seats : game_states'[g].players[i] \in {game_states[g].players[i], NULL}
    PROVE  LoopKnows'
  <1>1. gl \in LoopType
    BY DEF TypeOK
  <1>2. ASSUME gl.at \in {"end", "error"}
        PROVE  Over(gl.unit)'
    <2>1. gl.unit \in Games
      BY <1>1, <1>2, LoopFields
    <2>2. Over(gl.unit)
      BY <1>2 DEF LoopKnows
    <2> QED
      BY <2>1, <2>2 DEF Over
  <1>3. ASSUME gl.at = "menu"
        PROVE  /\ game_states'[gl.unit].status = "STATISTICS"
               /\ \A i \in 0 .. gl.seat : game_states'[gl.unit].players[i] = NULL
    <2>1. gl.unit \in Games /\ gl.seat \in Seats
      BY <1>1, <1>3, LoopFields
    <2>2. 0 .. gl.seat \subseteq Seats
      BY <2>1, ServerAssumption DEF Seats
    <2> QED
      BY <1>3, <2>1, <2>2 DEF LoopKnows
  <1> QED
    BY <1>2, <1>3 DEF LoopKnows

-----------------------------------------------------------------------------
(* The steps of a client's process *)

(* The invariant without the types *)
Rest == Links /\ LobbyCounts /\ Threads /\ LoopKnows

(* A thread that is not down serves a connected client. *)
LEMMA RunningIsTaken ==
    ASSUME TypeOK, Threads, NEW c \in Clients, recv[c].at # "down"
    PROVE  clients[c].taken
  BY DEF Threads, RemovedIsReset

(* ResetClient keeps what is known of threads and gameloop. *)
LEMMA ResetRest ==
    ASSUME TypeOK, Rest, NEW c \in Clients, NEW taken \in BOOLEAN, ResetClient(c, taken),
           clients[c].taken,
           NEW r, recv' = [recv EXCEPT ![c] = r], r.at # "spin",
           taken \/ r.at = "down", UNCHANGED gl
    PROVE  Rest'
  <1>1. Cut(c, taken)
    BY ResetEffect DEF Rest
  <1>2. /\ \A d \in Clients \ {c} : clients'[d] = clients[d]
        /\ clients'[c].taken = taken /\ clients'[c].state = "JOIN"
    BY <1>1 DEF Cut
  <1>3. \A g \in Games :
          /\ game_states'[g].status = game_states[g].status
          /\ \A i \in Seats : game_states'[g].players[i] \in {game_states[g].players[i], NULL}
    BY <1>1 DEF Cut
  <1>4. Links'
    BY ResetLinks DEF Rest
  <1>5. LobbyCounts'
    BY ResetCounts DEF Rest
  <1>6. recv'[c] = r /\ \A d \in Clients \ {c} : recv'[d] = recv[d]
    BY DEF TypeOK
  <1>7. Threads'
    BY <1>2, <1>6, ThreadsNext DEF Rest
  <1>8. LoopKnows'
    BY <1>3, LoopKept DEF Rest
  <1> QED
    BY <1>4, <1>5, <1>7, <1>8 DEF Rest

(* A step of a receive thread that leaves clients and games alone *)
LEMMA MoveRest ==
    ASSUME TypeOK, Rest, NEW c \in Clients, recv[c].at # "down",
           UNCHANGED <<clients, lobbies, game_states, gl>>,
           NEW r, recv' = [recv EXCEPT ![c] = r],
           r.at = "spin" /\ c \in Spared => clients[c].state = "MENU"
    PROVE  Rest'
  <1>1. Links'
    BY LinksUnchanged DEF Rest
  <1>2. LobbyCounts'
    BY CountsUnchanged DEF Rest
  <1>3. clients[c].taken
    BY RunningIsTaken DEF Rest
  <1>4. recv'[c] = r /\ \A d \in Clients \ {c} : recv'[d] = recv[d]
    BY DEF TypeOK
  <1>5. Threads'
    BY <1>3, <1>4, ThreadsNext DEF Rest
  <1>6. LoopKnows'
    BY LoopKept DEF Rest
  <1> QED
    BY <1>1, <1>2, <1>5, <1>6 DEF Rest

(* The fields of the control points. *)
LEMMA PointFields ==
    /\ Down.at = "down" /\ Poll.at = "poll"
    /\ \A l : Spin(l).at = "spin"
    /\ \A i, c : Chat(i, c).at = "chat"
    /\ \A c, pids : Send(c, pids).at = "send"
    /\ Idle.at = "idle" /\ Stopped.at = "stopped"
    /\ \A l : Start(l).at = "start"
    /\ \A at, u, i, c, g :
         /\ Waiting(at, u, i, c, g).at = at
         /\ Waiting(at, u, i, c, g).unit = u /\ Waiting(at, u, i, c, g).seat = i
  BY DEF Down, Poll, Spin, Chat, Send, Idle, Stopped, Start, Waiting

(* The chat loop does not lead into the lobby's waiting loop. *)
LEMMA ChatFromPoint ==
    ASSUME NEW c \in Clients, NEW i, ChatFrom(c, i)
    PROVE  \E r : recv' = [recv EXCEPT ![c] = r] /\ r.at # "spin"
  <1>1. CASE recv' = [recv EXCEPT ![c] = Down]
    BY <1>1, PointFields
  <1>2. CASE recv' = [recv EXCEPT ![c] = Poll]
    BY <1>2, PointFields
  <1>3. ASSUME NEW j, NEW d, recv' = [recv EXCEPT ![c] = Chat(j, d)]
        PROVE  \E r : recv' = [recv EXCEPT ![c] = r] /\ r.at # "spin"
    BY <1>3, PointFields
  <1> QED
    BY <1>1, <1>2, <1>3 DEF ChatFrom

(* A client without links connects or joins. *)
LEMMA FreshRest ==
    ASSUME TypeOK, Rest, NEW c \in Clients, UNCHANGED <<lobbies, game_states, gl>>,
           c \in Spared => clients[c].state = "JOIN",
           NEW new, clients' = [clients EXCEPT ![c] = new], new.taken,
           \/ new.lobby = NULL /\ new.game_state = NULL /\ new.player = NoPlayer
           \/ /\ new.taken = clients[c].taken /\ new.lobby = clients[c].lobby
              /\ new.game_state = clients[c].game_state /\ new.player = clients[c].player,
           NEW r, recv' = [recv EXCEPT ![c] = r], r.at # "spin"
    PROVE  Rest'
  <1>1. clients'[c] = new /\ \A d \in Clients \ {c} : clients'[d] = clients[d]
    BY DEF TypeOK
  <1>2. recv'[c] = r /\ \A d \in Clients \ {c} : recv'[d] = recv[d]
    BY DEF TypeOK
  <1>3. Links'
    BY <1>1, FreshLinks DEF Rest
  <1>4. LobbyCounts'
    BY CountsUnchanged DEF Rest
  <1>5. Threads'
    BY <1>1, <1>2, ThreadsNext DEF Rest
  <1>6. LoopKnows'
    BY LoopKept DEF Rest
  <1> QED
    BY <1>3, <1>4, <1>5, <1>6 DEF Rest

(* AddClientToLobby keeps what is known of threads and gameloop. *)
LEMMA AddClientRest ==
    ASSUME TypeOK, Rest, NEW c \in Clients, AddClientToLobby(c)
    PROVE  Rest'
  <1>1. recv[c].at = "spin" /\ UNCHANGED <<game_states, gl>>
    BY DEF AddClientToLobby
  <1>2. (c \in Spared => clients[c].state = "MENU") /\ clients[c].taken
    BY <1>1, RunningIsTaken DEF Rest, Threads, SpinsInMenu
  <1>3. Links'
    BY <1>2, AddClientLinks DEF Rest
  <1>4. LobbyCounts'
    BY AddClientCounts DEF Rest
  <1>5. recv' = [recv EXCEPT ![c] = Poll]
    BY DEF AddClientToLobby
  <1>6. recv'[c] = Poll /\ \A d \in Clients \ {c} : recv'[d] = recv[d]
    BY <1>5 DEF TypeOK
  <1>7. clients' = [clients EXCEPT ![c].lobby = recv[c].lobby, ![c].state = "LOBBY"]
    BY DEF AddClientToLobby
  <1>8. clients[c] \in ClientType
    BY ClientFields
  <1>9. clients'[c].taken /\ \A d \in Clients \ {c} : clients'[d] = clients[d]
    BY <1>2, <1>7, <1>8 DEF TypeOK, ClientType
  <1>10. Threads'
    BY <1>6, <1>9, ThreadsNext, PointFields DEF Rest
  <1>11. LoopKnows'
    BY <1>1, LoopKept DEF Rest
  <1> QED
    BY <1>3, <1>4, <1>10, <1>11 DEF Rest

(* ProcessPlayerReady keeps what is known of threads and gameloop. *)
LEMMA ReadyRest ==
    ASSUME TypeOK, Rest, NEW c \in Clients, ProcessPlayerReady(c)
    PROVE  Rest'
  <1>1. PICK g \in Games, i \in Seats : clients[c].player = [game |-> g, seat |-> i]
    BY ClientFields DEF ProcessPlayerReady
  <1>2. /\ game_states' = [game_states EXCEPT ![g].ready[i] = TRUE]
        /\ UNCHANGED <<clients, recv, lobbies, gl>>
    BY <1>1 DEF ProcessPlayerReady
  <1>3. \A h \in Games :
          /\ game_states'[h].players = game_states[h].players
          /\ game_states'[h].player_count = game_states[h].player_count
          /\ game_states'[h].status = game_states[h].status
    BY <1>2, GameFields DEF TypeOK, GameType
  <1>4. Links'
    BY <1>2, <1>3, StateLinks DEF Rest
  <1>5. LobbyCounts'
    BY <1>2, CountsUnchanged DEF Rest
  <1>6. Threads'
    BY <1>2, ThreadsKept DEF Rest
  <1>7. LoopKnows'
    BY <1>2, <1>3, LoopKept DEF Rest
  <1> QED
    BY <1>4, <1>5, <1>6, <1>7 DEF Rest

(* So does an exit from the statistics. *)
LEMMA ExitStatisticsRest ==
    ASSUME TypeOK, Rest, NEW c \in Clients, ProcessExitStatistics(c),
           clients[c].player # NoPlayer
    PROVE  Rest'
  <1>1. clients[c].taken /\ c # NULL
    BY NullIsNoIndex, RunningIsTaken DEF Rest, ProcessExitStatistics
  <1>2. PICK g \in Games, i \in Seats :
          /\ clients[c].player = [game |-> g, seat |-> i]
          /\ Live(g) /\ game_states[g].players[i] = c
    BY <1>1, Pointed DEF Rest
  <1>3. /\ ReturnToMenu([game |-> g, seat |-> i])
        /\ recv' = [recv EXCEPT ![c] = Send(c, <<"RETURN_TO_MENU">>)]
        /\ UNCHANGED <<lobbies, gl>>
        /\ recv[c].at = "poll"
    BY <1>2 DEF ProcessExitStatistics
  <1>5. Links'
    BY <1>1, <1>2, <1>3, ReturnToMenuLinks DEF Rest
  <1>6. Returned(c, g, i)
    BY <1>1, <1>2, <1>3, ReturnToMenuEffect DEF Rest
  <1>7. LobbyCounts'
    BY <1>3, CountsUnchanged DEF Rest
  <1>8. \A h \in Games :
          /\ game_states'[h].status = game_states[h].status
          /\ \A j \in Seats : game_states'[h].players[j] \in {game_states[h].players[j], NULL}
    BY <1>6 DEF Returned
  <1>9. clients'[c].taken /\ \A d \in Clients \ {c} : clients'[d] = clients[d]
    BY <1>1, <1>6 DEF Returned
  <1>10. /\ recv'[c] = Send(c, <<"RETURN_TO_MENU">>)
         /\ \A d \in Clients \ {c} : recv'[d] = recv[d]
    BY <1>3 DEF TypeOK
  <1>11. Threads'
    BY <1>9, <1>10, ThreadsNext, PointFields DEF Rest
  <1>12. LoopKnows'
    BY <1>3, <1>8, LoopKept DEF Rest
  <1> QED
    BY <1>5, <1>7, <1>11, <1>12 DEF Rest

(* And every other step of a client's process. *)
LEMMA RestClientStep ==
    ASSUME TypeOK, Rest, NEW c \in Clients, ClientStep(c)
    PROVE  Rest'
  <1>0. clients[c] \in ClientType
    BY ClientFields
  <1>1. CASE Connect(c)
    <2>1. ~clients[c].taken
      BY <1>1 DEF Connect, IsFirst
    <2>2. c \in Spared => clients[c].state = "JOIN"
      BY <2>1 DEF Rest, Threads, RemovedIsReset
    <2>3. /\ NewClient.state = "JOIN" /\ NewClient.lobby = NULL
          /\ NewClient.game_state = NULL /\ NewClient.player = NoPlayer /\ NewClient.taken
      BY DEF NewClient
    <2> QED
      BY <1>1, <2>2, <2>3, FreshRest, PointFields DEF Connect
  <1>2. CASE Disconnect(c)
    <2>1. clients[c].taken
      BY <1>2, RunningIsTaken DEF Rest, Disconnect
    <2> QED
      BY <1>2, <2>1, ResetRest, PointFields DEF Disconnect
  <1>3. CASE Kill(c)
    BY <1>3, MoveRest, PointFields DEF Kill
  <1>4. CASE ProcessJoin(c)
    <2>1. /\ recv[c].at = "poll" /\ clients[c].state = "JOIN"
          /\ UNCHANGED <<lobbies, game_states, gl>>
      BY <1>4 DEF ProcessJoin
    <2>2. CASE /\ clients' = [clients EXCEPT ![c].state = "MENU"]
               /\ recv' = [recv EXCEPT ![c] = Send(c, <<"ACCEPT">>)]
      <3> DEFINE new == [clients[c] EXCEPT !.state = "MENU"]
      <3>1. clients' = [clients EXCEPT ![c] = new]
        BY <2>2
      <3>2. clients[c].taken
        BY <2>1, RunningIsTaken DEF Rest
      <3>3. /\ new.taken = clients[c].taken /\ new.lobby = clients[c].lobby
            /\ new.game_state = clients[c].game_state /\ new.player = clients[c].player
        BY <1>0, <3>2 DEF ClientType
      <3> HIDE DEF new
      <3> QED
        BY <2>1, <2>2, <3>1, <3>2, <3>3, FreshRest, PointFields
    <2>3. CASE /\ recv' = [recv EXCEPT ![c] = Send(c, <<"ACCEPT_ERROR", "MESSAGE">>)]
               /\ UNCHANGED clients
      BY <2>1, <2>3, MoveRest, PointFields
    <2> QED
      BY <1>4, <2>2, <2>3 DEF ProcessJoin
  <1>5. ASSUME NEW l \in Lobbies, ProcessGameType(c, l)
        PROVE  Rest'
    BY <1>5, MoveRest, PointFields DEF ProcessGameType
  <1>6. CASE AddClientToLobby(c)
    BY <1>6, AddClientRest
  <1>7. CASE ProcessMessage(c)
    <2>1. \E r : recv' = [recv EXCEPT ![c] = r] /\ r.at # "spin"
      BY <1>7, ChatFromPoint DEF ProcessMessage
    <2> QED
      BY <1>7, <2>1, MoveRest DEF ProcessMessage
  <1>8. CASE SendChat(c)
    <2>1. \E r : recv' = [recv EXCEPT ![c] = r] /\ r.at # "spin"
      BY <1>8, ChatFromPoint DEF SendChat
    <2> QED
      BY <1>8, <2>1, MoveRest DEF SendChat
  <1>9. CASE ProcessPlayerReady(c)
    BY <1>9, ReadyRest
  <1>10. CASE ProcessExit(c)
    <2>1. clients[c].taken \in BOOLEAN
      BY <1>0 DEF ClientType
    <2>2. clients[c].taken
      BY <1>10, RunningIsTaken DEF Rest, ProcessExit
    <2> QED
      BY <1>10, <2>1, <2>2, ResetRest, PointFields DEF ProcessExit
  <1>11. CASE ProcessExitStatistics(c)
    <2>1. CASE clients[c].player = NoPlayer
      BY <1>11, <2>1, MoveRest, PointFields DEF ProcessExitStatistics
    <2>2. CASE clients[c].player # NoPlayer
      BY <1>11, <2>2, ExitStatisticsRest
    <2> QED
      BY <2>1, <2>2
  <1>12. CASE SendReply(c)
    <2>1. \E r : recv' = [recv EXCEPT ![c] = r] /\ r.at # "spin"
      BY <1>12, PointFields DEF SendReply
    <2> QED
      BY <1>12, <2>1, MoveRest DEF SendReply
  <1>13. CASE SendServerPacket(c)
    <2>1. UNCHANGED <<clients, recv, lobbies, game_states, gl>>
      BY <1>13 DEF SendServerPacket
    <2> QED
      BY <2>1, LinksUnchanged, CountsUnchanged, ThreadsKept, LoopKept DEF Rest
  <1> QED
    BY <1>1, <1>2, <1>3, <1>4, <1>5, <1>6, <1>7, <1>8, <1>9, <1>10, <1>11, <1>12, <1>13
    DEF ClientStep

-----------------------------------------------------------------------------
(* The steps of the gameloop *)

(* Steps that only move the gameloop to a point about which nothing is known *)
LEMMA WaitRest ==
    ASSUME TypeOK, Rest, UNCHANGED <<clients, recv, lobbies, game_states>>,
           gl'.at \notin {"end", "error", "menu"}
    PROVE  Rest'
  <1>1. Links'
    BY LinksUnchanged DEF Rest
  <1>2. LobbyCounts'
    BY CountsUnchanged DEF Rest
  <1>3. Threads'
    BY ThreadsKept DEF Rest
  <1>4. LoopKnows'
    BY DEF LoopKnows
  <1> QED
    BY <1>1, <1>2, <1>3, <1>4 DEF Rest

(* Where the lobby loop of the gameloop leads. *)
LEMMA LobbyFromPoint ==
    ASSUME NEW at \in {"lobby", "full"}, NEW l, NEW i, LobbyFrom(at, l, i)
    PROVE  gl'.at \notin {"end", "error", "menu"}
  <1>1. CASE gl' = Start(l) \/ gl' = Idle
    BY <1>1, PointFields
  <1>2. ASSUME NEW j, NEW c, gl' = Waiting(at, l, j, c, NULL)
        PROVE  gl'.at \notin {"end", "error", "menu"}
    BY <1>2, PointFields
  <1> QED
    BY <1>1, <1>2 DEF LobbyFrom

(* Where the ready loop leads. *)
LEMMA ReadyFromPoint ==
    ASSUME NEW g, NEW i, ReadyFrom(g, i)
    PROVE  gl'.at \notin {"end", "error", "menu"}
  BY PointFields DEF ReadyFrom, WaitFor

(* Where the state loop leads. *)
LEMMA StateFromPoint ==
    ASSUME NEW g, NEW i, StateFrom(g, i)
    PROVE  gl'.at \notin {"end", "error", "menu"}
  BY PointFields DEF StateFrom, WaitFor

(* A change of status among live games, with players of that game moved on *)
LEMMA StatusEffect ==
    ASSUME TypeOK, NEW g \in Games, NEW s, SetStatus(g, s)
    PROVE  /\ game_states'[g].status = s
           /\ \A h \in Games :
                /\ game_states'[h].players = game_states[h].players
                /\ game_states'[h].player_count = game_states[h].player_count
                /\ h # g => game_states'[h].status = game_states[h].status
  BY GameFields DEF SetStatus, TypeOK, GameType

(* A change of a game's status keeps the rest of the invariant. *)
LEMMA StatusRest ==
    ASSUME TypeOK, Rest, NEW g \in Games, Live(g),
           NEW s \in {"IN_PROGRESS", "SUCCESS", "ALL_TEAM_LEFT", "STATISTICS"}, SetStatus(g, s),
           UNCHANGED <<recv, lobbies>>,
           \A d \in Clients :
              \/ clients'[d] = clients[d]
              \/ /\ d \in Spared => clients[d].player # NoPlayer
                 /\ \E t \in {"GAME", "STATISTICS"} :
                       clients'[d] = [clients[d] EXCEPT !.state = t],
           gl'.at \notin {"end", "error", "menu"}
    PROVE  Rest'
  <1>1. /\ game_states'[g].status = s
        /\ \A h \in Games :
             /\ game_states'[h].players = game_states[h].players
             /\ game_states'[h].player_count = game_states[h].player_count
             /\ h # g => game_states'[h].status = game_states[h].status
    BY StatusEffect
  <1>2. \A h \in Games : \/ game_states'[h].status = game_states[h].status
                         \/ Live(h) /\ Live(h)'
    BY <1>1 DEF Live
  <1>3. Links'
    BY <1>1, <1>2, StateLinks DEF Rest
  <1>4. \A d \in Clients :
          \/ clients'[d] = clients[d]
          \/ /\ clients'[d].taken = clients[d].taken
             /\ d \in Spared => clients[d].state \notin {"JOIN", "MENU"}
    BY ClientFields DEF Rest, Links, PlayersInGame, ClientType
  <1>5. LobbyCounts' /\ Threads'
    BY <1>4, CountsUnchanged, ThreadsKept DEF Rest
  <1>6. LoopKnows'
    BY DEF LoopKnows
  <1> QED
    BY <1>3, <1>5, <1>6 DEF Rest

(* StartGame keeps what is known of threads and gameloop. *)
LEMMA StartRest ==
    ASSUME TypeOK, Rest, StartGame
    PROVE  Rest'
  <1>0. /\ UNCHANGED recv
        /\ gl'.at \notin {"end", "error", "menu"}
    BY PointFields DEF StartGame
  <1>1. LoopKnows'
    BY <1>0 DEF LoopKnows
  <1>2. CASE UNCHANGED <<clients, lobbies, game_states>>
    BY <1>0, <1>2, WaitRest
  <1>3. ASSUME NEW l \in Lobbies, NEW g \in Games, game_states[g].status = "FREE",
               Started(l, g) \/ Wasted(l, g)
        PROVE  Rest'
    <2>1. Links'
      BY <1>3, StartedLinks, WastedLinks DEF Rest, Threads
    <2>2. \A d \in Clients \ Dealt(l) : clients'[d] = clients[d]
      BY <1>3 DEF Started, Wasted
    <2>3. \A d \in Spared : d \in Clients /\ (d \in Dealt(l) => clients[d].state = "LOBBY")
      BY DealtSeated, SparedClients DEF Rest
    <2>4. \A d \in Clients : clients'[d].taken = clients[d].taken
      BY <1>3, <2>2 DEF Started, Wasted
    <2>5. Threads'
      <3>1. SpinsInMenu'
        BY <1>0, <2>2, <2>3 DEF Rest, Threads, SpinsInMenu, Spared, TablesFull
      <3>2. RemovedIsReset'
        BY <1>0, <2>2, <2>3, <2>4 DEF Rest, Threads, RemovedIsReset, Spared, TablesFull
      <3> QED
        BY <3>1, <3>2 DEF Threads
    <2>6. LobbyCounts'
      <3> SUFFICES ASSUME NEW m \in Lobbies
                   PROVE  /\ lobbies'[m].client_count = Cardinality(Occupied(m)')
                          /\ Occupied(m)' \subseteq 0 .. LobbySize[m] - 1
        BY DEF LobbyCounts
      <3>1. lobbies' = lobbies \/ lobbies' = [lobbies EXCEPT ![gl.unit] = EmptyLobby]
        BY DEF StartGame
      <3>2. CASE lobbies'[m] = lobbies[m]
        BY <3>2 DEF Rest, LobbyCounts, Occupied
      <3>3. CASE lobbies'[m] = EmptyLobby
        <4>1. Occupied(m)' = {} /\ lobbies'[m].client_count = 0
          BY <3>3 DEF Occupied, EmptyLobby
        <4> QED
          BY <4>1, FS_EmptySet
      <3> QED
        BY <3>1, <3>2, <3>3 DEF TypeOK
    <2> QED
      BY <1>1, <2>1, <2>5, <2>6 DEF Rest
  <1>4. \/ UNCHANGED <<clients, lobbies, game_states>>
        \/ \E l \in Lobbies, g \in Games :
             /\ game_states[g].status = "FREE"
             /\ Started(l, g) \/ Wasted(l, g)
    BY StartEffect DEF Rest
  <1> QED
    BY <1>2, <1>3, <1>4

(* The loop of send_game_statistics_to_all_players keeps the invariant. *)
LEMMA EndFromRest ==
    ASSUME TypeOK, Rest, NEW g \in Games, NEW i \in Nat, Over(g), EndFrom(g, i),
           UNCHANGED <<recv, lobbies>>
    PROVE  Rest'
  <1>1. Live(g)
    BY DEF Over, Live
  <1>2. CASE SetStatus(g, "STATISTICS") /\ gl' = Idle /\ UNCHANGED clients
    BY <1>1, <1>2, StatusRest, PointFields
  <1>3. ASSUME NEW j \in Connected(g, i, game_states[g].player_count),
               clients' = [clients EXCEPT ![game_states[g].players[j]].state = "STATISTICS"],
               WaitFor("end", g, j),
               UNCHANGED game_states
        PROVE  Rest'
    <2> DEFINE c == game_states[g].players[j]
    <2>1. j \in Seats /\ j \in Active(g)
      <3>1. j \in Active(g)
        BY <1>3, GameFields, ServerAssumption DEF Connected, Active, GameType
      <3> QED
        BY <3>1, ActiveSeats
    <2>2. c # NULL /\ c \in Clients
      BY <1>3, <2>1, GameFields DEF Connected
    <2>3. c \in Spared => clients[c].player = [game |-> g, seat |-> j]
      BY <1>1, <2>1 DEF Rest, Links, SparedPointBack
    <2>4. c \in Spared => clients[c].player # NoPlayer
      BY <2>1, <2>3, NoPlayerIsNoEntry
    <2> HIDE DEF c
    <2>5. \A d \in Clients :
            \/ clients'[d] = clients[d]
            \/ /\ d \in Spared => clients[d].player # NoPlayer
               /\ \E t \in {"GAME", "STATISTICS"} :
                     clients'[d] = [clients[d] EXCEPT !.state = t]
      BY <1>3, <2>2, <2>4 DEF TypeOK, c
    <2>6. Links'
      BY <1>3, <2>5, StateLinks DEF Rest
    <2>7. \A d \in Clients :
            \/ clients'[d] = clients[d]
            \/ /\ clients'[d].taken = clients[d].taken
               /\ d \in Spared => clients[d].state \notin {"JOIN", "MENU"}
      BY <2>5, ClientFields DEF Rest, Links, PlayersInGame, ClientType
    <2>8. LobbyCounts' /\ Threads'
      BY <2>7, CountsUnchanged, ThreadsKept DEF Rest
    <2>9. gl'.at = "end" /\ gl'.unit = g
      BY <1>3, PointFields DEF WaitFor
    <2>10. LoopKnows'
      BY <1>3, <2>9 DEF LoopKnows, Over
    <2> QED
      BY <2>6, <2>8, <2>10 DEF Rest
  <1> QED
    BY <1>2, <1>3 DEF EndFrom

(* The loop of send_return_to_menu_to_all_players keeps the invariant. *)
LEMMA MenuFromRest ==
    ASSUME TypeOK, Rest, NEW g \in Games, game_states[g].status = "STATISTICS",
           NEW i \in Nat, i <= MaxPlayers, MenuFrom(g, i),
           \A k \in 0 .. i - 1 : game_states[g].players[k] = NULL,
           UNCHANGED <<recv, lobbies>>
    PROVE  Rest'
  <1> DEFINE S == Connected(g, i, MaxPlayers)
  <1>0. Live(g) /\ MaxPlayers \in Nat
    BY ServerAssumption DEF Live
  <1>1. CASE S = {} /\ SetStatus(g, "FREE") /\ gl' = Idle /\ UNCHANGED clients
    <2>1. \A k \in Seats : game_states[g].players[k] = NULL
      <3> SUFFICES ASSUME NEW k \in Seats
                   PROVE  game_states[g].players[k] = NULL
        OBVIOUS
      <3>1. CASE k \in 0 .. i - 1
        BY <3>1
      <3>2. CASE k \in i .. MaxPlayers - 1
        BY <1>1, <3>2 DEF Connected
      <3> QED
        BY <1>0, <3>1, <3>2 DEF Seats
    <2>2. Links'
      <3>1. AllPlayersDisconnected(g)
        BY <2>1, ActiveSeats DEF AllPlayersDisconnected
      <3> QED
        BY <1>1, <3>1, FreeLinks DEF Rest
    <2>3. LobbyCounts'
      BY CountsUnchanged DEF Rest
    <2>4. Threads'
      BY <1>1, ThreadsKept DEF Rest
    <2>5. LoopKnows'
      BY <1>1, PointFields DEF LoopKnows
    <2> QED
      BY <2>2, <2>3, <2>4, <2>5 DEF Rest
  <1>2. ASSUME NEW j \in S, IsFirst(j, S), ReturnToMenu([game |-> g, seat |-> j]),
               gl' = Waiting("menu", g, j, game_states[g].players[j], NULL)
        PROVE  Rest'
    <2> DEFINE c == game_states[g].players[j]
    <2>1. j \in Seats /\ c # NULL /\ j \in i .. MaxPlayers - 1
      BY <1>0 DEF Connected, Seats
    <2>2. Links'
      BY <1>0, <1>2, <2>1, ReturnToMenuLinks DEF Rest
    <2>3. Returned(c, g, j)
      BY <1>0, <1>2, <2>1, ReturnToMenuEffect DEF Rest
    <2>4. c \in Clients /\ (c \in Spared => clients[c].player # NoPlayer)
      BY <2>1, <2>3, NoPlayerIsNoEntry DEF Returned
    <2>5. c \in Spared => clients[c].state \notin {"JOIN", "MENU"}
      BY <2>4 DEF Rest, Links, PlayersInGame
    <2>6. /\ \A d \in Clients \ {c} : clients'[d] = clients[d]
          /\ clients'[c].taken = clients[c].taken
      BY <2>3 DEF Returned
    <2> HIDE DEF c
    <2>7. Threads'
      BY <2>4, <2>5, <2>6, ThreadsKept DEF Rest
    <2>8. LobbyCounts'
      BY CountsUnchanged DEF Rest
    <2>9. gl'.at = "menu" /\ gl'.unit = g /\ gl'.seat = j
      BY <1>2, PointFields
    <2>10. game_states'[g].status = "STATISTICS"
      BY <2>3 DEF Returned
    <2>11. ASSUME NEW k \in 0 .. j
           PROVE  game_states'[g].players[k] = NULL
      <3>1. k \in Seats /\ k \in Int /\ j \in Int
        BY <1>0, <2>1 DEF Seats
      <3>2. game_states'[g].players[k] = IF k = j THEN NULL ELSE game_states[g].players[k]
        BY <2>3, <3>1 DEF Returned
      <3>3. CASE k \in 0 .. i - 1
        BY <3>2, <3>3
      <3>4. CASE k \in i .. MaxPlayers - 1 /\ k # j
        <4>1. k \notin S
          BY <1>2, <2>1, <3>1, <3>4 DEF IsFirst
        <4> QED
          BY <3>2, <3>4, <4>1 DEF Connected
      <3> QED
        BY <1>0, <2>1, <3>1, <3>2, <3>3, <3>4
    <2>12. LoopKnows'
      BY <2>9, <2>10, <2>11 DEF LoopKnows
    <2> QED
      BY <2>2, <2>7, <2>8, <2>12 DEF Rest
  <1> QED
    BY <1>1, <1>2 DEF MenuFrom

(* UpdateLoading keeps the invariant. *)
LEMMA LoadingRest ==
    ASSUME TypeOK, Rest, NEW g \in Games, UpdateLoading(g)
    PROVE  Rest'
  <1>1. game_states[g].status = "LOADING" /\ UNCHANGED <<recv, lobbies>> /\ gl.at = "idle"
    BY DEF UpdateLoading
  <1>2. Live(g) /\ Active(g) \subseteq Seats
    BY <1>1, ActiveSeats DEF Live
  <1>3. CASE /\ clients' = [c \in Clients |->
                   IF \E i \in Active(g) : game_states[g].players[i] = c
                   THEN [clients[c] EXCEPT !.state = "GAME"] ELSE clients[c]]
             /\ SetStatus(g, "IN_PROGRESS")
             /\ UNCHANGED gl
    <2>1. ASSUME NEW d \in Clients
          PROVE  \/ clients'[d] = clients[d]
                 \/ /\ d \in Spared => clients[d].player # NoPlayer
                    /\ \E t \in {"GAME", "STATISTICS"} :
                          clients'[d] = [clients[d] EXCEPT !.state = t]
      <3>1. CASE \E i \in Active(g) : game_states[g].players[i] = d
        <4>1. d \in Spared => clients[d].player # NoPlayer
          BY <1>2, <3>1, Unnamed DEF Rest
        <4>2. clients'[d] = [clients[d] EXCEPT !.state = "GAME"]
          BY <1>3, <3>1
        <4> QED
          BY <4>1, <4>2
      <3>2. CASE ~\E i \in Active(g) : game_states[g].players[i] = d
        BY <1>3, <3>2
      <3> QED
        BY <3>1, <3>2
    <2> QED
      BY <1>1, <1>2, <1>3, <2>1, StatusRest
  <1>4. CASE gl' = Stopped /\ UNCHANGED <<clients, game_states>>
    BY <1>1, <1>4, WaitRest, PointFields
  <1>5. CASE ReadyFrom(g, 0) /\ UNCHANGED <<clients, game_states>>
    BY <1>1, <1>5, WaitRest, ReadyFromPoint
  <1> QED
    BY <1>3, <1>4, <1>5 DEF UpdateLoading

(* UpdateInProgress keeps the invariant. *)
LEMMA InProgressRest ==
    ASSUME TypeOK, Rest, NEW g \in Games, UpdateInProgress(g)
    PROVE  Rest'
  <1>1. /\ game_states[g].status = "IN_PROGRESS"
        /\ StateFrom(g, 0)
        /\ UNCHANGED <<clients, recv, lobbies>>
    BY DEF UpdateInProgress
  <1>2. Live(g)
    BY <1>1 DEF Live
  <1>3. gl'.at \notin {"end", "error", "menu"}
    BY <1>1, StateFromPoint
  <1>4. CASE UNCHANGED game_states
    BY <1>1, <1>3, <1>4, WaitRest
  <1>5. ASSUME NEW s \in {"SUCCESS", "ALL_TEAM_LEFT"}, SetStatus(g, s)
        PROVE  Rest'
    BY <1>1, <1>2, <1>3, <1>5, StatusRest
  <1> QED
    BY <1>4, <1>5 DEF UpdateInProgress

(* UpdateStatistics keeps the invariant. *)
LEMMA StatisticsRest ==
    ASSUME TypeOK, Rest, NEW g \in Games, UpdateStatistics(g)
    PROVE  Rest'
  <1>1. game_states[g].status = "STATISTICS" /\ UNCHANGED <<recv, lobbies>> /\ gl.at = "idle"
    BY DEF UpdateStatistics
  <1>3. CASE AllPlayersDisconnected(g) /\ SetStatus(g, "FREE") /\ UNCHANGED <<clients, gl>>
    <2>2. Links'
      BY <1>1, <1>3, FreeLinks DEF Rest
    <2>3. LobbyCounts'
      BY <1>1, CountsUnchanged DEF Rest
    <2>4. Threads'
      BY <1>1, <1>3, ThreadsKept DEF Rest
    <2>5. LoopKnows'
      BY <1>1, <1>3 DEF LoopKnows
    <2> QED
      BY <2>2, <2>3, <2>4, <2>5 DEF Rest
  <1>4. CASE MenuFrom(g, 0)
    BY <1>1, <1>4, MenuFromRest, ServerAssumption
  <1> QED
    BY <1>3, <1>4 DEF UpdateStatistics

(* Every step of the gameloop keeps the invariant. *)
LEMMA RestGameloop ==
    ASSUME TypeOK, Rest, Gameloop
    PROVE  Rest'
  <1>0. gl \in LoopType
    BY DEF TypeOK
  <1>1. ASSUME NEW l \in Lobbies, UpdateLobby(l)
        PROVE  Rest'
    <2>1. PICK at \in {"lobby", "full"} : LobbyFrom(at, l, 0)
      BY <1>1 DEF UpdateLobby
    <2> QED
      BY <1>1, <2>1, LobbyFromPoint, WaitRest DEF UpdateLobby
  <1>2. CASE SendLobby
    <2>1. gl.at \in {"lobby", "full"} /\ UNCHANGED <<clients, recv, lobbies, game_states>>
      BY <1>2 DEF SendLobby
    <2>2. gl'.at \notin {"end", "error", "menu"}
      BY <1>2, <2>1, LobbyFromPoint, PointFields DEF SendLobby
    <2> QED
      BY <2>1, <2>2, WaitRest
  <1>3. CASE StartGame
    BY <1>3, StartRest
  <1>4. ASSUME NEW g \in Games, UpdateGame(g)
        PROVE  Rest'
    <2>1. CASE UpdateOver(g)
      BY <2>1, EndFromRest DEF UpdateOver
    <2> QED
      BY <1>4, <2>1, LoadingRest, InProgressRest, StatisticsRest DEF UpdateGame
  <1>5. CASE SendGameReady
    <2>1. gl'.at \notin {"end", "error", "menu"}
      BY <1>5, ReadyFromPoint, PointFields DEF SendGameReady
    <2> QED
      BY <1>5, <2>1, WaitRest DEF SendGameReady
  <1>6. CASE SendGameState
    <2>1. gl'.at \notin {"end", "error", "menu"}
      BY <1>6, StateFromPoint, PointFields DEF SendGameState
    <2> QED
      BY <1>6, <2>1, WaitRest DEF SendGameState
  <1>7. CASE SendGameEnd
    <2>1. /\ gl.at = "end" /\ UNCHANGED <<recv, lobbies>>
          /\ gl.unit \in Games /\ gl.seat + 1 \in Nat
      BY <1>0, <1>7, LoopFields, ServerAssumption DEF SendGameEnd, Seats
    <2>2. Over(gl.unit)
      BY <2>1 DEF Rest, LoopKnows
    <2>3. CASE gl' = Stopped /\ UNCHANGED <<clients, game_states>>
      BY <2>1, <2>3, WaitRest, PointFields
    <2>4. CASE EndFrom(gl.unit, gl.seat + 1)
      BY <2>1, <2>2, <2>4, EndFromRest
    <2>5. CASE gl' = [gl EXCEPT !.at = "error"] /\ UNCHANGED <<clients, game_states>>
      <3>1. gl'.at = "error" /\ gl'.unit = gl.unit
        BY <1>0, <2>5 DEF LoopType
      <3>2. LoopKnows'
        BY <2>2, <2>5, <3>1 DEF LoopKnows, Over
      <3>3. Links' /\ LobbyCounts'
        BY <2>1, <2>5, LinksUnchanged, CountsUnchanged DEF Rest
      <3>4. Threads'
        BY <2>1, <2>5, ThreadsKept DEF Rest
      <3> QED
        BY <3>2, <3>3, <3>4 DEF Rest
    <2> QED
      BY <1>7, <2>3, <2>4, <2>5 DEF SendGameEnd
  <1>8. CASE SendError
    <2>1. /\ gl.at = "error" /\ UNCHANGED <<recv, lobbies>>
          /\ gl.unit \in Games /\ gl.seat + 1 \in Nat
      BY <1>0, <1>8, LoopFields, ServerAssumption DEF SendError, Seats
    <2>2. Over(gl.unit)
      BY <2>1 DEF Rest, LoopKnows
    <2> QED
      BY <1>8, <2>1, <2>2, EndFromRest DEF SendError
  <1>9. CASE SendReturnToMenu
    <2>1. /\ gl.at = "menu" /\ UNCHANGED <<recv, lobbies>>
          /\ gl.unit \in Games /\ gl.seat \in Seats
      BY <1>0, <1>9, LoopFields DEF SendReturnToMenu
    <2>2. /\ gl.seat + 1 \in Nat /\ gl.seat + 1 <= MaxPlayers
          /\ 0 .. (gl.seat + 1) - 1 = 0 .. gl.seat
      BY <2>1, ServerAssumption DEF Seats
    <2>3. /\ game_states[gl.unit].status = "STATISTICS"
          /\ \A k \in 0 .. (gl.seat + 1) - 1 : game_states[gl.unit].players[k] = NULL
      BY <2>1, <2>2 DEF Rest, LoopKnows
    <2> QED
      BY <1>9, <2>1, <2>2, <2>3, MenuFromRest DEF SendReturnToMenu
  <1> QED
    BY <1>1, <1>2, <1>3, <1>4, <1>5, <1>6, <1>7, <1>8, <1>9 DEF Gameloop

-----------------------------------------------------------------------------
(* The theorems *)

(* init_server establishes the invariant. *)
LEMMA InvInit == Init => IInv
  <1> SUFFICES ASSUME Init
               PROVE  IInv
    OBVIOUS
  <1>1. TypeOK
    BY TypeInit
  <1>2. \A c \in Clients :
          /\ clients[c].state = "JOIN" /\ clients[c].lobby = NULL
          /\ clients[c].game_state = NULL /\ clients[c].player = NoPlayer
          /\ recv[c] = Down
    BY DEF Init, NewClient
  <1>3. \A g \in Games : ~Live(g) /\ \A i \in Seats : game_states[g].players[i] = 0
    BY DEF Init, FreeGame, Live
  <1>4. \A l \in Lobbies :
          /\ lobbies[l].client_count = 0
          /\ \A i \in Seats : lobbies[l].clients[i] = NULL
    BY DEF Init, EmptyLobby
  <1>5. PointersNamed /\ NoPointersBeforeLobby /\ PlayersInGame /\ PlayerlessGameTaken
    BY <1>2, SparedClients
    DEF PointersNamed, NoPointersBeforeLobby, PlayersInGame, PlayerlessGameTaken
  <1>6. SparedPointBack /\ UnusedEntries /\ GameStatesFull
    BY <1>3 DEF SparedPointBack, UnusedEntries, GameStatesFull
  <1>7. SeatedInLobby
    BY <1>4, SparedClients DEF SeatedInLobby
  <1>8. LobbyCounts
    <2>1. \A l \in Lobbies : Occupied(l) = {} /\ Occupied(l) \subseteq 0 .. LobbySize[l] - 1
      BY <1>4 DEF Occupied
    <2> QED
      BY <1>4, <2>1, FS_EmptySet DEF LobbyCounts
  <1>9. Threads
    BY <1>2, SparedClients, PointFields DEF Threads, SpinsInMenu, RemovedIsReset
  <1>10. LoopKnows
    BY PointFields DEF Init, LoopKnows
  <1> QED
    BY <1>1, <1>5, <1>6, <1>7, <1>8, <1>9, <1>10, IInvParts DEF Links

(* Every step keeps the invariant. *)
LEMMA InvStep == IInv /\ [Next]_vars => IInv'
  <1> SUFFICES ASSUME IInv, [Next]_vars
               PROVE  IInv'
    OBVIOUS
  <1>1. TypeOK /\ Rest
    BY IInvParts DEF Rest
  <1>2. TypeOK'
    BY <1>1, TypeStep
  <1>3. CASE UNCHANGED vars
    <2>1. UNCHANGED <<clients, recv, lobbies, game_states, gl>>
      BY <1>3 DEF vars
    <2>2. Links' /\ LobbyCounts'
      BY <1>1, <2>1, LinksUnchanged, CountsUnchanged DEF Rest
    <2>3. Threads'
      BY <1>1, <2>1, ThreadsKept DEF Rest
    <2>4. LoopKnows'
      BY <1>1, <2>1, LoopKept DEF Rest
    <2> QED
      BY <1>2, <2>2, <2>3, <2>4 DEF IInv, Links, Threads, TablesFull
  <1>4. CASE Next
    <2>1. Rest'
      BY <1>1, <1>4, RestGameloop, RestClientStep DEF Next
    <2> QED
      BY <1>2, <2>1 DEF Rest, IInv, Links, Threads, TablesFull
  <1> QED
    BY <1>3, <1>4

(* The server never leaves the inductive invariant: the pointers of clients, *)
(* lobbies and games, the lobby counts and what each thread relies on stay *)
(* consistent over any interleaving of receive threads and gameloop,       *)
(* whatever the sizes of the lobbies.                                      *)
THEOREM Invariance == Spec => []IInv
  BY InvInit, InvStep, PTL DEF Spec

(* What the invariant says of one spared client *)
LEMMA SparedRecords ==
    ASSUME IInv, NEW c \in Spared
    PROVE  LET p == clients[c].player IN
           /\ \A g \in Games, i \in Seats : Live(g) /\ game_states[g].players[i] = c =>
                 clients[c].taken /\ i \in Active(g) /\ p = [game |-> g, seat |-> i]
           /\ \A l \in Lobbies, i \in Seats : lobbies[l].clients[i] = c =>
                 clients[c].taken /\ clients[c].lobby = l
           /\ \A g \in Games : clients[c].game_state = g => game_states[g].status # "FREE"
  <1> DEFINE p == clients[c].player
  <1>1. TypeOK /\ Links /\ Threads /\ c \in Clients
    BY IInvParts, SparedClients
  <1>2. ASSUME NEW g \in Games, NEW i \in Seats, Live(g), game_states[g].players[i] = c
        PROVE  clients[c].taken /\ i \in Active(g) /\ p = [game |-> g, seat |-> i]
    <2>1. i \in Active(g)
      BY <1>1, <1>2, SparedActive
    <2>2. p = [game |-> g, seat |-> i]
      BY <1>1, <1>2, <2>1 DEF Links, SparedPointBack
    <2>3. clients[c].state # "JOIN"
      BY <1>1, <2>2, NoPlayerIsNoEntry DEF Links, PlayersInGame
    <2> QED
      BY <1>1, <2>1, <2>2, <2>3 DEF Threads, RemovedIsReset
  <1>3. ASSUME NEW l \in Lobbies, NEW i \in Seats, lobbies[l].clients[i] = c
        PROVE  clients[c].taken /\ clients[c].lobby = l
    <2>1. clients[c].lobby = l /\ clients[c].state = "LOBBY"
      BY <1>1, <1>3 DEF Links, SeatedInLobby
    <2> QED
      BY <1>1, <2>1 DEF Threads, RemovedIsReset
  <1>4. ASSUME NEW g \in Games, clients[c].game_state = g
        PROVE  game_states[g].status # "FREE"
    <2>1. CASE p = NoPlayer
      BY <1>1, <1>4, <2>1, NullIsNoIndex DEF Links, PlayerlessGameTaken
    <2>2. CASE p # NoPlayer
      BY <1>1, <1>4, <2>2 DEF Links, PointersNamed, Live
    <2> QED
      BY <2>1, <2>2
  <1> QED
    BY <1>2, <1>3, <1>4

(* In every server, client->player and players[].client_id are one link:   *)
(* whoever points at an entry of a game is named by it, whatever leaves,   *)
(* starts or ends at the same time.                                        *)
THEOREM PointersCorrect == Spec => []PointersAgree
  <1>1. IInv => PointersAgree
    BY SparedClients, IInvParts DEF Links, PointersNamed, PointersAgree
  <1> QED
    BY <1>1, Invariance, PTL

(* In every server, a live game keeps no entry for a client that has gone. *)
THEOREM PlayersCorrect == Spec => []PlayersPointBack
  <1>1. IInv => PlayersPointBack
    BY SparedRecords DEF PlayersPointBack
  <1> QED
    BY <1>1, Invariance, PTL

(* In every server, a game record is only reused when no client points at it. *)
THEOREM FreeGamesCorrect == Spec => []FreeGameUnreferenced
  <1>1. IInv => FreeGameUnreferenced
    BY SparedRecords DEF FreeGameUnreferenced
  <1> QED
    BY <1>1, Invariance, PTL

(* In every server, after remove_client nothing in a lobby or a live game  *)
(* names the slot.                                                         *)
THEOREM RemovalCorrect == Spec => []RemovedClientForgotten
  <1>1. ASSUME IInv, NEW c \in Spared, ~clients[c].taken
        PROVE  /\ recv[c].at = "down"
               /\ \A l \in Lobbies, i \in Seats : lobbies[l].clients[i] # c
               /\ \A g \in Games, i \in Seats : Live(g) => game_states[g].players[i] # c
    <2>1. recv[c].at = "down"
      BY <1>1, SparedClients, IInvParts DEF Threads, RemovedIsReset
    <2>2. ASSUME NEW l \in Lobbies, NEW i \in Seats
          PROVE  lobbies[l].clients[i] # c
      BY <1>1, SparedRecords
    <2>3. ASSUME NEW g \in Games, NEW i \in Seats, Live(g)
          PROVE  game_states[g].players[i] # c
      BY <1>1, <2>3, SparedRecords
    <2> QED
      BY <2>1, <2>2, <2>3
  <1>2. IInv => RemovedClientForgotten
    BY <1>1 DEF RemovedClientForgotten
  <1> QED
    BY <1>2, Invariance, PTL

(* The game pointer of a client changes between NULL and a game, never     *)
(* from one game to another.                                               *)
LEMMA GamePointerStep ==
    ASSUME IInv, Next, NEW d \in Spared, clients[d].game_state # NULL
    PROVE  clients'[d].game_state \in {NULL, clients[d].game_state}
  <1> d \in Clients
    BY SparedClients
  <1>1. TypeOK /\ Rest /\ Links /\ Threads
    BY IInvParts DEF Rest
  <1>2. clients[d] \in ClientType /\ clients \in [Clients -> ClientType]
    BY <1>1 DEF TypeOK
  <1>3. CASE clients'[d] = clients[d]
    BY <1>3
  <1>4. ASSUME NEW s, clients'[d] = [clients[d] EXCEPT !.state = s]
        PROVE  clients'[d].game_state = clients[d].game_state
    BY <1>2, <1>4 DEF ClientType
  <1>5. ASSUME NEW p, ReturnToMenu(p)
        PROVE  clients'[d].game_state \in {NULL, clients[d].game_state}
    BY <1>2, <1>5 DEF ReturnToMenu, ClientType
  <1>6. ASSUME NEW c \in Clients, ClientStep(c)
        PROVE  clients'[d].game_state \in {NULL, clients[d].game_state}
    <2>1. CASE Connect(c)
      BY <1>2, <2>1 DEF Connect, NewClient
    <2>2. ASSUME NEW taken \in BOOLEAN, ResetClient(c, taken), recv[c].at # "down"
          PROVE  clients'[d].game_state \in {NULL, clients[d].game_state}
      <3>1. Cut(c, taken)
        BY <1>1, <2>2, ResetEffect, RunningIsTaken
      <3> QED
        BY <1>1, <3>1 DEF Cut
    <2>3. CASE Disconnect(c)
      BY <2>2, <2>3 DEF Disconnect
    <2>4. CASE ProcessExit(c)
      <3>1. clients[c].taken \in BOOLEAN
        BY <1>1, ClientFields
      <3> QED
        BY <2>2, <2>4, <3>1 DEF ProcessExit
    <2>5. CASE ProcessJoin(c)
      BY <1>2, <2>5 DEF ProcessJoin, ClientType
    <2>6. CASE AddClientToLobby(c)
      BY <1>2, <2>6 DEF AddClientToLobby, ClientType
    <2>7. CASE ProcessExitStatistics(c)
      BY <1>3, <1>5, <2>7 DEF ProcessExitStatistics
    <2>8. CASE UNCHANGED clients
      BY <2>8
    <2> QED
      BY <1>6, <2>1, <2>3, <2>4, <2>5, <2>6, <2>7, <2>8
      DEF ClientStep, Kill, ProcessGameType, ProcessMessage, SendChat, ProcessPlayerReady,
          SendReply, SendServerPacket
  <1>7. CASE StartGame
    <2>1. \/ UNCHANGED clients
          \/ \E l \in Lobbies, g \in Games : Started(l, g) \/ Wasted(l, g)
      BY <1>1, <1>7, StartEffect DEF Rest
    <2>2. ASSUME NEW l \in Lobbies, NEW g \in Games, Started(l, g) \/ Wasted(l, g)
          PROVE  clients'[d] = clients[d]
      <3>1. d \notin Dealt(l)
        BY <1>1, DealtSeated DEF Rest
      <3> QED
        BY <2>2, <3>1 DEF Started, Wasted
    <2> QED
      BY <1>3, <2>1, <2>2
  <1>8. ASSUME NEW g, NEW i, EndFrom(g, i)
        PROVE  clients'[d].game_state \in {NULL, clients[d].game_state}
    <2>1. \/ clients'[d] = clients[d]
          \/ \E s : clients'[d] = [clients[d] EXCEPT !.state = s]
      BY <1>2, <1>8 DEF EndFrom
    <2> QED
      BY <1>3, <1>4, <2>1
  <1>9. ASSUME NEW g, NEW i, MenuFrom(g, i)
        PROVE  clients'[d].game_state \in {NULL, clients[d].game_state}
    BY <1>3, <1>5, <1>9 DEF MenuFrom
  <1>10. CASE Gameloop
    <2>1. ASSUME NEW g \in Games, UpdateLoading(g)
          PROVE  \/ clients'[d] = clients[d]
                 \/ \E s : clients'[d] = [clients[d] EXCEPT !.state = s]
      BY <2>1 DEF UpdateLoading
    <2>2. ASSUME NEW g \in Games, UpdateStatistics(g)
          PROVE  clients'[d].game_state \in {NULL, clients[d].game_state}
      BY <1>3, <1>9, <2>2 DEF UpdateStatistics
    <2>3. CASE SendGameEnd \/ SendError
      BY <1>3, <1>8, <2>3 DEF SendGameEnd, SendError
    <2>4. CASE UNCHANGED clients
      BY <2>4
    <2> QED
      BY <1>3, <1>4, <1>7, <1>8, <1>9, <1>10, <2>1, <2>2, <2>3, <2>4
      DEF Gameloop, UpdateGame, UpdateLobby, SendLobby, UpdateInProgress, UpdateOver,
          SendGameReady, SendGameState, SendReturnToMenu
  <1> QED
    BY <1>6, <1>10 DEF Next

(* In every server, a client leaves a game before it is put in another one. *)
THEOREM SparedOneGameCorrect == Spec => SparedOneGame
  <1>1. IInv /\ [Next]_vars =>
          [\A c \in Spared : clients[c].game_state # NULL =>
             clients'[c].game_state \in {NULL, clients[c].game_state}]_vars
    BY GamePointerStep
  <1> QED
    BY <1>1, Invariance, PTL DEF Spec, SparedOneGame

-----------------------------------------------------------------------------
(* active_player_count *)

(* The counter does not fall below the number of connected players; and a  *)
(* client whose game pointer and player entry name different games got the *)
(* first from a start that init_game_* rejected, so that its departure,    *)
(* which counts down in the one and clears the entry in the other, takes   *)
(* nothing from a game that is played.                                     *)
GameCounts(g) ==
    Playing(g) => \A t \in Teams : game_states[g].active[t] >= Cardinality(TeamPlayers(g, t))

Linked(c) ==
    \/ clients[c].game_state = NULL \/ clients[c].player = NoPlayer
    \/ clients[c].player.game = clients[c].game_state
    \/ game_states[clients[c].game_state].status = "TAKEN"

ActiveInv == /\ \A g \in Games : GameCounts(g)
             /\ \A c \in Clients : Linked(c)

(* The players of a team can be counted. *)
LEMMA TeamFinite ==
    ASSUME TypeOK, NEW g \in Games, NEW t
    PROVE  TeamPlayers(g, t) \subseteq Seats /\ IsFiniteSet(TeamPlayers(g, t))
  <1>1. TeamPlayers(g, t) \subseteq Seats
    BY ActiveSeats DEF TeamPlayers
  <1> QED
    BY <1>1, SeatsFinite, FS_Subset

(* No client's pointers are parted by the step. *)
Keeps(c) ==
    \/ /\ clients'[c].game_state = clients[c].game_state
       /\ clients'[c].player = clients[c].player
    \/ clients'[c].game_state = NULL \/ clients'[c].player = NoPlayer
    \/ clients'[c].player.game = clients'[c].game_state

(* A step after which g, if it is played, was played before and has no     *)
(* player it did not have; a record that is lost stays lost.               *)
Shrinks(g) ==
    /\ game_states[g].status = "TAKEN" => game_states'[g].status = "TAKEN"
    /\ Playing(g)' =>
         /\ Playing(g)
         /\ game_states'[g].player_count = game_states[g].player_count
         /\ game_states'[g].active = game_states[g].active
         /\ \A i \in Seats : game_states'[g].players[i] \in {NULL, game_states[g].players[i]}

LEMMA CountsShrink ==
    ASSUME TypeOK, ActiveInv, NEW g \in Games, Shrinks(g), TypeOK'
    PROVE  GameCounts(g)'
  <1> SUFFICES ASSUME Playing(g)', NEW t \in Teams
               PROVE  game_states'[g].active[t] >= Cardinality(TeamPlayers(g, t)')
    BY DEF GameCounts
  <1>1. TeamPlayers(g, t)' \subseteq TeamPlayers(g, t)
    BY ActiveSeats DEF Shrinks, TeamPlayers, Active
  <1>2. /\ IsFiniteSet(TeamPlayers(g, t)) /\ IsFiniteSet(TeamPlayers(g, t)')
        /\ Cardinality(TeamPlayers(g, t)') <= Cardinality(TeamPlayers(g, t))
    BY <1>1, TeamFinite, FS_Subset
  <1>3. Cardinality(TeamPlayers(g, t)) \in Nat /\ Cardinality(TeamPlayers(g, t)') \in Nat
    BY <1>2, FS_CardinalityType
  <1>4. game_states[g].active[t] \in Int
    BY GameFields DEF GameType
  <1>5. game_states'[g].active[t] >= Cardinality(TeamPlayers(g, t))
    BY DEF ActiveInv, GameCounts, Shrinks
  <1> QED
    BY <1>2, <1>3, <1>4, <1>5 DEF Shrinks

LEMMA LinkedStays ==
    ASSUME TypeOK, ActiveInv, NEW c \in Clients, Keeps(c), \A g \in Games : Shrinks(g)
    PROVE  Linked(c)'
  <1>1. clients[c].game_state \in Games \cup {NULL}
    BY ClientFields
  <1> QED
    BY <1>1 DEF Keeps, Shrinks, ActiveInv, Linked

LEMMA ActiveKept ==
    ASSUME TypeOK, TypeOK', ActiveInv, \A c \in Clients : Keeps(c), \A g \in Games : Shrinks(g)
    PROVE  ActiveInv'
  BY CountsShrink, LinkedStays DEF ActiveInv

(* A step that changes no game *)
LEMMA GamesStayShrink ==
    ASSUME UNCHANGED game_states
    PROVE  \A g \in Games : Shrinks(g)
  BY DEF Shrinks, Playing

(* A change of status that starts no game and gives back no lost record *)
LEMMA StatusShrinks ==
    ASSUME TypeOK, NEW g \in Games, NEW s, SetStatus(g, s),
           game_states[g].status # "TAKEN", s \in {"LOADING", "IN_PROGRESS"} => Playing(g)
    PROVE  \A h \in Games : Shrinks(h)
  <1> SUFFICES ASSUME NEW h \in Games
               PROVE  Shrinks(h)
    OBVIOUS
  <1>1. /\ game_states'[h].players = game_states[h].players
        /\ game_states'[h].player_count = game_states[h].player_count
        /\ game_states'[h].active = game_states[h].active
        /\ game_states'[h].status = IF h = g THEN s ELSE game_states[h].status
    BY GameFields DEF SetStatus, TypeOK, GameType
  <1> QED
    BY <1>1 DEF Shrinks, Playing

(* A client record that only gets another state *)
LEMMA StateKeeps ==
    ASSUME TypeOK, NEW c \in Clients, NEW s, clients' = [clients EXCEPT ![c].state = s]
    PROVE  \A d \in Clients : Keeps(d)
  BY ClientFields DEF Keeps, TypeOK, ClientType

(* remove_client_from_game_state takes away one player and counts one down. *)
LEMMA ActiveReset ==
    ASSUME TypeOK, TypeOK', Links, ActiveInv, NEW c \in Clients, clients[c].taken,
           NEW taken \in BOOLEAN, ResetClient(c, taken)
    PROVE  ActiveInv'
  <1>1. Cut(c, taken)
    BY ResetEffect
  <1>2. \A d \in Clients : Keeps(d)
    BY <1>1 DEF Cut, Keeps
  <1>3. CASE clients[c].game_state = NULL \/ clients[c].player = NoPlayer
    BY <1>2, <1>3, GamesStayShrink, ActiveKept DEF ResetClient, GamesWithout
  <1>4. CASE clients[c].game_state # NULL /\ clients[c].player # NoPlayer
    <2>1. PICK h \in Games, k \in Seats : clients[c].player = [game |-> h, seat |-> k]
      BY <1>4, ClientFields
    <2> DEFINE s == clients[c].game_state
    <2>2. s \in Games
      BY <1>4, ClientFields
    <2>3. k \in Active(h) /\ game_states[h].players[k] = c /\ Live(h)
      BY <1>4, <2>1 DEF Links, PointersNamed
    <2>4. game_states' = [game_states EXCEPT ![h].players[k] = NULL,
                                             ![s].active[TeamOf(k)] = @ - 1]
      BY <1>4, <2>1 DEF ResetClient, GamesWithout
    <2>5. c # NULL /\ TeamOf(k) \in Teams
      BY NullIsNoIndex, ServerAssumption DEF Seats, TeamOf, Teams
    <2> HIDE DEF s
    <2>6. s = h \/ game_states[s].status = "TAKEN"
      BY <1>4, <2>1 DEF ActiveInv, Linked, s
    <2>7. \A g \in Games : /\ game_states'[g].status = game_states[g].status
                           /\ game_states'[g].player_count = game_states[g].player_count
      BY <1>1 DEF Cut
    <2>8. \A g \in Games : /\ game_states[g] \in GameType
                           /\ game_states[g].players \in [Seats -> Clients \cup {NULL}]
                           /\ game_states[g].active \in [Teams -> Int]
      BY GameFields DEF GameType
    <2>9. ASSUME NEW g \in Games, ~(g = h /\ s = h)
          PROVE  Shrinks(g)
      <3>1. CASE g = s
        <4>1. game_states[g].status = "TAKEN"
          BY <2>6, <2>9, <3>1
        <4> QED
          BY <2>7, <4>1 DEF Shrinks, Playing
      <3>2. CASE g # s
        <4>1. /\ game_states'[g].active = game_states[g].active
              /\ \A i \in Seats : game_states'[g].players[i] \in {NULL, game_states[g].players[i]}
          <5>1. CASE g = h
            BY <2>2, <2>4, <2>8, <3>2, <5>1 DEF TypeOK, GameType
          <5>2. CASE g # h
            BY <2>2, <2>4, <3>2, <5>2 DEF TypeOK
          <5> QED
            BY <5>1, <5>2
        <4> QED
          BY <2>7, <4>1 DEF Shrinks, Playing
      <3> QED
        BY <3>1, <3>2
    <2>10. ASSUME s = h, Playing(h)', NEW t \in Teams
           PROVE  game_states'[h].active[t] >= Cardinality(TeamPlayers(h, t)')
      <3>1. /\ game_states'[h].players = [game_states[h].players EXCEPT ![k] = NULL]
            /\ game_states'[h].active = [game_states[h].active EXCEPT ![TeamOf(k)] = @ - 1]
        BY <2>4, <2>8, <2>10 DEF TypeOK, GameType
      <3>2. Active(h)' = Active(h) /\ Active(h) \subseteq Seats
        BY <2>7, ActiveSeats DEF Active
      <3>3. TeamPlayers(h, t)' = TeamPlayers(h, t) \ (IF t = TeamOf(k) THEN {k} ELSE {})
        BY <2>8, <3>1, <3>2 DEF TeamPlayers
      <3>4. game_states[h].active[t] >= Cardinality(TeamPlayers(h, t))
        BY <2>7, <2>10 DEF ActiveInv, GameCounts, Playing
      <3>5. Cardinality(TeamPlayers(h, t)) \in Nat
        BY TeamFinite, FS_CardinalityType
      <3>6. CASE t = TeamOf(k)
        <4>1. k \in TeamPlayers(h, t)
          BY <2>3, <2>5, <3>6 DEF TeamPlayers
        <4>2. Cardinality(TeamPlayers(h, t) \ {k}) = Cardinality(TeamPlayers(h, t)) - 1
          BY <4>1, TeamFinite, FS_RemoveElement
        <4>3. game_states'[h].active[t] = game_states[h].active[t] - 1
          BY <2>5, <2>8, <3>1, <3>6
        <4> QED
          BY <2>8, <3>3, <3>4, <3>5, <3>6, <4>2, <4>3
      <3>7. CASE t # TeamOf(k)
        <4>1. TeamPlayers(h, t)' = TeamPlayers(h, t)
          BY <3>3, <3>7
        <4>2. game_states'[h].active[t] = game_states[h].active[t]
          BY <2>5, <2>8, <3>1, <3>7
        <4> QED
          BY <3>4, <4>1, <4>2
      <3> QED
        BY <3>6, <3>7
    <2>11. \A g \in Games : GameCounts(g)'
      BY <2>9, <2>10, CountsShrink DEF GameCounts
    <2>12. ASSUME NEW d \in Clients
           PROVE  Linked(d)'
      <3>1. CASE d = c
        BY <1>1, <3>1 DEF Cut, Linked
      <3>2. CASE d # c
        <4>1. clients'[d] = clients[d] /\ Linked(d) /\ clients[d].game_state \in Games \cup {NULL}
          BY <1>1, <3>2, ClientFields DEF Cut, ActiveInv
        <4> QED
          BY <2>7, <4>1 DEF Linked
      <3> QED
        BY <3>1, <3>2
    <2> QED
      BY <2>11, <2>12 DEF ActiveInv
  <1> QED
    BY <1>3, <1>4

(* send_return_to_menu_to_player takes entries away and counts nothing. *)
LEMMA ActiveReturn ==
    ASSUME TypeOK, TypeOK', Links, ActiveInv, NEW g \in Games, NEW j \in Seats, Live(g),
           game_states[g].players[j] # NULL, ReturnToMenu([game |-> g, seat |-> j])
    PROVE  ActiveInv'
  <1>1. Returned(game_states[g].players[j], g, j)
    BY ReturnToMenuEffect
  <1>2. \A d \in Clients : Keeps(d)
    BY <1>1 DEF Returned, Keeps
  <1>3. game_states' = [game_states EXCEPT ![g].players[j] = NULL]
    BY DEF ReturnToMenu
  <1>4. \A h \in Games : game_states'[h].active = game_states[h].active
    BY <1>3, GameFields DEF TypeOK, GameType
  <1>5. \A h \in Games : Shrinks(h)
    BY <1>1, <1>4 DEF Returned, Shrinks, Playing
  <1> QED
    BY <1>2, <1>5, ActiveKept

(* Every player of a game that starts is counted. *)
LEMMA ActiveStart ==
    ASSUME TypeOK, TypeOK', LobbyCounts, ActiveInv, StartGame
    PROVE  ActiveInv'
  <1>1. CASE UNCHANGED <<clients, lobbies, game_states>>
    BY <1>1, GamesStayShrink, ActiveKept DEF Keeps
  <1>2. ASSUME NEW l \in Lobbies, NEW g \in Games, game_states[g].status = "FREE",
               Started(l, g) \/ Wasted(l, g)
        PROVE  ActiveInv'
    <2>1. ASSUME NEW h \in Games, h # g
          PROVE  Shrinks(h)
      BY <1>2, <2>1 DEF Started, Wasted, Shrinks, Playing
    <2>2. ASSUME NEW d \in Clients
          PROVE  Linked(d)'
      <3>1. CASE d \notin Dealt(l)
        <4>1. clients'[d] = clients[d] /\ clients[d].game_state \in Games \cup {NULL} /\ Linked(d)
          BY <1>2, <3>1, ClientFields DEF Started, Wasted, ActiveInv
        <4>2. ASSUME NEW h \in Games, game_states[h].status = "TAKEN"
              PROVE  game_states'[h].status = "TAKEN"
          <5>1. h # g
            BY <1>2, <4>2
          <5> QED
            BY <2>1, <4>2, <5>1 DEF Shrinks
        <4>3. CASE clients[d].game_state = NULL \/ clients[d].player = NoPlayer
                   \/ clients[d].player.game = clients[d].game_state
          BY <4>1, <4>3 DEF Linked
        <4>4. CASE clients[d].game_state # NULL
                   /\ game_states[clients[d].game_state].status = "TAKEN"
          <5> DEFINE h == clients[d].game_state
          <5>1. h \in Games
            BY <4>1, <4>4
          <5>2. game_states'[h].status = "TAKEN"
            BY <4>2, <4>4, <5>1
          <5>3. clients'[d].game_state = h
            BY <4>1
          <5> QED
            BY <5>2, <5>3 DEF Linked
        <4> QED
          BY <4>1, <4>3, <4>4 DEF Linked
      <3>2. CASE d \in Dealt(l) /\ Started(l, g)
        <4>1. \A c \in Clients \cap Dealt(l) : \E i \in 0 .. LobbySize[l] - 1 :
                 clients'[c].player = [game |-> g, seat |-> i] /\ clients'[c].game_state = g
          BY <3>2, Zenon DEF Started
        <4>2. PICK i : clients'[d].player = [game |-> g, seat |-> i] /\ clients'[d].game_state = g
          BY <3>2, <4>1
        <4>3. clients'[d].player.game = clients'[d].game_state
          BY <4>2
        <4> QED
          BY <4>3 DEF Linked
      <3>3. CASE d \in Dealt(l) /\ Wasted(l, g)
        BY <3>3 DEF Wasted, Linked
      <3> QED
        BY <1>2, <3>1, <3>2, <3>3
    <2>3. CASE Wasted(l, g)
      <3>1. GameCounts(g)'
        BY <2>3 DEF Wasted, GameCounts, Playing
      <3> QED
        BY <2>1, <2>2, <3>1, CountsShrink DEF ActiveInv
    <2>4. CASE Started(l, g)
      <3>1. PICK n \in Nat : game_states'[g].active =
               [t \in Teams |-> Cardinality({i \in 0 .. n - 1 : TeamOf(i) = t})]
               /\ game_states'[g].player_count = n
        <4>1. game_states'[g].status = "LOADING" /\ gl.unit \in Lobbies
          BY <2>4, LoopFields DEF Started, StartGame, TypeOK
        <4>2. CASE UNCHANGED game_states
          BY <1>2, <4>1, <4>2
        <4>3. ASSUME NEW f \in Games, game_states' = [game_states EXCEPT ![f].status = "TAKEN"]
              PROVE  FALSE
          BY <1>2, <4>1, <4>3, GameFields DEF TypeOK, GameType
        <4>4. ASSUME NEW f \in Games, NEW n \in Nat,
                     game_states' = [game_states EXCEPT ![f] = InitGame(f, gl.unit, n)]
              PROVE  /\ game_states'[g].active =
                          [t \in Teams |-> Cardinality({i \in 0 .. n - 1 : TeamOf(i) = t})]
                     /\ game_states'[g].player_count = n
          <5>1. f = g
            BY <1>2, <4>1, <4>4 DEF TypeOK
          <5>2. game_states'[g] = InitGame(g, gl.unit, n)
            BY <4>4, <5>1 DEF TypeOK
          <5> QED
            BY <5>2, GameFields DEF InitGame, GameType
        <4>5. LobbySize[gl.unit] \in Nat
          BY <4>1, SlotsAreSeats
        <4> QED
          BY <4>2, <4>3, <4>4, <4>5 DEF StartGame, FreeGames
      <3>2. ASSUME NEW t \in Teams
            PROVE  game_states'[g].active[t] >= Cardinality(TeamPlayers(g, t)')
        <4> DEFINE S == {i \in 0 .. n - 1 : TeamOf(i) = t}
        <4>1. TeamPlayers(g, t)' \subseteq S
          BY <3>1 DEF TeamPlayers, Active
        <4>2. IsFiniteSet(0 .. n - 1)
          BY FS_Interval
        <4>3. IsFiniteSet(S)
          BY <4>2, FS_Subset
        <4>4. game_states'[g].active[t] = Cardinality(S)
          BY <3>1
        <4> HIDE DEF S
        <4>5. /\ IsFiniteSet(TeamPlayers(g, t)')
              /\ Cardinality(TeamPlayers(g, t)') <= Cardinality(S)
          BY <4>1, <4>3, FS_Subset
        <4>6. Cardinality(S) \in Nat /\ Cardinality(TeamPlayers(g, t)') \in Nat
          BY <4>3, <4>5, FS_CardinalityType
        <4> QED
          BY <4>4, <4>5, <4>6
      <3>3. GameCounts(g)'
        BY <3>2 DEF GameCounts
      <3> QED
        BY <2>1, <2>2, <3>3, CountsShrink DEF ActiveInv
    <2> QED
      BY <1>2, <2>3, <2>4
  <1> QED
    BY <1>1, <1>2, StartEffect

(* The loops that tell the players of a game of its end *)
LEMMA ActiveEnd ==
    ASSUME TypeOK, TypeOK', ActiveInv, NEW g \in Games, Over(g), NEW i \in Nat, EndFrom(g, i)
    PROVE  ActiveInv'
  <1>1. CASE SetStatus(g, "STATISTICS") /\ UNCHANGED clients
    BY <1>1, StatusShrinks, ActiveKept DEF Over, Keeps
  <1>2. ASSUME NEW j \in Connected(g, i, game_states[g].player_count), UNCHANGED game_states,
               clients' = [clients EXCEPT ![game_states[g].players[j]].state = "STATISTICS"]
        PROVE  ActiveInv'
    <2>1. j \in Active(g) /\ game_states[g].players[j] # NULL
      BY <1>2, GameFields, ServerAssumption DEF Connected, Active, GameType
    <2>2. game_states[g].players[j] \in Clients
      BY <2>1, ActiveSeats, GameFields
    <2> QED
      BY <1>2, <2>2, StateKeeps, GamesStayShrink, ActiveKept
  <1> QED
    BY <1>1, <1>2 DEF EndFrom, IsFirst

(* The way back to the menu *)
LEMMA ActiveMenu ==
    ASSUME TypeOK, TypeOK', Links, ActiveInv, NEW g \in Games,
           game_states[g].status = "STATISTICS", NEW i \in Nat, MenuFrom(g, i)
    PROVE  ActiveInv'
  <1>1. CASE SetStatus(g, "FREE") /\ UNCHANGED clients
    BY <1>1, StatusShrinks, ActiveKept DEF Keeps
  <1>2. ASSUME NEW j \in Connected(g, i, MaxPlayers), ReturnToMenu([game |-> g, seat |-> j])
        PROVE  ActiveInv'
    <2>1. j \in Seats /\ game_states[g].players[j] # NULL
      BY ServerAssumption DEF Connected, Seats
    <2>2. Live(g)
      BY DEF Live
    <2> QED
      BY <1>2, <2>1, <2>2, ActiveReturn
  <1> QED
    BY <1>1, <1>2 DEF MenuFrom, IsFirst

(* Every step of a client's process keeps the count. *)
LEMMA ActiveClientStep ==
    ASSUME TypeOK, TypeOK', Rest, ActiveInv, NEW c \in Clients, ClientStep(c)
    PROVE  ActiveInv'
  <1>0. Links /\ (recv[c].at # "down" => clients[c].taken)
    BY RunningIsTaken DEF Rest
  <1>1. CASE UNCHANGED <<clients, game_states>>
    BY <1>1, GamesStayShrink, ActiveKept DEF Keeps
  <1>2. CASE Connect(c)
    <2>1. \A d \in Clients : Keeps(d)
      BY <1>2 DEF Connect, Keeps, NewClient, TypeOK
    <2> QED
      BY <1>2, <2>1, GamesStayShrink, ActiveKept DEF Connect
  <1>3. CASE ProcessJoin(c)
    <2>1. CASE UNCHANGED clients
      BY <1>1, <1>3, <2>1 DEF ProcessJoin
    <2>2. CASE clients' = [clients EXCEPT ![c].state = "MENU"]
      BY <1>3, <2>2, StateKeeps, GamesStayShrink, ActiveKept DEF ProcessJoin
    <2> QED
      BY <1>3, <2>1, <2>2 DEF ProcessJoin
  <1>4. CASE AddClientToLobby(c)
    <2>1. \A d \in Clients : Keeps(d)
      BY <1>4, ClientFields DEF AddClientToLobby, Keeps, TypeOK, ClientType
    <2> QED
      BY <1>4, <2>1, GamesStayShrink, ActiveKept DEF AddClientToLobby
  <1>5. CASE Disconnect(c)
    BY <1>0, <1>5, ActiveReset DEF Disconnect
  <1>6. CASE ProcessExit(c)
    <2>1. clients[c].taken \in BOOLEAN
      BY ClientFields
    <2> QED
      BY <1>0, <1>6, <2>1, ActiveReset DEF ProcessExit
  <1>7. CASE ProcessPlayerReady(c)
    <2>1. PICK p : game_states' = [game_states EXCEPT ![p.game].ready[p.seat] = TRUE]
                   /\ UNCHANGED clients
      BY <1>7 DEF ProcessPlayerReady
    <2>2. ASSUME NEW g \in Games
          PROVE  Shrinks(g)
      <3>1. /\ game_states'[g].players = game_states[g].players
            /\ game_states'[g].player_count = game_states[g].player_count
            /\ game_states'[g].active = game_states[g].active
            /\ game_states'[g].status = game_states[g].status
        BY <2>1, GameFields DEF TypeOK, GameType
      <3> QED
        BY <3>1 DEF Shrinks, Playing
    <2> QED
      BY <2>1, <2>2, ActiveKept DEF Keeps
  <1>8. CASE ProcessExitStatistics(c)
    <2>1. CASE clients[c].player = NoPlayer
      BY <1>1, <1>8, <2>1 DEF ProcessExitStatistics
    <2>2. CASE clients[c].player # NoPlayer
      <3>1. PICK h \in Games, k \in Seats : clients[c].player = [game |-> h, seat |-> k]
        BY <2>2, ClientFields
      <3>2. clients[c].taken
        BY <1>0, <1>8 DEF ProcessExitStatistics, Poll
      <3>3. Live(h) /\ game_states[h].players[k] = c /\ c # NULL
        BY <1>0, <2>2, <3>1, <3>2, NullIsNoIndex DEF Links, PointersNamed
      <3>4. ReturnToMenu([game |-> h, seat |-> k])
        BY <1>8, <2>2, <3>1 DEF ProcessExitStatistics
      <3> QED
        BY <1>0, <3>3, <3>4, ActiveReturn
    <2> QED
      BY <2>1, <2>2
  <1> QED
    BY <1>1, <1>2, <1>3, <1>4, <1>5, <1>6, <1>7, <1>8
    DEF ClientStep, Kill, ProcessGameType, ProcessMessage, SendChat, SendReply, SendServerPacket

(* Every step of the gameloop keeps the count. *)
LEMMA ActiveGameloop ==
    ASSUME TypeOK, TypeOK', Rest, ActiveInv, Gameloop
    PROVE  ActiveInv'
  <1>0. Links /\ LobbyCounts /\ LoopKnows /\ gl \in LoopType
    BY DEF Rest, TypeOK
  <1>1. CASE UNCHANGED <<clients, game_states>>
    BY <1>1, GamesStayShrink, ActiveKept DEF Keeps
  <1>2. CASE StartGame
    BY <1>0, <1>2, ActiveStart
  <1>3. ASSUME NEW g \in Games, UpdateLoading(g)
        PROVE  ActiveInv'
    <2>1. CASE SetStatus(g, "IN_PROGRESS") /\
               clients' = [c \in Clients |->
                  IF \E i \in Active(g) : game_states[g].players[i] = c
                  THEN [clients[c] EXCEPT !.state = "GAME"] ELSE clients[c]]
      <3>1. \A d \in Clients : Keeps(d)
        BY <2>1, ClientFields DEF Keeps, ClientType
      <3>2. Playing(g) /\ game_states[g].status # "TAKEN"
        BY <1>3 DEF UpdateLoading, Playing
      <3> QED
        BY <2>1, <3>1, <3>2, StatusShrinks, ActiveKept
    <2> QED
      BY <1>1, <1>3, <2>1 DEF UpdateLoading
  <1>4. ASSUME NEW g \in Games, UpdateInProgress(g)
        PROVE  ActiveInv'
    <2>1. /\ UNCHANGED clients /\ game_states[g].status # "TAKEN"
          /\ \/ SetStatus(g, "SUCCESS") \/ SetStatus(g, "ALL_TEAM_LEFT")
             \/ UNCHANGED game_states
      BY <1>4 DEF UpdateInProgress
    <2>2. \A d \in Clients : Keeps(d)
      BY <2>1 DEF Keeps
    <2> QED
      BY <1>1, <2>1, <2>2, StatusShrinks, ActiveKept
  <1>5. ASSUME NEW g \in Games, UpdateOver(g)
        PROVE  ActiveInv'
    BY <1>0, <1>5, ActiveEnd DEF UpdateOver
  <1>6. ASSUME NEW g \in Games, UpdateStatistics(g)
        PROVE  ActiveInv'
    <2>1. CASE SetStatus(g, "FREE") /\ UNCHANGED clients
      <3>1. \A d \in Clients : Keeps(d)
        BY <2>1 DEF Keeps
      <3>2. game_states[g].status # "TAKEN"
        BY <1>6 DEF UpdateStatistics
      <3> QED
        BY <2>1, <3>1, <3>2, StatusShrinks, ActiveKept
    <2> QED
      BY <1>0, <1>6, <2>1, ActiveMenu DEF UpdateStatistics
  <1>7. CASE SendGameEnd \/ SendError
    <2>1. /\ gl.at \in {"end", "error"} /\ gl.unit \in Games /\ gl.seat + 1 \in Nat
      BY <1>0, <1>7, LoopFields, ServerAssumption DEF SendGameEnd, SendError, Seats
    <2>2. Over(gl.unit)
      BY <1>0, <2>1 DEF LoopKnows
    <2> QED
      BY <1>0, <1>1, <1>7, <2>1, <2>2, ActiveEnd DEF SendGameEnd, SendError
  <1>8. CASE SendReturnToMenu
    <2>1. /\ gl.at = "menu" /\ gl.unit \in Games /\ gl.seat + 1 \in Nat
      BY <1>0, <1>8, LoopFields, ServerAssumption DEF SendReturnToMenu, Seats
    <2> QED
      BY <1>0, <1>8, <2>1, ActiveMenu DEF SendReturnToMenu, LoopKnows
  <1> QED
    BY <1>1, <1>2, <1>3, <1>4, <1>5, <1>6, <1>7, <1>8
    DEF Gameloop, UpdateGame, UpdateLobby, SendLobby, SendGameReady, SendGameState

(* In every server, a team of a game that is played is given up only when  *)
(* it has no connected player left: active_player_count does not fall      *)
(* below their number, whichever way the players leave.                    *)
THEOREM TeamsCorrect == Spec => []TeamsAreNotGivenUp
  <1>1. Init => IInv /\ ActiveInv
    <2>1. Init => ActiveInv
      BY DEF Init, FreeGame, NewClient, ActiveInv, GameCounts, Linked, Playing
    <2> QED
      BY <2>1, InvInit
  <1>2. (IInv /\ ActiveInv) /\ [Next]_vars => (IInv /\ ActiveInv)'
    <2> SUFFICES ASSUME IInv, ActiveInv, [Next]_vars
                 PROVE  IInv' /\ ActiveInv'
      OBVIOUS
    <2>1. TypeOK /\ Rest
      BY IInvParts DEF Rest
    <2>2. IInv' /\ TypeOK'
      BY InvStep, <2>1, TypeStep
    <2>3. ASSUME UNCHANGED vars
          PROVE  ActiveInv'
      BY <2>1, <2>2, <2>3, GamesStayShrink, ActiveKept DEF vars, Keeps
    <2>4. ASSUME Next
          PROVE  ActiveInv'
      BY <2>1, <2>2, <2>4, ActiveClientStep, ActiveGameloop DEF Next
    <2> QED
      BY <2>2, <2>3, <2>4
  <1>3. ActiveInv => TeamsAreNotGivenUp
    BY DEF ActiveInv, GameCounts, TeamsAreNotGivenUp
  <1> QED
    BY <1>1, <1>2, <1>3, PTL DEF Spec
=============================================================================
