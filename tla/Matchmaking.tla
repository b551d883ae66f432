----------------------------- MODULE Matchmaking -----------------------------
(***************************************************************************)
(* What the server promises its clients about lobbies and games: a client  *)
(* waits in at most one lobby and plays in at most one game; a game starts  *)
(* on a free record only, when every place of the lobby is somebody's, all  *)
(* of them at once, all waiting in that lobby and each with a seat of its   *)
(* own; nobody enters or changes a game that has started; a record becomes  *)
(* free again only when nobody plays on it.                                 *)
(*                                                                          *)
(* The promise is made to every client but the strays, if there are any: a  *)
(* stray may turn up anywhere and hold several places.                      *)
(*                                                                          *)
(* A start may fail, because a client left the lobby while it was being     *)
(* told about it; the record is then lost.                                  *)
(***************************************************************************)
EXTENDS Integers, FiniteSets

CONSTANTS Clients, Games, Lobbies,
          Strays,       \* the clients that nothing is promised to
          Size,         \* Size[l]: the number of places of a lobby
          None,         \* in no lobby
          NotPlaying    \* in no game

VARIABLES
    waiting,    \* waiting[c]: the lobby c waits in, or None
    playing,    \* playing[c]: the game c plays in and its seat, or NotPlaying
    stage       \* stage[g]: "free", "lost", "loading", "running", "over", "statistics"

vars == <<waiting, playing, stage>>

Waiters(l) == {c \in Clients \ Strays : waiting[c] = l /\ playing[c] = NotPlaying}
Players(g) == {c \in Clients \ Strays : playing[c] # NotPlaying /\ playing[c].game = g}

Init ==
    /\ waiting = [c \in Clients |-> None]
    /\ playing = [c \in Clients |-> NotPlaying]
    /\ stage = [g \in Games |-> "free"]

Enter(c, l) ==
    /\ waiting[c] = None /\ playing[c] = NotPlaying
    /\ waiting' = [waiting EXCEPT ![c] = l]
    /\ UNCHANGED <<playing, stage>>

(* Whatever c was doing, it is back in no lobby and no game. *)
Leave(c) ==
    /\ waiting' = [waiting EXCEPT ![c] = None]
    /\ playing' = [playing EXCEPT ![c] = NotPlaying]
    /\ UNCHANGED stage

(* What becomes of a stray concerns nobody else. *)
Wander(c) ==
    /\ c \in Strays
    /\ DOMAIN waiting' = Clients /\ DOMAIN playing' = Clients
    /\ \A d \in Clients \ {c} : waiting'[d] = waiting[d] /\ playing'[d] = playing[d]
    /\ UNCHANGED stage

Stand(T) == waiting' = [c \in Clients |-> IF c \in T THEN None ELSE waiting[c]]

(* Each place i of the lobby becomes the seat of holder[i]; only a stray    *)
(* can hold several, and plays on one of them.                              *)
Begin(g, l) ==
    /\ stage[g] = "free" /\ Players(g) = {}
    /\ \E holder \in [0 .. Size[l] - 1 -> Waiters(l) \cup Strays] :
        LET T == {holder[i] : i \in 0 .. Size[l] - 1} IN
        /\ \A i, j \in 0 .. Size[l] - 1 : holder[i] = holder[j] => i = j \/ holder[i] \in Strays
        /\ Stand(T)
        /\ DOMAIN playing' = Clients
        /\ \A c \in Clients \ T : playing'[c] = playing[c]
        /\ \A c \in T : \E i \in 0 .. Size[l] - 1 :
               holder[i] = c /\ playing'[c] = [game |-> g, seat |-> i]
    /\ stage' = [stage EXCEPT ![g] = "loading"]

FailToBegin(g, l) ==
    /\ stage[g] = "free"
    /\ \E T \in SUBSET (Waiters(l) \cup Strays) : Stand(T)
    /\ stage' = [stage EXCEPT ![g] = "lost"]
    /\ UNCHANGED playing

Follows == {<<"loading", "running">>, <<"running", "over">>, <<"over", "statistics">>}

Advance(g) ==
    /\ \E s \in Follows : stage[g] = s[1] /\ stage' = [stage EXCEPT ![g] = s[2]]
    /\ UNCHANGED <<waiting, playing>>

Release(g) ==
    /\ stage[g] = "statistics" /\ Players(g) = {}
    /\ stage' = [stage EXCEPT ![g] = "free"]
    /\ UNCHANGED <<waiting, playing>>

Next ==
    \/ \E c \in Clients : Leave(c) \/ Wander(c) \/ \E l \in Lobbies : Enter(c, l)
    \/ \E g \in Games : \/ Advance(g) \/ Release(g)
                        \/ \E l \in Lobbies : Begin(g, l) \/ FailToBegin(g, l)

Spec == Init /\ [][Next]_vars
==============================================================================
