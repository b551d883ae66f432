------------------------------ MODULE PongClient ------------------------------
(***************************************************************************)
(* The client program: the GLUT main thread (gameloop, drawing, keyboard   *)
(* and mouse), the receive thread with its process_* handlers, statement   *)
(* by statement, and the send thread; and, as far as this one client can   *)
(* see it, the server.  The threads share rend_data, inp_data and send_mem *)
(* without a lock.                                                         *)
(*                                                                         *)
(* Module Mailbox shows that send_mem with its one producer is a pipe: a   *)
(* send_* function waits until it is empty and fills it in one step here.  *)
(* What the renderers draw is left out, and so are the names the lobby     *)
(* renderer remembers: a chat message may find its sender or not.          *)
(***************************************************************************)
EXTENDS Integers, Sequences

CONSTANTS
    MaxWith, MaxWithout,    \* CHAT_DISPLAYED_MESSAGE_COUNT_WITH(OUT)_INPUT_FIELD
    MaxText,                \* INPUT_TEXT_MAX_LENGTH
    PaddleKeys,             \* the keys that move the paddle
    Inputs,                 \* what may happen in this instance beside playing
    MaxInFlight             \* bound: packets between the server and the receive thread

ASSUME ClientAssumption ==
    /\ MaxWith \in Nat \ {0} /\ MaxWithout \in Nat /\ MaxWith <= MaxWithout
    /\ MaxText \in Nat \ {0} /\ MaxInFlight \in Nat \ {0}
    /\ "quit" \notin PaddleKeys /\ Inputs \subseteq {"type", "chat", "quit", "error"}

VARIABLES
    server,     \* clients[c].state on the server, and more: see Stages
    reply,      \* what the receive thread of the client's process on the server waits for
    loop,       \* the packet that the gameloop waits to send to this client
    chatter,    \* somebody in the lobby waits to send a chat message to this client
    channel,    \* packets on their way to the client
    mail,       \* send_mem: the packet in it, or "none"
    lobbyData,  \* packet_buf holds a LOBBY packet
    recv,       \* what is left of the process_* handler
    rend,       \* rend_data and the GLUT callbacks: a record
    keys, text, \* inp_data: the keys pressed, input_text_len
    even,       \* frame_counter % 2 = 0
    main        \* where the main thread is: a record

vars == <<server, reply, loop, chatter, channel, mail, lobbyData, recv, rend, keys, text, even, main>>

ServerVars == <<server, reply, loop, chatter>>

Screens == {"JOIN", "MENU", "LOBBY", "LOADING", "GAME", "STATISTICS"}
(* "READY": LOADING with player->ready; "STARTED": GAME before the first   *)
(* GAME_STATE; "gone": the process of this client died.                    *)
Stages == Screens \cup {"LOST", "READY", "STARTED", "gone"}
Freed == 0      \* a node of the chat that was freed
NULL == -1      \* no node

(* A position in the main thread: mail to send, chat messages drawn, and   *)
(* the node that comes next, counted in the list as it is now.             *)
At(place) == [at |-> place, packet |-> "none", next |-> place, drawn |-> 0, node |-> NULL]
Sending(p, place) == [At("send") EXCEPT !.packet = p, !.next = place]
Chat == [At("chat") EXCEPT !.node = IF rend.chat > 0 THEN 1 ELSE NULL]

Running == main.at \notin {"crashed", "exited"}

(* main, init_render_data, init_graphics_window *)
Init ==
    /\ server = "JOIN" /\ reply = "none" /\ loop = "none" /\ chatter = FALSE
    /\ channel = <<>> /\ mail = "none" /\ lobbyData = FALSE /\ recv = <<>>
    /\ rend = [screen |-> "JOIN", chat |-> 1, shown |-> MaxWithout,
               mouse |-> "join", keyboard |-> "type", special |-> "none"]
    /\ keys = {} /\ text = 0 /\ even = TRUE
    /\ main = At("events")

-----------------------------------------------------------------------------
(* The receive thread *)

(* What the process_* handlers do, in their order.  A packet on a screen   *)
(* that does not expect it only leaves a line on the terminal.             *)
Accepted ==
    <<<<"clear input">>, <<"clear chat">>, <<"append">>, <<"keyboard", "none">>,
      <<"mouse", "menu">>, <<"screen", "MENU">>>>

ToMenu ==
    <<<<"clear input">>, <<"clear chat">>, <<"keyboard", "none">>,
      <<"mouse", "menu">>, <<"screen", "MENU">>>>

(* Mutant of ToLobby: the messages of the menu stay. *)
ToLobbyKeep ==
    <<<<"append">>, <<"keyboard", "type">>, <<"mouse", "lobby">>,
      <<"shown", MaxWith>>, <<"screen", "LOBBY">>>>

ToLobby ==
    <<<<"clear chat">>, <<"append">>, <<"keyboard", "type">>, <<"mouse", "lobby">>,
      <<"shown", MaxWith>>, <<"screen", "LOBBY">>>>

(* Mutant of ToLoading: a screen that is never shown. *)
ToLoadingBlind ==
    <<<<"clear input">>, <<"clear chat">>, <<"keyboard", "none">>, <<"mouse", "none">>,
      <<"shown", MaxWithout>>>>

ToLoading ==
    <<<<"clear input">>, <<"clear chat">>, <<"keyboard", "none">>, <<"mouse", "none">>,
      <<"shown", MaxWithout>>, <<"screen", "LOADING">>>>

(* Mutant of ToGame: the loading screen stays. *)
ToGameStay ==
    <<<<"clear chat">>, <<"append">>, <<"keyboard", "game">>, <<"special", "game">>>>

ToGame ==
    <<<<"clear chat">>, <<"append">>, <<"keyboard", "game">>, <<"special", "game">>,
      <<"screen", "GAME">>>>

(* Mutant of ToStatistics: the mouse is forgotten. *)
ToStatisticsDeaf ==
    <<<<"clear chat">>, <<"keyboard", "none">>, <<"special", "none">>, <<"screen", "STATISTICS">>>>

ToStatistics ==
    <<<<"clear chat">>, <<"mouse", "statistics">>, <<"keyboard", "none">>,
      <<"special", "none">>, <<"screen", "STATISTICS">>>>

(* Mutant of ToJoin: the screen stays. *)
ToJoinStay ==
    <<<<"clear chat">>, <<"clear input">>, <<"shown", MaxWithout>>, <<"append">>,
      <<"keyboard", "type">>, <<"mouse", "join">>>>

ToJoin ==
    <<<<"clear chat">>, <<"clear input">>, <<"shown", MaxWithout>>, <<"append">>,
      <<"keyboard", "type">>, <<"mouse", "join">>, <<"screen", "JOIN">>>>

Handler(p) ==
    CASE p = "ACCEPT" /\ rend.screen = "JOIN"               -> Accepted
      [] p = "LOBBY" /\ rend.screen = "MENU"                -> ToLobby
      [] p = "GAME_READY" /\ rend.screen = "LOBBY"          -> ToLoading
      [] p = "GAME_STATE" /\ rend.screen = "LOADING"        -> ToGame
      [] p = "GAME_END" /\ rend.screen = "GAME"             -> ToStatistics
      [] p = "RETURN_TO_MENU" /\ rend.screen = "STATISTICS" -> ToMenu
      [] p = "RETURN_TO_JOIN"                               -> ToJoin
      [] p \in {"CHAT", "INFO"}                             -> <<<<"append">>>>
      [] OTHER                                              -> <<>>

(* receive_server_packets: the packet is in packet_buf, where the one      *)
(* before was, and process_server_packets calls its handler.               *)
Receive ==
    /\ Running /\ recv = <<>> /\ channel # <<>>
    /\ lobbyData' = (Head(channel) = "LOBBY") /\ channel' = Tail(channel)
    /\ recv' \in {Handler(Head(channel))} \cup (IF Head(channel) = "CHAT" THEN {<<>>} ELSE {})
    /\ UNCHANGED <<ServerVars, mail, rend, keys, text, even, main>>

(* recv() returns 0: exit(0) *)
ServerDisconnected ==
    /\ Running /\ recv = <<>> /\ Len(channel) <= 1 /\ server = "gone"
    /\ main' = At("exited")
    /\ UNCHANGED <<ServerVars, channel, mail, lobbyData, recv, rend, keys, text, even>>

(* pop_front, n times in one step: every node moves up, the first are      *)
(* freed.                                                                  *)
Popped(n) == IF main.node = NULL THEN main
             ELSE [main EXCEPT !.node = IF @ <= n THEN Freed ELSE @ - n]

ClearInput ==
    /\ Head(recv)[1] = "clear input" /\ text' = 0
    /\ UNCHANGED <<rend, main>>

ClearChat ==
    /\ Head(recv)[1] = "clear chat"
    /\ rend' = [rend EXCEPT !.chat = 0] /\ main' = Popped(rend.chat)
    /\ UNCHANGED text

(* append_message_to_chat *)
AppendToChat ==
    /\ Head(recv)[1] = "append"
    /\ IF rend.chat = rend.shown
       THEN main' = Popped(1) /\ UNCHANGED rend
       ELSE rend' = [rend EXCEPT !.chat = @ + 1] /\ UNCHANGED main
    /\ UNCHANGED text

(* glut*Func(...), rend_data.x = ... *)
Assign ==
    /\ Head(recv)[1] \in DOMAIN rend
    /\ rend' = [rend EXCEPT ![Head(recv)[1]] = Head(recv)[2]]
    /\ UNCHANGED <<text, main>>

Statement ==
    /\ Running /\ recv # <<>> /\ recv' = Tail(recv)
    /\ ClearInput \/ ClearChat \/ AppendToChat \/ Assign
    /\ UNCHANGED <<ServerVars, channel, mail, lobbyData, keys, even>>

ReceiveThread == Receive \/ ServerDisconnected \/ Statement

-----------------------------------------------------------------------------
(* The main thread: glutMainLoop hands over events (at most one a round),  *)
(* draws, is idle.                                                         *)

Go(m) == main' = m /\ UNCHANGED <<ServerVars, channel, lobbyData, recv, rend, even>>

(* Mutant of TypeCharacter: an off-by-one. *)
TypeCharacterPast ==
    /\ "type" \in Inputs
    /\ main.at = "events" /\ rend.keyboard = "type" /\ text <= MaxText
    /\ text' = text + 1
    /\ Go(At("display")) /\ UNCHANGED <<mail, keys>>

(* type_keyboard: any key but a backspace ... *)
TypeCharacter ==
    /\ "type" \in Inputs
    /\ main.at = "events" /\ rend.keyboard = "type" /\ text < MaxText
    /\ text' = text + 1
    /\ Go(At("display")) /\ UNCHANGED <<mail, keys>>

(* ... and a backspace, which looks at the length and then counts it down. *)
Backspace ==
    /\ main.at = "events" /\ rend.keyboard = "type" /\ text > 0
    /\ Go(At("backspace")) /\ UNCHANGED <<mail, keys, text>>

Erase ==
    /\ main.at = "backspace" /\ text' = text - 1
    /\ Go(At("display")) /\ UNCHANGED <<mail, keys>>

(* game_(special_)pressed_keyboard *)
Press(k) ==
    /\ main.at = "events" /\ "game" \in {rend.keyboard, rend.special}
    /\ keys' = keys \cup {k}
    /\ Go(At("display")) /\ UNCHANGED <<mail, text>>

(* game_(special_)released_keyboard *)
Release(k) ==
    /\ main.at = "events" /\ rend.special = "game"
    /\ keys' = keys \ {k}
    /\ Go(At("display")) /\ UNCHANGED <<mail, text>>

(* The QUIT button of the menu, the lobby and the statistics *)
ClickQuit ==
    /\ "quit" \in Inputs
    /\ main.at = "events" /\ rend.mouse \in {"menu", "lobby", "statistics"}
    /\ keys' = keys \cup {"quit"}
    /\ Go(At("display")) /\ UNCHANGED <<mail, text>>

(* join_button_listener, menu_button_listener, lobby_button_listener *)
ClickSend ==
    /\ main.at = "events"
    /\ \/ rend.mouse = "join" /\ Go(Sending("JOIN", "display"))
       \/ rend.mouse = "menu" /\ Go(Sending("GAME_TYPE", "display"))
       \/ rend.mouse = "lobby" /\ "chat" \in Inputs /\ Go(Sending("CHAT", "clear"))
    /\ UNCHANGED <<mail, keys, text>>

(* The lobby clears the input it has sent. *)
ClearSent ==
    /\ main.at = "clear" /\ text' = 0
    /\ Go(At("display")) /\ UNCHANGED <<mail, keys>>

(* send_*: wait until send_mem is empty, fill it. *)
FillMail ==
    /\ main.at = "send" /\ mail = "none"
    /\ mail' = main.packet
    /\ Go(IF main.next = "chat" THEN Chat ELSE At(main.next)) /\ UNCHANGED <<keys, text>>

(* client_render and the renderers of the screens; the loading screen      *)
(* answers the server.  render_chat_message_window takes the head of the   *)
(* list ...                                                                *)
Display ==
    /\ main.at \in {"events", "display"}
    /\ Go(IF rend.screen = "LOADING" THEN Sending("PLAYER_READY", "chat") ELSE Chat)
    /\ UNCHANGED <<mail, keys, text>>

(* ... and one message after the other, as many as there are by now.  What *)
(* a freed node holds is not known; NULL is not to be read.                *)
DrawMessage ==
    /\ main.at = "chat" /\ main.drawn < rend.chat
    /\ \/ /\ main.node # NULL
          /\ \E n \in IF main.node = Freed THEN {Freed, NULL}
                      ELSE {IF main.node < rend.chat THEN main.node + 1 ELSE NULL} :
               Go([main EXCEPT !.drawn = @ + 1, !.node = n])
       \/ main.node \in {Freed, NULL} /\ Go(At("crashed"))
    /\ UNCHANGED <<mail, keys, text>>

(* Mutant of Gameloop: the quit is reset on the frame that sends nothing. *)
GameloopForgets ==
    /\ main.at = "chat" /\ main.drawn >= rend.chat /\ even' = ~even
    /\ main' = IF ~even THEN At("events")
               ELSE Sending(IF "quit" \in keys THEN "EXIT" ELSE "INPUT", "events")
    /\ keys' = keys \ {"quit"}
    /\ UNCHANGED <<ServerVars, channel, lobbyData, recv, rend, mail, text>>

(* client_gameloop, after CLIENT_GAMELOOP_UPDATE_INTERVAL; the keys of the *)
(* paddle are left out of the packet, the server reads them in a game.     *)
Gameloop ==
    /\ main.at = "chat" /\ main.drawn >= rend.chat /\ even' = ~even
    /\ main' = IF ~even THEN At("events")
               ELSE Sending(IF "quit" \in keys THEN "EXIT" ELSE "INPUT", "events")
    /\ keys' = IF even THEN keys \ {"quit"} ELSE keys
    /\ UNCHANGED <<ServerVars, channel, lobbyData, recv, rend, mail, text>>

Event ==
    \/ TypeCharacter \/ Backspace \/ ClickQuit \/ ClickSend
    \/ \E k \in PaddleKeys : Press(k) \/ Release(k)

Callback == Erase \/ ClearSent \/ FillMail \/ Display \/ DrawMessage \/ Gameloop

-----------------------------------------------------------------------------
(* The server, as this client meets it.  Three of its processes send to    *)
(* the client: the receive thread of the client's own process, the         *)
(* gameloop, and the process of whoever chats in the lobby.  A send_*      *)
(* function is called (the step that sets reply, loop or chatter), waits   *)
(* for room, and only then fills the mailbox and looks at the records it   *)
(* needs (the step that puts the packet into the channel).                 *)

Put(p) == Len(channel) < MaxInFlight /\ channel' = Append(channel, p)

ClientVars == <<lobbyData, recv, rend, keys, text, even>>

(* The packets of this client that change nothing for it *)
Ignored == ({"INPUT"} \X Stages) \cup ({"JOIN"} \X (Stages \ {"JOIN"}))
           \cup ({"GAME_TYPE"} \X (Stages \ {"MENU"}))
           \cup ({"PLAYER_READY"} \X (Stages \ {"LOADING"}))

(* process_message_from_client at the next place of the lobby: the pointer *)
(* client->lobby is read anew, and a NULL one ends the process.  A message *)
(* is for the client itself ("CHAT"), for others, or for all.              *)
NextPlace(waits) ==
    \/ server = "LOBBY" /\ reply' \in waits \cup {"none"} /\ UNCHANGED server
    \/ server # "LOBBY" /\ server' = "gone" /\ reply' = "none"

(* process_join, process_game_type, process_message_from_client,           *)
(* process_player_ready, process_player_input                              *)
Process(p) ==
    \/ /\ p = "JOIN" /\ server = "JOIN"
       /\ \/ server' = "MENU" /\ reply' = "ACCEPT"
          \/ "error" \in Inputs /\ UNCHANGED server /\ reply' = "ACCEPT_ERROR"
    \/ p = "GAME_TYPE" /\ server = "MENU" /\ UNCHANGED server /\ reply' = "SPIN"
    \/ p = "CHAT" /\ NextPlace({"OTHERS", "CHAT"})
    \/ p = "PLAYER_READY" /\ server = "LOADING" /\ server' = "READY" /\ UNCHANGED reply
    \/ p = "EXIT" /\ server = "STATISTICS" /\ server' = "MENU" /\ reply' = "RETURN_TO_MENU"
    \/ p = "EXIT" /\ server # "STATISTICS" /\ server' = "JOIN" /\ reply' = "RETURN_TO_JOIN"
    \/ <<p, server>> \in Ignored /\ UNCHANGED <<server, reply>>

(* send_client_packets: the packet leaves send_mem and is processed, once  *)
(* the receive thread of the server is done with the one before.           *)
SendThread ==
    /\ Running /\ mail # "none" /\ mail' = "none"
    /\ \/ server # "gone" /\ reply = "none" /\ Process(mail)
       \/ server = "gone" /\ UNCHANGED <<server, reply>>
    /\ UNCHANGED <<ClientVars, main, channel, loop, chatter>>

ServerStep == Running /\ server # "gone" /\ UNCHANGED <<ClientVars, mail, main>>

(* The receive thread goes on: send_accept, send_message_from_server,      *)
(* send_return_to_*; add_client_to_lobby once the lobby has room.          *)
SendReply ==
    /\ ServerStep /\ UNCHANGED <<loop, chatter>>
    /\ \/ /\ reply \in {"ACCEPT", "INFO", "RETURN_TO_MENU", "RETURN_TO_JOIN"}
          /\ Put(reply) /\ reply' = "none" /\ UNCHANGED server
       \/ reply = "ACCEPT_ERROR" /\ Put(reply) /\ reply' = "INFO" /\ UNCHANGED server
       \/ reply = "CHAT" /\ Put(reply) /\ NextPlace({"MORE"})
       \/ reply = "OTHERS" /\ NextPlace({"CHAT"}) /\ UNCHANGED channel
       \/ reply = "MORE" /\ NextPlace({}) /\ UNCHANGED channel
       \/ reply = "SPIN" /\ server' = "LOBBY" /\ reply' = "none" /\ UNCHANGED channel

LoopStep == ServerStep /\ UNCHANGED <<channel, reply, chatter>>

(* Mutant of Announce: the list of the lobby is sent on arrival only. *)
AnnounceOnce ==
    /\ LoopStep /\ loop = "none"
    /\ \/ server = "LOBBY" /\ rend.screen = "MENU" /\ loop' = "LOBBY" /\ UNCHANGED server
       \/ server \in {"LOADING", "READY"} /\ loop' = "GAME_READY" /\ UNCHANGED server
       \/ server = "READY" /\ server' = "STARTED" /\ UNCHANGED loop
       \/ server \in {"STARTED", "GAME"} /\ server' = "GAME" /\ loop' = "GAME_STATE"

(* update_lobby, update_game up to the wait of send_lobby, send_game_ready, *)
(* send_game_state                                                         *)
Announce ==
    /\ LoopStep /\ loop = "none"
    /\ \/ server = "LOBBY" /\ loop' = "LOBBY" /\ UNCHANGED server
       \/ server \in {"LOADING", "READY"} /\ loop' = "GAME_READY" /\ UNCHANGED server
       \/ server = "READY" /\ server' = "STARTED" /\ UNCHANGED loop
       \/ server \in {"STARTED", "GAME"} /\ server' = "GAME" /\ loop' = "GAME_STATE"

(* update_lobby: the lobby was full; init_game_* may reject it. *)
StartGame ==
    /\ LoopStep /\ loop = "none" /\ UNCHANGED loop
    /\ server = "LOBBY" /\ server' \in {"LOADING"} \cup (IF "error" \in Inputs THEN {"LOST"} ELSE {})

(* send_game_statistics_to_all_players, send_return_to_menu_to_all_players *)
(* up to the wait                                                          *)
EndGame ==
    /\ LoopStep /\ loop = "none"
    /\ \/ server = "GAME" /\ server' = "STATISTICS" /\ loop' = "GAME_END"
       \/ server = "STATISTICS" /\ server' = "MENU" /\ loop' = "RETURN_TO_MENU"

(* The gameloop after the wait.  send_lobby reads client->lobby now, and   *)
(* send_game_end client->player: NULL ends the gameloop.  An error message *)
(* may follow the end of a game.                                           *)
SendPacket ==
    /\ ServerStep /\ UNCHANGED <<server, reply, chatter>>
    /\ loop \notin {"none", "dead"} /\ Len(channel) < MaxInFlight
    /\ IF \/ loop = "LOBBY" /\ server # "LOBBY"
          \/ loop = "GAME_END" /\ server # "STATISTICS"
       THEN loop' = "dead" /\ UNCHANGED channel
       ELSE Put(loop) /\ loop' \in {"none"} \cup (IF loop = "GAME_END" /\ "error" \in Inputs THEN {"INFO"} ELSE {})

(* What somebody else in the lobby says *)
Chatter ==
    /\ ServerStep /\ UNCHANGED <<server, reply, loop>>
    /\ \/ "chat" \in Inputs /\ ~chatter /\ server = "LOBBY" /\ chatter' = TRUE /\ UNCHANGED channel
       \/ chatter /\ Put("CHAT") /\ chatter' = FALSE

Server == SendReply \/ Announce \/ StartGame \/ EndGame \/ SendPacket \/ Chatter

Next == ReceiveThread \/ Event \/ Callback \/ SendThread \/ Server

Spec == Init /\ [][Next]_vars

(* Threads and processes are scheduled. *)
FairSpec ==
    /\ Spec
    /\ WF_vars(ReceiveThread) /\ SF_vars(SendThread) /\ WF_vars(Callback)
    /\ WF_vars(Announce) /\ SF_vars(SendReply) /\ SF_vars(SendPacket)

-----------------------------------------------------------------------------
Packets == {"ACCEPT", "ACCEPT_ERROR", "INFO", "CHAT", "LOBBY", "GAME_READY", "GAME_STATE", "GAME_END",
            "RETURN_TO_MENU", "RETURN_TO_JOIN"}
Mails == {"none", "JOIN", "GAME_TYPE", "CHAT", "PLAYER_READY", "INPUT", "EXIT"}

TypeOK ==
    /\ server \in Stages
    /\ reply \in Packets \cup {"none", "OTHERS", "MORE", "SPIN"}
    /\ loop \in Packets \cup {"none", "dead"}
    /\ chatter \in BOOLEAN
    /\ channel \in Seq(Packets) /\ Len(channel) <= MaxInFlight
    /\ mail \in Mails
    /\ lobbyData \in BOOLEAN
    /\ rend.screen \in Screens
    /\ keys \subseteq PaddleKeys \cup {"quit"}
    /\ text \in -1 .. MaxText

AtRest == recv = <<>>

(* The chat never holds more messages than its window shows, although the  *)
(* window shrinks in the lobby and a full list is told by == alone.        *)
ChatFits == rend.chat <= rend.shown

MouseOf == [JOIN |-> "join", MENU |-> "menu", LOBBY |-> "lobby", LOADING |-> "none",
            GAME |-> "none", STATISTICS |-> "statistics"]
KeyboardOf == [JOIN |-> "type", MENU |-> "none", LOBBY |-> "type", LOADING |-> "none",
               GAME |-> "game", STATISTICS |-> "none"]

(* Between two packets the mouse and the keyboard do what the screen says. *)
ListenersMatchScreen ==
    AtRest => /\ rend.mouse = MouseOf[rend.screen]
              /\ rend.keyboard = KeyboardOf[rend.screen]

(* The screens on which a packet p may find the client: a packet of a game *)
(* may come too late, never too early.                                     *)
Fits(p, s) ==
    /\ p \in {"ACCEPT", "ACCEPT_ERROR"} => s = "JOIN"
    /\ p = "LOBBY" => s \in {"MENU", "LOBBY"}
    /\ p = "GAME_READY" => s \notin {"GAME", "STATISTICS"}
    /\ p = "GAME_STATE" => s # "STATISTICS"
    /\ p = "GAME_END" => s \notin {"JOIN", "LOADING", "STATISTICS"}
    /\ p = "RETURN_TO_MENU" => s # "LOADING"

(* However clicks, quits and the waits of the server's threads cross:      *)
(* process_accept and process_lobby never meet an "Invalid client state",  *)
(* and what a quit has overtaken (a GAME_READY or a GAME_STATE that the    *)
(* gameloop was waiting to send) finds a screen that drops it.             *)
PacketFitsScreen == AtRest /\ channel # <<>> => Fits(Head(channel), rend.screen)

(* A quit is never lost: the mouse callback sets the key, the gameloop     *)
(* resets it, every second frame sends nothing, and the server's thread    *)
(* may be waiting; but it gets to answer.                                  *)
QuitIsAnswered ==
    "quit" \in keys ~>
        reply \in {"RETURN_TO_JOIN", "RETURN_TO_MENU"} \/ server = "gone" \/ ~Running

(* At the end of the handler rend_data.x is v. *)
Ends(x, v) ==
    /\ \A k \in DOMAIN recv : recv[k][1] = x => recv[k][2] = v
    /\ (\A k \in DOMAIN recv : recv[k][1] # x) => rend[x] = v

(* A server that waits for this player to load its game goes on: the wait  *)
(* of the gameloop, the GAME_READY packet, the loading screen, the answer  *)
(* of its renderer and send_mem all lie between.  (A client whose server   *)
(* started a game before a LOBBY packet reached it, or after a quit that   *)
(* the client has not heard of yet, drops the GAME_READY.)                 *)
LoadingLeft ==
    /\ server = "LOADING"
    /\ \E s \in {"LOBBY", "LOADING"} : Ends("screen", s)
    /\ \A k \in DOMAIN channel : channel[k] # "RETURN_TO_JOIN"
    ~> server # "LOADING" \/ ~Running

(* A chat message that takes packet_buf from under the lobby's renderer    *)
(* does not keep it: the list of players comes back, as long as the        *)
(* gameloop lives.                                                         *)
LobbyRefreshed ==
    server = "LOBBY" /\ ~lobbyData
        ~> lobbyData \/ server # "LOBBY" \/ loop = "dead" \/ ~Running

-----------------------------------------------------------------------------
(* The inductive invariant behind these invariants *)

Mice == {"none", "join", "menu", "lobby", "statistics"}
Keyboards == {"none", "type", "game"}

Statements ==
    {<<"clear input">>, <<"clear chat">>, <<"append">>}
    \cup ({"screen"} \X Screens) \cup ({"shown"} \X {MaxWith, MaxWithout})
    \cup ({"mouse"} \X Mice)
    \cup ({"keyboard"} \X Keyboards)
    \cup ({"special"} \X {"game", "none"})

RendType == [screen : Screens, chat : Nat, shown : {MaxWith, MaxWithout},
             mouse : Mice, keyboard : Keyboards, special : {"game", "none"}]
Places == {"events", "backspace", "send", "clear", "display", "chat", "crashed", "exited"}
MainType == [at : Places, packet : Mails, next : Places, drawn : Nat, node : Int]

(* TypeOK, and the threads. *)
ThreadsOK ==
    /\ recv \in Seq(Statements) /\ rend \in RendType /\ main \in MainType
    /\ even \in BOOLEAN
    /\ main.at = "backspace" => text >= 0
    /\ main.at = "send" => main.next # "backspace"

(* What is left of the handler calls f no more than once. *)
Once(f) == \A j, k \in DOMAIN recv : recv[j][1] = f /\ recv[k][1] = f => j = k

(* When the handler shrinks the window the chat is cleared before, or is   *)
(* already, but for the message the handler appends.                       *)
WindowFits ==
    \A k \in DOMAIN recv : recv[k][1] = "shown" =>
        \/ \E j \in 1 .. k - 1 : recv[j][1] = "clear chat"
        \/ rend.chat = 0
        \/ rend.chat = 1 /\ \A j \in 1 .. k - 1 : recv[j][1] # "append"

(* The screen after the packet p, on the screen s. *)
After(s, p) ==
    CASE p = "ACCEPT" /\ s = "JOIN"               -> "MENU"
      [] p = "LOBBY" /\ s = "MENU"                -> "LOBBY"
      [] p = "GAME_READY" /\ s = "LOBBY"          -> "LOADING"
      [] p = "GAME_STATE" /\ s = "LOADING"        -> "GAME"
      [] p = "GAME_END" /\ s = "GAME"             -> "STATISTICS"
      [] p = "RETURN_TO_MENU" /\ s = "STATISTICS" -> "MENU"
      [] p = "RETURN_TO_JOIN"                     -> "JOIN"
      [] OTHER                                    -> s

(* What a thread of the server waits for, in each stage.  A packet of the  *)
(* gameloop may outlive the stage it was meant for when the client quits.  *)
RepliesIn ==
    [JOIN |-> {"none", "ACCEPT_ERROR", "INFO", "RETURN_TO_JOIN"},
     MENU |-> {"none", "ACCEPT", "SPIN", "RETURN_TO_MENU", "CHAT", "OTHERS", "MORE"}]

Talks == {"none", "CHAT", "OTHERS", "MORE"}
Outlived == {"JOIN", "MENU", "LOBBY", "gone"}

WaitsFit ==
    /\ reply \in IF server \in DOMAIN RepliesIn THEN RepliesIn[server] ELSE Talks
    /\ server = "gone" => reply = "none"
    /\ server \in CASE loop = "none" -> Stages
                    [] loop = "GAME_READY" -> {"LOADING", "READY"} \cup Outlived
                    [] loop = "GAME_STATE" -> {"GAME"} \cup Outlived
                    [] loop \in {"GAME_END", "INFO"} -> {"STATISTICS"} \cup Outlived
                    [] loop \in {"LOBBY", "RETURN_TO_MENU", "dead"} -> Outlived
                    [] OTHER -> {}

(* Where a client is, for its server, once it has received everything.  It *)
(* may have missed the lobby or the whole of a game: the game started      *)
(* before the list of the lobby was sent to it, or counted a PLAYER_READY  *)
(* of an earlier one.                                                      *)
Behind == {"MENU", "LOBBY"}

InMenu ==
    IF loop \in {"GAME_READY", "GAME_STATE"} THEN {"MENU"}
    ELSE Behind \cup (IF "RETURN_TO_MENU" \in {reply, loop} THEN {"STATISTICS"} ELSE {})
                \cup (IF loop \in {"GAME_END", "dead"} THEN {"GAME"} ELSE {})

ScreensOf ==
    [JOIN    |-> IF reply = "RETURN_TO_JOIN" THEN Screens ELSE {"JOIN"},
     MENU    |-> IF reply = "ACCEPT" THEN {"JOIN"} ELSE InMenu,
     LOBBY   |-> InMenu,
     LOST    |-> Behind,
     LOADING |-> Behind \cup {"LOADING"}, READY |-> Behind \cup {"LOADING"},
     STARTED |-> Behind \cup {"LOADING"},
     GAME    |-> Behind \cup {"GAME"} \cup (IF loop = "GAME_STATE" THEN {"LOADING"} ELSE {}),
     STATISTICS |-> Behind \cup (IF loop = "GAME_END" THEN {"GAME"} ELSE {"STATISTICS"}),
     gone    |-> Screens]

(* What the gameloop still sends whatever has become of the client *)
Stale == {"GAME_READY", "GAME_STATE", "RETURN_TO_MENU"}

Ahead(s) == s \in ScreensOf[server] /\ (server # "gone" /\ loop \in Stale => Fits(loop, s))

(* The screens of the client, from the end of the handler on *)
Course(scr) ==
    /\ Ends("screen", scr[0])
    /\ Ends("mouse", MouseOf[scr[0]]) /\ Ends("keyboard", KeyboardOf[scr[0]])
    /\ \A k \in DOMAIN channel :
           Fits(channel[k], scr[k - 1]) /\ scr[k] = After(scr[k - 1], channel[k])
    /\ Ahead(scr[Len(channel)])

InCourse == \E scr \in [0 .. Len(channel) -> Screens] : Course(scr)

IInv == TypeOK /\ ThreadsOK /\ WaitsFit /\ ChatFits /\ Once("append") /\ WindowFits /\ InCourse
===============================================================================
