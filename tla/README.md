# Verification of the pong server and client

TLA+ models of the multiplayer pong program in `src/`: a server of several
processes on one shared memory without a lock, a byte protocol over TCP, and a
client of three threads. The modules are checked with TLC on small instances;
the server, its refinement, its clients' screens, the client program, the client
table, the mailbox, the match and the field are also proved about with TLAPS. Paths such as
`pong_server.c` are below `src/src/`.

## The system

`server.c` maps one `server_shared_memory` and forks: the parent runs the
**gameloop** process, the child the **network** process, which forks a **client
process** for every connection. A client process has a **receive thread**
(`receive_client_packets`, which calls the `process_*` handlers) and a **send
thread** (`send_server_packets`). The client program has the same two threads
and the GLUT main loop.

| Component | State | Operations | Interacts through |
|---|---|---|---|
| Client table | `clients[]`: id, state, lobby, game_state and player pointers; `client_count` | `accept_clients`, `get_free_client`, `init_client`, `remove_client`, `reset_client` | written by the network, client and gameloop processes |
| Lobbies | `client_count`, `clients[]` | `add_client_to_lobby`, `remove_client_from_lobby`, `update_lobby`, `reset_lobby` | joined and left by client processes, emptied by the gameloop |
| Games | `game_states[]`: status, players, teams, ball, power-up | `init_game_*`, `update_game`, `update_game_state`, `remove_client_from_game_state` | ticked by the gameloop, cut by client processes |
| Field | positions, velocities, accelerations, paddle heights, power-up | `update_player`, `update_ball`, `restart_round`, `update_power_up`, `process_player_input` | moved by the gameloop, steered and cut by client processes |
| Mailbox | per client `send_mem`: packet_ready, pid, data | `send_*`, `send_server_packets`, `send_client_packets` | filled by any thread, emptied by the send thread |
| Framing | bytes on the socket | `send_packet`, `encode`, `verify_packet`, the two receive loops | TCP |
| Client program | `rend_data` (screen, chat list, GLUT callbacks), `inp_data` (keys, text), `packet_buf` | `process_*` of the client, renderers, keyboards, buttons, `client_gameloop` | mailbox, framing; three threads without a lock |

What is hard here: no lock anywhere, and every link between a client, a lobby
and a game is stored twice and updated by different processes; each `send_*`
function waits in the middle, after it has read pointers that it uses after the
wait; one gameloop serves everybody, so one client that does not answer stops
all; processes end without cleaning up. `PROJECT.json` lists these under
"hazards", each at its line.

What makes each component correct: the two halves of every link agree; counters
equal what they count; a slot or record is only reused when nobody refers to it;
a full lobby starts, a started game ends, everybody returns to the menu; the
mailbox and the framing lose, double and mix no packet; a match ends exactly
when it is won or deserted; ball and paddles stay where players can see and reach
them; each screen of the client has its own mouse and keyboard, and neither a quit
nor the answer to a loading screen is lost on its way.

## Modules

| Module | Models | Step |
|---|---|---|
| `PongServer` | shared memory, gameloop, network, receive and send threads, client screens | the code between two waits |
| `Matchmaking` | what the server promises about lobbies and games | one promise |
| `PongServerMatchmaking` | the refinement mapping from `PongServer` to `Matchmaking` | |
| `ClientTable` | `clients[]` and `client_count`: accepting, forking, removing | one access to the table |
| `LobbySlots` | one lobby and its LOBBY packet | one access to the lobby |
| `Mailbox`, `PacketPipe` | `send_mem`; what it promises | one statement |
| `Match` | scores, touches, power-up count, departures in `update_game_state` | one statement that reads or writes what they share |
| `Field` | paddles, ball, power-up, goals | one phase of a tick |
| `Framing`, `PacketChannel` | the byte protocol; what it promises | one byte received, one packet sent |
| `PongClient` | the client's main, receive and send threads, and the server as it meets it | one statement of a handler, one callback |
| `PongServerInv` | the inductive invariants of the server: `IInv`, and `InStep` while nobody quits | |
| `*Proofs` | theorems (section Proofs) | |
| `MC*` | instances for TLC, and claims of comments in the code | |

`PongServer` is the centre. The modules around it take apart what it treats as
one step (`ClientTable`, `LobbySlots`, `Mailbox`), what it abstracts to a choice
(`Match` and `Field`: how a game ends; `Framing`: that a packet sent arrives) and
what it keeps of a client (`PongClient`: a screen and what may be clicked on it).
A definition whose comment begins "Mutant of" is a plausible mistake in the
operation below it: put in its place, it breaks the property named beside it in
`PROJECT.json`.

### PongServer

`clients[c]`, `lobbies[l]` and `game_states[g]` are the C records, restricted to
the fields that decide control; `taken` is `id # -1`, a player pointer is a pair
of game and seat, `NULL` is -1 as for client ids. `packet[c]` is the mailbox:
"none" when `packet_ready` is FALSE. `recv[c]` is where the receive thread is
(polling, spinning for a lobby, in the chat loop, waiting to send replies, down),
`gl` where the gameloop is, with the local variables it uses after the wait.
`screen[c]` is what the client program shows, and so what it can send.

Every handler is one action up to its first wait, and one action per wait after
it: `update_lobby` is `UpdateLobby` (interval, reading the count), `SendLobby`
(one wait per client), `StartGame` (from the search for a free record to
`reset_lobby`). The gameloop visits lobbies and games in a fixed order at its
own intervals; the model lets it pick any, which includes that order. A
dereferenced NULL pointer stops the process: `gl = Stopped`, or `recv[c] = Down`
with nothing cleaned up. `clients[-1]`, which the code reaches for a player who
left while the game loads, is foreign memory: the process may stop or go on.
`SIGPIPE` is `Kill`.

The granularity is a deliberate abstraction. The waits are where threads spend
their time and where a thread sees a state that is far from the one it read;
races *inside* a step need two processes within a few instructions. These are
left to `LobbySlots`, `Match` and `Mailbox`, which take the same code apart
statement by statement; what `PongServer` shows holds of the code between waits.

`Inputs` selects what clients may do: rejected names, chat, the quit button,
disconnecting, dying. Repeated PLAYER_READY, which changes nothing after the
first, and steering are left out. The program's own quit button exists on three
screens, but `src/README.md` asks that other clients work with the server too, and
the server accepts the exit bit in every state: "exit" is possible on every screen
but the first. The latency between a click and its handler is
folded into the handler's step. `sh_mem->client_count` is represented by the
taken flags; `ClientTable` has the counter.

### Matchmaking and PongServerMatchmaking

`Matchmaking` is what a player may rely on: in one lobby and one game at most, a
game starts on a free record for as many waiting clients as the lobby has places,
all at once and each on a seat of its own, nobody enters later, and a record is
free again only when nobody plays on it. A start may fail and lose its record: that is
what `init_game_*` does when a client left during the sending. The promise is made to
every client but the `Strays`, who may turn up anywhere (`Wander`) and hold several
places of a lobby. In the mapping these are the clients that are not `Spared`: nobody
where a lobby has as many places as a game has players, client 0 on the program's 1v1
table (see "The 1v1 table" below). `waiting`,
`playing` and `stage` are read off `clients[c].lobby`, `clients[c].player` and the
status; the three statuses of a game that is over are one stage, TAKEN is "lost".
`clients[c].game_state`, `players[]`, the seats of a lobby, the counts and the
packets have no counterpart: that they stay in step is what the refinement needs
`IInv` for.

### ClientTable

The network process and the client processes on `clients[].id` and
`client_count`. The counter is an unsigned char and wraps (`CountValues`, 256).
`SearchRecord` looks at one record per step, `client_count++` and `--` are two
steps each. `Faults` adds a fork that fails, which the code does not look at
(line 383) or answers by ending the process, and a process killed by SIGPIPE. A
client that has left may connect again.

### Mailbox and PacketPipe

Producers wait, write pid, write data and set the flag; the send thread polls,
picks the size for the pid, transmits and clears. The client has one producer.
Statements take effect in program order: the flag is neither volatile nor
atomic, and a compiler that reorders the stores is outside the model.
`PipeFairSpec` is the refinement: `accepted` and `wire` are the abstract
variables themselves, kept as history.

### Match

Positions are left out: the ball may hit any connected paddle, the power-up or a
goal line in every tick. `active_player_count--` is a load and a store. The collision
is two steps: `Collide` tests that the paddle's player is there (`pong_game.c:341`),
`Touch` writes `last_touched_id` (line 371), and that player may have left in between.
An access to `players[-1]` ends the behaviour in `step = "corrupt"`.

### Field

Floats are integers, so a velocity is a vector of whole units; the comparisons
and assignments are those of the code, in its order: the acceleration that is
refused beyond the greatest speed, the first paddle the ball overlaps in the
order of the players, the walls only when there is none, then the power-up, the
goals, the spawn. `phase` is where in `update_game_state` the gameloop is; a
receive thread may steer a paddle or take it away between two phases. The place
of the power-up is free: `spawn_power_up` never sets its width, so it may be
anywhere. Whether a goal wins the match is free as well, `Match` decides that.
Constants are named after the macros of `pong_game.h`; `FieldAssumption` asks
what these satisfy (a window wider than the ball, paddles clear of the walls by
the ball's diameter). A power-up makes a paddle higher without a limit, as
`pong_game.c:424` does; only the instances for TLC are cut off, by the constraint
`HeightsBounded` of `MCField`, at a `MaxHeight` beyond the window's height, so that a
paddle that has outgrown the window is among the states. `Movers` and `Leavers` name the players that press keys and leave in an
instance.

### Framing and PacketChannel

Bytes have any width that tells the three special characters and 0 apart; the `^`
of C is a constant operator of which only that 0 changes nothing is assumed
(`MCFraming` has bytes of two bits). The
number, the size and the checksum are one byte each, so that number wraparound,
the acceptance window (`verify_packet` writes 50, `Allowance` here) and special
characters in each of them all happen within a few packets. `SendTorn` is a packet
whose size was chosen for another pid, which the mailbox race can produce;
`MaxTorn` bounds how many of them follow one another. `sent` is a
history variable: the calls of `send_packet` that are still to be received. The
abstract channel maps each of them to its padded data or, when it is torn, to `Torn`,
and drops only those. The buffer in which `send_packet` puts a packet together has
no room for the checksum of a MESSAGE (`pong_server.c:756`, `pong_client.c:205`): the byte behind it
is taken to be free.

### LobbySlots

`add_client_to_lobby`, `remove_client_from_lobby` and `update_lobby` with every
read and write of `client_count` and `clients[]` as a step, and `send_lobby`
putting the count and then the clients into a packet, through a lobby pointer
that may be NULL by then. A client that leaves comes back as a new one in the
menu. The waits for the mailbox, and a missing free record, are in `PongServer`.

### PongClient

`recv` is the rest of the handler the receive thread is in, a sequence of
statements (set the mouse callback, clear the chat, change the screen, ...), taken
one at a time while the main thread goes on. `main` is the main thread: waiting for events,
drawing the chat node by node, waiting for `send_mem` with a packet in hand. GLUT
runs one callback at a time, so that buttons, keyboards, the loading screen's
PLAYER_READY and the gameloop are one producer, and `send_mem` is a pipe as
`Mailbox` shows. The chat list is its length; a node that `pop_front` freed under
the renderer is `Freed`, and using it ends in `main.at = "crashed"`. `text` is
`input_text_len`, which becomes -1 when `clear_input_buffer` comes between the
test and the decrement of `type_keyboard`: the characters before the buffer are
foreign memory, writing them is taken to have no further effect. `lobbyData` says whether
`packet_buf` still holds a LOBBY packet.

The server, as this client meets it, is `clients[c].state` with READY (this player has
answered, others have not), STARTED (no GAME_STATE yet), LOST (a start that
`init_game_*` rejected) and "gone" (the client's process has died: a chat message
outside a lobby ends it, as in `process_message_from_client`); and the three processes
that send to the client: the receive thread of the client's own process (`reply`), the
gameloop (`loop`) and the process of whoever chats in the lobby (`chatter`). In each of
them calling a `send_*` function, its wait, and what it does after the wait are
different steps: `Announce` and `EndGame` read the client's state and pick the packet,
`SendPacket` comes when there is room, reads the record again where the code does
(`send_lobby`, `send_game_end`) and ends with the gameloop `"dead"` where it finds NULL.
A quit may be served in any of these gaps. A chat message walks the lobby place by
place and looks at `client->lobby` at each (`NextPlace`). The client is a `Spared` one:
nobody cuts its pointers during its game. Two senders that pass the wait together and
write one packet over the other are the subject of `Mailbox`; here each packet gets
its own place in `channel`.

## Runs

| Run | Instance | Shows |
|---|---|---|
| `server_stay` | 3 clients, 1 game, nobody leaves, rejected names, fairness | packets meet a screen that expects them, with the invariant `InStep` behind it; full lobbies start, loading ends, finished games are freed, players return |
| `server_1v1` | 2 clients, 1 game with an entry that no lobby fills (the 1v1 table); exit, disconnect, chat, dying processes | types, agreement of pointers, removal, no team given up that has players, refinement of `Matchmaking` with client 0 as a stray |
| `mailbox_client` | 1 producer, 20 packets | the mailbox implements the pipe |
| `client` | 1 packet in flight, windows of 1 and 2 messages, text of 1; typing, chat, errors, fairness | listeners, chat and screens fit together, with the invariant `IInv` behind it; loading ends, the lobby's list comes back |
| `client_quit` | 1 packet in flight, quits on every screen that has the button, fairness | what a quit has overtaken meets a screen that drops it; every quit is answered |
| `match_2v2` | thresholds 3 and 2; players 0, 2 and 3 may leave | scores, winning, power-up count; no match is given up while both teams have a player |
| `framing` | bytes of two bits, data of up to 1 byte, 3 packets in flight, 2 torn in a row | the framing implements the channel; the buffer bound |
| `field` | field of 13 by 6, paddles up to 8 high, one paddle moves, one leaves | ball in reach, speed bounded, paddles on the screen or covering it, walls that are goals |
| `server_phantom_crash` | 4 clients, 2 games of 1v1, nobody leaves | violated: the gameloop dies |
| `server_hang` | 2 clients, disconnect, fairness | violated: the gameloop waits for ever |
| `lobby_slots` | 2 clients, 2 places | violated: two clients take one place |
| `client_table` | 3 clients, 2 records | violated: a client is refused though a record is free |

Bounds. Two clients fill a lobby, play and leave in every order; a third one
competes for the lobby and finds the record taken; four clients and two records
are needed for two games at once. One record is enough for everything else and
makes its exhaustion happen. A `MaxPlayers` above the two places of the lobby leaves
entries of `players[]` unused; one is enough for the 1v1 table, since unused entries are
alike. In `server_1v1` the properties speak of client 1, in the company of a client 0 that may be
anywhere; `server_leave` (below) has lobbies that fill a game, and both clients. With thresholds
3 and 2 a match can be won by either
rule. The leavers of `match_2v2` are one whole team, whose decrements may overlap, and a
player of the other, so that one team can shrink while the other goes. Four packet numbers wrap around within the packets in flight. Two torn packets
in a row are as many as a window of 1 allows (`Allowance` + 1): with three,
`ChannelFairSpec` is violated, because a whole packet behind them is refused.
Twenty mailbox packets are one producer's repetition of the same cycle.
One packet in flight to the client is refilled while its handler runs, and the next ones
wait in the three senders; `client_long` takes two in flight. The quits stand in a run of
their own because together with typing and chat they multiply the states: what is
common to both is what quits can disturb, and `PongClientProofs` proves the invariants for all
inputs together. A chat of one or two messages is full, shrinks and
overflows; text of one character is empty and full. On 13 by 6 the ball meets
paddles from the front, from behind and from above, both walls and both goals, at
speeds where an acceleration is granted and where it is refused; a paddle of 8 is higher than
the window. Two records and three clients let one client be accepted while another leaves, and
a third find the table full. `server_stay` leaves quitting out on purpose:
a client that quits while the gameloop waits to send it GAME_READY gets that packet on the join
screen, where it is dropped. What a quit may bring to which screen is `PacketFitsScreen` of `PongClient`.

`CHECK_DEADLOCK FALSE` stands where the system really may stop: a gameloop that
waits for a dead client, matches that are over, producers that are done, a
client program that ended, a field whose match is won.

Fairness (`PongServer!Fairness`). The gameloop calls `update_lobby` and
`update_game` for every lobby and game in turn, and the interval test uses
`clock()`, which advances because the loop itself burns processor time; a lobby
or game is therefore served again and again even though the loop is busy with
others in between (SF). Once it waits for a mailbox, it goes on when that is
empty; threads are scheduled; a send thread sends; the loading screen repeats
PLAYER_READY on each frame (WF). Nothing is assumed of what clients choose to do.

Fairness of the client (`PongClient!FairSpec`). Its threads are scheduled (WF of
`ReceiveThread` and of `Callback`, which also means that GLUT goes on drawing and
its timer runs). The server serves its lobby or game (WF of `Announce`, by the fairness of the
server's gameloop above). `SendThread`, `SendReply` and `SendPacket` have SF: each of them waits
for a place that others fill and leave again and again, and polls it for ever
(`while (packet_ready);`). SF of `SendReply` also covers the spin for a lobby (`reply = "SPIN"`):
that the lobby gets room is what `FullLobbyStarts` shows of the server. No event is assumed to
come: nobody need click. The liveness properties except the client program from its own end
(`Running`) and the death of what answers it (`server = "gone"`, `loop = "dead"`) where
they say so.

Fairness elsewhere. The mailbox and the framing keep their threads scheduled, and TCP
delivers. A match and a field go on ticking where a configuration asks for it
(`MCMatch!FairSpec`, `Field!FairSpec`: WF of the tick, by the same gameloop).

### Findings

* `server_phantom_crash`: `send_return_to_menu_to_all_players` runs over all four
  entries of `players[]`; in a 1v1 game two of them were never initialised and
  name client 0 for as long as they are 0. The end of one game cuts the pointers of
  client 0, which plays in another one, and the gameloop dies there.
* `server_hang`: a `send_*` function waits for a mailbox whose send thread is gone.
* `lobby_slots`: finding a free place and taking it are not one step.
* `client_table`: `client_count++` and `client_count--` run in different processes;
  a lost decrement leaves the count one too high for ever, and "Limit for maximum
  clients is reached" is the answer to a client although a record is free.

`docs/tasklist.txt:6` knows of a crash, "disconnect and reconnect from the server
causes segmentation fault"; the configurations `server_exit` and
`server_load_failure` below show departures that lead to one or to a game that
never ends loading.

### Further configurations

These are not part of the regular runs; `tlc -config X.cfg <module>` shows them.
Larger instances and other inputs, where the properties hold:

| Configuration | Module | Property | Shows |
|---|---|---|---|
| `server_leave` | `MCPongServer` | the properties of `server_1v1` (`ActiveCountExact` in the place of `TeamsAreNotGivenUp`), `IInv` | hold of all clients where a lobby fills a game |
| `server_two_games` | `MCPongServer` | `InStep`, `SparedOneGame`, `MatchmakingSpec` | two games at once, one of which ends while client 0 plays in the other: nobody else changes game or gets out of step |
| `server_chat` | `MCPongServer` | `PacketExpected`, `InStep` | chat, rejected names and dying processes bring no packet to the wrong screen |
| `server_2v2` | `MCPongServer` | `PointersAgree` | a lobby of four (long run) |
| `match_1v1` | `MCMatch` | the invariants of `match_2v2` but the last | two players who may both leave, thresholds 4 and 3 |
| `client_long` | `MCPongClient` | the invariants of `client` | two packets in flight, quits and errors |
| `client_table_owner` | `ClientTable` | `RecordHasOneOwner` | failing forks, killed processes and a counter that wraps give no record to two clients |

Claims of comments, or things one would expect, that fail. Where a
configuration is listed more than once, the other claims stand in it as comments:

| Configuration | Module | Property | Shows |
|---|---|---|---|
| `server_phantom_crash` | `MCPongServer` | `MenuShown` | `pong_server.h:26`: client 0 is put in the MENU state while it shows something else |
| `server_exit` | `MCPongServer` | `GameloopRuns` | a client exits while the gameloop waits to send it LOBBY; the pointer it uses after the wait is NULL |
| `server_exit` | `MCPongServer` | `LobbyHasClient` | a client that moved up while `update_lobby` was sending is dropped from the lobby |
| `server_no_record` | `MCPongServer` | `FreeGameAvailable` | `pong_server.c:185` "should not happen" happens: an exit while a full lobby is told leaves the record TAKEN |
| `server_load_failure` | `MCPongServer` | `LoadingFailureReported` | `pong_server.c:322`: no code sets CLIENT_FAILED_TO_LOAD |
| `mailbox_server` | `MCMailbox` | `FillsAvailableBuffer` | `pong_client.c:432`: with several producers, as the server has them, waiting for an empty mailbox and filling it are not one step |
| `client_table_claims` | `ClientTable` | `TakenIsOccupied` | `pong_server.h:20`: a failed fork leaves a record taken without a process |
| `client_table_claims` | `ClientTable` | `FreeIsUnused` | until its process has ended, a send thread polls the mailbox of a record that is free or the next client's |
| `framing_window` | `MCFraming` | `ChannelFairSpec` | `pong_networking.h:44`: one torn packet more in a row than `Allowance` + 1, and a whole packet behind them is refused |
| `lobby_slots` | `LobbySlots` | `LobbyPacketComplete` | `pong_graphics_lobby.c:12`: a LOBBY packet counts a player it does not list |
| `match_2v2_leave` | `MCMatch` | `EmptyTeamSeen` | `pong_game.c:70`: two team mates who leave together lose a decrement, and the match goes on |
| `match_boost` | `MCMatch` | `BoostHasPlayer` | `pong_game.c:423`: the last toucher leaves between the check and the index |
| `match_reason` | `MCMatch` | `LeftTeamReported` | `pong_server.c:325`: ALL_TEAM_LEFT is overwritten by SUCCESS in the same tick |
| `field_boost` | `MCField` | `EnemyStopsAcceleration` | `pong_game.c:411` "accelerate ball until it hits enemy's paddle": a paddle turns the acceleration, it never ends it |
| `field_borders` | `MCField` | `PaddlesInBorders` | `pong_game.c:141`: a paddle that has outgrown the window is put at a negative place |
| `client_claims` | `MCPongClient` | `LobbyShowsPlayers` | the lobby is drawn from a chat message that has overwritten `packet_buf` |
| `client_claims` | `MCPongClient` | `ChatListIntact` | the renderer walks nodes that the receive thread frees |
| `client_claims` | `MCPongClient` | `ReadyMeansLoaded` | `pong_game.h:89`: the PLAYER_READY of a screen the client has left, held back by the mailbox, counts for its next game |

Four more of `client_claims` fail: `InputInBuffer`
(backspace against `clear_input_buffer`), `SpecialMatchesScreen` (the keys of the
paddle stay connected when a player quits a game), `KeysUp` (a key held at the end
of a game is down in the next one) and `ServerStays` (a chat message that crosses
the start of a game ends the client's process on the server).

## Proofs

`PongServerProofs` proves `TypeCorrect`: `Spec => []TypeOK` for all constants that
satisfy `ServerAssumption`. One lemma per action; the auxiliary lemmas say that
the operators on records (`Reset`, `LobbiesWithout`, `GamesWithout`, `InitGame`,
...) stay in their types.

It also proves `Invariance`: `Spec => []IInv` for every number of clients, games and lobbies and
every size of the lobbies, the program's own among them: a lobby of two, one of four, records of
four. From it follow, with no further hypothesis, `PointersCorrect`, `PlayersCorrect`,
`FreeGamesCorrect`, `RemovalCorrect` and `SparedOneGameCorrect`. What these promise they promise
to the `Spared` clients; "The 1v1 table" below says who they are and why no more is true.

`PointersAgree` alone is not inductive. A player pointer must not survive the
reuse of its game record, so a game is only freed when its entries are all NULL:
that needs `SparedPointBack`, and for the gameloop in the middle of
`send_return_to_menu_to_all_players` it needs `LoopKnows` (the entries it has
passed are NULL and the status is still STATISTICS). A start must not overwrite the
pointers of somebody who plays: `SeatedInLobby` says that a seated client is in
the LOBBY state, in no game, and seated once. That is preserved because only
clients in the menu enter a lobby (`SpinsInMenu`, `NoPointersBeforeLobby`,
`PlayersInGame`), and because a removed slot is reset (`RemovedIsReset`). A start
that `init_game_*` rejects leaves clients with a game and no entry;
`PlayerlessGameTaken` says that this record stays TAKEN. `LobbyCounts` makes the
count of a full lobby mean that there is a client at every place.

`TeamsCorrect` is `TeamsAreNotGivenUp`: in every server, `active_player_count` of a game that is
loaded or played is never below the number of connected players of the team, so that nobody's game
is ended under them by a count. It needs one more invariant, `ActiveInv`: the players of such a game are not
in STATISTICS, so whoever leaves takes the way that counts them out, and once. A decrement
is one step of `PongServer`; two that overlap are the subject of `Match`. The other
direction, `ActiveCountExact`, is model-checked where lobbies fill a game (`server_leave`); on the 1v1 table it
is false of client 0, which phantom entries take out of its game without counting it.

The 1v1 table. `TablesFull` says that each lobby has as many places as a game
record has players, which is true of the 2v2 lobby. With the 1v1 lobby two entries of
`players[]` are unused and hold the 0 of the fresh mapping, which is the id of a
client (the defect of `server_phantom_crash`), and what the properties say is false of that client.
They are therefore stated, and proved, for the `Spared` clients: everybody
where the lobbies fill the games, everybody but client 0 otherwise. `UnusedEntries` is what
makes client 0 the only victim: an entry that no game uses is NULL or still 0,
whatever games the record has served before, because a record is only freed when
all of its entries are NULL. Two
parts of `IInv` speak of client 0 too, since they are needed for the others:
`LobbyCounts` and the first half of `PointersNamed` (a player pointer of a record
that is taken leads to an entry that names it).

One step of `PongServer` finds a place in a lobby, takes it and counts
(`AddClientToLobby`), so that it says nothing of two clients that join at once: count and places
agree in it by construction, and no property or theorem claims it. `LobbySlots` takes the step
apart, and there they do not agree.

`PongServerBehaviourProofs` proves `Refinement`: `Spec => MatchmakingSpec`, for any lobbies, with
the clients that are not `Spared` as the strays of `Matchmaking`. One lemma per action says which step of `Matchmaking` it is;
most are stutters, and six general lemmas (a client leaves, enters, a status moves
on, ...) carry the others. `IInv` does the work where the server's and the
client's half of a link are read separately: a start is a `Begin` because
`LobbyCounts` makes a full count mean that there is a client at every place,
and those clients point at the lobby (`SeatedInLobby`).

The same module proves that server and clients keep in step while nobody quits
(`NobodyQuits`: exit and disconnect are not in `Inputs`; rejected names, chat and
processes that die are allowed): `InStepCorrect` and `PacketsCorrect`, that is `PacketExpected`. Quitting is excluded because the
property is false with it (see Bounds). The server never reads a client's
screen, so the invariant has to say what the server's own state implies about it.
`ScreenAhead(c)` is the screen once the packet in the mailbox has arrived, and
`InStep` relates it to the record (`Fits`: a client in the LOADING state shows the
lobby or the loading screen, ...) and to how far a walk has come: the gameloop has
shown the lobby to everybody at the places it has passed (`LobbiesInStep`), the
players who have answered show the loading screen (`ReadyInStep`), and at
the end of a game those that have been told show the statistics and the others still
the game (`StateInStep`, `EndInStep`). `MenuInStep` and `LoopInStep` do the
same for the return to the menu, where the record says MENU before the packet is
sent; `RepliesFit` for a receive thread that has changed the record but not sent
its ACCEPT. A start changes no client that has not been shown its lobby because
the gameloop goes to `StartGame` only from the walk over a full one. `IInv` supplies
that a walk over `players[]` meets every player of the game and meets it once. Like
`IInv`, `InStep` speaks of the `Spared` clients: client 0 of a 1v1 table is sent
RETURN_TO_MENU in the middle of its game.

`PongClientProofs` proves `ClientInvariance`, `ClientTypeCorrect`, `ChatCorrect`,
`ListenersCorrect` and `PacketsCorrect` for any sizes of the chat windows, any
length of the text, any inputs and any number of packets on their way: every invariant of the
runs `client` and `client_quit`. `IInv` says that there is a course of screens through the packets on their way
(`InCourse`): it begins with the screen at the end of the handler that runs, which no
statement changes (`Ends`, also for the mouse and keyboard functions), each packet
meets a screen that it may meet, and the last screen is one
that the server's stage allows (`ScreensOf`). What is clicked goes out
as a packet and moves no screen, so the course changes only where the server
fills the mailbox or a handler begins (`CourseKept`, `CourseGrows`, `CourseShifts`).
The senders that wait are the other half: `WaitsFit` says what each of them can be waiting for at which
stage, and what it may still hold after a quit has been served: `Stale` packets, a GAME_READY,
GAME_STATE or RETURN_TO_MENU whose check was true when the gameloop made it. `Ahead`
asks of the last screen of the course that it fits such a packet too, which is what makes
the packet harmless: it finds the join screen, the menu or the lobby and is dropped there. A
stale LOBBY or GAME_END is never filled in, since these read a pointer
that the quit has made NULL: the gameloop ends. For the chat, `WindowFits` says
that a handler clears the list before it shrinks the window, or finds it empty but for the
message it appends, and `Once` that a handler appends one message. The text is never
shorter than -1, since only the second half of one backspace can follow a clearing.

`ClientTableProofs` proves `OneOwner`: no two clients on one record, for any
number of clients, any width of the counter and all faults. The invariant says
that an owner's record is taken, that a record the search has found stays free
until it is taken, since only the network process takes records, and that it is
fresh when the process is forked. The counter does not occur in it: whatever
races do to `client_count`, they cannot give a record away twice. `Sizes` (naturals,
at least one counter value) is a hypothesis.

`MailboxProofs` proves `MailboxTypeCorrect` for any producers, and for a single
one, as in the client, `MailboxRuleKept` and `MailboxIsPipe`: the safety part of
the refinement. The invariant follows a packet from the pid to the wire:
`accepted` is `wire`, with the packet that waits appended. With two producers it
fails, as `mailbox_server` shows.

`MatchProofs` proves `MatchTypeCorrect`, `WinningCorrect`, `ScoresCorrect`, `PowerUpsCorrect` and
`GivingUpCorrect` for all thresholds, 1v1 and 2v2 and any departures. The hard part is
`active_player_count`, whose decrement is a load and a store of different processes:
overlapping decrements must not make it negative, nor smaller than the number of players left.
`CountCovers` counts how many of the players who have still to store their decrement each
load and the counter itself must cover, besides those who stay (`Present`). So a match is given up only
when a team is gone (`GivenUpForCause`). The converse, that a team that is gone is
noticed, is false in 2v2 (`match_2v2_leave`).

`FieldProofs` proves `FieldTypeCorrect`, `SpeedCorrect`, `BallCorrect`, `PaddlesCorrect` and
`GoalsCorrect` for fields of any size under `FieldAssumption`, however high the paddles have
grown. A paddle higher than the window is put at a negative place, as the code does
(`field_borders`), and the properties are stated to hold of it too: `PaddlesOnScreen` says that a
paddle is on the screen or covers it from border to border, and `BallInReach` how far beyond the
window such a paddle can take the ball. `WallIsGoal` is an action property: the ball changes its
direction along the field only at the side of a paddle, for a new round, or at a wall where the
goal line sees it. Types and speed (`Motion`) are inductive by
themselves; the borders (`Places`) need where paddles stand in each phase.

`FramingProofs` proves `FramedInvariance`, `FramingTypeCorrect`, `BufferCorrect`,
`FramingInvariance` and `FramingImplementsChannel` for bytes of any width, any
exclusive or with 0 as its neutral element, data of any length and any number of packets
in flight. The invariant has two parts. `BytesAgree` says where the loop is:
what it has stored is the beginning of the frame that was sent first, and the
bytes it holds back (`Pending`: a `?` or a single `-`) followed by the connection
are the encoding of the frame's rest, the separator and the packets behind it.
So the next byte is known up to six cases (`NextByte`), and in none of them does
the loop give a packet up: the StartOver of `OtherByte` is never taken. This part
needs no hypothesis, and neither does the bound on `packet_buf` that follows
from it, since decoding gives back a frame, which is at most as long as the buffer.
`NumbersAgree` says which numbers are on their way: each is the successor of
the one before it modulo 2^w, and the first is ahead of the expected one by the torn
packets just dropped. Whole packets are accepted if those are at most
`Allowance` + 1 in a row, which is the hypothesis `MaxTorn <= Allowance + 1` of
`FramingInvariance` and of the refinement: 51 in the program. It is tight (see
Bounds), and the code does not enforce it; a whole packet that
is refused behind a number wraparound is followed by refusals until the numbers
have come round to the expected one. What
`FlattenSeq` and `xor_checksum` compute is needed for inputs of any length: since the
induction theorems of the library cannot be cited, `AllNumbers` derives induction for sets of
naturals from the well-foundedness of `<`, and `Recursion` the values of a loop.

Only model-checked: liveness (outside the prover), the liveness parts of the
refinements among it. `LobbySlots` has no theorem because its promises fail.

## Not modelled

* Drawing (`pong_graphics*.c` apart from listeners, keyboards, the loading screen
  and the walk over the chat): it reads state and changes none.
* `get_server_socket`, `get_client_socket`, `pong_args.c`, `pong_debug.c`: system
  calls at the start, options and printing.
* The layout of packets (`insert_*`, byte order): each writer and its reader are
  straight-line code. Reading them next to the `*_MAX_DATA_SIZE` constants shows
  that names of `MAX_NAME_LENGTH` fit into every packet.
* `check_for_collision` and `decode` are never called, and neither are most
  helpers of `pong_math.c`. `rand` is a free choice.
* The direction of a new ball is chosen from the constant `BallStarts`, the place
  of a power-up is free.
* `src/test/test.c` prints encodings and checks nothing.
* What a compiler may do to unsynchronised memory: statements take effect in
  program order.

## Plan

In order:

1. A run of `LobbySlots` that holds: one joiner at a time, and its refinement of
   the lobby part of `PongServer`.
2. `PongClient`: the pops of one `clear_chat` one at a time.
3. The packet layout: writers and readers of each packet as sequences of fields.
