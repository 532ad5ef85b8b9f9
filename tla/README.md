# MWetris in TLA+

MWetris is a tetris game for one or several players, on one computer or over a game server. This
directory holds a TLA+ model of it, the TLC runs that check the model on small instances, and
proofs, checked by TLAPS, of what holds on every instance. `PROJECT.json` lists components, runs,
findings, hazards and theorems, and maps every definition to the lines it models.

## The system

| Component | State | Operations | Who it talks to |
|---|---|---|---|
| `ServerCore`, `TcpServer` (Network_Lib) | `roomIdByClientId_`, `gameRoomById_`, `remoteByClientId_`, one coroutine per session | accept, create, join, leave, list rooms, end of a session | its `GameRoom`s by calls, the clients by messages |
| `GameRoom` (Network_Lib) | clients inside with their connection ids, free ids, player slots, paused | slot, start, pause, restart, moves, remove a client | the clients inside, through `Server::sendToClient` |
| `Network` (App_Lib/cnetwork) | the loop it is in, its room, its id, its view of the slots, the players, listeners on local boards | requests of the user; a handler for every message | the server by messages, `TetrisController` by events |
| `TcpClient`, `ProtobufMessage`, `ProtobufMessageQueue` | socket, buffers, pools of buffers | connect, read, write, frame | the other end |
| `DebugServer`, `DebugClient` | in-memory queues | the same without a socket | tests, debug window |
| `TetrisController` | roster, game, rules, kind of room | buttons, network events, default game | `Network`, `TetrisGame`, scenes |
| `TetrisGame`, `TimeHandler` | players, paused, countdown, scheduled callbacks | create, restart, pause, frame | `Player`s by calls |
| `Player`, `GameRules` | board, level, points, place | move, next block, rows from others, restart | other players through the rules, `Network` through signals |
| `TetrisBoard`, `Block` (TetrisEngine) | squares, current and next block | moves, filled rows, external rows, game over | callbacks to `Player` |
| `Keyboard`, `GamePad`, `DeviceManager` | keys that are down, a copy per device, the list of devices | key events, gamepads that come and go, the tick of a frame | `Player` |
| `TetrisBoardController`, `DasArrHandler`, `ActionHandler` | timers of held keys, of gravity, of a block that is down | turn keys into moves | `TetrisBoard` |
| `Computer`, `Ai` | where the block should go, the keys it holds | search for the best place | `TetrisBoardController` |
| `Serialize`, high scores | files, a cached game | save, load, clear | `TetrisController` |
| scenes, windows | current scene, popup, slots of the lobby, menu text | clicks, keys | `TetrisController` |
| console program, drawing, `Configuration` | | | |

Client and server run one asio thread each; the client polls its `io_context` once a frame
(`mainwindow.cpp`). A message is handled to its end before the next one is read, so what is hard is
what is under way: requests that cross with answers, users who press a button again before they are
answered, clients that leave, vanish and come back in the middle of a game, copies of a board on other
computers that must go through exactly what their owner's went through, rules that each client applies
for itself. On one computer it is the order of frames, key events, timers and clicks, and the moment
the program ends.

What makes each component correct:

* server: the map of the server and the lists of the rooms say the same about who is where; rooms
  close with their last client; ids are neither lost nor held twice; a slot is its owner's.
* client: when nothing is under way it agrees with the server on its room, the roster and the slots,
  and on whether the game stands unless the last pause met a countdown; requests to create, join and
  leave are answered when the server grants them.
* connection: what is received is what was sent, in order; everything arrives; buffers are used again.
* boards: a copy's history is the beginning of its owner's, and catches up; a block lands inside of
  the board and on nothing; rows go when they are filled, and only then; what is saved is loaded.
* rules: a game of several ends with one left; all clients see the same places; points, levels and
  gravity follow the rows.
* input: a key makes the moves it was held for, no more and no less; a game left alone ends; the
  computer never carries its block past where its search wants it, and puts it there if nothing hinders.
* application: scene, menu and popup belong together; the saved default game is the current one or gone;
  a closed game comes back; no two players share a device; a countdown ends.

## The modules

| Module | Models | Remarks |
|---|---|---|
| `Protocol` | the messages of `Protocol/*.proto` and the data they carry | ids are model values, fields that decide nothing are left out |
| `GameRoom` | class `GameRoom` as a record and what each operation makes of it | operators only |
| `ServerCore` | `ServerCore`, `TcpServer`, message dispatch of `GameRoom` | one action per message, accept, end of a session |
| `RoomMembership` | what the server promises about rooms | the abstract specification `ServerCore` implements |
| `TetrisGame` | `TetrisGame`: pause, restart, countdown | operators on a record |
| `Network` | class `Network`, `TetrisController`'s part in a network game | state of every client, two FIFO queues per connection |
| `Selection` | what a loop or a `remove_if` selects of a vector | operators only, without recursion |
| `GameSession` | clients, server and users together | extends `Network` and `ServerCore`, whose steps it takes |
| `PauseHistory` | which clients a pause has missed | extends `GameSession` by an auxiliary variable |
| `Connection` | `TcpClient` at both ends, framing, pools of buffers, the connection in memory | bytes of a small base |
| `TetrisBoard` | `Block` and `TetrisBoard`: what each move makes of squares, block and rows; what saving and loading make of a board | operators only |
| `Player` | a player's board, the copy of it on another computer, and the updates from one to the other | a state machine over `TetrisBoard` |
| `Rules` | `DefaultGameRules` and `SurvivalGameRules`, once per client, and what the server relays between them | boards are what the rules see of them |
| `MoveController` | `TetrisBoardController`, `DasArrHandler`, `ActionHandler` | one fixed step, operators only |
| `Input` | `Keyboard`, `DeviceManager`, `HumanMoveController`: key events, steps and ticks of frames | over `MoveController` |
| `Ai` | the search of the computer player | operators only |
| `Computer` | `Computer`, `AiMoveController` | over `MoveController` and `Ai` |
| `LocalPlayer` | a local player, human or computer | composes `Input` and `Computer` |
| `CountDown` | `TetrisGame` with `TimeHandler` and time, the text of the menu | operators only |
| `Pausing` | what a client promises of when its game halts | the abstract specification `Application` implements; its steps are the operators `Network` uses |
| `Devices` | the devices of `DeviceManager`, gamepads that come and go | operators only |
| `Scenes` | `StateMachine`, main and modal | operators only |
| `SavedGame` | the cached game and its file | operators only |
| `HighScores` | the list of high scores | operators only |
| `Application` | `TetrisController`, `TetrisWindow`, the lobby and its popup, from start to end of the program | composes the six before it |
| `ServerCore_proofs`, `GameSession_proofs`, `Connection_proofs`, `Application_proofs`, `Rules_proofs`, `Player_proofs`, `LocalPlayer_proofs` | theorems about the module of that name | `GameSession_proofs` builds on the lemmas of `ServerCore_proofs` |
| `NumbersAndQueues` | lemmas: a set of numbers has a least one; what `SelectIn` selects; what the messages of a queue do one after the other | |
| `MCServerCore`, `MCGameSession`, `MCPauseHistory`, `MCPlayer`, `MCConnection`, `MCRules`, `MCLocalPlayer`, `MCApplication` | constants for TLC | |

How they stand on each other: `Connection` says when a connection is the pair of FIFO queues that
`GameSession` and `Rules` take it for. `GameSession` shows that copies get the changes of their owners
once and in order, with boards as histories; `Player` and `Rules` start from there, with squares and
with points. `Application` shows that a client's game, with its clock, is a behaviour of `Pausing`,
whose steps are those the clients of `GameSession` make.

### How they correspond to the code

*Server.* `ReceivedFromRemote(c, m)` is one turn of the loop in `ServerCore::receivedFromClient`:
`ServerCore` handles the message, then the room the client is in **by then** does
(`receivedFromRemote`). So creating a room and entering it is one step, and a request the server
refuses because the client is inside a room is still handed to that room (`EnterAgain`). A vector of
clients with their connection ids is a set of entries; which free id a client gets is left open.
`gameRoomById_.at()` of a room that is gone is `OutOfRange`, reading the front of an empty list is
`FrontOfEmptyList` and sets `undefined`, after which the model stops and nothing is claimed of what it sends. `sent` holds what the last
step sent to each client; `GameSession` appends it to the queues.

*Sessions.* `SessionFails` is what a lost connection does in the code: `TcpClient::asyncRead` throws
a sliced copy of the exception, `handleClientSession` does not catch it, the client stays in its
room. `SessionEnds` is the handler itself, enabled by the switch `RethrowAsSystemError`, so that
what it does is checked, too.

*Switches.* `RepeatedRequests`: a client asks to enter a room while inside one. `KickRequests`:
clients send `RemoveClient`, which the server handles and the user interface never sends.

*Client.* `phase` is the loop of `Network::run`: `HandleInConnect`, `HandleInLobby`,
`HandleInGame` say which messages each loop looks at; it skips the others. `players` are
`players_`, `listening` says whether `connections_` holds the listeners of the local boards. A board
is the sequence of changes made to it, because what a change does depends on the board alone; a
local change is applied, and sent if it is listened to. `LocalChange` while the game is paused is
restricted to what the game rules do on their own.

*Users.* Any button at any time, each as often as the budget says. A room can be named once it was
created, also when it is gone. The lobby shows a slot as its user wants it before the server
answers; so `startGame` is possible in every lobby.

*Pause.* With more than one player a game starts, restarts and is resumed with a countdown during
which `paused` is still true. `TetrisGame` takes the three callbacks as one step
(`CountDownOver`); `CountDown` has the clock: `TimeHandler::update` calls back once per frame at
most, and drops what is over a second. `Halted` is what a player sees: it stands and will not go on by
itself. `PauseHistory` remembers of each client, in `outOfStep`, that it dropped the last pause or that its game
began anew after it; no step looks at it.

*Connection.* Both ends have the same actions: `Send` starts an `async_write`, `Write` writes some
of the bytes of one of them, `ReadHeader` and `ReadBody` are the two reads of `asyncRead`, whose sizes
are not looked at. The switches of a plan say whether reads may be short and writes in parts, and
whether a lost connection has the sliced exception of the code. What has happened that may put an end
out of step is in `causes`. A byte of a body that is read as a header has one value: one wrong header is
as bad as another. A pool is counted, because a buffer has no identity.

*Boards.* The vector of squares is a sequence of rows, the lowest first, because squares are inserted
and erased by whole rows only; a row is the set of its filled columns, because the type of a square
on the board decides nothing. A block is the set of its squares, the square it turns around, and what
is saved of it: type, start column, lowest start row, number of rotations. `TetrisBoard::update` is
split in two: `Lands` and `Landed` for the gravity that finds the block down, which writes the block,
lets the callback of `Player` put the waiting rows below, removes filled rows and creates the next
block; `update` for everything else. `removeFilledRows` looks at as many rows as a block has squares,
so its loop is four turns of `NextRow`. `Loaded` is `setTpPlayer` followed by `toTetrisBoard`.

*Players.* `updateMove` is a move with all its callbacks, for the owner (`OwnerMoves`, the moves a
controller makes) and for the copy (`CopyReceives`). The random next block is a choice of the step;
the copy makes one of its own, which the owner's `next_block` replaces. `Attack` is what
`SurvivalGameRules` do to one player when another removes four rows. Updates are one FIFO queue
here; that the server and the network keep them in order and deliver them once is what the run
`game` shows.

*Rules.* `info[c][p]` is what client `c` knows of player `p`, and what its rules say of it.
`LocalRows` and `LocalDeath` are what a local board does, `Receive` a message of the server, which puts
what clients send into one order. `RowsRemoved` calls the rules before it counts the rows, as the
signal does. `EndAll` is the predicate of `handleRemoveClient`. `causes` says what crossed.

*Input.* Time is counted in fixed steps; a frame has its key events, then up to
`MaxSteps` steps (`FixedStep`) or none, then the `Tick`. Timers keep the time since something happened, up to
the longest wait. `device` is the copy of `keyboard` that `DeviceManager::eventUpdate` makes at every
key event, and the tick does not clear. `updated` is `TetrisBoardController::update`, with the moves
it made and what it told (`moves`, `events`), which is what the computer hears.

*Computer.* `calculateAllPossibleStates`, `moveBlockToBeforeImpact` and the functions that value a board
are operators on boards; `Before` is the order of the search, which decides between equal values. The highest used
row of an empty board (`NoRow`) is below zero, as the code computes it for ten columns, whatever the columns of a run. Worths
are multiplied by five, so that the default function is one of integers. `Computer` keeps state, block
and input as the class does. `aim` and `outcome` remember what was wanted of a block, how many steps it flew and what was
in its way (`Hindrance`), and what became of it.

*Application.* The actions are grouped as the code is: keys, menu, popups, lobby, popup for a player,
frames, events of the network. A click is handled while a frame is drawn and the popup is drawn after
it (`Drawn`); keys and network events come between frames. Of a board there is which one it is, how far it
was played, whether it is full, and its points. `controller.inside` and `controller.asked` stand for
`Network`: an event of the network may come whenever a request or being inside a room allows it.
`closed` remembers the board a user may expect to find again.

## The runs

There are nine runs that pass and three that find a violation. With two TLC workers each takes less than
three minutes.

| Run | Question | Bounds |
|---|---|---|
| `rooms` | do the records of the server agree, does it implement `RoomMembership`, whatever is asked and repeated? | 3 clients, 2 rooms of 2 places, 3 ids |
| `all_messages` | what of it survives every message there is, clients that remove each other, and sessions that end as their handler means? is a slot safe with its owner? | 3 clients, 1 room, 1 slot, 2 player ids |
| `game` | do client and server agree when impatient users come and go; do copies follow and catch up; do clients agree on pauses, with countdowns and restarts that overlap, but for the pauses that a countdown swallows? | 2 clients, 2 rooms, 2 slots; the ten budgets below |
| `answers` | are create, a granted join and leave answered, do the server's records agree when connections break, do clients of class `Network` behave as `ServerCore` assumes? | 2 clients, 1 room, and one client alone in games of up to 2 slots; fairness of delivery |
| `connection` | when is a connection a pair of FIFO queues, does all arrive, are buffers used again? | bytes of 4 values, bodies of 1 to 5 bytes, 2 to 4 messages, 1 loss |
| `board` | whatever is played and sent: do blocks land inside the board and on nothing, do filled rows go, is a saved board loaded as it was, is the copy the owner's board? | 4 columns, 6 rows, the five plans below, 2 updates under way |
| `rules` | do games end, do places agree, do points follow the rows when clients decide apart from each other? | 3 players on 2 clients, up to 4 deaths, 3 removals, a restart, a client that vanishes |
| `player` | do keys do what they are pressed for, does a game left alone end, does the computer do what it wants, and how far, with all that may hinder it? | 4 columns, 5 rows, 2 presses, at most 2 steps a frame; for the computer 5 columns, 8 rows, up to 5 blocks, a gravity of 3 steps, so that a block often lands before it gets where it should, and all boards of 3 rows of 5 columns for what the search counts |
| `application` | do scene, menu, pause, players and saved game belong together, however clicks, answers, frames and the end of the program cross? | up to 9 clicks, 5 events of the network or of gamepads, 3 moves, 3 slots, 2 gamepads of one kind; all lists of up to 4 high scores |

A budget of `game` says how often users press each button in all; TLC takes each budget in turn: coming
and going between two rooms with requests that are repeated (`ComingAndGoing`); a game that is left and
broken off (`LeftAndBrokenGame`); one player and two changes with a restart (`PlayedAlone`); two players with
a restart (`PlayedByTwo`); a game that is left for another room or come back to (`LeftGame`), or restarted
by those who stay or the one who left (`LeftAndRestartedGame`); one that breaks off (`BrokenGame`); one that
everybody pauses (`PausedGame`); two local players with countdowns, pauses and a restart (`RestartedGame`); and a
player on each of two clients, with three presses of pause, countdowns at both and a restart (`PausedByTwo`).
In the last one users prepare the game one at a time and press nothing else before it starts (`Orderly` in
`MCPauseHistory`): what crosses in the lobby is left to the other budgets, what crosses in the game is all there.
One budget with all of it would be far out of reach, and the hazards meet in pairs.

A plan of `board` says which types of blocks are drawn, how many land, whether rows come and the game
restarts: two types with two and four orientations and the rows of an attack; every type once; four
landings of one type and an attack (enough to fill rows, and to push filled rows out of those that
are looked at); three landings of `O` and `S`; and a restart between landings. Moves are not counted:
every block goes to every place it can reach. Four columns are the width of the lying `I`, six rows
leave two below the starting area, so that a game also ends at the top.

The plans of the other runs are read the same way, in their MC modules. Those of `connection` turn on
one thing at a time: short reads and parts with sizes that fit, sizes beyond a byte with a connection that
breaks, parts with a break that is not caught, and memory. A base of four keeps the boundary between one
and two bytes (bodies of 3, 4 and 5) within reach. Those of `player` press one or two keys and another one,
because handlers of different keys share nothing but the board. Those of `application` are: everything
with few clicks; a game that is closed, killed and resumed; the lobby of a local game; the same with
gamepads; and a room.

Why these bounds are enough: two clients are all that a pair of owner and copy, or two that race for
a place or a slot, need, and the third is the bystander who must not be affected (`rooms`,
`all_messages`); rooms have two places so that three clients meet a full one; two rooms let a client
take messages of one into the other. Two changes of boards are what order, loss and duplication need. Three
players on two clients are a local opponent, a remote one, and a winner after two deaths.

Fairness. `answers` assumes that messages are delivered and read, `connection` that coroutines run
(asio runs every handler that is ready, the client polls in every frame); `player` and `application` that
frames follow each other, which `mainwindow.cpp` does as long as the program runs. Nothing is assumed of
users. With users who await the answer to a create or join, the server is seen to be used as `ServerCore`
with `RepeatedRequests = FALSE` assumes (`ServerSpec`).

### What contradicts the code's own words

Runs expected to be violated; each states a line of the repository.

* `repeated_request` (`OneEntryPerClient`): "already in a GameRoom", says the server, and lets the
  client in once more.
* `open_slot` (`PlayersMatchSlots`): a game started with an open slot before a taken one lacks
  players; the taken slots are paired with all slots by position.
* `saved_score` (`ScoreIsResumed`): "Resume Single Player" brings the board back. Level and points are
  in the file and are given to the player; then the rules start the game and set them anew.

### What else is worth knowing

Behaviour that was met while modelling. The properties above state what holds in spite of it, with the
condition they need.

* A room whose clients have all lost their connection stays open: the handler that should close it waits
  for another type of exception than the one `TcpClient` throws (`SessionFails`). For the same reason the
  client never connects again, and nobody is told of the error (`ComesBack` holds without slicing only).
* A pause that reaches one of two clients during its countdown is dropped there, and the players of one
  game no longer agree; a restart begins the game in a paused room. `PauseAgreesWhenQuiet` says that these are the
  only ways, that the game of such a client then runs, and that the next command puts it right; it is checked
  with a player on each of two clients.
* Messages of 256 bytes or more are read wrongly, although `protobufmessage.h` allows 65535: the size is
  written to the base of 256 and read to that of 255 (`getBodySize`; cause "large message" of
  `FifoInStep`). Short reads and writes in parts put a reader out of step for good.
* The server takes a buffer from one queue for each message and gives it to another, which it never
  takes it from again: `BuffersAreUsedAgain` is about the client and the connection in memory.
* `rotateRight` counts a block of two orientations as turned back to its start when it has left it. The
  program turns blocks to the left only; with those moves `SavedBoardIsLoaded` holds.
* When rows of an opponent wait, they are put below the board before the filled rows are looked for,
  counted from where the block was. Rows the block has filled may then be missed, and stay. `FilledRowsGo`
  therefore says that rows go when no rows were waiting and none was missed before.
* Two players that die at the same time on two clients are given places by each client for itself, which
  need not agree (`PlacesAgree` needs that nothing crossed). A client that vanishes ends the boards of all
  players. `SurvivalGameRules` do not set the gravity back when they restart (`GravityAfterRestart`).
* A key that goes down and up within a frame, or is copied to the device late, is not seen, or seen too
  often (`Missed`). A block that lands forgets how long left and right have been held.
* The computer turns its block once however often it wanted to, tries no turn a second time, and is not
  asked about the first block or the one after a restart. Its keys obey the delay and repeat of a player's, so that
  under a fast gravity (it grows with the level, without bound) or on a high board the block lands before it
  is in its column. `Hindrance` lists all of that; `StateIsReached` says that no hindrance carries the block past its
  place, and that without one it lands there. It ignores the search it was configured with.
* The search of the computer values a board without the block it places: `ai.cpp:394` moves the block down, which does
  not make it part of the board, and then counts holes and wells. They are the same for every place, so the
  lowest place wins whatever holes it makes. The value function (`ai.cpp:71`) weighs holes and wells, the comments
  at `ai.cpp:120` and `126` say "before the block is part of the board" of the other two counts only, and the tests of
  the counts (`testtetrisengine.cpp:357`, commented out) land the block first. The model does what the
  code does, and no property takes a side.
* "Stop Countdown" does nothing: unpausing is ignored while one is scheduled. The entry Highscore pauses or
  resumes the game, as it finds it. "P" typed into a text field of a popup does, too.
* F1 in a room asks to leave it, clears the saved game and saves nothing; when the answer comes the window
  shows the scene of somebody outside of a game, while the default game goes on behind it.
* A local game of one player by the default rules is saved when it starts (`tetriscontroller.cpp:152`), and no
  listener clears or updates the file while it is played, so its start comes back after a crash.
  `SavedGameIsCurrent` says so, and that nothing else of it does.
* A saved game that was cleared is still in the cache as a board, and a later F1 plays on from it.
* A slot of one's own that the server has confirmed has no device any more: `NobodySharesADevice` says that
  such a player is in no game that is started here.
* High scores: nothing fires the event of a finished game, so that none is recorded; the file keeps what the
  list cuts off.

## What is proved

Every theorem holds for every value of the constants that the `ASSUME`s of the modules allow. Those are
what the code fixes, or what every run of it satisfies: sets of ids are finite and a null id is no id; a
room has at least one place and no fewer connection ids than places; a message has a body of 1 to `Base * Base - 1`
bytes; rows of an opponent are neither empty nor filled; a game has no more players than a lobby has slots;
the players of a game are finitely many, and every client lists each of them once and in the same order; no room has the
id of a player (both are UUIDs); a level needs no fewer rows than the four a block can fill at once (it needs ten);
patient users have no budget for impatience. Switches are assumed to have a value only where a theorem says so.

Each proof has the same shape: an inductive invariant made of named parts, one lemma per action or handler for
each part it can disturb, and a short theorem that reads the property off the invariant.

### The server (`ServerCore_proofs`): any number of clients, rooms and slots

* `TypeCorrect`: `Spec => []ServerTypeOK`, for all switches.
* `MembershipCorrect`: `[]RoomOfClientExists`, `[]MembershipAgrees`, `[]NoEmptyRoom`, assuming
  `~KickRequests` and `~RethrowAsSystemError` (the code as its user interface uses it). With kicks it
  is false. The inductive invariant is the type invariant with the agreement of the two records.
  Agreement is needed to know that leaving empties the right room; that rooms are never empty is
  needed to know that a client who enters a closed room finds nobody recorded as inside.
* `MembershipIsKept`: `Spec => MembershipSpec`, under the same assumptions: the server implements
  `RoomMembership`. Every step is mapped to a step of it or to a stutter; that a room never holds more
  clients than it has places is counted by the entries of the list (`OccupantsCounted`).
* `ConnectionIdsAreUnique`: `[]ConnectionIdsUnique`, for all switches.
* `ConnectionIdsAreConserved`: `[]ConnectionIdsConserved`, under the assumptions of
  `MembershipCorrect`: `removeClientFromGameRoom` erases an entry and drops its id, so the
  conservation of ids is what the leave request preserves and the removal does not.
* `OwnedSlotsAreAlwaysSafe`: the action property `OwnedSlotsAreSafe`, for all switches: also kicks, requests out
  of place and ends of sessions leave a slot to its owner.

The lemmas follow the code: what every handler leaves alone (`HandleShape`), what entering, leaving
and updating do to the membership (`EntersMembership`, `LeavesMembership`, `UpdatesMembership`), to
the ids of one room (`AddClientIds`, `DisconnectIds`, `RemoveEntryIds`) and to its slots (`HandleSlots`).

### Clients and server (`GameSession_proofs`): any number of them, of messages under way and of buttons pressed

* `RoomAgrees`: `[]RoomAgreesWhenQuiet`, assuming `Careful`: `RethrowAsSystemError => ~RepeatedRequests`. The
  code itself has `~RethrowAsSystemError` and satisfies it whatever users do.
* `LobbyAgrees`: `[]LobbyAgreesWhenQuiet`, assuming `~RethrowAsSystemError`: with it, those who stay in the lobby
  are sent a `RemoveClient` that the client's loop does not look at, and the roster is behind.
* `ServerRecordsAreRight`: `[]ServerRecordsAgree`, assuming `~RepeatedRequests`, however sessions end.
* `SessionUsesServer`: `SessionSpec => ServerSpec`, assuming `Careful`: what is under way between real clients
  and the server uses it as `ServerCore` assumes.
* `CopiesFollow`, `CopiesCatchUp`: `SessionSpec /\ []StartedInOrder => []CopyFollowsOwner`, and the same of
  `[]CopyCatchesUp`, assuming `~RepeatedRequests`, `~RethrowAsSystemError` (as the code has it), and budgets with at most
  one start. Players come, leave, come back, restart and lose connections as they like. `StartedInOrder` says that no slot
  is open before a taken one when a game starts.

Agreement when nothing is under way says nothing of the states between, so the invariant (`SessionInv`) is about
the views under way. `After(v, m)` is what a client that sees `v` sees once it has handled `m`, in each
of its three loops. `ViewInv` says that for every client there is a history of views (`Leads`) that begins with
what the client sees, goes through the messages of its queue, and ends in agreement with the server; and that
every view of it is one a client may have (`Good`). A client's step takes the first view away (`LeadsOn`), a
server's step puts one at the end (`LeadsFurther`), and may put the same message there several times because a
client may be listed twice: a second copy changes nothing (`ServerTells`). `PatientInv` is what patience means
over a connection: a client has at most one request to enter under way, only while the server has it outside, and
with no earlier answer still to come. That a client which sees no room, with no answer under way, has none at
the server (`OutsideSees`) follows from its history; it is what makes the next request as patient as the first.

Copies are followed from one end to the other. A change of a board goes through the queue of its owner to the server,
and from there through the queue of each of the others. A copy has had a number of changes; the messages on
their way to it count on from there, one change each and the right one (`Hearing`), and those on their way to the server
count on from where these end (`Saying`), up to the board of the owner. `Linked` says that a queue leads from the one
number to the other, and `LinkedTail` and `LinkedAppend` what taking from its front and adding to its end do to that. That copies
follow is then that every number met is at most that of the owner; that they catch up, that two empty queues
leave the number as it is. The rest of the invariant (`CopyInv`) is who plays what. Before the start nobody has a game or
has word of one (`NoGame`). After it there is one game (`OneGame`): the slots of its `CreateGame` say whose each
player is, for the room, for every client that plays it, and for every client that will once it has read the message
(`Seated`, `GameOn`); the others will not get into another one (`PlaysIn`, along the history of views of above).

The hypotheses are needed, and TLC shows so. A second start is relayed in a room whose game is on, and who comes late
starts anew with players the others have boards of. With an open slot before taken ones, players are paired with
the wrong slots (`open_slot`): with the slots open, first and second player, the first client steers the player of the
second one, whose own copy of it takes it for its own, so that a restart of the one is not heard by the other. And they
are met: a simulation of three clients with three slots and all the hypotheses went through 56 million states in
which both properties held. The run `game` has `RepeatedRequests`, but none of its budgets both starts
a game and presses again; and it starts games with a slot left open, which of two slots does no harm to copies.

`Careful` excludes a combination that the code does not have and that is false there: were a session closed
with one of two entries of its client removed, the entry that is left would disagree with the map.

### The connection (`Connection_proofs`): bytes of every base, every plan

* `AlwaysFifoInStep`: `[]FifoInStep`. The invariant relates four places to the messages sent: the bytes still to be
  written, those on the way, what the reader has read of a message, and what it has received (`StreamInv`): laid
  end to end they are what was sent, header and body, in order. That no message is empty is needed: a reader
  would mistake the state between header and body for that between two messages.
* `BuffersAreAlwaysUsedAgain`: `[]BuffersAreUsedAgain`. How many buffers are out is counted by what is being read,
  written and under way (`PoolsInv`), so the pool cannot grow beyond the most that were out at once.

### Boards (`Player_proofs`): every size, every move of the engine

* `TypeCorrect`: `Spec => []TypeOK`.
* `AlwaysLandsInside`: `Spec => []LandsInside`: `addBlockToBoard`, which checks nothing, writes inside
  of the vector. Being inside is not inductive. The invariant says that every block, also one that
  collides, has the square it turns around at least three rows below the top and its other squares
  within two of it (`LowEnough`), and that there are never fewer rows than `Rows`. New blocks have it
  (`NewBlockGood`), turning keeps the distance (`rotateGood`), nothing moves a block up
  (`ShiftedGood`), and a removed row is replaced on a board that would get too low (`moveRowsGood`).
  That a falling block stops (`getBlockDownGood`) needs that a set of numbers has a least one.
* `AlwaysNoRowFloats`: `[]NoRowFloats`. The invariant (`OwnerFirm`) adds the shape of the block: four squares that fill
  a box of at most four by four without leaving out a row or column of it, through every rotation (`Tetromino`).
  Without it a block could leave an empty row between two of its own.
* `FilledRowsAlwaysGo`: the action property `FilledRowsGo`: the four turns of the loop look at every row a block
  can have filled, also when removed rows make others slide under the index.
* `NothingIsEverOverwritten`: the action property `NothingIsOverwritten`, by counting squares: a landing adds four and
  those of the rows from below, and takes a full row's for each row removed.
* `SavedBoardIsAlwaysLoaded`: `[]SavedBoardIsLoaded`, assuming `"RotateRight" \notin Moves`: no controller makes
  that move, and with it the property is false (`rotateRight`, in the list of what the code does otherwise). The
  invariant (`OwnerRebuilt`) says that the block on a board is what is built of its type, its column and row and its
  number of turns, through every move; and because no row floats, the empty rows a saved board leaves out are those
  a new board has anyway (`PoppedRows`).
* `CopyAlwaysEqualsOwner`: `[]CopyEqualsOwner`. The invariant (`CopyInv`) is a history of boards through the updates under
  way, from the copy to the owner, in which a landing leaves the next block open until the update after it names it.

### The rules (`Rules_proofs`): any number of players, of clients and of messages under way

Clients decide apart from each other who is out, at which place, and what rows are worth, and what crosses is
put into order by the server alone. Each invariant therefore says what a client **will** see once it has read
what is under way to it.

* `AlwaysTypeOK`: `Spec => []TypeOK`.
* `NobodyIsLeftAlone`: `[]NobodyPlaysAlone`, whatever crosses and whoever vanishes. The invariant (`PlayInv`): what a
  client will see of another's player, playing or not, is what that one sees of it (`ViewsMeet`); a client that
  asked for a restart will be answered by each of the others (`AsksAnswered`); a local player who plays alone waits
  for others to be restarted, or for the end of its own game (`AloneWaits`); nobody sees players of a client that
  vanished without having word of it under way (`GoneAreOut`). That a restart is on its way is what makes a player who is
  alone for now different from one left behind, and it has to be followed through the inboxes of both sides.
* `ScoresFollowRows`: `[]ScoreFollowsRows`. With the default rules points and level are those of the rows removed,
  up to the one level the rules are behind by, because they are called before the rows are counted
  (`DefaultScored`). With the survival rules the rows a player has had from its opponents are
  what its client has counted for all of them. This needs that restarts come first and find nothing
  under way (`RestartsFirst`, `RestartsClean`): while one that nothing crossed runs, all a client sees is new, or will be.
* `AllAgreeOnPlaces`: `[]PlacesAgree`. With nothing crossed, all clients have seen the first of those who are out, and
  will read of the others in the order of their places (`PlaceInv`, `Sees`); each place is taken once, from the last
  upwards (`Taken`). That the next place is free is counted: those out and those playing are all the players.

### The application (`Application_proofs`): every plan, length of a second, frame time, lobby and gamepads

* `MenuAlwaysTells`: `[]MenuTellsPause`, which is about the text of the menu's entry, from `TimedInv`: a countdown runs only while the game is paused, and the text
  was set by the last of the two that changed.
* `PausesAsPromised`: `AppSpec => PausingSpec`: with its clock, its late timers and its frames the game is a
  behaviour of `Pausing`.
* `ScenesAlwaysAgree`: `[]ScenesAgree`: scene and popup belong to the controller's kind of room and to being inside of one;
  it says nothing of the game behind them (`ScenesInv`: a popup that asks for a room is there outside of rooms only).
* `SavedGameAlwaysCurrent` and `ClosedGameAlwaysResumes`, from `SavedInv`: while the default game is on the file has
  its board or none, of another game it has at most the start (`OnlyStartSaved`), and a closed game that can be resumed is both in the file and, once the program runs, in the game.
* `NobodyEverShares`: `[]NobodySharesADevice`. Entries of the list of gamepads that are kept for ones unplugged are
  reused, and the proof needs that every entry could belong to a gamepad of its own kind, all at the same time
  (`EachCouldHaveOne`); otherwise a list might outgrow the names it hands out.

### A human at the keyboard (`LocalPlayer_proofs`): boards of every size, waits of every length

* `KeysAreAlwaysObeyed`: `[](kind = "Human" => KeysAreObeyed)`. A step runs six handlers that share a board and a
  list of moves. Each is shown to change its own timer and to make its own move, or not (`Handles`), so a step is,
  for a key, one step of its handler (`UpdatedKeys`), and nothing while a block is down (`areKeys`). The invariant is then
  about one key: what keyboard and device know of it (`Copies`), and for left and right a law of the clock
  (`InTime`): the updates since the key went down are those of the delay, of m repeats and of what has passed of the next,
  and the moves are 1 + m. A key that was held when a block came starts with a new handler, one move later or not, which
  is what the second count (`first = 0`) is for. That a key that was seen up has a handler that forgot it is needed for
  the next press (`previouslyHeld`, and `wasPressed` of the other keys).

### What stays with TLC

* Liveness: `RequestsAreAnswered`, `AllArrives`, `HumanGameEnds`, `CountdownEnds`. Under fairness it is out of the
  prover's reach.
* `PauseAgreesWhenQuiet`: with the auxiliary variable of `PauseHistory` it holds in every budget, also where pauses, countdowns
  and restarts cross between two players. A proof would follow the pauses on their way to a client as `ViewInv` follows its
  room; it is the first point of the plan.
* `PlacementAgrees`: it compares two sorted lists, and nothing is known to the prover of `SortSeq`.
* The computer player. `StateIsReached` is about what a search over all boards finds,
  `HolesAgree` compares a count made while walking a board with a definition: induction over data. For the same
  reason `KeysAreObeyed` is proved for humans: of a computer it says that its state has its type, and its values are sums.

No module uses a RECURSIVE operator. A vector that is filtered is written with `SelectIn` instead of a fold,
so that its length and its elements can be reasoned about (`SelectInParts`); the rows removed by a set of players are
counted as a set (`RowsOf`).

What the proofs changed in the model: the step that reads the front of an empty list said nothing of `sent`, so
that its successor had no type; and assumptions on constants that the runs had met without stating them (no
empty bodies, no empty or filled rows from opponents, no more players than slots, players listed once each, no room with the
id of a player). In `Rules` the messages under way have a type, and `EndAll` is written in closed form: what ending one board after the
other comes to. `PlacesAgree` is about games of more than one player: one who plays alone is given no place.
In `Input` a landing is told by its event alone: that the board has changed, which was asked for too, is not so on
every board.

## What is not modelled

* The console program (an older program on the same engine) and drawing: output only. `Configuration`: a file
  that is read once. The scenes Settings and About: no state.
* Windows beyond the first, and the debug window with its several clients. They share one cached game and
  the static index of the radio buttons in the lobby.
* The buttons of gamepads: `GamePad::updateInput` returns before it looks at them.
* Depth 2 of the search and value functions other than the default, text formulas over real numbers: nothing
  in the program reaches them.
* Events nobody sends: `GameOver`, `NewHighScore`, `NetworkErrorEvent`; operations nobody calls:
  `ServerCore::sendPause`, `restartGame`, `disconnect`, `GameRoom::handleLeaveGameRoom`,
  `DeviceManager::findDevice`.
* The shutdown of client and server; files that cannot be read or written.
* A second game in a room whose first is on: the runs start one game per room. Late joiners are
  modelled up to that.

## Plan

The server, connections, boards, rules, the application, the agreement of clients and server and the copies of boards
are proved. What is left, in this order:

1. `PauseAgreesWhenQuiet` for any number of clients and pauses, with the history of commands on their way.
2. A second game in a room, in the model and then in `CopyInv`: what of its copies can still be promised.
