----------------------------- MODULE Application -----------------------------
(***************************************************************************)
(* The program of a client from its start to its end, with one window:      *)
(* class TetrisController, the scenes of TetrisWindow and the saved game.   *)
(* The room and the other clients are what the network tells of them.       *)
(*                                                                         *)
(* The user clicks and types at any time, as often as the plan allows.      *)
(* A click is handled while a frame is drawn, and the popup is drawn after   *)
(* it; keys and what the network tells are handled between frames.          *)
(***************************************************************************)
EXTENDS CountDown, Devices, Scenes, SavedGame, HighScores

CONSTANTS
  Slots,       \* how many places the lobby shows: 4 in the code
  RoomSlots,   \* what a room may tell of its slots
  RoomPlayers, \* the players a room may start a game with, as this client sees them
  Plans        \* what the user does, how often, and how often the network tells something

\* A human is its device; one that the network knows of, in a lobby, has none.
Human == {"Keyboard 1", "Keyboard 2", "no device"} \cup Range(PadNames)
PlayerKind == Human \cup {"Ai", "Remote"}
PlayerSlot == PlayerKind \cup {"Open"}

GameRoomType == {"LocalGameRoomLooby", "NetworkGameRoomLooby", "OutsideGameRoom", "GameSession",
                 "NetworkWaitingCreateGameRoom"}

ASSUME ApplicationAssumption ==
  /\ Slots \in Nat \ {0}
  /\ RoomSlots \subseteq [1 .. Slots -> PlayerSlot]
  /\ RoomPlayers \subseteq {players \in Seq(PlayerKind) : Len(players) <= Slots}
  /\ Plans \subseteq [clicks : Nat, events : Nat, moves : Nat, commands : SUBSET STRING]

VARIABLES
  running,    \* the program runs
  controller, \* gameRoomType_, isInsideGameRoom(), and the requests that are not answered
  game,       \* the players of the game, its rules, who made it, and the board of the first player
  tetrisGame, \* when it halts (CountDown)
  window,     \* the scenes
  pads,       \* the devices of the gamepads
  lobby,      \* the slots, and the popup: its slot, the player it would add, and the devices it has
  saved,      \* the saved game, cached and in the file
  plan,       \* what is left of the plan
  boards,     \* how many boards were made
  closed      \* the board to resume: of the last game that was closed, as long as it is not played

appVars == <<running, controller, game, tetrisGame, window, pads, lobby, saved, plan, boards, closed>>

AppTypeOK ==
  /\ running \in BOOLEAN
  /\ controller \in [gameRoomType : GameRoomType, inside : BOOLEAN, asked : SUBSET {"enter", "leave"}]
  /\ game \in [players : Seq(PlayerKind), rules : {"Default", "Survival"},
               madeBy : {"default", "local", "network"}, board : Board]
  /\ tetrisGame \in TimedGame
  /\ window \in [main : MainScene, modal : Modal]
  /\ pads \in PadDevices
  /\ lobby \in [slots : [1 .. Slots -> PlayerSlot], index : 0 .. Slots, player : PlayerSlot,
                devices : Seq(Human)]
  /\ saved \in [cached : CachedGame, file : Board]
  /\ plan \in [clicks : Nat, events : Nat, moves : Nat, commands : SUBSET STRING]
  /\ boards \in Nat /\ closed \in Board

NewBoard == [NoBoard EXCEPT !.id = boards + 1]

AllOpen == [i \in 1 .. Slots |-> "Open"]

NewLobby == [slots |-> AllOpen, index |-> 0, player |-> "Open", devices |-> << >>]

-----------------------------------------------------------------------------
(* What follows when the type of the game room is set *)

SceneOf(type) ==
  CASE type \in {"LocalGameRoomLooby", "NetworkGameRoomLooby"} -> "GameRoomLooby"
    [] type = "OutsideGameRoom" -> "Resume"
    [] type = "GameSession" -> "Play"
    [] type = "NetworkWaitingCreateGameRoom" -> window.main

\* Mutant of onGameRoomEvent: who leaves a room still sees it.
onGameRoomEventInside(type) ==
  IF type = "OutsideGameRoom" THEN window
  ELSE [main |-> SceneOf(type), modal |-> switchTo(window.modal, "Empty")]

onGameRoomEvent(type) ==
  IF type = "NetworkWaitingCreateGameRoom" THEN window
  ELSE [main |-> SceneOf(type), modal |-> switchTo(window.modal, "Empty")]

\* A lobby that comes into view is reset; one that is in view stays as it is.
lobbyAfter(type) ==
  CASE SceneOf(type) = window.main -> lobby
    [] SceneOf(type) # window.main /\ SceneOf(type) # "GameRoomLooby" -> [lobby EXCEPT !.index = 0]
    [] SceneOf(type) # window.main /\ SceneOf(type) = "GameRoomLooby" ->
         [lobby EXCEPT !.slots = AllOpen, !.index = 0]

\* A window as it is, or drawn after a click in it.
Drawn(w) == [w EXCEPT !.modal = imGuiUpdate(@)]

GoesTo(w, clicked) == IF clicked THEN Drawn(w) ELSE w

setGameRoomType(type, clicked) ==
  /\ controller' = [controller EXCEPT !.gameRoomType = type]
  /\ window' = GoesTo(onGameRoomEvent(type), clicked)
  /\ lobby' = lobbyAfter(type)

\* A game that begins here begins outside of a room, or asks to leave it.
GameSessionHere(clicked) ==
  /\ controller' = [controller EXCEPT !.gameRoomType = "GameSession",
                      !.asked = IF controller.inside THEN @ \cup {"leave"} ELSE @]
  /\ window' = GoesTo(onGameRoomEvent("GameSession"), clicked)
  /\ lobby' = lobbyAfter("GameSession")

-----------------------------------------------------------------------------
(* Games *)

\* One local player, of whatever kind, outside of a room.
isDefaultGame(g) == ~controller.inside /\ Len(g.players) = 1 /\ g.players[1] # "Remote"

saveDefaultGame(s, g) ==
  IF isDefaultGame(g) /\ ~g.board.over THEN saveGame(s, g.board, g.rules) ELSE s

\* Whatever the default player does or is told, its listener clears the saved game.
clearedBy(g, s) == IF g.madeBy = "default" THEN clearSavedGame(s) ELSE s

\* The rules tell every player that it has no points, one that was loaded as well.
createGame(g, s) ==
  LET started == [g EXCEPT !.board.points = 0] IN
    /\ game' = started
    /\ saved' = saveDefaultGame(clearedBy(started, s), started)

loadDefaultGame(s) ==
  LET hasBoard == loadGame(s).cached.board # NoBoard IN
    /\ createGame([players |-> <<"Keyboard 1">>, rules |-> "Default", madeBy |-> "default",
                    board |-> IF hasBoard THEN loadGame(s).cached.board ELSE NewBoard], loadGame(s))
    /\ boards' = IF hasBoard THEN boards ELSE boards + 1

\* What is paused or restarted of the game before, the new game does over.
createDefaultGame(clicked) ==
  /\ loadDefaultGame(saved)
  /\ tetrisGame' = createGameNow(tetrisGame, 1)
  /\ GameSessionHere(clicked)

startLocalGame(players, rules) ==
  /\ createGame([players |-> players, rules |-> rules, madeBy |-> "local", board |-> NewBoard], saved)
  /\ boards' = boards + 1
  /\ tetrisGame' = createGameNow(tetrisGame, Len(players))
  /\ GameSessionHere(TRUE)

\* In a room the others are asked, and the answer comes to all (RestartEvent, PauseEvent).
restartGame ==
  IF controller.inside THEN UNCHANGED <<game, boards, tetrisGame, saved>>
  ELSE /\ game' = [game EXCEPT !.board = NewBoard]
       /\ boards' = boards + 1
       /\ tetrisGame' = restartNow(tetrisGame)
       /\ saved' = clearedBy(game, saved)

pause ==
  tetrisGame' = IF controller.inside THEN tetrisGame ELSE setPauseNow(tetrisGame, ~tetrisGame.paused)

isGameRoomSession ==
  controller.inside \/ controller.gameRoomType \in {"LocalGameRoomLooby", "GameSession"}

-----------------------------------------------------------------------------
(* The program starts and ends; the file is what it leaves *)

Ended ==
  /\ running' = FALSE
  /\ controller' = [gameRoomType |-> "OutsideGameRoom", inside |-> FALSE, asked |-> {}]
  /\ window' = [main |-> "Resume", modal |-> NewModal]
  /\ lobby' = NewLobby
  /\ pads' = << >>
  /\ UNCHANGED <<game, tetrisGame, boards>>

\* It starts with the default game, which it pauses.
Start ==
  /\ ~running
  /\ running' = TRUE
  /\ loadDefaultGame([saved EXCEPT !.cached = NothingCached])
  /\ tetrisGame' = setPauseNow(createGameNow(tetrisGame, 1), TRUE)
  /\ controller' = [controller EXCEPT !.gameRoomType = "GameSession"]
  /\ window' = onGameRoomEvent("GameSession")
  /\ UNCHANGED <<lobby, pads, plan, closed>>

\* A game of one player by the default rules that is not over can be resumed.
Resumable == Len(game.players) = 1 /\ game.players[1] # "Remote" /\ game.rules = "Default"
             /\ ~game.board.over /\ ~controller.inside

Quit ==
  /\ running /\ "quit" \in plan.commands /\ plan.clicks > 0
  /\ plan' = [plan EXCEPT !.clicks = @ - 1]
  /\ saved' = saveDefaultGame(saved, game)
  /\ closed' = IF Resumable THEN game.board ELSE NoBoard
  /\ Ended

\* Killed, or the computer stops.
Crash ==
  /\ running /\ "crash" \in plan.commands /\ plan.clicks > 0
  /\ plan' = [plan EXCEPT !.clicks = @ - 1]
  /\ UNCHANGED <<saved, closed>>
  /\ Ended

-----------------------------------------------------------------------------
(* A frame without a click: time passes, and the players play *)

\* The first player moves, and may fill rows or the board.
Move ==
  /\ plan.moves > 0 /\ game.board.moves < MaxMoves
  /\ game.players[1] # "Remote" /\ ~game.board.over
  /\ \E over \in BOOLEAN, row \in 0 .. 1 :
       game' = [game EXCEPT !.board = [game.board EXCEPT !.moves = @ + 1, !.points = @ + row, !.over = over]]
  /\ plan' = [plan EXCEPT !.moves = @ - 1]
  /\ saved' = clearedBy(game, saved)

Frame ==
  /\ running
  /\ \E deltaTime \in FrameTimes : tetrisGame' = update(tetrisGame, deltaTime)
  /\ \/ UNCHANGED <<game, saved, plan>>
     \/ ~tetrisGame'.paused /\ Move
  /\ window' = Drawn(window)
  /\ UNCHANGED <<running, controller, pads, lobby, boards>>

-----------------------------------------------------------------------------
(* What the user does *)

Does(command) ==
  /\ running
  /\ command \in plan.commands /\ plan.clicks > 0
  /\ plan' = [plan EXCEPT !.clicks = @ - 1]
  /\ UNCHANGED <<running, pads>>

\* A popup covers the window.
Uncovered == ~window.modal.visible /\ lobby.index = 0

gameVars == <<game, boards, saved>>

Keys ==
  \/ Does("F1") /\ createDefaultGame(FALSE)
  \/ Does("F5") /\ restartGame /\ UNCHANGED <<controller, window, lobby>>
  \/ Does("P") /\ pause /\ UNCHANGED <<gameVars, controller, window, lobby>>

\* The menu shows a popup.
ShowsPopUp(scene) ==
  /\ window' = Drawn([window EXCEPT !.modal = switchTo(@, scene)])
  /\ UNCHANGED <<gameVars, controller, lobby>>

\* Pause and Restart of the menu do what their keys do.
Menu ==
  /\ Uncovered
  /\ \/ Does("F1") /\ ~isGameRoomSession /\ createDefaultGame(TRUE)
     \/ Does("local") /\ ~isGameRoomSession /\ setGameRoomType("LocalGameRoomLooby", TRUE)
        /\ UNCHANGED <<gameVars, tetrisGame>>
     \/ Does("network") /\ ~isGameRoomSession /\ UNCHANGED tetrisGame
        /\ \E scene \in {"CreateGameRoom", "JoinGameRoom"} : ShowsPopUp(scene)
     \/ Does("leave") /\ isGameRoomSession /\ UNCHANGED <<gameVars, tetrisGame>>
        /\ IF controller.inside
             THEN /\ controller' = [controller EXCEPT !.asked = @ \cup {"leave"}]
                  /\ window' = Drawn(window)
                  /\ UNCHANGED lobby
             ELSE setGameRoomType("OutsideGameRoom", TRUE)
     \/ Does("popup") /\ pause /\ ShowsPopUp("HighScore")
     \/ Does("popup") /\ UNCHANGED tetrisGame /\ \E scene \in {"Settings", "About"} : ShowsPopUp(scene)

\* The button in the middle of the window.
ResumeButton ==
  Uncovered /\ window.main = "Resume" /\ Does("F1") /\ createDefaultGame(TRUE)

\* The buttons of two popups: the room is asked for, and the popup stays.
CreateGameRoomButton ==
  /\ Does("network") /\ window.modal.scene = "CreateGameRoom"
  /\ controller' = [controller EXCEPT !.gameRoomType = "NetworkWaitingCreateGameRoom",
                                      !.asked = @ \cup {"enter"}]
  /\ UNCHANGED window

JoinGameRoomButton ==
  /\ Does("network") /\ window.modal.scene = "JoinGameRoom"
  /\ controller' = [controller EXCEPT !.asked = @ \cup {"enter"}]
  /\ UNCHANGED window

CancelButton ==
  /\ Does("popup") \/ Does("network")
  /\ window' = [window EXCEPT !.modal = cancelPopUp(@)]
  /\ UNCHANGED controller

PopUp ==
  /\ window.modal.visible /\ ~window.modal.closePopUp
  /\ CancelButton \/ CreateGameRoomButton \/ JoinGameRoomButton
  /\ UNCHANGED <<gameVars, tetrisGame, lobby>>

-----------------------------------------------------------------------------
(* The lobby *)

\* Mutant of getUsedDevices: the first slot is left out.
getLaterDevices(slots) == {slots[i] : i \in 2 .. Slots} \cap Human

getUsedDevices(slots) == Range(slots) \cap Human

\* The devices a player may be added with, in the order of the list.
FreeDevices(slots) ==
  SelectIn(getAllDevicesAvailable(pads), Human \ getUsedDevices(slots))

OpenSlot(i) ==
  /\ lobby.slots[i] = "Open"
  /\ LET free == FreeDevices(lobby.slots) IN
       lobby' = [lobby EXCEPT !.index = i, !.devices = free,
                              !.player = IF free = << >> THEN "Ai" ELSE free[1]]
  /\ UNCHANGED <<gameVars, tetrisGame, controller>>

RemovePlayer(i) ==
  /\ lobby.slots[i] \in PlayerKind
  /\ lobby' = [lobby EXCEPT !.slots[i] = "Open"]
  /\ UNCHANGED <<gameVars, tetrisGame, controller>>

\* In the lobby of a room the button asks the server for the game.
CreateGame ==
  /\ Range(lobby.slots) \cap PlayerKind # {}
  /\ IF controller.inside
       THEN window' = Drawn(window) /\ UNCHANGED <<gameVars, tetrisGame, controller, lobby>>
       ELSE \E rules \in {"Default", "Survival"} :
              startLocalGame(SelectIn(lobby.slots, Human \cup {"Ai"}), rules)

Lobby ==
  /\ window.main = "GameRoomLooby" /\ Uncovered
  /\ \/ Does("slot") /\ window' = Drawn(window) /\ \E i \in 1 .. Slots : OpenSlot(i) \/ RemovePlayer(i)
     \/ Does("create") /\ CreateGame

\* Another device, or the computer, is chosen, and then added to the slot the popup is for.
AddPlayer ==
  /\ lobby.index # 0 /\ ~window.modal.visible
  /\ window' = Drawn(window)
  /\ UNCHANGED <<gameVars, tetrisGame, controller>>
  /\ \/ \E player \in Range(lobby.devices) \cup {"Ai"} :
          Does("choose") /\ lobby' = [lobby EXCEPT !.player = player]
     \/ Does("slot") /\ lobby' = [lobby EXCEPT !.slots[lobby.index] = lobby.player, !.index = 0]
     \/ Does("slot") /\ lobby' = [lobby EXCEPT !.index = 0]

-----------------------------------------------------------------------------
(* What the network tells *)

Told ==
  /\ running /\ plan.events > 0
  /\ plan' = [plan EXCEPT !.events = @ - 1]
  /\ UNCHANGED <<running, pads>>

\* JoinGameRoomEvent, and a PlayerSlotEvent for every slot.
JoinGameRoomEvent ==
  /\ "enter" \in controller.asked /\ ~controller.inside
  /\ controller' = [gameRoomType |-> "NetworkGameRoomLooby", inside |-> TRUE,
                    asked |-> controller.asked \ {"enter"}]
  /\ window' = onGameRoomEvent("NetworkGameRoomLooby")
  /\ \E slots \in RoomSlots : lobby' = [lobbyAfter("NetworkGameRoomLooby") EXCEPT !.slots = slots]
  /\ UNCHANGED <<gameVars, tetrisGame>>

PlayerSlotEvent ==
  /\ controller.inside
  /\ \E slots \in RoomSlots : lobby' = [lobby EXCEPT !.slots = slots]
  /\ UNCHANGED <<gameVars, tetrisGame, controller, window>>

LeaveGameRoomEvent ==
  /\ "leave" \in controller.asked /\ controller.inside
  /\ controller' = [gameRoomType |-> "OutsideGameRoom", inside |-> FALSE,
                    asked |-> controller.asked \ {"leave"}]
  /\ window' = onGameRoomEvent("OutsideGameRoom")
  /\ lobby' = lobbyAfter("OutsideGameRoom")
  /\ UNCHANGED <<gameVars, tetrisGame>>

CreateGameEvent ==
  /\ controller.inside
  /\ \E players \in RoomPlayers :
       /\ createGame([players |-> players, rules |-> "Default", madeBy |-> "network",
                       board |-> NewBoard], saved)
       /\ tetrisGame' = createGameNow(tetrisGame, Len(players))
  /\ boards' = boards + 1
  /\ setGameRoomType("GameSession", FALSE)

\* The network has restarted its players, who need not be those of the game any more; the rules
\* begin again with those of the game.
RestartEvent ==
  /\ controller.inside
  /\ game' = [game EXCEPT !.board = IF game.madeBy = "network" THEN NewBoard ELSE [@ EXCEPT !.points = 0]]
  /\ boards' = IF game.madeBy = "network" THEN boards + 1 ELSE boards
  /\ saved' = clearedBy(game, saved)
  /\ tetrisGame' = restartNow(tetrisGame)
  /\ UNCHANGED <<controller, window, lobby>>

PauseEvent ==
  /\ controller.inside
  /\ \E p \in BOOLEAN : tetrisGame' = setPauseNow(tetrisGame, p)
  /\ UNCHANGED <<gameVars, controller, window, lobby>>

NetworkEvent ==
  Told /\ (\/ JoinGameRoomEvent \/ PlayerSlotEvent \/ LeaveGameRoomEvent
           \/ CreateGameEvent \/ RestartEvent \/ PauseEvent)

-----------------------------------------------------------------------------
(* Gamepads come and go.  A popup that is open has the devices it was opened with. *)

GamepadEvent ==
  /\ running /\ "pad" \in plan.commands /\ plan.events > 0
  /\ plan' = [plan EXCEPT !.events = @ - 1]
  /\ LET here == {pads[i].gamePad : i \in Connected(pads)} IN
       \E p \in Gamepad :
         pads' = IF p \in here THEN controllerDeviceRemovedEvent(pads, p) ELSE controllerDeviceAddedEvent(pads, p)
  /\ UNCHANGED <<running, gameVars, tetrisGame, controller, window, lobby>>

-----------------------------------------------------------------------------
(* Specification *)

\* The program has never run, or left a game when it ended.
AppInit ==
  /\ running = FALSE
  /\ controller = [gameRoomType |-> "OutsideGameRoom", inside |-> FALSE, asked |-> {}]
  /\ game = [players |-> <<"Keyboard 1">>, rules |-> "Default", madeBy |-> "default", board |-> NoBoard]
  /\ tetrisGame = setPauseNow(createGameNow([countDown |-> FALSE, paused |-> TRUE, timer |-> NoTimer,
                                             told |-> "Pause"], 1), TRUE)
  /\ window = [main |-> "Resume", modal |-> NewModal]
  /\ pads = << >>
  /\ lobby = NewLobby
  /\ plan \in Plans
  /\ \E file \in {NoBoard, [NoBoard EXCEPT !.id = 1, !.moves = 1, !.points = 1]} :
       /\ saved = [cached |-> NothingCached, file |-> file]
       /\ boards = file.id
       /\ closed = file

\* The game that was closed is not the one to resume any more once it is played or another game
\* is, nor in a room: F1 clears it there and saves nothing.
Plays == closed' = IF game' = game /\ ~controller.inside THEN closed ELSE NoBoard

AppNext ==
  \/ Start \/ Quit \/ Crash
  \/ (Frame \/ Keys \/ Menu \/ ResumeButton \/ PopUp \/ Lobby \/ AddPlayer
      \/ NetworkEvent \/ GamepadEvent) /\ Plays

\* Frames follow each other as long as the program runs.
AppSpec == AppInit /\ [][AppNext]_appVars /\ WF_appVars(Frame /\ Plays)

-----------------------------------------------------------------------------
(* Properties *)

\* The game of the client halts and goes on as GameSession takes it to: its three callbacks are
\* one step there, and neither late frames, restarts nor pauses in between make it another game.
Halting == INSTANCE Pausing WITH game <- Untimed(tetrisGame), MaxPlayers <- Slots

PausingSpec == Halting!Spec

\* The menu shows whether a press halts the game, lets it go on or finds it counting, whatever
\* was restarted, created or paused in between, by the user or by others.
MenuTellsPause ==
  tetrisGame.told = CASE ~tetrisGame.paused -> "Pause"
                      [] tetrisGame.paused /\ hasKey(tetrisGame) -> "Stop Countdown"
                      [] tetrisGame.paused /\ ~hasKey(tetrisGame) -> "Unpause"

\* The window shows the scene that belongs to where the client is, however answers of the server
\* cross with what the user does: a lobby only in a lobby, a room's lobby only inside, nothing of
\* a room outside of one; and a popup without a scene is on its way to be closed.
ScenesAgree ==
  /\ AppTypeOK
  /\ running =>
       /\ window.main = "GameRoomLooby"
            <=> controller.gameRoomType \in {"LocalGameRoomLooby", "NetworkGameRoomLooby"}
       /\ window.main = "Play" <=> controller.gameRoomType = "GameSession"
       /\ controller.gameRoomType = "NetworkGameRoomLooby" => controller.inside
       /\ controller.inside => controller.gameRoomType \in {"NetworkGameRoomLooby", "GameSession"}
       /\ window.modal.visible /\ window.modal.scene = "Empty" => window.modal.closePopUp

SameBoard(a, b) == a.id = b.id /\ a.moves = b.moves /\ a.over = b.over

\* What is saved of game g is the board it started with: it is a game of one player of the lobby.
SavedAtStart(g, s) ==
  /\ g.madeBy = "local" /\ Len(g.players) = 1 /\ g.rules = "Default"
  /\ s.file = [NoBoard EXCEPT !.id = g.board.id]

\* What comes back if the program dies now.  While the default game is on, the file holds its board as
\* it is, or nothing: neither an older state of it nor another game.  While another game is on, the
\* file has nothing of it, unless it is a game of one player of the lobby, by the default rules: that
\* is saved when it starts (createGame calls saveDefaultGame) and no listener clears it, so its start
\* comes back however far it was played - but no state it was in since.  (The board of a game before
\* may be in the file as well.)  And the program knows whether there is a file.
SavedGameIsCurrent ==
  running =>
    /\ hasSavedGame(saved) <=> saved.file # NoBoard
    /\ game.madeBy = "default" => saved.file \in {NoBoard, game.board}
    /\ game.madeBy # "default" /\ saved.file.id = game.board.id => SavedAtStart(game, saved)

\* A game that can be resumed, and is closed, comes back at the next start, also when the program
\* crashes after that before it is played on.
ClosedGameResumes ==
  closed # NoBoard => SameBoard(closed, IF running THEN game.board ELSE saved.file)

\* Players of a game that is started here have a device each, and none that another one has; and,
\* however gamepads come and go, no gamepad has two devices and none is left without the one it had.
NobodySharesADevice ==
  /\ OneDeviceEach(pads)
  /\ game.madeBy = "local" =>
       /\ "no device" \notin Range(game.players)
       /\ \A i, j \in DOMAIN game.players :
            game.players[i] = game.players[j] /\ game.players[i] \in Human => i = j

\* What a player is told of its place among the high scores is so (HighScores!EveryPlacementAgrees).
\* That is about all lists, whatever the state: it is looked at before there is a board.
PlacementAgrees == boards = 0 => EveryPlacementAgrees

\* A countdown comes to its end: the game goes on, or somebody halts it.
CountdownEnds == running /\ hasKey(tetrisGame) ~> ~running \/ ~hasKey(tetrisGame)

\* What the menu calls "Resume Single Player" brings back the points of the game as well.
ScoreIsResumed == closed # NoBoard /\ running => game.board.points = closed.points
=============================================================================
