-------------------------- MODULE Application_proofs --------------------------
(***************************************************************************)
(* Proofs about Application, for every plan, lobby and kind of gamepads.    *)
(* The inductive invariant is the conjunction of parts that are about a few *)
(* variables each; each part has a section with its lemmas.                 *)
(***************************************************************************)
EXTENDS Application, NumbersAndQueues, SequenceTheorems, FiniteSetTheorems, TLAPS

-----------------------------------------------------------------------------
(* The game and its countdown *)

\* A countdown is under way only while the game halts, and the menu tells which of both it is.
GoodTimed(g) ==
  /\ g \in TimedGame
  /\ hasKey(g) => g.paused /\ g.timer.left >= 1
  /\ g.told = pauseMenuText(g.paused, hasKey(g))

TimedInv == GoodTimed(tetrisGame)

LEMMA TellsPause == ASSUME TimedInv PROVE MenuTellsPause
<1>1. tetrisGame.paused \in BOOLEAN /\ hasKey(tetrisGame) \in BOOLEAN
  BY DEF TimedInv, GoodTimed, TimedGame, hasKey
<1> QED BY <1>1 DEF TimedInv, GoodTimed, pauseMenuText, MenuTellsPause

LEMMA NoTimerIsTimer == NoTimer \in Timer
BY TimeAssumption DEF NoTimer, Timer

\* Games without time are the same when their parts are.
LEMMA SameGame ==
  ASSUME NEW a \in Halting!Game, NEW b \in Halting!Game,
         a.countDown <=> b.countDown, a.paused <=> b.paused, a.scheduled <=> b.scheduled
  PROVE  a = b
BY DEF Halting!Game

LEMMA UntimedParts ==
  ASSUME NEW g \in TimedGame
  PROVE  /\ Untimed(g) \in Halting!Game
         /\ Untimed(g).countDown <=> g.countDown
         /\ Untimed(g).paused <=> g.paused
         /\ Untimed(g).scheduled <=> hasKey(g)
BY DEF Halting!Game, Untimed, TimedGame, hasKey

LEMMA setPauseParts ==
  ASSUME NEW a \in Halting!Game
  PROVE  /\ a.paused => Halting!setPause(a, TRUE) = a
         /\ ~a.paused => LET b == Halting!setPause(a, TRUE) IN
              b \in Halting!Game /\ (b.countDown <=> a.countDown) /\ b.paused /\ ~b.scheduled
         /\ ~a.paused \/ a.scheduled => Halting!setPause(a, FALSE) = a
         /\ a.paused /\ ~a.scheduled => LET b == Halting!setPause(a, FALSE) IN
              b \in Halting!Game /\ (b.countDown <=> a.countDown)
              /\ (b.paused <=> a.countDown) /\ (b.scheduled <=> a.countDown)
BY DEF Halting!Game, Halting!setPause, Halting!pauseGame, Halting!unPauseGame

LEMMA CountDownOverParts ==
  ASSUME NEW a \in Halting!Game
  PROVE  LET b == Halting!CountDownOver(a) IN
           b \in Halting!Game /\ (b.countDown <=> a.countDown) /\ ~b.paused /\ ~b.scheduled
BY DEF Halting!Game, Halting!CountDownOver

\* A game that halts without a countdown, whatever the menu tells of it, goes on or counts down.
LEMMA GoesOn ==
  ASSUME NEW g \in TimedGame, g.paused, g.timer = NoTimer
  PROVE  /\ GoodTimed(setPauseNow(g, FALSE))
         /\ Untimed(setPauseNow(g, FALSE)) = Halting!setPause(Untimed(g), FALSE)
<1> DEFINE three == [left |-> 3, waited |-> 0]
           h == setPauseNow(g, FALSE)
           b == Halting!setPause(Untimed(g), FALSE)
<1>1. h = unPause(g)
  BY DEF setPauseNow, TimedGame, hasKey
<1>2. /\ b \in Halting!Game
      /\ b.countDown <=> g.countDown
      /\ b.paused <=> g.countDown
      /\ b.scheduled <=> g.countDown
  BY UntimedParts, setPauseParts DEF hasKey
<1>3. CASE g.countDown
  <2>1. h = [g EXCEPT !.paused = TRUE, !.timer = three, !.told = "Stop Countdown"]
    BY <1>1, <1>3 DEF unPause, pauseMenuText
  <2>2. three \in Timer /\ three # NoTimer /\ three.left >= 1
    BY TimeAssumption DEF Timer, NoTimer
  <2> HIDE DEF three, h, b
  <2>3. /\ h \in TimedGame /\ (h.countDown <=> g.countDown) /\ h.paused /\ h.timer = three
        /\ h.told = "Stop Countdown"
    BY <2>1, <2>2 DEF TimedGame
  <2>4. GoodTimed(h) /\ hasKey(h)
    BY <2>2, <2>3 DEF GoodTimed, hasKey, pauseMenuText
  <2>5. Untimed(h) = b
    BY <1>2, <1>3, <2>3, <2>4, UntimedParts, SameGame
  <2> QED BY <2>4, <2>5 DEF h, b
<1>4. CASE ~g.countDown
  <2>1. h = [g EXCEPT !.paused = FALSE, !.timer = NoTimer, !.told = "Pause"]
    BY <1>1, <1>4 DEF unPause, TimedGame, pauseMenuText
  <2> HIDE DEF h, b
  <2>3. /\ h \in TimedGame /\ (h.countDown <=> g.countDown) /\ ~h.paused /\ h.timer = NoTimer
        /\ h.told = "Pause"
    BY <2>1, NoTimerIsTimer DEF TimedGame
  <2>4. GoodTimed(h) /\ ~hasKey(h)
    BY <2>3 DEF GoodTimed, hasKey, pauseMenuText
  <2>5. Untimed(h) = b
    BY <1>2, <1>4, <2>3, <2>4, UntimedParts, SameGame
  <2> QED BY <2>4, <2>5 DEF h, b
<1> QED BY <1>3, <1>4

LEMMA setPauseNowGood ==
  ASSUME NEW g, GoodTimed(g), NEW p \in BOOLEAN
  PROVE  /\ GoodTimed(setPauseNow(g, p))
         /\ Untimed(setPauseNow(g, p)) = Halting!setPause(Untimed(g), p)
<1>0. g \in TimedGame /\ g.paused \in BOOLEAN /\ hasKey(g) \in BOOLEAN
  BY DEF GoodTimed, TimedGame, hasKey
<1>1. CASE g.paused = p
  <2>1. setPauseNow(g, p) = g
    BY <1>0, <1>1 DEF setPauseNow
  <2> QED BY <1>0, <1>1, <2>1, UntimedParts, setPauseParts
<1>2. CASE ~g.paused /\ p
  <2> DEFINE h == pauseNow(g)
             b == Halting!setPause(Untimed(g), TRUE)
  <2>1. setPauseNow(g, p) = h /\ p = TRUE
    BY <1>0, <1>2 DEF setPauseNow
  <2>2. h = [g EXCEPT !.paused = TRUE, !.timer = NoTimer, !.told = "Unpause"]
    BY DEF pauseNow, pauseMenuText
  <2>3. b \in Halting!Game /\ (b.countDown <=> g.countDown) /\ b.paused /\ ~b.scheduled
    BY <1>0, <1>2, UntimedParts, setPauseParts
  <2> HIDE DEF h, b
  <2>4. h \in TimedGame /\ (h.countDown <=> g.countDown) /\ h.paused /\ h.timer = NoTimer /\ h.told = "Unpause"
    BY <1>0, <2>2, NoTimerIsTimer DEF TimedGame
  <2>5. GoodTimed(h) /\ ~hasKey(h)
    BY <2>4 DEF GoodTimed, hasKey, pauseMenuText
  <2>6. Untimed(h) = b
    BY <2>3, <2>4, <2>5, UntimedParts, SameGame
  <2> QED BY <2>1, <2>5, <2>6 DEF b
<1>3. CASE g.paused /\ ~p
  <2>0. p = FALSE
    BY <1>3
  <2>1. CASE hasKey(g)
    <3>1. setPauseNow(g, p) = g
      BY <1>0, <1>3, <2>1 DEF setPauseNow
    <3> QED BY <1>0, <2>0, <2>1, <3>1, UntimedParts, setPauseParts
  <2>2. CASE ~hasKey(g)
    BY <1>0, <1>3, <2>0, <2>2, GoesOn DEF hasKey
  <2> QED BY <2>1, <2>2
<1> QED BY <1>0, <1>1, <1>2, <1>3

\* A game to go on: halted, and without a countdown.
LEMMA HaltedParts ==
  ASSUME NEW g \in TimedGame, NEW c \in BOOLEAN
  PROVE  /\ LET h == [g EXCEPT !.paused = TRUE, !.timer = NoTimer] IN
              h \in TimedGame /\ h.paused /\ h.timer = NoTimer /\ (h.countDown <=> g.countDown)
         /\ LET h == [g EXCEPT !.countDown = c, !.paused = TRUE, !.timer = NoTimer] IN
              h \in TimedGame /\ h.paused /\ h.timer = NoTimer /\ (h.countDown <=> c)
BY NoTimerIsTimer DEF TimedGame

LEMMA HaltedGameParts ==
  ASSUME NEW a \in Halting!Game, NEW c \in BOOLEAN
  PROVE  /\ LET b == [a EXCEPT !.paused = TRUE, !.scheduled = FALSE] IN
              b \in Halting!Game /\ b.paused /\ ~b.scheduled /\ (b.countDown <=> a.countDown)
         /\ LET b == [countDown |-> c, paused |-> TRUE, scheduled |-> FALSE] IN
              b \in Halting!Game /\ b.paused /\ ~b.scheduled /\ (b.countDown <=> c)
BY DEF Halting!Game

LEMMA restartNowGood ==
  ASSUME NEW g \in TimedGame
  PROVE  /\ GoodTimed(restartNow(g))
         /\ Untimed(restartNow(g)) = Halting!restartedGame(Untimed(g))
<1> DEFINE h == [g EXCEPT !.paused = TRUE, !.timer = NoTimer]
           b == [Untimed(g) EXCEPT !.paused = TRUE, !.scheduled = FALSE]
<1>1. restartNow(g) = setPauseNow(h, FALSE) /\ Halting!restartedGame(Untimed(g)) = Halting!setPause(b, FALSE)
  BY DEF restartNow, Halting!restartedGame
<1>2. h \in TimedGame /\ h.paused /\ h.timer = NoTimer /\ (h.countDown <=> g.countDown)
  BY HaltedParts
<1>3. b \in Halting!Game /\ b.paused /\ ~b.scheduled /\ (b.countDown <=> g.countDown)
  BY HaltedGameParts, UntimedParts
<1> HIDE DEF h, b
<1>4. Untimed(h) = b
  BY <1>2, <1>3, UntimedParts, SameGame DEF hasKey
<1> QED BY <1>1, <1>2, <1>4, GoesOn

LEMMA createGameNowGood ==
  ASSUME NEW g \in TimedGame, NEW n \in Nat
  PROVE  /\ GoodTimed(createGameNow(g, n))
         /\ Untimed(createGameNow(g, n)) = Halting!createdGame(n)
<1> DEFINE c == n > 1
           h == [g EXCEPT !.countDown = c, !.paused = TRUE, !.timer = NoTimer]
           a == [countDown |-> c, paused |-> TRUE, scheduled |-> FALSE]
           b == [a EXCEPT !.paused = TRUE, !.scheduled = FALSE]
<1>1. c \in BOOLEAN
  OBVIOUS
<1>2. createGameNow(g, n) = setPauseNow(h, FALSE) /\ Halting!createdGame(n) = Halting!setPause(b, FALSE)
  BY DEF createGameNow, Halting!createdGame, Halting!restartedGame
<1> HIDE DEF c
<1>3. h \in TimedGame /\ h.paused /\ h.timer = NoTimer /\ (h.countDown <=> c)
  BY <1>1, HaltedParts
<1>4. a \in Halting!Game /\ a.paused /\ ~a.scheduled /\ (a.countDown <=> c)
  BY <1>1, UntimedParts, HaltedGameParts
<1> HIDE DEF h, a
<1>5. b \in Halting!Game /\ b.paused /\ ~b.scheduled /\ (b.countDown <=> c)
  BY <1>1, <1>4, HaltedGameParts
<1> HIDE DEF b
<1>6. Untimed(h) = b
  BY <1>3, <1>5, UntimedParts, SameGame DEF hasKey
<1> QED BY <1>2, <1>3, <1>6, GoesOn

\* A frame that is late calls back once, and the last callback ends the countdown.
LEMMA updateGood ==
  ASSUME NEW g, GoodTimed(g), NEW t \in Nat
  PROVE  /\ GoodTimed(update(g, t))
         /\ \/ Untimed(update(g, t)) = Untimed(g)
            \/ Untimed(g).scheduled /\ Untimed(update(g, t)) = Halting!CountDownOver(Untimed(g))
<1>0. g \in TimedGame /\ g.timer \in Timer
  BY DEF GoodTimed, TimedGame
<1>1. g.timer.left \in 0 .. 3 /\ g.timer.waited \in 0 .. Second - 1 /\ Second \in Nat
  BY <1>0, TimeAssumption DEF Timer
<1>2. CASE ~hasKey(g)
  BY <1>2 DEF update
<1>3. ASSUME hasKey(g), NEW timer \in Timer, timer # NoTimer, timer.left >= 1
      PROVE  GoodTimed([g EXCEPT !.timer = timer]) /\ Untimed([g EXCEPT !.timer = timer]) = Untimed(g)
  <2> DEFINE h == [g EXCEPT !.timer = timer]
  <2>1. /\ h \in TimedGame /\ (h.countDown <=> g.countDown) /\ (h.paused <=> g.paused)
        /\ h.timer = timer /\ h.told = g.told
    BY <1>0 DEF TimedGame
  <2>2. g.paused /\ g.told = "Stop Countdown"
    BY <1>3 DEF GoodTimed, pauseMenuText
  <2> HIDE DEF h
  <2>3. GoodTimed(h) /\ hasKey(h)
    BY <1>3, <2>1, <2>2 DEF GoodTimed, hasKey, pauseMenuText
  <2>4. Untimed(h) = Untimed(g)
    BY <1>0, <1>3, <2>1, <2>3, UntimedParts, SameGame
  <2> QED BY <2>3, <2>4 DEF h
<1>4. CASE hasKey(g) /\ g.timer.waited + t >= Second
  <2>1. update(g, t) = callback(g)
    BY <1>1, <1>4 DEF update
  <2>2. CASE g.timer.left = 1
    <3> DEFINE h == callback(g)
               b == Halting!CountDownOver(Untimed(g))
    <3>1. h = [g EXCEPT !.paused = FALSE, !.timer = NoTimer, !.told = "Pause"]
      BY <2>2 DEF callback, pauseMenuText
    <3>2. b \in Halting!Game /\ (b.countDown <=> g.countDown) /\ ~b.paused /\ ~b.scheduled
      BY <1>0, UntimedParts, CountDownOverParts
    <3> HIDE DEF h, b
    <3>3. h \in TimedGame /\ (h.countDown <=> g.countDown) /\ ~h.paused /\ h.timer = NoTimer /\ h.told = "Pause"
      BY <1>0, <3>1, NoTimerIsTimer DEF TimedGame
    <3>4. GoodTimed(h) /\ ~hasKey(h)
      BY <3>3 DEF GoodTimed, hasKey, pauseMenuText
    <3>5. Untimed(h) = b
      BY <3>2, <3>3, <3>4, UntimedParts, SameGame
    <3>6. Untimed(g).scheduled
      BY <1>0, <1>4, UntimedParts
    <3> QED BY <2>1, <3>4, <3>5, <3>6 DEF h, b
  <2>3. CASE g.timer.left # 1
    <3> DEFINE timer == [left |-> g.timer.left - 1, waited |-> 0]
    <3>1. callback(g) = [g EXCEPT !.timer = timer]
      BY <2>3, <1>0 DEF callback, TimedGame
    <3>2. g.timer.left >= 1
      BY <1>4 DEF GoodTimed
    <3>3. timer \in Timer /\ timer # NoTimer /\ timer.left >= 1
      BY <1>1, <2>3, <3>2, TimeAssumption DEF Timer, NoTimer
    <3> HIDE DEF timer
    <3> QED BY <1>3, <1>4, <2>1, <3>1, <3>3
  <2> QED BY <2>2, <2>3
<1>5. CASE hasKey(g) /\ g.timer.waited + t < Second
  <2> DEFINE timer == [left |-> g.timer.left, waited |-> g.timer.waited + t]
  <2>1. ~(g.timer.waited + t >= Second)
    BY <1>1, <1>5
  <2>2. update(g, t) = [g EXCEPT !.timer.waited = @ + t]
    BY <1>5, <2>1 DEF update
  <2>3. [g EXCEPT !.timer.waited = @ + t] = [g EXCEPT !.timer = timer]
    <3>1. [g.timer EXCEPT !.waited = @ + t] = timer
      BY <1>0 DEF Timer
    <3> HIDE DEF timer
    <3> QED BY <3>1, <1>0 DEF TimedGame
  <2>4. g.timer.left >= 1
    BY <1>5 DEF GoodTimed
  <2>5. timer \in Timer /\ timer # NoTimer /\ timer.left >= 1
    BY <1>1, <1>5, <2>4, TimeAssumption DEF Timer, NoTimer
  <2> HIDE DEF timer
  <2> QED BY <1>3, <1>5, <2>2, <2>3, <2>5
<1> QED BY <1>1, <1>2, <1>4, <1>5

LEMMA FirstGameGood ==
  ASSUME NEW g \in TimedGame
  PROVE  /\ GoodTimed(setPauseNow(createGameNow(g, 1), TRUE))
         /\ Untimed(setPauseNow(createGameNow(g, 1), TRUE)) = Halting!FirstGame
BY createGameNowGood, setPauseNowGood DEF Halting!FirstGame

\* What a step may do to the game.
TimedChange ==
  \/ UNCHANGED tetrisGame
  \/ \E n \in 0 .. Slots : tetrisGame' = createGameNow(tetrisGame, n)
  \/ tetrisGame' = setPauseNow(createGameNow(tetrisGame, 1), TRUE)
  \/ tetrisGame' = restartNow(tetrisGame)
  \/ \E p \in BOOLEAN : tetrisGame' = setPauseNow(tetrisGame, p)
  \/ \E t \in Nat : tetrisGame' = update(tetrisGame, t)

LEMMA TimedChangeGood ==
  ASSUME TimedInv, TimedChange
  PROVE  TimedInv' /\ [Halting!Next]_(Untimed(tetrisGame))
<1> USE DEF TimedInv
<1>1. CASE UNCHANGED tetrisGame
  BY <1>1 DEF Untimed, hasKey
<1>2. ASSUME NEW n \in 0 .. Slots, tetrisGame' = createGameNow(tetrisGame, n)
      PROVE  GoodTimed(tetrisGame)' /\ [Halting!Next]_(Untimed(tetrisGame))
  <2>1. n \in Nat /\ (n = 0 \/ n \in 1 .. Slots)
    BY ApplicationAssumption
  <2>2. GoodTimed(tetrisGame)' /\ Untimed(tetrisGame)' = Halting!createdGame(n)
    BY <1>2, <2>1, createGameNowGood DEF GoodTimed
  <2>3. CASE n = 0
    <3>1. Halting!createdGame(0) = Halting!createdGame(1) /\ 1 \in 1 .. Slots
      BY ApplicationAssumption DEF Halting!createdGame
    <3> QED BY <2>2, <2>3, <3>1 DEF Halting!Next
  <2>4. CASE n \in 1 .. Slots
    BY <2>2, <2>4 DEF Halting!Next
  <2> QED BY <2>1, <2>2, <2>3, <2>4
<1>3. CASE tetrisGame' = setPauseNow(createGameNow(tetrisGame, 1), TRUE)
  BY <1>3, FirstGameGood DEF GoodTimed, Halting!Next
<1>4. CASE tetrisGame' = restartNow(tetrisGame)
  BY <1>4, restartNowGood DEF GoodTimed, Halting!Next
<1>5. ASSUME NEW p \in BOOLEAN, tetrisGame' = setPauseNow(tetrisGame, p)
      PROVE  GoodTimed(tetrisGame)' /\ [Halting!Next]_(Untimed(tetrisGame))
  BY <1>5, setPauseNowGood DEF Halting!Next
<1>6. ASSUME NEW t \in Nat, tetrisGame' = update(tetrisGame, t)
      PROVE  GoodTimed(tetrisGame)' /\ [Halting!Next]_(Untimed(tetrisGame))
  BY <1>6, updateGood DEF Halting!Next
<1> QED BY <1>1, <1>2, <1>3, <1>4, <1>5, <1>6 DEF TimedChange

LEMMA TimedInit ==
  ASSUME AppInit
  PROVE  TimedInv /\ Halting!Init
<1> DEFINE g == [countDown |-> FALSE, paused |-> TRUE, timer |-> NoTimer, told |-> "Pause"]
<1>1. g \in TimedGame
  BY NoTimerIsTimer DEF TimedGame
<1>2. tetrisGame = setPauseNow(createGameNow(g, 1), TRUE)
  BY DEF AppInit
<1> HIDE DEF g
<1> QED BY <1>1, <1>2, FirstGameGood DEF TimedInv, Halting!Init

\* Every step is one of those: a game that begins in the lobby or in a room has at most as many
\* players as the lobby has places.
LEMMA TimedStep ==
  ASSUME lobby.slots \in [1 .. Slots -> PlayerSlot], [AppNext]_appVars
  PROVE  TimedChange
<1> USE DEF TimedChange
<1>0. 1 \in 0 .. Slots /\ TRUE \in BOOLEAN /\ Slots \in Nat
  BY ApplicationAssumption
<1>1. CASE Start
  BY <1>1 DEF Start
<1>2. CASE Quit \/ Crash
  BY <1>2 DEF Quit, Crash, Ended
<1>3. CASE Frame
  BY <1>3, TimeAssumption DEF Frame
<1>4. ASSUME NEW clicked, createDefaultGame(clicked) PROVE TimedChange
  BY <1>0, <1>4 DEF createDefaultGame
<1>5. CASE pause
  <2>1. CASE controller.inside
    BY <1>5, <2>1 DEF pause
  <2>2. CASE ~controller.inside
    BY <1>5, <2>2 DEF pause
  <2> QED BY <2>1, <2>2
<1>6. CASE Keys
  <2>1. CASE Does("F1") /\ createDefaultGame(FALSE)
    BY <1>4, <2>1
  <2>2. CASE Does("F5") /\ restartGame /\ UNCHANGED <<controller, window, lobby>>
    BY <2>2 DEF restartGame
  <2>3. CASE Does("P") /\ pause /\ UNCHANGED <<gameVars, controller, window, lobby>>
    BY <1>5, <2>3
  <2> QED BY <1>6, <2>1, <2>2, <2>3 DEF Keys
<1>7. CASE Menu
  <2>1. CASE createDefaultGame(TRUE)
    BY <1>4, <2>1
  <2>2. CASE UNCHANGED tetrisGame
    BY <2>2
  <2> QED BY <1>5, <1>7, <2>1, <2>2 DEF Menu
<1>8. CASE ResumeButton
  BY <1>4, <1>8 DEF ResumeButton
<1>9. CASE PopUp \/ AddPlayer \/ GamepadEvent
  BY <1>9 DEF PopUp, AddPlayer, GamepadEvent
<1>10. CASE Lobby
  <2>1. ASSUME NEW rules, startLocalGame(SelectIn(lobby.slots, Human \cup {"Ai"}), rules)
        PROVE  TimedChange
    <3> DEFINE players == SelectIn(lobby.slots, Human \cup {"Ai"})
    <3>1. lobby.slots \in Seq(PlayerSlot) /\ Len(lobby.slots) = Slots
      BY <1>0
    <3>2. players \in Seq(PlayerSlot \cap (Human \cup {"Ai"})) /\ Len(players) <= Len(lobby.slots)
      BY <3>1, SelectInParts
    <3>3. tetrisGame' = createGameNow(tetrisGame, Len(players))
      BY <2>1 DEF startLocalGame
    <3> HIDE DEF players
    <3>4. Len(players) \in 0 .. Slots
      BY <1>0, <3>1, <3>2
    <3> QED BY <3>3, <3>4
  <2>2. CASE UNCHANGED tetrisGame
    BY <2>2
  <2> QED BY <1>10, <2>1, <2>2 DEF Lobby, OpenSlot, RemovePlayer, CreateGame
<1>11. CASE NetworkEvent
  <2>1. CASE JoinGameRoomEvent \/ PlayerSlotEvent \/ LeaveGameRoomEvent
    BY <2>1 DEF JoinGameRoomEvent, PlayerSlotEvent, LeaveGameRoomEvent
  <2>2. CASE CreateGameEvent
    <3>1. PICK players \in RoomPlayers : tetrisGame' = createGameNow(tetrisGame, Len(players))
      BY <2>2 DEF CreateGameEvent
    <3>2. Len(players) \in 0 .. Slots
      BY ApplicationAssumption
    <3> QED BY <3>1, <3>2
  <2>3. CASE RestartEvent
    BY <2>3 DEF RestartEvent
  <2>4. CASE PauseEvent
    BY <2>4 DEF PauseEvent
  <2> QED BY <1>11, <2>1, <2>2, <2>3, <2>4 DEF NetworkEvent
<1>12. CASE UNCHANGED appVars
  BY <1>12 DEF appVars
<1> QED BY <1>1, <1>2, <1>3, <1>6, <1>7, <1>8, <1>9, <1>10, <1>11, <1>12 DEF AppNext

-----------------------------------------------------------------------------
(* The scenes *)

\* A popup is opened for a scene, and one that is seen without a scene is about to be closed.
GoodModal(m) ==
  /\ m \in Modal
  /\ m.openPopUp => m.scene # "Empty"
  /\ m.visible /\ m.scene = "Empty" => m.closePopUp

\* Rooms are asked for outside of them.
AsksForRoom == {"CreateGameRoom", "JoinGameRoom"}

\* The main scene of a type of game room; who waits for a room came from outside.
MainOf(type) ==
  IF type \in {"LocalGameRoomLooby", "NetworkGameRoomLooby"} THEN "GameRoomLooby"
  ELSE IF type = "GameSession" THEN "Play" ELSE "Resume"

\* The scenes go with the type of the game room, and a popup that asks for a room is there only
\* outside of one: what it asks for is answered by a client that is still where it was.
ScenesInv ==
  /\ running \in BOOLEAN
  /\ controller \in [gameRoomType : GameRoomType, inside : BOOLEAN, asked : SUBSET {"enter", "leave"}]
  /\ window \in [main : MainScene, modal : Modal] /\ GoodModal(window.modal)
  /\ window.main = MainOf(controller.gameRoomType)
  /\ controller.gameRoomType = "NetworkGameRoomLooby" => controller.inside
  /\ controller.inside => controller.gameRoomType \in {"NetworkGameRoomLooby", "GameSession"}
  /\ window.modal.scene \in AsksForRoom =>
       controller.gameRoomType \in {"OutsideGameRoom", "NetworkWaitingCreateGameRoom"}
  /\ ~running => ~controller.inside /\ controller.gameRoomType = "OutsideGameRoom"
                 /\ window.modal = NewModal

LEMMA NewModalGood == GoodModal(NewModal) /\ NewModal.scene = "Empty"
BY DEF GoodModal, NewModal, Modal, ModalScene

LEMMA switchToGood ==
  ASSUME NEW m, GoodModal(m), NEW scene \in ModalScene
  PROVE  GoodModal(switchTo(m, scene)) /\ switchTo(m, scene).scene = scene
<1>1. CASE scene = "Empty"
  <2>1. switchTo(m, scene) = [m EXCEPT !.scene = "Empty", !.openPopUp = FALSE, !.closePopUp = TRUE]
    BY <1>1 DEF switchTo
  <2> QED BY <1>1, <2>1 DEF GoodModal, Modal, ModalScene
<1>2. CASE scene # "Empty"
  <2>1. switchTo(m, scene) = [m EXCEPT !.scene = scene, !.openPopUp = TRUE, !.closePopUp = FALSE]
    BY <1>2 DEF switchTo
  <2> QED BY <1>2, <2>1 DEF GoodModal, Modal, ModalScene
<1> QED BY <1>1, <1>2

LEMMA imGuiUpdateGood ==
  ASSUME NEW m, GoodModal(m)
  PROVE  GoodModal(imGuiUpdate(m)) /\ imGuiUpdate(m).scene = m.scene
<1>1. m \in Modal /\ m.visible \in BOOLEAN /\ m.openPopUp \in BOOLEAN /\ m.closePopUp \in BOOLEAN
  BY DEF GoodModal, Modal
<1>2. PICK close \in BOOLEAN, visible \in BOOLEAN :
        /\ close <=> m.closePopUp /\ ~(m.visible \/ m.openPopUp)
        /\ visible <=> (m.visible \/ m.openPopUp) /\ ~m.closePopUp
        /\ imGuiUpdate(m) = [m EXCEPT !.openPopUp = FALSE, !.closePopUp = close, !.visible = visible]
  <2> DEFINE close == m.closePopUp /\ ~(m.visible \/ m.openPopUp)
             visible == (m.visible \/ m.openPopUp) /\ ~m.closePopUp
  <2>1. close \in BOOLEAN /\ visible \in BOOLEAN
    OBVIOUS
  <2>2. imGuiUpdate(m) = [m EXCEPT !.openPopUp = FALSE, !.closePopUp = close, !.visible = visible]
    BY <1>1 DEF imGuiUpdate, Modal
  <2>3. (close <=> m.closePopUp /\ ~(m.visible \/ m.openPopUp))
        /\ (visible <=> (m.visible \/ m.openPopUp) /\ ~m.closePopUp)
    OBVIOUS
  <2> HIDE DEF close, visible
  <2> QED BY <2>1, <2>2, <2>3
<1> QED BY <1>1, <1>2 DEF GoodModal, Modal

LEMMA cancelPopUpGood ==
  ASSUME NEW m, GoodModal(m)
  PROVE  GoodModal(cancelPopUp(m)) /\ cancelPopUp(m).scene = m.scene
BY DEF GoodModal, Modal, cancelPopUp

GoodWindow(w) == w \in [main : MainScene, modal : Modal] /\ GoodModal(w.modal)

LEMMA DrawnGood ==
  ASSUME NEW w, GoodWindow(w)
  PROVE  GoodWindow(Drawn(w)) /\ Drawn(w).main = w.main /\ Drawn(w).modal.scene = w.modal.scene
<1>1. GoodModal(imGuiUpdate(w.modal)) /\ imGuiUpdate(w.modal).scene = w.modal.scene
  BY imGuiUpdateGood DEF GoodWindow
<1>2. Drawn(w) = [w EXCEPT !.modal = imGuiUpdate(w.modal)]
  BY DEF Drawn
<1>3. ASSUME NEW m, GoodModal(m)
      PROVE  [w EXCEPT !.modal = m].main = w.main /\ [w EXCEPT !.modal = m].modal = m
             /\ [w EXCEPT !.modal = m] \in [main : MainScene, modal : Modal]
  BY <1>3 DEF GoodWindow, GoodModal
<1> QED BY <1>1, <1>2, <1>3 DEF GoodWindow

\* The type is set: the main scene goes with it, and a popup is on its way to be closed.
LEMMA onGameRoomEventGood ==
  ASSUME GoodWindow(window), NEW type \in GameRoomType, type # "NetworkWaitingCreateGameRoom", NEW clicked
  PROVE  LET w == GoesTo(onGameRoomEvent(type), clicked) IN
           GoodWindow(w) /\ w.main = MainOf(type) /\ w.modal.scene = "Empty"
<1> DEFINE w == onGameRoomEvent(type)
           m == switchTo(window.modal, "Empty")
<1>1. w = [main |-> SceneOf(type), modal |-> m]
  BY DEF onGameRoomEvent
<1>2. SceneOf(type) = MainOf(type) /\ MainOf(type) \in MainScene
  BY DEF SceneOf, MainOf, MainScene, GameRoomType
<1>3. GoodModal(m) /\ m.scene = "Empty"
  BY switchToGood DEF GoodWindow, ModalScene
<1> HIDE DEF m
<1>4. GoodWindow(w) /\ w.main = MainOf(type) /\ w.modal.scene = "Empty"
  BY <1>1, <1>2, <1>3 DEF GoodWindow, GoodModal
<1> HIDE DEF w
<1> QED BY <1>4, DrawnGood DEF GoesTo, w

LEMMA ScenesInit == ASSUME AppInit PROVE ScenesInv
BY NewModalGood DEF AppInit, ScenesInv, GoodModal, MainOf, AsksForRoom, MainScene, GameRoomType

LEMMA ScenesStep ==
  ASSUME ScenesInv, [AppNext]_appVars
  PROVE  ScenesInv'
<1> DEFINE type == controller.gameRoomType
           inside == controller.inside
           Controllers == [gameRoomType : GameRoomType, inside : BOOLEAN, asked : SUBSET {"enter", "leave"}]
<1>0. /\ GoodWindow(window) /\ window \in [main : MainScene, modal : Modal]
      /\ controller \in Controllers /\ type \in GameRoomType /\ inside \in BOOLEAN
  BY DEF ScenesInv, GoodWindow
\* A step that leaves the type, and with it the main scene.
<1>1. ASSUME running', controller' \in Controllers,
             controller'.gameRoomType = type, (controller'.inside <=> inside),
             GoodWindow(window'), window'.main = window.main,
             window'.modal.scene = window.modal.scene \/ window'.modal.scene \notin AsksForRoom
      PROVE  ScenesInv'
  BY <1>0, <1>1 DEF ScenesInv, GoodWindow
\* One that sets it.
<1>2. ASSUME running', controller' \in Controllers, GoodWindow(window'),
             window'.main = MainOf(controller'.gameRoomType), window'.modal.scene = "Empty",
             controller'.gameRoomType = "NetworkGameRoomLooby" => controller'.inside,
             controller'.inside => controller'.gameRoomType \in {"NetworkGameRoomLooby", "GameSession"}
      PROVE  ScenesInv'
  BY <1>2 DEF ScenesInv, GoodWindow, AsksForRoom
<1>3. ASSUME running', NEW clicked, GameSessionHere(clicked) PROVE ScenesInv'
  <2>1. controller' \in Controllers /\ controller'.gameRoomType = "GameSession"
    BY <1>0, <1>3 DEF GameSessionHere, GameRoomType
  <2>2. window' = GoesTo(onGameRoomEvent("GameSession"), clicked) /\ "GameSession" \in GameRoomType
    BY <1>3 DEF GameSessionHere, GameRoomType
  <2> QED BY <1>0, <1>2, <1>3, <2>1, <2>2, onGameRoomEventGood
<1>4. ASSUME running', NEW clicked, NEW t \in {"LocalGameRoomLooby", "OutsideGameRoom", "GameSession"},
             setGameRoomType(t, clicked), t = "GameSession" \/ ~inside
      PROVE  ScenesInv'
  <2>1. controller' \in Controllers /\ controller'.gameRoomType = t /\ (controller'.inside <=> inside)
    BY <1>0, <1>4 DEF setGameRoomType, GameRoomType
  <2>2. window' = GoesTo(onGameRoomEvent(t), clicked) /\ t \in GameRoomType
    BY <1>4 DEF setGameRoomType, GameRoomType
  <2> QED BY <1>0, <1>2, <1>4, <2>1, <2>2, onGameRoomEventGood
<1>5. CASE Start
  <2>1. running' /\ ~inside
    BY <1>5 DEF Start, ScenesInv
  <2>2. controller' \in Controllers /\ controller'.gameRoomType = "GameSession"
    BY <1>0, <1>5 DEF Start, GameRoomType
  <2>3. window' = GoesTo(onGameRoomEvent("GameSession"), FALSE) /\ "GameSession" \in GameRoomType
    BY <1>5 DEF Start, GoesTo, GameRoomType
  <2> QED BY <1>0, <1>2, <2>1, <2>2, <2>3, onGameRoomEventGood
<1>6. CASE Quit \/ Crash
  <2>1. Ended
    BY <1>6 DEF Quit, Crash
  <2> QED BY <2>1, NewModalGood DEF Ended, ScenesInv, GoodModal, MainOf, AsksForRoom, MainScene, GameRoomType
\* A step that draws the window, or shows a popup, or cancels it.
<1>7. ASSUME running, running', UNCHANGED controller,
             window' \in {window, Drawn(window), [window EXCEPT !.modal = cancelPopUp(window.modal)]}
      PROVE  ScenesInv'
  <2>1. ASSUME window' = [window EXCEPT !.modal = cancelPopUp(window.modal)]
        PROVE  GoodWindow(window') /\ window'.main = window.main /\ window'.modal.scene = window.modal.scene
    <3>1. GoodModal(cancelPopUp(window.modal)) /\ cancelPopUp(window.modal).scene = window.modal.scene
      BY <1>0, cancelPopUpGood DEF GoodWindow
    <3>2. window'.main = window.main /\ window'.modal = cancelPopUp(window.modal)
          /\ window' \in [main : MainScene, modal : Modal]
      BY <1>0, <2>1, <3>1 DEF GoodModal
    <3> QED BY <3>1, <3>2 DEF GoodWindow
  <2> QED BY <1>0, <1>1, <1>7, <2>1, DrawnGood
<1>8. CASE Frame
  BY <1>7, <1>8 DEF Frame
<1>9. ASSUME running, NEW scene \in ModalScene, ShowsPopUp(scene), UNCHANGED running,
             scene \in AsksForRoom => type \in {"OutsideGameRoom", "NetworkWaitingCreateGameRoom"}
      PROVE  ScenesInv'
  <2> DEFINE m == switchTo(window.modal, scene)
             w == [window EXCEPT !.modal = m]
  <2>1. GoodModal(m) /\ m.scene = scene
    BY <1>0, switchToGood DEF GoodWindow
  <2>2. window' = Drawn(w)
    BY <1>9 DEF ShowsPopUp
  <2> HIDE DEF m
  <2>3. GoodWindow(w) /\ w.main = window.main /\ w.modal.scene = scene
    BY <1>0, <2>1 DEF GoodWindow, GoodModal
  <2> HIDE DEF w
  <2>4. GoodWindow(window') /\ window'.main = window.main /\ window'.modal.scene = scene
    BY <2>2, <2>3, DrawnGood
  <2>5. UNCHANGED controller
    BY <1>9 DEF ShowsPopUp
  <2> QED BY <1>9, <2>4, <2>5 DEF ScenesInv, GoodWindow
<1> DEFINE Command == \E command : Does(command)
<1>a. ASSUME Command PROVE running /\ running' /\ UNCHANGED running
  BY <1>a DEF Does
<1>10. CASE Keys
  <2>0. Command
    BY <1>10, Zenon DEF Keys
  <2>1. running /\ running'
    BY <1>a, <2>0
  <2> QED BY <1>3, <1>7, <1>10, <2>1 DEF Keys, createDefaultGame
<1>11. CASE Menu
  <2>0. Command
    BY <1>11, Zenon DEF Menu
  <2>1. running /\ running' /\ UNCHANGED running
    BY <1>a, <2>0
  <2>2. ASSUME ~isGameRoomSession PROVE type \in {"OutsideGameRoom", "NetworkWaitingCreateGameRoom"} /\ ~inside
    BY <1>0, <2>2 DEF isGameRoomSession, ScenesInv, GameRoomType
  <2>3. CASE createDefaultGame(TRUE)
    BY <1>3, <2>1, <2>3 DEF createDefaultGame
  <2>4. CASE ~isGameRoomSession /\ setGameRoomType("LocalGameRoomLooby", TRUE)
    BY <1>4, <2>1, <2>2, <2>4
  <2>5. CASE ~isGameRoomSession /\ \E scene \in {"CreateGameRoom", "JoinGameRoom"} : ShowsPopUp(scene)
    BY <1>9, <2>1, <2>2, <2>5 DEF ModalScene
  <2>6. CASE inside /\ controller' = [controller EXCEPT !.asked = @ \cup {"leave"}] /\ window' = Drawn(window)
    <3>1. controller' \in Controllers /\ controller'.gameRoomType = type /\ (controller'.inside <=> inside)
      BY <1>0, <2>6
    <3> QED BY <1>0, <1>1, <2>1, <2>6, <3>1, DrawnGood
  <2>7. CASE ~inside /\ setGameRoomType("OutsideGameRoom", TRUE)
    BY <1>4, <2>1, <2>7
  <2>8. CASE \E scene \in {"HighScore", "Settings", "About"} : ShowsPopUp(scene)
    BY <1>9, <2>1, <2>8 DEF ModalScene, AsksForRoom
  <2> QED BY <1>11, <2>3, <2>4, <2>5, <2>6, <2>7, <2>8 DEF Menu
<1>12. CASE ResumeButton
  BY <1>3, <1>12 DEF ResumeButton, Does, createDefaultGame
<1>13. CASE PopUp
  <2>1. running /\ running'
    BY <1>13 DEF PopUp, CancelButton, CreateGameRoomButton, JoinGameRoomButton, Does
  <2>2. CASE CancelButton
    BY <1>7, <2>1, <2>2 DEF CancelButton
  <2>3. CASE CreateGameRoomButton
    <3>1. type \in {"OutsideGameRoom", "NetworkWaitingCreateGameRoom"}
      BY <2>3 DEF CreateGameRoomButton, ScenesInv, AsksForRoom
    <3>2. /\ controller' \in Controllers /\ controller'.gameRoomType = "NetworkWaitingCreateGameRoom"
          /\ (controller'.inside <=> inside) /\ UNCHANGED window
      BY <1>0, <2>3 DEF CreateGameRoomButton, GameRoomType
    <3>3. window.main = "Resume" /\ ~inside
      BY <1>0, <3>1 DEF ScenesInv, MainOf
    <3> QED BY <1>0, <2>1, <3>2, <3>3 DEF ScenesInv, MainOf, GoodWindow
  <2>4. CASE JoinGameRoomButton
    <3>1. /\ controller' \in Controllers /\ controller'.gameRoomType = type
          /\ (controller'.inside <=> inside) /\ UNCHANGED window
      BY <1>0, <2>4 DEF JoinGameRoomButton
    <3> QED BY <1>0, <1>1, <2>1, <3>1
  <2> QED BY <1>13, <2>2, <2>3, <2>4 DEF PopUp
<1>14. CASE Lobby
  <2>1. running /\ running'
    BY <1>14 DEF Lobby, Does
  <2> QED BY <1>3, <1>7, <1>14, <2>1 DEF Lobby, OpenSlot, RemovePlayer, CreateGame, startLocalGame
<1>15. CASE AddPlayer
  BY <1>7, <1>15 DEF AddPlayer, Does
<1>16. CASE NetworkEvent
  <2>1. running /\ running'
    BY <1>16 DEF NetworkEvent, Told
  <2>2. CASE JoinGameRoomEvent
    <3>1. /\ controller' = [gameRoomType |-> "NetworkGameRoomLooby", inside |-> TRUE,
                            asked |-> controller.asked \ {"enter"}]
          /\ window' = GoesTo(onGameRoomEvent("NetworkGameRoomLooby"), FALSE)
      BY <2>2 DEF JoinGameRoomEvent, GoesTo
    <3> QED BY <1>0, <1>2, <2>1, <3>1, onGameRoomEventGood DEF GameRoomType
  <2>3. CASE LeaveGameRoomEvent
    <3>1. /\ controller' = [gameRoomType |-> "OutsideGameRoom", inside |-> FALSE,
                            asked |-> controller.asked \ {"leave"}]
          /\ window' = GoesTo(onGameRoomEvent("OutsideGameRoom"), FALSE)
      BY <2>3 DEF LeaveGameRoomEvent, GoesTo
    <3> QED BY <1>0, <1>2, <2>1, <3>1, onGameRoomEventGood DEF GameRoomType
  <2>4. CASE CreateGameEvent
    BY <1>4, <2>1, <2>4 DEF CreateGameEvent
  <2>5. CASE PlayerSlotEvent \/ RestartEvent \/ PauseEvent
    BY <1>7, <2>1, <2>5 DEF PlayerSlotEvent, RestartEvent, PauseEvent
  <2> QED BY <1>16, <2>2, <2>3, <2>4, <2>5 DEF NetworkEvent
<1>17. CASE GamepadEvent
  BY <1>7, <1>17 DEF GamepadEvent
<1>18. CASE UNCHANGED appVars
  BY <1>18 DEF appVars, ScenesInv, GoodModal
<1> QED BY <1>5, <1>6, <1>8, <1>10, <1>11, <1>12, <1>13, <1>14, <1>15, <1>16, <1>17, <1>18 DEF AppNext

-----------------------------------------------------------------------------
(* The saved game *)

GameType == [players : Seq(PlayerKind), rules : {"Default", "Survival"},
             madeBy : {"default", "local", "network"}, board : Board]

SavedType == [cached : CachedGame, file : Board]

\* One of the first n boards that were made, or none.
GoodBoard(b, n) ==
  /\ b \in Board
  /\ b.points <= b.moves
  /\ b.id <= n
  /\ b = NoBoard \/ b.id >= 1

GoodSaved(s, n) == s \in SavedType /\ GoodBoard(s.file, n) /\ GoodBoard(s.cached.board, n)

\* The copy in memory knows whether there is a file.
KnowsFile(s) == s.cached.played <=> s.file # NoBoard

\* Of a game that is not the default one, nothing is saved but its start.
OnlyStartSaved(g, s) ==
  g.madeBy # "default" /\ s.file.id = g.board.id => SavedAtStart(g, s)

\* What is in the file of a game that is played is its board, or the one it started with, and the game
\* to resume is both in the file and, once the program runs, the one that is played.
SavedInv ==
  /\ boards \in Nat
  /\ game \in GameType /\ GoodBoard(game.board, boards)
  /\ GoodSaved(saved, boards)
  /\ GoodBoard(closed, boards)
  /\ running => game.board # NoBoard /\ KnowsFile(saved)
  /\ running /\ game.madeBy = "default" => saved.file \in {NoBoard, game.board}
  /\ running => OnlyStartSaved(game, saved)
  /\ closed # NoBoard =>
       ~closed.over /\ SameBoard(closed, saved.file) /\ (running => SameBoard(closed, game.board))

LEMMA IsCurrent == ASSUME SavedInv PROVE SavedGameIsCurrent
BY DEF SavedInv, SavedGameIsCurrent, hasSavedGame, KnowsFile, OnlyStartSaved

LEMMA Resumes == ASSUME SavedInv, running \in BOOLEAN PROVE ClosedGameResumes
BY DEF SavedInv, ClosedGameResumes

LEMMA NoBoardGood == ASSUME NEW n \in Nat PROVE GoodBoard(NoBoard, n)
BY MaxMovesAssumption DEF GoodBoard, NoBoard, Board

LEMMA LaterGood ==
  ASSUME NEW b, NEW n \in Nat, NEW m \in Nat, n <= m, GoodBoard(b, n)
  PROVE  GoodBoard(b, m)
BY DEF GoodBoard, Board

LEMMA NewBoardGood ==
  ASSUME boards \in Nat
  PROVE  GoodBoard(NewBoard, boards + 1) /\ NewBoard # NoBoard /\ NewBoard.id = boards + 1
<1>1. NoBoard \in Board /\ NoBoard.id = 0 /\ NoBoard.points = 0 /\ NoBoard.moves = 0
  BY NoBoardGood DEF GoodBoard, NoBoard
<1>2. NewBoard \in Board /\ NewBoard.id = boards + 1 /\ NewBoard.points = 0 /\ NewBoard.moves = 0
  BY <1>1 DEF NewBoard, Board
<1> QED BY <1>1, <1>2 DEF GoodBoard

\* The points of a board that is loaded are gone, and it is still a board.
LEMMA WithoutPoints ==
  ASSUME NEW b, NEW n \in Nat, GoodBoard(b, n), b # NoBoard
  PROVE  LET c == [b EXCEPT !.points = 0] IN GoodBoard(c, n) /\ c # NoBoard /\ c.over = b.over
           /\ SameBoard(c, b)
BY MaxMovesAssumption DEF GoodBoard, NoBoard, Board, SameBoard

LEMMA clearSavedGameParts ==
  ASSUME NEW s \in SavedType
  PROVE  LET t == clearSavedGame(s) IN
           /\ t \in SavedType /\ t.file = NoBoard /\ t.cached.board = s.cached.board
           /\ ~t.cached.played
<1>1. NoBoard \in Board
  BY NoBoardGood DEF GoodBoard
<1>2. clearSavedGame(s) = [s EXCEPT !.cached = [s.cached EXCEPT !.played = FALSE], !.file = NoBoard]
  BY DEF clearSavedGame, SavedType
<1>3. LET c == [s.cached EXCEPT !.played = FALSE] IN c \in CachedGame /\ c.board = s.cached.board /\ ~c.played
  BY DEF SavedType, CachedGame
<1> QED BY <1>1, <1>2, <1>3 DEF SavedType

LEMMA saveGameParts ==
  ASSUME NEW s \in SavedType, NEW b \in Board
  PROVE  LET t == saveGame(s, b, "Default") IN
           t \in SavedType /\ t.file = b /\ t.cached.board = b /\ t.cached.played
<1>1. saveGame(s, b, "Default") = [s EXCEPT !.cached = [s.cached EXCEPT !.board = b, !.played = TRUE], !.file = b]
  BY DEF saveGame, SavedType, CachedGame
<1>2. LET c == [s.cached EXCEPT !.board = b, !.played = TRUE] IN c \in CachedGame /\ c.board = b /\ c.played
  BY DEF SavedType, CachedGame
<1> QED BY <1>1, <1>2 DEF SavedType

\* What is loaded is what is in memory, and from the file when nothing was loaded before.
LEMMA loadGameParts ==
  ASSUME NEW s, NEW n \in Nat, GoodSaved(s, n)
  PROVE  LET t == loadGame(s) IN
           /\ GoodSaved(t, n) /\ t.file = s.file
           /\ KnowsFile(s) \/ s.cached = NothingCached => KnowsFile(t)
           /\ s.cached = NothingCached => t.cached.board = s.file
<1>1. CASE s.cached.gameLoaded \/ s.file = NoBoard
  <2>1. loadGame(s) = [s EXCEPT !.cached = [s.cached EXCEPT !.gameLoaded = TRUE]]
    BY <1>1 DEF loadGame, GoodSaved, SavedType
  <2>2. LET c == [s.cached EXCEPT !.gameLoaded = TRUE] IN
          c \in CachedGame /\ c.board = s.cached.board /\ (c.played <=> s.cached.played)
    BY DEF GoodSaved, SavedType, CachedGame
  <2>3. s.cached = NothingCached => ~s.cached.played /\ ~s.cached.gameLoaded /\ s.cached.board = NoBoard
    BY DEF NothingCached
  <2> DEFINE c == [s.cached EXCEPT !.gameLoaded = TRUE]
             t == loadGame(s)
  <2> HIDE DEF c, t
  <2>4. t \in SavedType /\ t.file = s.file /\ t.cached.board = s.cached.board
        /\ (t.cached.played <=> s.cached.played)
    BY <2>1, <2>2 DEF GoodSaved, SavedType, c, t
  <2> QED BY <1>1, <2>3, <2>4 DEF GoodSaved, KnowsFile, t
<1>2. CASE ~(s.cached.gameLoaded \/ s.file = NoBoard)
  <2> DEFINE c == [board |-> s.file, played |-> TRUE, gameLoaded |-> TRUE]
  <2>1. loadGame(s) = [s EXCEPT !.cached = c]
    BY <1>2 DEF loadGame
  <2>2. c \in CachedGame /\ c.board = s.file /\ c.played
    BY DEF GoodSaved, SavedType, CachedGame
  <2> HIDE DEF c
  <2> QED BY <1>2, <2>1, <2>2 DEF GoodSaved, SavedType, KnowsFile
<1> QED BY <1>1, <1>2

\* A default player clears the saved game; the others leave it.
LEMMA clearedByParts ==
  ASSUME NEW g, NEW s, NEW n \in Nat, GoodSaved(s, n)
  PROVE  LET t == clearedBy(g, s) IN
           /\ GoodSaved(t, n)
           /\ KnowsFile(s) => KnowsFile(t)
           /\ g.madeBy = "default" => t.file = NoBoard /\ KnowsFile(t)
           /\ g.madeBy # "default" => t = s
BY clearSavedGameParts, NoBoardGood DEF clearedBy, GoodSaved, KnowsFile

\* A game that can be resumed is saved as it is; another one leaves what is saved.
LEMMA saveDefaultGameParts ==
  ASSUME NEW g, NEW s, NEW n \in Nat, GoodSaved(s, n), GoodBoard(g.board, n), g.board # NoBoard
  PROVE  LET t == saveDefaultGame(s, g) IN
           /\ GoodSaved(t, n)
           /\ KnowsFile(s) => KnowsFile(t)
           /\ \/ t.file = g.board /\ isDefaultGame(g) /\ g.rules = "Default"
              \/ t = s
           /\ isDefaultGame(g) /\ ~g.board.over /\ g.rules = "Default" => t.file = g.board
<1>1. CASE isDefaultGame(g) /\ ~g.board.over /\ g.rules = "Default"
  <2> DEFINE t == saveGame(s, g.board, "Default")
  <2>1. saveDefaultGame(s, g) = t
    BY <1>1 DEF saveDefaultGame
  <2>2. t \in SavedType /\ t.file = g.board /\ t.cached.board = g.board /\ t.cached.played
    BY saveGameParts DEF GoodSaved, GoodBoard
  <2> HIDE DEF t
  <2> QED BY <1>1, <2>1, <2>2 DEF GoodSaved, KnowsFile
<1>2. CASE ~(isDefaultGame(g) /\ ~g.board.over /\ g.rules = "Default")
  <2>1. saveDefaultGame(s, g) = s
    BY <1>2 DEF saveDefaultGame, saveGame
  <2> QED BY <1>2, <2>1
<1> QED BY <1>1, <1>2

\* A game that is created has a board without points; if it can be resumed, it is what is saved.
LEMMA createGameParts ==
  ASSUME NEW g \in GameType, NEW s, NEW n \in Nat, GoodSaved(s, n), GoodBoard(g.board, n), g.board # NoBoard,
         createGame(g, s)
  PROVE  /\ game' \in GameType /\ GoodBoard(game'.board, n) /\ game'.board # NoBoard
         /\ SameBoard(game'.board, g.board) /\ game'.madeBy = g.madeBy /\ game'.players = g.players
         /\ GoodSaved(saved', n)
         /\ KnowsFile(s) => KnowsFile(saved')
         /\ g.madeBy = "default" => saved'.file \in {NoBoard, game'.board}
         /\ isDefaultGame(g) /\ ~g.board.over /\ g.rules = "Default" => saved'.file = game'.board
         /\ game'.board = [g.board EXCEPT !.points = 0] /\ game'.rules = g.rules
         /\ g.madeBy # "default" =>
              \/ saved'.file = s.file
              \/ saved'.file = game'.board /\ isDefaultGame(g) /\ g.rules = "Default"
<1> DEFINE b == [g.board EXCEPT !.points = 0]
           started == [g EXCEPT !.board.points = 0]
           t == clearedBy(started, s)
           u == saveDefaultGame(t, started)
<1>1. GoodBoard(b, n) /\ b # NoBoard /\ b.over = g.board.over /\ SameBoard(b, g.board)
  BY WithoutPoints
<1>2. started = [g EXCEPT !.board = b]
  BY DEF GameType
<1>3. game' = started /\ saved' = u
  BY DEF createGame
<1> HIDE DEF b
<1>4. started \in GameType /\ started.board = b /\ started.players = g.players /\ started.rules = g.rules
      /\ started.madeBy = g.madeBy
  BY <1>1, <1>2 DEF GameType, GoodBoard
<1> HIDE DEF started
<1>5. /\ GoodSaved(t, n)
      /\ KnowsFile(s) => KnowsFile(t)
      /\ g.madeBy = "default" => t.file = NoBoard
      /\ g.madeBy # "default" => t = s
  BY <1>4, clearedByParts
<1> HIDE DEF t
<1>6. /\ GoodSaved(u, n)
      /\ KnowsFile(t) => KnowsFile(u)
      /\ (u.file = b /\ isDefaultGame(started) /\ started.rules = "Default") \/ u = t
      /\ isDefaultGame(started) /\ ~b.over /\ started.rules = "Default" => u.file = b
  BY <1>1, <1>4, <1>5, saveDefaultGameParts
<1> HIDE DEF u
<1>7. isDefaultGame(started) <=> isDefaultGame(g)
  BY <1>4 DEF isDefaultGame
<1>8. b = [g.board EXCEPT !.points = 0]
  BY DEF b
<1> QED BY <1>1, <1>3, <1>4, <1>5, <1>6, <1>7, <1>8

\* The default game goes on with what is loaded, if there is a game, and with a new board otherwise.
LEMMA loadDefaultGameParts ==
  ASSUME NEW s, boards \in Nat, GoodSaved(s, boards), KnowsFile(s) \/ s.cached = NothingCached,
         loadDefaultGame(s)
  PROVE  /\ boards' \in Nat /\ boards <= boards' /\ boards' <= boards + 1
         /\ game' \in GameType /\ GoodBoard(game'.board, boards') /\ game'.board # NoBoard
         /\ game'.madeBy = "default"
         /\ GoodSaved(saved', boards') /\ KnowsFile(saved') /\ saved'.file \in {NoBoard, game'.board}
         /\ \/ SameBoard(game'.board, loadGame(s).cached.board)
            \/ game'.board.id = boards + 1 /\ loadGame(s).cached.board = NoBoard
         /\ ~controller.inside /\ ~game'.board.over => saved'.file = game'.board
<1> DEFINE t == loadGame(s)
           hasBoard == t.cached.board # NoBoard
           b == IF hasBoard THEN t.cached.board ELSE NewBoard
           g == [players |-> <<"Keyboard 1">>, rules |-> "Default", madeBy |-> "default", board |-> b]
           n == IF hasBoard THEN boards ELSE boards + 1
<1>1. createGame(g, t) /\ boards' = n
  BY DEF loadDefaultGame
<1>2. GoodSaved(t, boards) /\ KnowsFile(t)
  BY loadGameParts
<1> HIDE DEF t
<1>3. n \in Nat /\ boards <= n /\ n <= boards + 1
  OBVIOUS
<1>4. GoodSaved(t, n)
  BY <1>2, LaterGood DEF GoodSaved
<1>5. GoodBoard(b, n) /\ b # NoBoard
  BY <1>2, NewBoardGood DEF GoodSaved
<1>6. b = t.cached.board \/ (b.id = boards + 1 /\ t.cached.board = NoBoard)
  <2>1. CASE hasBoard
    BY <2>1
  <2>2. CASE ~hasBoard
    BY <2>2, NewBoardGood
  <2> QED BY <2>1, <2>2
<1> HIDE DEF hasBoard, b, n
<1>7. <<"Keyboard 1">> \in Seq(PlayerKind) /\ Len(<<"Keyboard 1">>) = 1 /\ <<"Keyboard 1">>[1] # "Remote"
  BY DEF PlayerKind, Human
<1>8. g \in GameType /\ g.board = b /\ g.madeBy = "default" /\ g.rules = "Default"
      /\ g.players = <<"Keyboard 1">>
  BY <1>5, <1>7 DEF GameType, GoodBoard
<1> HIDE DEF g
<1>9. ~controller.inside => isDefaultGame(g)
  BY <1>7, <1>8 DEF isDefaultGame
<1>10. /\ game' \in GameType /\ GoodBoard(game'.board, n) /\ game'.board # NoBoard
       /\ SameBoard(game'.board, b) /\ game'.madeBy = "default"
       /\ GoodSaved(saved', n) /\ KnowsFile(saved') /\ saved'.file \in {NoBoard, game'.board}
       /\ isDefaultGame(g) /\ ~b.over => saved'.file = game'.board
  BY <1>1, <1>2, <1>3, <1>4, <1>5, <1>8, createGameParts
<1> QED BY <1>1, <1>3, <1>6, <1>9, <1>10 DEF SameBoard, t

LEMMA SavedInit == ASSUME AppInit PROVE SavedInv
<1> DEFINE first == [NoBoard EXCEPT !.id = 1, !.moves = 1, !.points = 1]
<1>1. PICK file \in {NoBoard, first} :
        saved = [cached |-> NothingCached, file |-> file] /\ boards = file.id /\ closed = file
  BY DEF AppInit
<1>2. NoBoard \in Board /\ NoBoard.id = 0 /\ ~NoBoard.over
  BY NoBoardGood DEF GoodBoard, NoBoard
<1>3. GoodBoard(NoBoard, 0) /\ GoodBoard(NoBoard, 1)
  BY NoBoardGood
<1>4. GoodBoard(first, 1) /\ first.id = 1 /\ ~first.over
  <2>1. 1 \in 0 .. MaxMoves /\ 1 \in Nat
    BY MaxMovesAssumption
  <2>2. first \in Board /\ first.id = 1 /\ first.moves = 1 /\ first.points = 1 /\ first.over = NoBoard.over
    BY <1>2, <2>1 DEF Board
  <2> QED BY <1>2, <2>2 DEF GoodBoard
<1> HIDE DEF first
<1>5. boards \in {0, 1} /\ GoodBoard(file, boards) /\ GoodBoard(NoBoard, boards) /\ ~file.over
  BY <1>1, <1>2, <1>3, <1>4
<1>6. NothingCached \in CachedGame /\ NothingCached.board = NoBoard
  BY <1>2 DEF NothingCached, CachedGame
<1>7. GoodSaved(saved, boards) /\ saved.file = file
  BY <1>1, <1>5, <1>6 DEF GoodSaved, SavedType, GoodBoard
<1>8. game \in GameType /\ game.board = NoBoard
  <2>1. <<"Keyboard 1">> \in Seq(PlayerKind)
    BY DEF PlayerKind, Human
  <2> QED BY <1>2, <2>1 DEF AppInit, GameType
<1>9. ~running
  BY DEF AppInit
<1> QED BY <1>1, <1>5, <1>7, <1>8, <1>9 DEF SavedInv, SameBoard

LEMMA SavedStep ==
  ASSUME ScenesInv, SavedInv, lobby.slots \in [1 .. Slots -> PlayerSlot], [AppNext]_appVars
  PROVE  SavedInv'
<1>0. /\ boards \in Nat /\ game \in GameType /\ GoodBoard(game.board, boards)
      /\ GoodSaved(saved, boards) /\ GoodBoard(closed, boards)
      /\ NoBoard.id = 0 /\ running \in BOOLEAN
  BY DEF SavedInv, ScenesInv, NoBoard
\* A step that has boards for all of it, and closes or keeps the game to resume.
<1>1. ASSUME boards' \in Nat, boards <= boards', game' \in GameType, GoodBoard(game'.board, boards'),
             GoodSaved(saved', boards'), closed' \in {closed, NoBoard},
             game'.board # NoBoard, KnowsFile(saved'),
             game'.madeBy = "default" => saved'.file \in {NoBoard, game'.board},
             OnlyStartSaved(game', saved'),
             closed' # NoBoard => ~closed.over /\ SameBoard(closed, saved'.file) /\ SameBoard(closed, game'.board)
      PROVE  SavedInv'
  <2>1. GoodBoard(closed', boards')
    BY <1>0, <1>1, LaterGood, NoBoardGood
  <2> QED BY <1>1, <2>1 DEF SavedInv
<1>2. ASSUME running, running', UNCHANGED gameVars, Plays PROVE SavedInv'
  <2>1. closed' \in {closed, NoBoard} /\ game' = game /\ saved' = saved /\ boards' = boards
    BY <1>2 DEF Plays, gameVars
  <2>2. game.board # NoBoard /\ KnowsFile(saved)
        /\ (game.madeBy = "default" => saved.file \in {NoBoard, game.board})
        /\ OnlyStartSaved(game, saved)
        /\ (closed # NoBoard => ~closed.over /\ SameBoard(closed, saved.file) /\ SameBoard(closed, game.board))
    BY <1>2 DEF SavedInv
  <2>3. boards <= boards
    BY <1>0
  <2> QED BY <1>0, <1>1, <2>1, <2>2, <2>3
<1>3. CASE Start
  <2> DEFINE s == [saved EXCEPT !.cached = NothingCached]
  <2>1. /\ loadDefaultGame(s) /\ closed' = closed /\ running' /\ ~running /\ ~controller.inside
    BY <1>3 DEF Start, ScenesInv
  <2>2. NothingCached \in CachedGame /\ NothingCached.board = NoBoard
    BY NoBoardGood DEF NothingCached, CachedGame, GoodBoard
  <2>3. GoodSaved(s, boards) /\ s.cached = NothingCached /\ s.file = saved.file
    BY <1>0, <2>2, NoBoardGood DEF GoodSaved, SavedType
  <2> HIDE DEF s
  <2>4. loadGame(s).cached.board = saved.file
    BY <1>0, <2>3, loadGameParts
  <2>5. /\ boards' \in Nat /\ boards <= boards' /\ boards' <= boards + 1
        /\ game' \in GameType /\ GoodBoard(game'.board, boards') /\ game'.board # NoBoard
        /\ game'.madeBy = "default"
        /\ GoodSaved(saved', boards') /\ KnowsFile(saved') /\ saved'.file \in {NoBoard, game'.board}
        /\ \/ SameBoard(game'.board, saved.file)
           \/ game'.board.id = boards + 1 /\ saved.file = NoBoard
        /\ ~game'.board.over => saved'.file = game'.board
    BY <1>0, <2>1, <2>3, <2>4, loadDefaultGameParts
  <2>6. ASSUME closed # NoBoard
        PROVE  ~closed.over /\ SameBoard(closed, saved'.file) /\ SameBoard(closed, game'.board)
    <3>1. ~closed.over /\ SameBoard(closed, saved.file) /\ closed.id >= 1
      BY <1>0, <2>6 DEF SavedInv, GoodBoard
    <3>2. saved.file # NoBoard
      BY <1>0, <3>1 DEF SameBoard
    <3>3. SameBoard(game'.board, saved.file)
      BY <2>5, <3>2
    <3>4. SameBoard(closed, game'.board) /\ ~game'.board.over
      BY <3>1, <3>3 DEF SameBoard
    <3> QED BY <2>5, <3>1, <3>4
  <2>7. OnlyStartSaved(game', saved')
    BY <2>5 DEF OnlyStartSaved
  <2> QED BY <1>1, <2>1, <2>5, <2>6, <2>7
<1>4. CASE Quit
  <2> DEFINE s == saveDefaultGame(saved, game)
  <2>1. /\ running /\ ~running' /\ saved' = s /\ UNCHANGED <<game, boards>>
        /\ closed' = IF Resumable THEN game.board ELSE NoBoard
    BY <1>4 DEF Quit, Ended
  <2>2. game.board # NoBoard
    BY <2>1 DEF SavedInv
  <2>3. GoodSaved(s, boards) /\ (isDefaultGame(game) /\ ~game.board.over /\ game.rules = "Default" => s.file = game.board)
    BY <1>0, <2>2, saveDefaultGameParts
  <2> HIDE DEF s
  <2>4. GoodBoard(closed', boards)
    BY <1>0, <2>1, NoBoardGood
  <2>5. closed' # NoBoard => ~closed'.over /\ SameBoard(closed', s.file)
    BY <2>1, <2>3 DEF Resumable, isDefaultGame, SameBoard
  <2> QED BY <1>0, <2>1, <2>3, <2>4, <2>5 DEF SavedInv
<1>5. CASE Crash
  BY <1>5 DEF Crash, Ended, SavedInv
<1>6. ASSUME running, running', NEW clicked, createDefaultGame(clicked), Plays PROVE SavedInv'
  <2>1. /\ loadDefaultGame(saved) /\ closed' = IF game' = game /\ ~controller.inside THEN closed ELSE NoBoard
        /\ KnowsFile(saved)
    BY <1>6 DEF createDefaultGame, Plays, SavedInv
  <2>2. /\ boards' \in Nat /\ boards <= boards'
        /\ game' \in GameType /\ GoodBoard(game'.board, boards') /\ game'.board # NoBoard
        /\ game'.madeBy = "default"
        /\ GoodSaved(saved', boards') /\ KnowsFile(saved') /\ saved'.file \in {NoBoard, game'.board}
        /\ ~controller.inside /\ ~game'.board.over => saved'.file = game'.board
    BY <1>0, <2>1, loadDefaultGameParts
  <2>3. ASSUME closed' # NoBoard
        PROVE  ~closed.over /\ SameBoard(closed, saved'.file) /\ SameBoard(closed, game'.board)
    <3>1. game' = game /\ ~controller.inside /\ closed # NoBoard
      BY <2>1, <2>3
    <3>2. ~closed.over /\ SameBoard(closed, game.board)
      BY <1>6, <3>1 DEF SavedInv
    <3> QED BY <2>2, <3>1, <3>2 DEF SameBoard
  <2>4. OnlyStartSaved(game', saved')
    BY <2>2 DEF OnlyStartSaved
  <2> QED BY <1>1, <1>6, <2>1, <2>2, <2>3, <2>4
\* A game with a new board is another one than the one to resume.
<1>7. ASSUME boards' = boards + 1, game'.board.id = boards + 1, Plays PROVE closed' = NoBoard
  <2>1. game.board.id <= boards /\ game.board.id \in Nat
    BY <1>0 DEF GoodBoard, Board
  <2>2. game' # game
    BY <1>0, <1>7, <2>1
  <2> QED BY <1>7, <2>2 DEF Plays
<1>8. ASSUME running, running', NEW players \in Seq(PlayerKind), NEW rules \in {"Default", "Survival"},
             NEW madeBy \in {"local", "network"},
             createGame([players |-> players, rules |-> rules, madeBy |-> madeBy, board |-> NewBoard], saved),
             boards' = boards + 1, Plays, madeBy = "network" => controller.inside
      PROVE  SavedInv'
  <2> DEFINE g == [players |-> players, rules |-> rules, madeBy |-> madeBy, board |-> NewBoard]
  <2>1. GoodBoard(NewBoard, boards + 1) /\ NewBoard # NoBoard /\ NewBoard.id = boards + 1
    BY <1>0, NewBoardGood
  <2>2. g \in GameType /\ g.board = NewBoard /\ g.madeBy = madeBy /\ g.players = players /\ g.rules = rules
    BY <1>8, <2>1 DEF GameType, GoodBoard
  <2>3. GoodSaved(saved, boards + 1) /\ KnowsFile(saved) /\ boards + 1 \in Nat /\ boards <= boards + 1
    BY <1>0, <1>8, LaterGood DEF GoodSaved, SavedInv
  <2>4. createGame(g, saved)
    BY <1>8
  <2> HIDE DEF g
  <2>5. /\ game' \in GameType /\ GoodBoard(game'.board, boards + 1) /\ game'.board # NoBoard
        /\ SameBoard(game'.board, NewBoard) /\ game'.madeBy = madeBy
        /\ GoodSaved(saved', boards + 1) /\ KnowsFile(saved')
        /\ game'.board = [NewBoard EXCEPT !.points = 0] /\ game'.rules = rules /\ game'.players = players
        /\ \/ saved'.file = saved.file
           \/ saved'.file = game'.board /\ isDefaultGame(g) /\ rules = "Default"
    BY <1>8, <2>1, <2>2, <2>3, <2>4, createGameParts
  <2>6. closed' = NoBoard
    BY <1>7, <1>8, <2>1, <2>5 DEF SameBoard
  <2>7. game'.board = [NoBoard EXCEPT !.id = boards + 1] /\ game'.board.id = boards + 1
    <3>1. NoBoard \in Board /\ NoBoard.points = 0
      BY NoBoardGood DEF GoodBoard, NoBoard
    <3> QED BY <2>5, <3>1 DEF NewBoard, Board
  <2>8. saved.file.id # boards + 1
    <3>1. saved.file.id <= boards /\ saved.file.id \in Nat
      BY <1>0 DEF GoodSaved, GoodBoard, Board
    <3> QED BY <1>0, <3>1
  <2>9. isDefaultGame(g) => madeBy = "local" /\ Len(players) = 1
    BY <1>8, <2>2 DEF isDefaultGame
  <2>10. OnlyStartSaved(game', saved')
    BY <2>5, <2>7, <2>8, <2>9 DEF OnlyStartSaved, SavedAtStart
  <2> QED BY <1>1, <1>8, <2>3, <2>5, <2>6, <2>10
\* The player of the game goes on with another board: what is saved of it is cleared.
<1>9. ASSUME running, running', NEW b, NEW n \in Nat, boards <= n, boards' = n, GoodBoard(b, n), b # NoBoard,
             game' = [game EXCEPT !.board = b], saved' = clearedBy(game, saved),
             closed' = NoBoard, b.id \in {game.board.id, boards + 1}
      PROVE  SavedInv'
  <2>1. game' \in GameType /\ game'.board = b /\ game'.madeBy = game.madeBy
    BY <1>0, <1>9 DEF GameType, GoodBoard
  <2>2. GoodSaved(saved, n) /\ KnowsFile(saved)
    BY <1>0, <1>9, LaterGood DEF GoodSaved, SavedInv
  <2>3. /\ GoodSaved(saved', n) /\ KnowsFile(saved') /\ (game.madeBy = "default" => saved'.file = NoBoard)
        /\ game.madeBy # "default" => saved' = saved
    BY <1>9, <2>2, clearedByParts
  <2>4. game'.players = game.players /\ game'.rules = game.rules
    BY <1>0, <1>9 DEF GameType
  <2>5. saved.file.id # boards + 1
    <3>1. saved.file.id <= boards /\ saved.file.id \in Nat
      BY <1>0 DEF GoodSaved, GoodBoard, Board
    <3> QED BY <1>0, <3>1
  <2>6. OnlyStartSaved(game, saved)
    BY <1>9 DEF SavedInv
  <2>7. OnlyStartSaved(game', saved')
    BY <1>9, <2>1, <2>3, <2>4, <2>5, <2>6 DEF OnlyStartSaved, SavedAtStart
  <2> QED BY <1>1, <1>9, <2>1, <2>2, <2>3, <2>7
<1>10. ASSUME running, running', restartGame, Plays PROVE SavedInv'
  <2>1. CASE controller.inside
    BY <1>2, <1>10, <2>1 DEF restartGame, gameVars
  <2>2. CASE ~controller.inside
    <3>1. game' = [game EXCEPT !.board = NewBoard] /\ boards' = boards + 1 /\ saved' = clearedBy(game, saved)
      BY <1>10, <2>2 DEF restartGame
    <3>2. GoodBoard(NewBoard, boards + 1) /\ NewBoard # NoBoard /\ NewBoard.id = boards + 1
      BY <1>0, NewBoardGood
    <3>3. game'.board = NewBoard
      BY <1>0, <3>1 DEF GameType
    <3>4. closed' = NoBoard
      BY <1>7, <1>10, <3>1, <3>2, <3>3
    <3>5. boards <= boards + 1 /\ boards + 1 \in Nat
      BY <1>0
    <3> QED BY <1>9, <1>10, <3>1, <3>2, <3>4, <3>5
  <2> QED BY <2>1, <2>2
<1>11. ASSUME running, running', Move, UNCHANGED boards, Plays PROVE SavedInv'
  <2>1. PICK over \in BOOLEAN, row \in 0 .. 1 :
          game' = [game EXCEPT !.board = [game.board EXCEPT !.moves = @ + 1, !.points = @ + row, !.over = over]]
    BY <1>11 DEF Move
  <2> DEFINE moves == game.board.moves + 1
             points == game.board.points + row
             b == [game.board EXCEPT !.moves = moves, !.points = points, !.over = over]
  <2>2. game.board \in Board /\ game.board.points <= game.board.moves /\ game.board.id <= boards
        /\ game.board.id >= 1 /\ game.board.moves < MaxMoves
    BY <1>0, <1>11 DEF SavedInv, GoodBoard, Move
  <2>8. moves \in 0 .. MaxMoves /\ points \in 0 .. MaxMoves /\ points <= moves /\ moves # game.board.moves
    BY <2>2, MaxMovesAssumption DEF Board
  <2>4. game' = [game EXCEPT !.board = b]
    BY <2>1
  <2> HIDE DEF moves, points
  <2>3. /\ b \in Board /\ b.points <= b.moves /\ b.id = game.board.id /\ b.moves # game.board.moves
    BY <2>2, <2>8 DEF Board
  <2> HIDE DEF b
  <2>5. GoodBoard(b, boards) /\ b # NoBoard /\ b # game.board
    BY <1>0, <2>2, <2>3 DEF GoodBoard, Board
  <2>6. game' # game
    BY <1>0, <2>4, <2>5 DEF GameType
  <2>7. closed' = NoBoard /\ saved' = clearedBy(game, saved) /\ boards <= boards
    BY <1>0, <1>11, <2>6 DEF Plays, Move
  <2> QED BY <1>0, <1>9, <1>11, <2>3, <2>4, <2>5, <2>7
<1>12. CASE Frame /\ Plays
  <2>1. running /\ running' /\ UNCHANGED boards
    BY <1>12 DEF Frame
  <2>2. Move \/ UNCHANGED gameVars
    BY <1>12 DEF Frame, gameVars
  <2> QED BY <1>2, <1>11, <1>12, <2>1, <2>2
<1> DEFINE Command == \E command : Does(command)
<1>13. ASSUME Command PROVE running /\ running'
  BY <1>13 DEF Does
<1>14. CASE Keys /\ Plays
  <2>1. Command
    BY <1>14, Zenon DEF Keys
  <2>2. running /\ running'
    BY <1>13, <2>1
  <2> QED BY <1>2, <1>6, <1>10, <1>14, <2>2 DEF Keys
<1>15. CASE Menu /\ Plays
  <2>1. Command
    BY <1>15, Zenon DEF Menu
  <2>2. running /\ running'
    BY <1>13, <2>1
  <2>3. createDefaultGame(TRUE) \/ UNCHANGED gameVars
    BY <1>15 DEF Menu, ShowsPopUp
  <2> QED BY <1>2, <1>6, <1>15, <2>2, <2>3
<1>16. CASE ResumeButton /\ Plays
  BY <1>6, <1>16 DEF ResumeButton, Does
<1>17. CASE PopUp /\ Plays
  <2>1. Command
    BY <1>17, Zenon DEF PopUp, CancelButton, CreateGameRoomButton, JoinGameRoomButton
  <2> QED BY <1>2, <1>13, <1>17, <2>1 DEF PopUp
<1>18. CASE Lobby /\ Plays
  <2>1. Command
    BY <1>18, Zenon DEF Lobby
  <2>2. running /\ running'
    BY <1>13, <2>1
  <2> DEFINE players == SelectIn(lobby.slots, Human \cup {"Ai"})
  <2>3. UNCHANGED gameVars \/ \E rules \in {"Default", "Survival"} : startLocalGame(players, rules)
    BY <1>18 DEF Lobby, OpenSlot, RemovePlayer, CreateGame
  <2>4. players \in Seq(PlayerKind)
    <3>1. lobby.slots \in Seq(PlayerSlot)
      BY ApplicationAssumption
    <3>2. players \in Seq(PlayerSlot \cap (Human \cup {"Ai"}))
      BY <3>1, SelectInParts
    <3>3. (PlayerSlot \cap (Human \cup {"Ai"})) \subseteq PlayerKind
      BY DEF PlayerKind
    <3> HIDE DEF players
    <3> QED BY <3>2, <3>3
  <2> HIDE DEF players
  <2>5. ASSUME NEW rules \in {"Default", "Survival"}, startLocalGame(players, rules) PROVE SavedInv'
    BY <1>8, <1>18, <2>2, <2>4, <2>5 DEF startLocalGame
  <2> QED BY <1>2, <1>18, <2>2, <2>3, <2>5
<1>19. CASE AddPlayer /\ Plays
  <2>1. Command
    BY <1>19, Zenon DEF AddPlayer
  <2> QED BY <1>2, <1>13, <1>19, <2>1 DEF AddPlayer
<1>20. CASE NetworkEvent /\ Plays
  <2>1. running /\ running'
    BY <1>20 DEF NetworkEvent, Told
  <2>2. CASE CreateGameEvent
    <3>1. PICK players \in RoomPlayers :
            createGame([players |-> players, rules |-> "Default", madeBy |-> "network", board |-> NewBoard], saved)
      BY <2>2 DEF CreateGameEvent
    <3>2. players \in Seq(PlayerKind)
      BY ApplicationAssumption
    <3> QED BY <1>8, <1>20, <2>1, <2>2, <3>1, <3>2 DEF CreateGameEvent
  <2>3. CASE RestartEvent
    <3>0. closed' = NoBoard /\ saved' = clearedBy(game, saved)
      BY <1>20, <2>3 DEF RestartEvent, Plays
    <3>1. game.board # NoBoard
      BY <2>1 DEF SavedInv
    <3>2. CASE game.madeBy = "network"
      <4>1. game' = [game EXCEPT !.board = NewBoard] /\ boards' = boards + 1
        BY <2>3, <3>2 DEF RestartEvent
      <4> QED BY <1>0, <1>9, <2>1, <3>0, <4>1, NewBoardGood
    <3>3. CASE game.madeBy # "network"
      <4> DEFINE b == [game.board EXCEPT !.points = 0]
      <4>1. game' = [game EXCEPT !.board = b] /\ boards' = boards
        BY <1>0, <2>3, <3>3 DEF RestartEvent, GameType
      <4>2. GoodBoard(b, boards) /\ b # NoBoard /\ b.id = game.board.id
        BY <1>0, <3>1, WithoutPoints DEF SameBoard
      <4>3. boards <= boards
        BY <1>0
      <4> HIDE DEF b
      <4> QED BY <1>0, <1>9, <2>1, <3>0, <4>1, <4>2, <4>3
    <3> QED BY <3>2, <3>3
  <2>4. CASE JoinGameRoomEvent \/ PlayerSlotEvent \/ LeaveGameRoomEvent \/ PauseEvent
    BY <1>2, <1>20, <2>1, <2>4 DEF JoinGameRoomEvent, PlayerSlotEvent, LeaveGameRoomEvent, PauseEvent
  <2> QED BY <1>20, <2>2, <2>3, <2>4 DEF NetworkEvent
<1>21. CASE GamepadEvent /\ Plays
  BY <1>2, <1>21 DEF GamepadEvent
<1>22. CASE UNCHANGED appVars
  BY <1>22 DEF appVars, SavedInv
<1> QED BY <1>3, <1>4, <1>5, <1>12, <1>14, <1>15, <1>16, <1>17, <1>18, <1>19, <1>20, <1>21, <1>22 DEF AppNext

-----------------------------------------------------------------------------
(* Devices *)

\* Every device can be given a gamepad of its kind that no other one has.  Those that are connected
\* have one, but the invariant needs it of all: a device whose gamepad is gone has the number of one
\* that has come back as another device.
EachCouldHaveOne ==
  \E f \in [DOMAIN pads -> Gamepad] :
    /\ \A i \in DOMAIN pads : Guid[f[i]] = pads[i].guid
    /\ \A i, j \in DOMAIN pads : f[i] = f[j] => i = j

DevicesInv ==
  /\ pads \in PadDevices
  /\ \A i \in DOMAIN pads : pads[i].guid = Guid[pads[i].gamePad]
  /\ \A i, j \in Connected(pads) : pads[i].gamePad = pads[j].gamePad => i = j
  /\ EachCouldHaveOne

PadDevice == [gamePad : Gamepad, guid : STRING, connected : BOOLEAN]

LEMMA GamepadsFinite == IsFiniteSet(Gamepad) /\ Cardinality(Gamepad) = Len(Guid) /\ Len(Guid) \in Nat
<1>1. Gamepad = 1 .. Len(Guid) /\ Len(Guid) \in Nat
  BY GuidAssumption DEF Gamepad
<1>2. ASSUME NEW n \in Nat PROVE IsFiniteSet(1 .. n) /\ Cardinality(1 .. n) = n
  BY FS_Interval
<1> QED BY <1>1, <1>2

\* The devices of a kind are no more than the gamepads of the kind.
LEMMA DevicesAgree == ASSUME DevicesInv PROVE OneDeviceEach(pads)
<1>1. PICK f \in [DOMAIN pads -> Gamepad] :
        /\ \A i \in DOMAIN pads : Guid[f[i]] = pads[i].guid
        /\ \A i, j \in DOMAIN pads : f[i] = f[j] => i = j
  BY DEF DevicesInv, EachCouldHaveOne
<1>2. ASSUME NEW i \in DOMAIN pads
      PROVE  Cardinality({j \in DOMAIN pads : pads[j].guid = pads[i].guid})
               <= Cardinality({p \in Gamepad : Guid[p] = pads[i].guid})
  <2> DEFINE D == {j \in DOMAIN pads : pads[j].guid = pads[i].guid}
             P == {p \in Gamepad : Guid[p] = pads[i].guid}
             g == [j \in D |-> f[j]]
  <2>1. IsFiniteSet(P)
    BY GamepadsFinite, FS_Subset
  <2>2. g \in [D -> P] /\ \A j, k \in D : g[j] = g[k] => j = k
    BY <1>1
  <2> HIDE DEF D, P, g
  <2>3. g \in Injection(D, P)
    BY <2>2 DEF Injection, IsInjective
  <2> QED BY <2>1, <2>3, FS_Injection DEF D, P
<1> QED BY <1>2 DEF OneDeviceEach, DevicesInv

\* There are no more devices than gamepads.
LEMMA DevicesBounded == ASSUME DevicesInv PROVE Len(pads) \in Nat /\ Len(pads) <= Len(Guid)
<1>1. PICK f \in [DOMAIN pads -> Gamepad] : \A i, j \in DOMAIN pads : f[i] = f[j] => i = j
  BY DEF DevicesInv, EachCouldHaveOne
<1>2. DOMAIN pads = 1 .. Len(pads) /\ Len(pads) \in Nat
  BY DEF DevicesInv, PadDevices
<1>3. f \in Injection(1 .. Len(pads), Gamepad)
  BY <1>1, <1>2 DEF Injection, IsInjective
<1>4. Cardinality(1 .. Len(pads)) <= Cardinality(Gamepad)
  BY <1>3, GamepadsFinite, FS_Injection
<1> QED BY <1>2, <1>4, GamepadsFinite, FS_Interval

LEMMA DevicesInit == ASSUME AppInit PROVE DevicesInv
<1>0. pads = << >>
  BY DEF AppInit
<1>1. pads \in PadDevices /\ DOMAIN pads = {}
  BY <1>0 DEF PadDevices
<1>2. [i \in {} |-> 0] \in [{} -> Gamepad]
  OBVIOUS
<1> QED BY <1>1, <1>2 DEF DevicesInv, EachCouldHaveOne, Connected

\* A gamepad that was connected is gone: the devices stay.
LEMMA RemovedGood ==
  ASSUME DevicesInv, NEW p \in Gamepad, pads' = controllerDeviceRemovedEvent(pads, p)
  PROVE  DevicesInv'
<1>1. pads \in Seq(PadDevice) /\ DOMAIN pads = 1 .. Len(pads) /\ Len(pads) \in Nat
  BY DEF DevicesInv, PadDevices, PadDevice
<1>2. pads' = [i \in DOMAIN pads |-> IF i \in Connected(pads) /\ pads[i].gamePad = p
                                      THEN [pads[i] EXCEPT !.connected = FALSE] ELSE pads[i]]
  BY DEF controllerDeviceRemovedEvent
<1>3. ASSUME NEW i \in DOMAIN pads
      PROVE  pads'[i] \in PadDevice /\ pads'[i].gamePad = pads[i].gamePad /\ pads'[i].guid = pads[i].guid
             /\ (pads'[i].connected => pads[i].connected)
  <2>1. pads[i] \in PadDevice
    BY <1>1
  <2>2. pads'[i] = [pads[i] EXCEPT !.connected = FALSE] \/ pads'[i] = pads[i]
    BY <1>2
  <2> QED BY <2>1, <2>2 DEF PadDevice
<1>4. DOMAIN pads' = DOMAIN pads /\ pads' \in Seq(PadDevice)
  BY <1>1, <1>2, <1>3
<1>5. Connected(pads') \subseteq Connected(pads) /\ Connected(pads) \subseteq DOMAIN pads
  BY <1>3, <1>4 DEF Connected
<1>6. \A i \in DOMAIN pads' : pads'[i].guid = Guid[pads'[i].gamePad]
  BY <1>3, <1>4 DEF DevicesInv
<1>7. \A i, j \in Connected(pads') : pads'[i].gamePad = pads'[j].gamePad => i = j
  BY <1>3, <1>5 DEF DevicesInv
<1>8. EachCouldHaveOne'
  BY <1>3, <1>4 DEF DevicesInv, EachCouldHaveOne
<1> QED BY <1>4, <1>6, <1>7, <1>8 DEF DevicesInv, PadDevices, PadDevice

\* A gamepad that comes takes over a device of its kind whose gamepad is gone, or is a new one.
LEMMA AddedGood ==
  ASSUME DevicesInv, NEW p \in Gamepad, p \notin {pads[i].gamePad : i \in Connected(pads)},
         pads' = controllerDeviceAddedEvent(pads, p)
  PROVE  DevicesInv'
<1> DEFINE lost == {i \in DOMAIN pads \ Connected(pads) : pads[i].guid = Guid[p]}
<1>1. pads \in Seq(PadDevice) /\ DOMAIN pads = 1 .. Len(pads) /\ Len(pads) \in Nat
  BY DEF DevicesInv, PadDevices, PadDevice
<1>2. Guid[p] \in STRING
  BY GuidAssumption DEF Gamepad
<1>3. CASE lost # {}
  <2> DEFINE k == Min(lost)
             device == [pads[k] EXCEPT !.gamePad = p, !.connected = TRUE]
  <2>1. lost \in SUBSET Nat
    BY <1>1
  <2>2. k \in lost
    <3> HIDE DEF lost
    <3>1. \E n \in lost : \A m \in lost : n <= m
      BY <1>3, <2>1, LeastExists
    <3> QED BY <3>1 DEF Min
  <2>3. pads' = [pads EXCEPT ![k] = device]
    BY <1>3 DEF controllerDeviceAddedEvent
  <2>4. k \in DOMAIN pads /\ pads[k].guid = Guid[p] /\ pads[k] \in PadDevice
    BY <1>1, <2>2
  <2> HIDE DEF k
  <2>5. device \in PadDevice /\ device.gamePad = p /\ device.guid = Guid[p] /\ device.connected
    BY <2>4 DEF PadDevice
  <2> HIDE DEF device, lost
  <2>6. /\ DOMAIN pads' = DOMAIN pads /\ pads'[k] = device
        /\ \A i \in DOMAIN pads : i # k => pads'[i] = pads[i]
    BY <2>3, <2>4
  <2>7. pads' \in Seq(PadDevice)
    BY <1>1, <2>3, <2>4, <2>5
  <2>8. \A i \in DOMAIN pads : pads'[i].guid = pads[i].guid
    BY <2>4, <2>5, <2>6
  <2>9. EachCouldHaveOne'
    BY <2>6, <2>8 DEF DevicesInv, EachCouldHaveOne
  <2>10. \A i \in DOMAIN pads' : pads'[i].guid = Guid[pads'[i].gamePad]
    BY <2>5, <2>6 DEF DevicesInv
  <2>11. \A i \in Connected(pads') : i = k \/ (i \in Connected(pads) /\ pads'[i] = pads[i])
    BY <2>6, Zenon DEF Connected
  <2>12. \A i, j \in Connected(pads') : pads'[i].gamePad = pads'[j].gamePad => i = j
    BY <2>5, <2>6, <2>11 DEF DevicesInv
  <2> QED BY <2>7, <2>9, <2>10, <2>12 DEF DevicesInv, PadDevices, PadDevice
<1>4. CASE lost = {}
  <2> DEFINE device == [gamePad |-> p, guid |-> Guid[p], connected |-> TRUE]
             new == Len(pads) + 1
  <2>1. pads' = Append(pads, device)
    BY <1>4 DEF controllerDeviceAddedEvent
  <2>2. device \in PadDevice /\ device.gamePad = p /\ device.guid = Guid[p] /\ device.connected
    BY <1>2 DEF PadDevice
  <2> HIDE DEF device
  <2>3. /\ pads' \in Seq(PadDevice) /\ DOMAIN pads' = DOMAIN pads \cup {new} /\ new \notin DOMAIN pads
        /\ pads'[new] = device
        /\ \A i \in DOMAIN pads : pads'[i] = pads[i]
    BY <1>1, <2>1, <2>2
  <2> HIDE DEF new
  \* Those of the kind of p are connected: they keep their gamepads, and the others what they could have.
  <2>4. EachCouldHaveOne'
    <3>1. PICK f \in [DOMAIN pads -> Gamepad] :
            /\ \A i \in DOMAIN pads : Guid[f[i]] = pads[i].guid
            /\ \A i, j \in DOMAIN pads : f[i] = f[j] => i = j
      BY DEF DevicesInv, EachCouldHaveOne
    <3> DEFINE g == [i \in DOMAIN pads' |-> IF i = new THEN p
                                            ELSE IF pads[i].guid = Guid[p] THEN pads[i].gamePad ELSE f[i]]
    <3>2. ASSUME NEW i \in DOMAIN pads, pads[i].guid = Guid[p] PROVE i \in Connected(pads)
      <4>1. i \notin Connected(pads) => i \in lost
        BY <3>2
      <4> QED BY <1>4, <4>1
    <3>3. \A i \in DOMAIN pads : pads[i].gamePad \in Gamepad /\ pads[i].guid = Guid[pads[i].gamePad]
      <4>1. \A i \in DOMAIN pads : pads[i] \in PadDevice
        BY <1>1
      <4>2. \A i \in DOMAIN pads : pads[i].gamePad \in Gamepad
        BY <4>1 DEF PadDevice
      <4> QED BY <4>2 DEF DevicesInv
    <3>4. g[new] = p /\ \A i \in DOMAIN pads :
            g[i] = IF pads[i].guid = Guid[p] THEN pads[i].gamePad ELSE f[i]
      BY <2>3
    <3>5. g \in [DOMAIN pads' -> Gamepad]
      BY <2>3, <3>3
    <3> HIDE DEF g
    <3>6. \A i \in DOMAIN pads' : Guid[g[i]] = pads'[i].guid
      BY <2>2, <2>3, <3>1, <3>3, <3>4
    <3>7. ASSUME NEW i \in DOMAIN pads, NEW j \in DOMAIN pads, g[i] = g[j] PROVE i = j
      <4>1. pads[i].guid = pads[j].guid
        BY <2>3, <3>6, <3>7
      <4>2. CASE pads[i].guid = Guid[p]
        BY <3>2, <3>4, <3>7, <4>1, <4>2 DEF DevicesInv
      <4>3. CASE pads[i].guid # Guid[p]
        BY <3>1, <3>4, <3>7, <4>1, <4>3
      <4> QED BY <4>2, <4>3
    <3>8. ASSUME NEW i \in DOMAIN pads PROVE g[i] # p
      <4>1. CASE pads[i].guid = Guid[p]
        BY <3>2, <3>4, <4>1
      <4>2. CASE pads[i].guid # Guid[p]
        BY <3>1, <3>4, <4>2
      <4> QED BY <4>1, <4>2
    <3>9. \A i, j \in DOMAIN pads' : g[i] = g[j] => i = j
      BY <2>3, <3>4, <3>7, <3>8
    <3> QED BY <3>5, <3>6, <3>9 DEF EachCouldHaveOne
  <2>5. \A i \in DOMAIN pads' : pads'[i].guid = Guid[pads'[i].gamePad]
    BY <2>2, <2>3 DEF DevicesInv
  <2>6. \A i \in Connected(pads') : i = new \/ (i \in Connected(pads) /\ pads'[i] = pads[i])
    BY <2>3, Zenon DEF Connected
  <2>7. \A i, j \in Connected(pads') : pads'[i].gamePad = pads'[j].gamePad => i = j
    BY <2>2, <2>3, <2>6 DEF DevicesInv
  <2> QED BY <2>3, <2>4, <2>5, <2>7 DEF DevicesInv, PadDevices, PadDevice
<1> QED BY <1>3, <1>4

LEMMA DevicesStep ==
  ASSUME DevicesInv, [AppNext]_appVars
  PROVE  DevicesInv'
<1>1. ASSUME UNCHANGED pads PROVE DevicesInv'
  BY <1>1 DEF DevicesInv, EachCouldHaveOne
<1>2. CASE GamepadEvent
  <2>1. PICK p \in Gamepad :
          pads' = IF p \in {pads[i].gamePad : i \in Connected(pads)}
                    THEN controllerDeviceRemovedEvent(pads, p) ELSE controllerDeviceAddedEvent(pads, p)
    BY <1>2 DEF GamepadEvent
  <2> QED BY <2>1, RemovedGood, AddedGood
<1>3. CASE Quit \/ Crash
  <2>0. pads' = << >>
    BY <1>3 DEF Quit, Crash, Ended
  <2>1. pads' \in PadDevices /\ DOMAIN pads' = {}
    BY <2>0 DEF PadDevices
  <2>2. [i \in {} |-> 0] \in [{} -> Gamepad]
    OBVIOUS
  <2> QED BY <2>1, <2>2 DEF DevicesInv, EachCouldHaveOne, Connected
<1>4. CASE \E command : Does(command)
  BY <1>1, <1>4 DEF Does
<1>5. CASE Start \/ Frame \/ Told \/ UNCHANGED appVars
  BY <1>1, <1>5 DEF Start, Frame, Told, appVars
<1>6. Keys \/ Menu \/ ResumeButton \/ PopUp \/ Lobby \/ AddPlayer => \E command : Does(command)
  BY Zenon DEF Keys, Menu, ResumeButton, PopUp, CancelButton, CreateGameRoomButton, JoinGameRoomButton,
               Lobby, AddPlayer
<1> QED BY <1>2, <1>3, <1>4, <1>5, <1>6 DEF AppNext, NetworkEvent

-----------------------------------------------------------------------------
(* The lobby *)

LobbyType == [slots : [1 .. Slots -> PlayerSlot], index : 0 .. Slots, player : PlayerSlot, devices : Seq(Human)]

\* All have a device, and no two places have the same.
OneEach(seq) ==
  /\ \A i \in DOMAIN seq : seq[i] # "no device"
  /\ \A i, j \in DOMAIN seq : seq[i] = seq[j] /\ seq[i] \in Human => i = j

\* A player that can be added to the slots.
Free(slots, d) == d \in PlayerKind /\ d # "no device" /\ d \notin getUsedDevices(slots)

\* In a lobby outside of a room nobody shares a device, and the popup offers what nobody has.
SlotsInv ==
  /\ lobby \in LobbyType
  /\ controller.gameRoomType = "LocalGameRoomLooby" =>
       /\ OneEach(lobby.slots)
       /\ lobby.index # 0 => \A d \in Range(lobby.devices) \cup {lobby.player} : Free(lobby.slots, d)

\* Nor do the players of a game that was started there share one.
PlayersInv == game.madeBy = "local" => OneEach(game.players)

LobbyInv == SlotsInv /\ PlayersInv

LEMMA NobodyShares == ASSUME DevicesInv, LobbyInv PROVE NobodySharesADevice
<1>1. OneDeviceEach(pads)
  BY DevicesAgree
<1>2. game.madeBy = "local" => "no device" \notin Range(game.players)
  BY DEF LobbyInv, PlayersInv, OneEach, Range
<1> QED BY <1>1, <1>2 DEF NobodySharesADevice, LobbyInv, PlayersInv, OneEach

\* What a human plays with.
Device == {"Keyboard 1", "Keyboard 2"} \cup Range(PadNames)

LEMMA Kinds ==
  /\ Range(PadNames) = {"Gamepad 1", "Gamepad 2", "Gamepad 3"}
  /\ Human = Device \cup {"no device"} /\ "no device" \notin Device
  /\ "Ai" \notin Human /\ "Open" \notin Human /\ "Remote" \notin Human
  /\ Human \subseteq PlayerKind /\ PlayerKind \subseteq PlayerSlot
  /\ "Ai" \in PlayerKind /\ "Open" \in PlayerSlot /\ "Open" \notin PlayerKind
<1>1. Range(PadNames) = {"Gamepad 1", "Gamepad 2", "Gamepad 3"}
  <2>1. /\ DOMAIN PadNames = {1, 2, 3}
        /\ PadNames[1] = "Gamepad 1" /\ PadNames[2] = "Gamepad 2" /\ PadNames[3] = "Gamepad 3"
    BY DEF PadNames
  <2> QED BY <2>1 DEF Range
<1> QED BY <1>1 DEF Human, PlayerKind, PlayerSlot, Device

LEMMA AllDevices == ASSUME DevicesInv PROVE getAllDevicesAvailable(pads) \in Seq(Device)
<1>1. Len(pads) \in Nat /\ Len(pads) <= 3
  BY DevicesBounded, GuidAssumption DEF PadNames
<1>2. PadNames \in Seq(Device) /\ Len(PadNames) = 3
  <2>1. "Gamepad 1" \in Device /\ "Gamepad 2" \in Device /\ "Gamepad 3" \in Device
    BY Kinds DEF Device
  <2>2. ASSUME NEW D, NEW a \in D, NEW b \in D, NEW c \in D
        PROVE  <<a, b, c>> \in Seq(D) /\ Len(<<a, b, c>>) = 3
    OBVIOUS
  <2> QED BY <2>1, <2>2 DEF PadNames
<1>3. SubSeq(PadNames, 1, Len(pads)) \in Seq(Device)
  BY <1>1, <1>2
<1>4. <<"Keyboard 1", "Keyboard 2">> \in Seq(Device)
  BY DEF Device
<1>5. ASSUME NEW a \in Seq(Device), NEW b \in Seq(Device) PROVE a \o b \in Seq(Device)
  BY <1>5
<1> QED BY <1>3, <1>4, <1>5 DEF getAllDevicesAvailable

\* Those that are offered: none of them is used.
LEMMA FreeDevicesParts ==
  ASSUME DevicesInv, NEW slots
  PROVE  FreeDevices(slots) \in Seq(Device \ getUsedDevices(slots))
<1> DEFINE all == getAllDevicesAvailable(pads)
           S == Human \ getUsedDevices(slots)
<1>1. all \in Seq(Device)
  BY AllDevices
<1>2. SelectIn(all, S) \in Seq(Device \cap S)
  BY <1>1, SelectInParts
<1>3. (Device \cap S) = Device \ getUsedDevices(slots)
  BY Kinds
<1> QED BY <1>2, <1>3 DEF FreeDevices

LEMMA AllOpenGood == AllOpen \in [1 .. Slots -> PlayerSlot] /\ OneEach(AllOpen)
BY Kinds DEF AllOpen, OneEach

LEMMA LobbyInit == ASSUME AppInit PROVE LobbyInv
<1>1. << >> \in Seq(Human) /\ 0 \in 0 .. Slots
  BY ApplicationAssumption
<1>2. NewLobby \in LobbyType
  BY <1>1, AllOpenGood, Kinds DEF NewLobby, LobbyType
<1>3. lobby = NewLobby /\ controller.gameRoomType = "OutsideGameRoom" /\ game.madeBy = "default"
  BY DEF AppInit
<1> QED BY <1>2, <1>3 DEF LobbyInv, SlotsInv, PlayersInv

\* A lobby that comes into view has open slots, and no popup.
LEMMA lobbyAfterParts ==
  ASSUME lobby \in LobbyType, NEW type \in GameRoomType
  PROVE  /\ lobbyAfter(type) \in LobbyType
         /\ SceneOf(type) = "GameRoomLooby" /\ window.main # "GameRoomLooby" =>
              lobbyAfter(type).slots = AllOpen /\ lobbyAfter(type).index = 0
<1>1. 0 \in 0 .. Slots
  BY ApplicationAssumption
<1>2. [lobby EXCEPT !.index = 0] \in LobbyType
  BY <1>1 DEF LobbyType
<1>3. LET l == [lobby EXCEPT !.slots = AllOpen, !.index = 0] IN l \in LobbyType /\ l.slots = AllOpen /\ l.index = 0
  BY <1>1, AllOpenGood DEF LobbyType
<1>4. CASE SceneOf(type) = window.main
  BY <1>4 DEF lobbyAfter
<1>5. CASE SceneOf(type) # window.main /\ SceneOf(type) # "GameRoomLooby"
  BY <1>2, <1>5 DEF lobbyAfter
<1>6. CASE SceneOf(type) # window.main /\ SceneOf(type) = "GameRoomLooby"
  BY <1>3, <1>6 DEF lobbyAfter
<1> QED BY <1>4, <1>5, <1>6

\* Who is selected among players with a device each has a device of its own as well.
LEMMA SelectedHaveOneEach ==
  ASSUME NEW slots \in Seq(PlayerSlot), NEW S, OneEach(slots)
  PROVE  OneEach(SelectIn(slots, S))
<1>1. EachFromItsPlace(SelectIn(slots, S), slots)
  BY SelectInParts
<1>2. SelectIn(slots, S) \in Seq(PlayerSlot \cap S)
  BY SelectInParts
<1> DEFINE players == SelectIn(slots, S)
<1>3. DOMAIN players = 1 .. Len(players)
  <2> HIDE DEF players
  <2>1. players \in Seq(PlayerSlot \cap S)
    BY <1>2 DEF players
  <2> QED BY <2>1
<1>4. PICK from \in [DOMAIN players -> DOMAIN slots] :
        /\ \A n \in DOMAIN players : players[n] = slots[from[n]]
        /\ \A n, m \in DOMAIN players : from[n] = from[m] => n = m
  BY <1>1, <1>3 DEF EachFromItsPlace
<1> HIDE DEF players
<1>5. \A i \in DOMAIN players : players[i] # "no device"
  BY <1>4 DEF OneEach
<1>6. ASSUME NEW i \in DOMAIN players, NEW j \in DOMAIN players, players[i] = players[j], players[i] \in Human
      PROVE  i = j
  <2>1. from[i] \in DOMAIN slots /\ from[j] \in DOMAIN slots
    BY <1>4
  <2>2. slots[from[i]] = slots[from[j]] /\ slots[from[i]] \in Human
    BY <1>4, <1>6
  <2>3. from[i] = from[j]
    BY <2>1, <2>2 DEF OneEach
  <2> QED BY <1>4, <2>3
<1>7. OneEach(players)
  BY <1>5, <1>6 DEF OneEach
<1> QED BY <1>7 DEF players

\* Who plays a game that is started here is who was in the lobby.
LEMMA PlayersStep ==
  ASSUME ScenesInv, SavedInv, LobbyInv, [AppNext]_appVars
  PROVE  PlayersInv'
<1> DEFINE Fine == game'.madeBy = "local" => OneEach(game'.players)
<1> SUFFICES Fine
  BY DEF PlayersInv
<1>0. boards \in Nat /\ game \in GameType /\ GoodSaved(saved, boards) /\ lobby \in LobbyType
  BY DEF SavedInv, LobbyInv, SlotsInv
<1>1. ASSUME game'.players = game.players, game'.madeBy = game.madeBy PROVE Fine
  BY <1>1 DEF LobbyInv, SlotsInv, PlayersInv
<1>2. ASSUME NEW b, game' = [game EXCEPT !.board = b] PROVE Fine
  BY <1>0, <1>1, <1>2 DEF GameType
<1>3. ASSUME NEW s, GoodSaved(s, boards), KnowsFile(s) \/ s.cached = NothingCached, loadDefaultGame(s) PROVE Fine
  BY <1>0, <1>3, loadDefaultGameParts
<1>4. ASSUME running, NEW clicked, createDefaultGame(clicked) PROVE Fine
  BY <1>0, <1>3, <1>4 DEF createDefaultGame, SavedInv
<1>5. ASSUME running, NEW players \in Seq(PlayerKind), NEW rules \in {"Default", "Survival"},
             NEW madeBy \in {"local", "network"},
             createGame([players |-> players, rules |-> rules, madeBy |-> madeBy, board |-> NewBoard], saved)
      PROVE  game'.players = players /\ game'.madeBy = madeBy
  <2> DEFINE g == [players |-> players, rules |-> rules, madeBy |-> madeBy, board |-> NewBoard]
  <2>1. GoodBoard(NewBoard, boards + 1) /\ NewBoard # NoBoard
    BY <1>0, NewBoardGood
  <2>2. g \in GameType /\ g.board = NewBoard /\ g.madeBy = madeBy /\ g.players = players
    BY <1>5, <2>1 DEF GameType, GoodBoard
  <2>3. GoodSaved(saved, boards + 1) /\ boards + 1 \in Nat
    BY <1>0, LaterGood DEF GoodSaved
  <2>4. createGame(g, saved)
    BY <1>5
  <2> HIDE DEF g
  <2> QED BY <2>1, <2>2, <2>3, <2>4, createGameParts
<1>6. CASE Start
  <2> DEFINE s == [saved EXCEPT !.cached = NothingCached]
  <2>1. NothingCached \in CachedGame /\ NothingCached.board = NoBoard
    BY NoBoardGood DEF NothingCached, CachedGame, GoodBoard
  <2>2. GoodSaved(s, boards) /\ s.cached = NothingCached /\ loadDefaultGame(s)
    BY <1>0, <1>6, <2>1, NoBoardGood DEF GoodSaved, SavedType, Start
  <2> HIDE DEF s
  <2> QED BY <1>3, <2>2
<1>7. CASE Quit \/ Crash
  BY <1>1, <1>7 DEF Quit, Crash, Ended
<1>8. CASE Frame
  <2>1. Move \/ UNCHANGED game
    BY <1>8 DEF Frame
  <2>2. ASSUME Move PROVE \E b : game' = [game EXCEPT !.board = b]
    BY <2>2 DEF Move
  <2> QED BY <1>1, <1>2, <2>1, <2>2
<1>9. CASE Keys
  <2>1. restartGame => UNCHANGED game \/ game' = [game EXCEPT !.board = NewBoard]
    BY DEF restartGame
  <2> QED BY <1>1, <1>2, <1>4, <1>9, <2>1 DEF Keys, Does, gameVars
<1>10. CASE Menu
  <2>1. running
    BY <1>10 DEF Menu, Does
  <2>2. createDefaultGame(TRUE) \/ UNCHANGED game
    BY <1>10 DEF Menu, ShowsPopUp, gameVars
  <2> QED BY <1>1, <1>4, <2>1, <2>2
<1>11. CASE ResumeButton
  BY <1>4, <1>11 DEF ResumeButton, Does
<1>12. CASE PopUp \/ AddPlayer \/ GamepadEvent \/ UNCHANGED appVars
  BY <1>1, <1>12 DEF PopUp, AddPlayer, GamepadEvent, gameVars, appVars
<1>13. CASE Lobby
  <2> DEFINE S == Human \cup {"Ai"}
             players == SelectIn(lobby.slots, S)
  <2>1. \/ UNCHANGED game
        \/ ~controller.inside /\ \E rules \in {"Default", "Survival"} : startLocalGame(players, rules)
    BY <1>13 DEF Lobby, OpenSlot, RemovePlayer, CreateGame, gameVars
  <2>2. running /\ window.main = "GameRoomLooby"
    BY <1>13 DEF Lobby, Does
  <2>3. lobby.slots \in Seq(PlayerSlot) /\ DOMAIN lobby.slots = 1 .. Slots
    BY <1>0, ApplicationAssumption DEF LobbyType
  <2>5. players \in Seq(PlayerKind)
    <3>1. (PlayerSlot \cap S) \subseteq PlayerKind
      BY DEF PlayerKind
    <3>2. SelectIn(lobby.slots, S) \in Seq(PlayerSlot \cap S)
      <4> HIDE DEF S
      <4> QED BY <2>3, SelectInParts
    <3> HIDE DEF S
    <3> QED BY <3>1, <3>2
  <2>6. ASSUME ~controller.inside PROVE OneEach(players)
    <3>1. controller.gameRoomType = "LocalGameRoomLooby"
      BY <2>2, <2>6 DEF ScenesInv, MainOf
    <3>2. OneEach(lobby.slots)
      BY <3>1 DEF LobbyInv, SlotsInv, PlayersInv
    <3> HIDE DEF S
    <3> QED BY <2>3, <3>2, SelectedHaveOneEach
  <2> HIDE DEF players
  <2>7. ASSUME ~controller.inside, NEW rules \in {"Default", "Survival"}, startLocalGame(players, rules)
        PROVE  Fine
    <3>1. createGame([players |-> players, rules |-> rules, madeBy |-> "local", board |-> NewBoard], saved)
      BY <2>7 DEF startLocalGame
    <3>2. game'.players = players
      BY <1>5, <2>2, <2>5, <3>1
    <3> QED BY <2>6, <2>7, <3>2
  <2> QED BY <1>1, <2>1, <2>7
<1>14. CASE NetworkEvent
  <2>1. running
    BY <1>14 DEF NetworkEvent, Told
  <2>2. CASE CreateGameEvent
    <3>1. PICK players \in RoomPlayers :
            createGame([players |-> players, rules |-> "Default", madeBy |-> "network", board |-> NewBoard], saved)
      BY <2>2 DEF CreateGameEvent
    <3>2. players \in Seq(PlayerKind)
      BY ApplicationAssumption
    <3> QED BY <1>5, <2>1, <3>1, <3>2
  <2>3. CASE RestartEvent
    <3> DEFINE b == IF game.madeBy = "network" THEN NewBoard ELSE [game.board EXCEPT !.points = 0]
    <3>1. game' = [game EXCEPT !.board = b]
      BY <2>3 DEF RestartEvent
    <3> HIDE DEF b
    <3> QED BY <1>2, <3>1
  <2>4. CASE JoinGameRoomEvent \/ PlayerSlotEvent \/ LeaveGameRoomEvent \/ PauseEvent
    BY <1>1, <2>4 DEF JoinGameRoomEvent, PlayerSlotEvent, LeaveGameRoomEvent, PauseEvent, gameVars
  <2> QED BY <1>14, <2>2, <2>3, <2>4 DEF NetworkEvent
<1> QED BY <1>6, <1>7, <1>8, <1>9, <1>10, <1>11, <1>12, <1>13, <1>14 DEF AppNext

LEMMA SlotsStep ==
  ASSUME ScenesInv, DevicesInv, SlotsInv, [AppNext]_appVars
  PROVE  SlotsInv'
<1> DEFINE type == controller.gameRoomType
           Offers(l) == l.index # 0 => \A d \in Range(l.devices) \cup {l.player} : Free(l.slots, d)
           Fine(l) == OneEach(l.slots) /\ Offers(l)
           LobbyFine == lobby' \in LobbyType /\ (type' = "LocalGameRoomLooby" => Fine(lobby'))
<1> SUFFICES LobbyFine
  BY DEF SlotsInv
<1>0. lobby \in LobbyType /\ type \in GameRoomType /\ Slots \in Nat
  BY ApplicationAssumption DEF SlotsInv, ScenesInv
<1>1. ASSUME UNCHANGED lobby, type' = type \/ type' # "LocalGameRoomLooby" PROVE LobbyFine
  BY <1>1 DEF SlotsInv
<1>2. ASSUME NEW t \in GameRoomType, t # "NetworkWaitingCreateGameRoom", lobby' = lobbyAfter(t), type' = t,
             t = "LocalGameRoomLooby" => window.main # "GameRoomLooby"
      PROVE  LobbyFine
  <2>1. lobby' \in LobbyType
    BY <1>0, <1>2, lobbyAfterParts
  <2>2. CASE t = "LocalGameRoomLooby"
    <3>1. SceneOf(t) = "GameRoomLooby"
      BY <2>2 DEF SceneOf
    <3>2. lobby'.slots = AllOpen /\ lobby'.index = 0
      BY <1>0, <1>2, <2>2, <3>1, lobbyAfterParts
    <3> QED BY <2>1, <3>2, AllOpenGood
  <2> QED BY <1>2, <2>1, <2>2
<1>3. ASSUME NEW clicked, GameSessionHere(clicked) PROVE LobbyFine
  <2>1. lobby' = lobbyAfter("GameSession") /\ type' = "GameSession"
    BY <1>3 DEF GameSessionHere, ScenesInv
  <2> QED BY <1>2, <2>1 DEF GameRoomType
<1>4. ASSUME NEW clicked, NEW t \in GameRoomType, t # "NetworkWaitingCreateGameRoom",
             setGameRoomType(t, clicked), t = "LocalGameRoomLooby" => window.main # "GameRoomLooby"
      PROVE  LobbyFine
  <2>1. lobby' = lobbyAfter(t) /\ type' = t
    BY <1>4 DEF setGameRoomType, ScenesInv
  <2> QED BY <1>2, <1>4, <2>1
<1>5. CASE Start
  <2>1. type' = "GameSession" /\ UNCHANGED lobby
    BY <1>5 DEF Start, ScenesInv
  <2> QED BY <1>1, <2>1
<1>6. CASE Quit \/ Crash
  <2>1. lobby' = NewLobby /\ type' = "OutsideGameRoom"
    BY <1>6 DEF Quit, Crash, Ended
  <2>2. << >> \in Seq(Human) /\ 0 \in 0 .. Slots
    BY <1>0
  <2>3. NewLobby \in LobbyType
    BY <2>2, AllOpenGood, Kinds DEF NewLobby, LobbyType
  <2> QED BY <2>1, <2>3
<1>7. CASE Frame \/ GamepadEvent \/ UNCHANGED appVars
  BY <1>1, <1>7 DEF Frame, GamepadEvent, appVars
<1>8. CASE Keys
  BY <1>1, <1>3, <1>8 DEF Keys, createDefaultGame
<1>9. CASE Menu
  <2>1. CASE createDefaultGame(TRUE)
    BY <1>3, <2>1 DEF createDefaultGame
  <2>2. CASE ~isGameRoomSession /\ setGameRoomType("LocalGameRoomLooby", TRUE)
    <3>1. window.main # "GameRoomLooby"
      BY <1>0, <2>2 DEF isGameRoomSession, ScenesInv, MainOf, GameRoomType
    <3> QED BY <1>4, <2>2, <3>1 DEF GameRoomType
  <2>3. CASE \E scene : ShowsPopUp(scene)
    BY <1>1, <2>3 DEF ShowsPopUp
  <2>4. CASE controller' = [controller EXCEPT !.asked = @ \cup {"leave"}] /\ UNCHANGED lobby
    BY <1>1, <2>4 DEF ScenesInv
  <2>5. CASE setGameRoomType("OutsideGameRoom", TRUE)
    BY <1>4, <2>5 DEF GameRoomType
  <2> QED BY <1>9, <2>1, <2>2, <2>3, <2>4, <2>5 DEF Menu
<1>10. CASE ResumeButton
  BY <1>3, <1>10 DEF ResumeButton, createDefaultGame
<1>11. CASE PopUp
  <2>1. UNCHANGED lobby /\ (type' = type \/ type' = "NetworkWaitingCreateGameRoom")
    BY <1>11 DEF PopUp, CancelButton, CreateGameRoomButton, JoinGameRoomButton, ScenesInv
  <2> QED BY <1>1, <2>1
<1>12. CASE Lobby
  <2>1. lobby.index = 0
    BY <1>12 DEF Lobby, Uncovered
  <2>2. ASSUME NEW i \in 1 .. Slots, OpenSlot(i) PROVE LobbyFine
    <3> DEFINE free == FreeDevices(lobby.slots)
               player == IF free = << >> THEN "Ai" ELSE free[1]
    <3>1. lobby' = [lobby EXCEPT !.index = i, !.devices = free, !.player = player] /\ type' = type
      BY <2>2 DEF OpenSlot
    <3>2. free \in Seq(Device \ getUsedDevices(lobby.slots))
      BY FreeDevicesParts
    <3> HIDE DEF free
    <3>3. player = "Ai" \/ player \in Device \ getUsedDevices(lobby.slots)
      BY <3>2
    <3>4. player \in PlayerSlot /\ free \in Seq(Human) /\ i \in 0 .. Slots
      <4>1. (Device \ getUsedDevices(lobby.slots)) \subseteq Human
        BY Kinds
      <4>2. player \in PlayerSlot
        BY <3>3, <4>1, Kinds
      <4>3. i \in 0 .. Slots
        BY <1>0
      <4> QED BY <3>2, <4>1, <4>2, <4>3
    <3> HIDE DEF player
    <3>5. lobby' \in LobbyType /\ lobby'.slots = lobby.slots /\ lobby'.devices = free /\ lobby'.player = player
      BY <1>0, <3>1, <3>4 DEF LobbyType
    <3>6. \A d \in Range(free) \cup {player} : Free(lobby.slots, d)
      <4>1. \A d \in Range(free) : d \in Device \ getUsedDevices(lobby.slots)
        BY <3>2 DEF Range
      <4> QED BY <3>3, <4>1, Kinds DEF Free, getUsedDevices
    <3> QED BY <3>1, <3>5, <3>6 DEF SlotsInv
  <2>3. ASSUME NEW i \in 1 .. Slots, RemovePlayer(i) PROVE LobbyFine
    <3> DEFINE slots == [lobby.slots EXCEPT ![i] = "Open"]
    <3>1. lobby' = [lobby EXCEPT !.slots = slots] /\ type' = type
      BY <1>0, <2>3 DEF RemovePlayer, LobbyType
    <3>2. slots \in [1 .. Slots -> PlayerSlot]
      BY <1>0, Kinds DEF LobbyType
    <3>3. OneEach(lobby.slots) => OneEach(slots)
      BY <1>0, Kinds DEF LobbyType, OneEach
    <3> HIDE DEF slots
    <3>4. lobby' \in LobbyType /\ lobby'.slots = slots /\ lobby'.index = 0
      BY <1>0, <2>1, <3>1, <3>2 DEF LobbyType
    <3> QED BY <3>1, <3>3, <3>4 DEF SlotsInv
  <2>4. CASE CreateGame
    <3>1. UNCHANGED <<controller, lobby>> \/ GameSessionHere(TRUE)
      BY <2>4 DEF CreateGame, startLocalGame
    <3> QED BY <1>1, <1>3, <3>1
  <2> QED BY <1>12, <2>2, <2>3, <2>4 DEF Lobby
<1>13. CASE AddPlayer
  <2>0. UNCHANGED controller /\ lobby.index \in 1 .. Slots
    BY <1>0, <1>13 DEF AddPlayer, LobbyType
  <2>1. ASSUME NEW player \in Range(lobby.devices) \cup {"Ai"}, lobby' = [lobby EXCEPT !.player = player]
        PROVE  LobbyFine
    <3>1. \A d \in Range(lobby.devices) : d \in Human
      BY <1>0 DEF LobbyType, Range
    <3>2. player \in PlayerSlot
      BY <3>1, Kinds
    <3>3. lobby' \in LobbyType /\ lobby'.slots = lobby.slots /\ lobby'.devices = lobby.devices
          /\ lobby'.player = player /\ lobby'.index = lobby.index
      BY <1>0, <2>1, <3>2 DEF LobbyType
    <3>4. Free(lobby.slots, "Ai")
      BY Kinds DEF Free, getUsedDevices
    <3> QED BY <2>0, <2>1, <3>3, <3>4 DEF SlotsInv
  <2>2. CASE lobby' = [lobby EXCEPT !.slots[lobby.index] = lobby.player, !.index = 0]
    <3> DEFINE slots == [lobby.slots EXCEPT ![lobby.index] = lobby.player]
    <3>1. lobby' = [lobby EXCEPT !.slots = slots, !.index = 0]
      BY <1>0, <2>2 DEF LobbyType
    <3>2. slots \in [1 .. Slots -> PlayerSlot]
      BY <1>0 DEF LobbyType
    <3>6. 0 \in 0 .. Slots
      BY <1>0
    <3>3. OneEach(lobby.slots) /\ Free(lobby.slots, lobby.player) => OneEach(slots)
      <4> SUFFICES ASSUME OneEach(lobby.slots), Free(lobby.slots, lobby.player) PROVE OneEach(slots)
        OBVIOUS
      <4>1. DOMAIN lobby.slots = 1 .. Slots /\ DOMAIN slots = 1 .. Slots
        BY <1>0 DEF LobbyType
      <4>2. \A i \in 1 .. Slots : slots[i] = IF i = lobby.index THEN lobby.player ELSE lobby.slots[i]
        BY <4>1
      <4>3. \A i \in 1 .. Slots : lobby.slots[i] \in Human => lobby.slots[i] # lobby.player
        BY <4>1 DEF Free, getUsedDevices, Range
      <4> HIDE DEF slots
      <4>4. \A i \in 1 .. Slots : slots[i] # "no device"
        BY <4>1, <4>2 DEF OneEach, Free
      <4>5. ASSUME NEW i \in 1 .. Slots, NEW j \in 1 .. Slots, slots[i] = slots[j], slots[i] \in Human PROVE i = j
        BY <4>1, <4>2, <4>3, <4>5 DEF OneEach
      <4> QED BY <4>1, <4>4, <4>5 DEF OneEach
    <3> HIDE DEF slots
    <3>4. lobby' \in LobbyType /\ lobby'.slots = slots /\ lobby'.index = 0
      BY <1>0, <3>1, <3>2, <3>6 DEF LobbyType
    <3>5. type = "LocalGameRoomLooby" => OneEach(lobby.slots) /\ Free(lobby.slots, lobby.player)
      BY <2>0 DEF SlotsInv
    <3> QED BY <2>0, <3>3, <3>4, <3>5
  <2>3. CASE lobby' = [lobby EXCEPT !.index = 0]
    <3>1. lobby' \in LobbyType /\ lobby'.slots = lobby.slots /\ lobby'.index = 0
      BY <1>0, <2>3 DEF LobbyType
    <3> QED BY <2>0, <3>1 DEF SlotsInv
  <2> QED BY <1>13, <2>1, <2>2, <2>3 DEF AddPlayer
<1>14. CASE NetworkEvent
  <2>1. ASSUME NEW l \in LobbyType, NEW slots \in RoomSlots, lobby' = [l EXCEPT !.slots = slots] PROVE lobby' \in LobbyType
    BY <2>1, ApplicationAssumption DEF LobbyType
  <2>2. CASE JoinGameRoomEvent
    <3>1. PICK slots \in RoomSlots : lobby' = [lobbyAfter("NetworkGameRoomLooby") EXCEPT !.slots = slots]
      BY <2>2 DEF JoinGameRoomEvent
    <3>2. lobbyAfter("NetworkGameRoomLooby") \in LobbyType
      BY <1>0, lobbyAfterParts DEF GameRoomType
    <3>3. type' = "NetworkGameRoomLooby"
      BY <2>2 DEF JoinGameRoomEvent
    <3> QED BY <2>1, <3>1, <3>2, <3>3
  <2>3. CASE PlayerSlotEvent
    <3>1. lobby' \in LobbyType
      BY <1>0, <2>1, <2>3 DEF PlayerSlotEvent
    <3>2. type' # "LocalGameRoomLooby"
      BY <2>3 DEF PlayerSlotEvent, ScenesInv
    <3> QED BY <3>1, <3>2
  <2>4. CASE LeaveGameRoomEvent
    <3>1. lobby' = lobbyAfter("OutsideGameRoom") /\ type' = "OutsideGameRoom"
      BY <2>4 DEF LeaveGameRoomEvent
    <3> QED BY <1>2, <3>1 DEF GameRoomType
  <2>5. CASE CreateGameEvent
    BY <1>4, <2>5 DEF CreateGameEvent, GameRoomType
  <2>6. CASE RestartEvent \/ PauseEvent
    BY <1>1, <2>6 DEF RestartEvent, PauseEvent
  <2> QED BY <1>14, <2>2, <2>3, <2>4, <2>5, <2>6 DEF NetworkEvent
<1> QED BY <1>5, <1>6, <1>7, <1>8, <1>9, <1>10, <1>11, <1>12, <1>13, <1>14 DEF AppNext

-----------------------------------------------------------------------------
(* The invariant, and what follows from it *)

PlanType == [clicks : Nat, events : Nat, moves : Nat, commands : SUBSET STRING]

PlanInv == plan \in PlanType

\* What is left of the plan never gets below nothing.
LEMMA PlanStep ==
  ASSUME PlanInv, [AppNext]_appVars
  PROVE  PlanInv'
<1>0. plan \in PlanType
  BY DEF PlanInv
<1>1. ASSUME UNCHANGED plan PROVE PlanInv'
  BY <1>1 DEF PlanInv
<1>2. ASSUME plan.clicks > 0, plan' = [plan EXCEPT !.clicks = @ - 1] PROVE PlanInv'
  BY <1>0, <1>2 DEF PlanInv, PlanType
<1>3. ASSUME plan.events > 0, plan' = [plan EXCEPT !.events = @ - 1] PROVE PlanInv'
  BY <1>0, <1>3 DEF PlanInv, PlanType
<1>4. ASSUME plan.moves > 0, plan' = [plan EXCEPT !.moves = @ - 1] PROVE PlanInv'
  BY <1>0, <1>4 DEF PlanInv, PlanType
<1>5. CASE \E command : Does(command)
  BY <1>2, <1>5 DEF Does
<1>6. CASE Start \/ UNCHANGED appVars
  BY <1>1, <1>6 DEF Start, appVars
<1>7. CASE Quit \/ Crash
  BY <1>2, <1>7 DEF Quit, Crash
<1>8. CASE Frame
  BY <1>1, <1>4, <1>8 DEF Frame, Move
<1>9. CASE Told
  BY <1>3, <1>9 DEF Told
<1>10. CASE GamepadEvent
  BY <1>3, <1>10 DEF GamepadEvent
<1>11. Keys \/ Menu \/ ResumeButton \/ PopUp \/ Lobby \/ AddPlayer => \E command : Does(command)
  <2>1. Keys \/ Menu => \E command : Does(command)
    BY Zenon DEF Keys, Menu
  <2>2. ResumeButton \/ PopUp => \E command : Does(command)
    BY Zenon DEF ResumeButton, PopUp, CancelButton, CreateGameRoomButton, JoinGameRoomButton
  <2>3. Lobby \/ AddPlayer => \E command : Does(command)
    BY Zenon DEF Lobby, AddPlayer
  <2> QED BY <2>1, <2>2, <2>3
<1>12. NetworkEvent => Told
  BY DEF NetworkEvent
<1> QED BY <1>5, <1>6, <1>7, <1>8, <1>9, <1>10, <1>11, <1>12, Zenon DEF AppNext

IInv == TimedInv /\ ScenesInv /\ SavedInv /\ DevicesInv /\ LobbyInv /\ PlanInv

LEMMA InitHasIInv == AppInit => IInv
<1> SUFFICES ASSUME AppInit PROVE IInv
  OBVIOUS
<1>1. PlanInv
  BY ApplicationAssumption DEF AppInit, PlanInv, PlanType
<1> QED BY <1>1, TimedInit, ScenesInit, SavedInit, DevicesInit, LobbyInit DEF IInv

\* Every part is kept with the parts it needs, and a step of the program is one of its game.
LEMMA StepKeepsIInv == IInv /\ [AppNext]_appVars => IInv' /\ [Halting!Next]_(Untimed(tetrisGame))
<1> SUFFICES ASSUME IInv, [AppNext]_appVars PROVE IInv' /\ [Halting!Next]_(Untimed(tetrisGame))
  OBVIOUS
<1>1. TimedInv /\ ScenesInv /\ SavedInv /\ DevicesInv /\ LobbyInv /\ PlanInv
  BY DEF IInv
<1>2. SlotsInv /\ lobby.slots \in [1 .. Slots -> PlayerSlot]
  BY <1>1 DEF LobbyInv, SlotsInv, LobbyType
<1>3. TimedInv' /\ [Halting!Next]_(Untimed(tetrisGame))
  BY <1>1, <1>2, TimedStep, TimedChangeGood
<1>4. ScenesInv'
  BY <1>1, ScenesStep
<1>5. SavedInv'
  BY <1>1, <1>2, SavedStep
<1>6. DevicesInv'
  BY <1>1, DevicesStep
<1>7. LobbyInv'
  BY <1>1, <1>2, SlotsStep, PlayersStep DEF LobbyInv
<1>8. PlanInv'
  BY <1>1, PlanStep
<1> QED BY <1>3, <1>4, <1>5, <1>6, <1>7, <1>8 DEF IInv

LEMMA IInvHolds == AppSpec => []IInv
<1> QED BY InitHasIInv, StepKeepsIInv, PTL DEF AppSpec

LEMMA TypesAgree == ASSUME IInv PROVE AppTypeOK
<1>1. running \in BOOLEAN /\ window \in [main : MainScene, modal : Modal]
      /\ controller \in [gameRoomType : GameRoomType, inside : BOOLEAN, asked : SUBSET {"enter", "leave"}]
  BY DEF IInv, ScenesInv
<1>2. tetrisGame \in TimedGame
  BY DEF IInv, TimedInv, GoodTimed
<1>3. game \in GameType /\ saved \in SavedType /\ boards \in Nat /\ closed \in Board
  BY DEF IInv, SavedInv, GoodSaved, GoodBoard
<1>4. pads \in PadDevices /\ lobby \in LobbyType /\ plan \in PlanType
  BY DEF IInv, DevicesInv, LobbyInv, SlotsInv, PlanInv
<1> QED BY <1>1, <1>2, <1>3, <1>4 DEF AppTypeOK, GameType, SavedType, LobbyType, PlanType

\* The menu says what a press of Pause does, whatever was created, restarted and paused in between.
THEOREM MenuAlwaysTells == AppSpec => []MenuTellsPause
<1>1. IInv => MenuTellsPause
  BY TellsPause DEF IInv
<1> QED BY <1>1, IInvHolds, PTL

\* The types of the state, and the scenes that go with where the client is, in whatever order the
\* user and the network come.
THEOREM ScenesAlwaysAgree == AppSpec => []ScenesAgree
<1>1. IInv => ScenesAgree
  <2> SUFFICES ASSUME IInv PROVE ScenesAgree
    OBVIOUS
  <2>1. AppTypeOK /\ ScenesInv
    BY TypesAgree DEF IInv
  <2> QED BY <2>1 DEF ScenesAgree, ScenesInv, MainOf, GoodModal
<1> QED BY <1>1, IInvHolds, PTL

\* Whenever the program ends, the file holds the board of the default game as it is, or nothing; of
\* another game it holds the start of one of one player of the lobby, or nothing.
THEOREM SavedGameAlwaysCurrent == AppSpec => []SavedGameIsCurrent
<1>1. IInv => SavedGameIsCurrent
  BY IsCurrent DEF IInv
<1> QED BY <1>1, IInvHolds, PTL

\* A game that was closed and can be resumed comes back at the next start.
THEOREM ClosedGameAlwaysResumes == AppSpec => []ClosedGameResumes
<1>1. IInv => ClosedGameResumes
  BY Resumes DEF IInv, ScenesInv
<1> QED BY <1>1, IInvHolds, PTL

\* Two players of a game that is started here never have the same device, nor a gamepad two of them.
THEOREM NobodyEverShares == AppSpec => []NobodySharesADevice
<1>1. IInv => NobodySharesADevice
  BY NobodyShares DEF IInv
<1> QED BY <1>1, IInvHolds, PTL

\* The game of a client, as the rest of the program sees it, is the one that Pausing specifies:
\* frames, late timers and what is asked in between make it no other.
THEOREM PausesAsPromised == AppSpec => PausingSpec
<1>1. AppInit => Halting!Init
  BY TimedInit
<1> QED BY <1>1, StepKeepsIInv, IInvHolds, PTL DEF AppSpec, PausingSpec, Halting!Spec
=============================================================================
