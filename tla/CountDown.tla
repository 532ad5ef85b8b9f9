------------------------------ MODULE CountDown ------------------------------
(***************************************************************************)
(* The game of a client and its TimeHandler, with time: what TetrisGame     *)
(* leaves out.  The countdown is a callback that is called three times, a   *)
(* second apart.  The TimeHandler looks at the time once per frame and calls *)
(* it once at most, however late the frame is; the next second begins then. *)
(* Each change is told (gamePauseEvent), and the menu shows what was told    *)
(* last.                                                                   *)
(***************************************************************************)
EXTENDS Integers

CONSTANT
  Second,     \* the length of a second
  FrameTimes  \* how long a frame may last

ASSUME TimeAssumption == Second \in Nat \ {0} /\ FrameTimes \subseteq Nat

\* The callbacks that are left, and the time since the last.
Timer == [left : 0 .. 3, waited : 0 .. Second - 1]

NoTimer == [left |-> 0, waited |-> 0]

TimedGame ==
  [countDown : BOOLEAN, paused : BOOLEAN, timer : Timer,
   told : {"Pause", "Stop Countdown", "Unpause"}]

hasKey(game) == game.timer # NoTimer

\* The text of the menu, of what is told.
pauseMenuText(pause, counting) ==
  CASE ~pause -> "Pause" [] pause /\ counting -> "Stop Countdown" [] pause /\ ~counting -> "Unpause"

\* Mutant of unPause: a countdown that begins is not told.
unPauseUntold(game) ==
  IF game.countDown THEN [game EXCEPT !.paused = TRUE, !.timer = [left |-> 3, waited |-> 0]]
                    ELSE [game EXCEPT !.paused = FALSE, !.told = "Pause"]

unPause(game) ==
  IF game.countDown
    THEN [game EXCEPT !.paused = TRUE, !.timer = [left |-> 3, waited |-> 0],
                        !.told = pauseMenuText(TRUE, TRUE)]
    ELSE [game EXCEPT !.paused = FALSE, !.told = pauseMenuText(FALSE, FALSE)]

pauseNow(game) == [game EXCEPT !.paused = TRUE, !.timer = NoTimer, !.told = pauseMenuText(TRUE, FALSE)]

setPauseNow(game, pause) ==
  CASE game.paused = pause -> game
    [] game.paused # pause /\ pause -> pauseNow(game)
    [] game.paused # pause /\ ~pause -> IF hasKey(game) THEN game ELSE unPause(game)

restartNow(game) == setPauseNow([game EXCEPT !.paused = TRUE, !.timer = NoTimer], FALSE)

createGameNow(game, n) ==
  setPauseNow([game EXCEPT !.countDown = n > 1, !.paused = TRUE, !.timer = NoTimer], FALSE)

\* The callback of unPause, called for the last time or not.
callback(game) ==
  IF game.timer.left = 1
    THEN [game EXCEPT !.paused = FALSE, !.timer = NoTimer, !.told = pauseMenuText(FALSE, FALSE)]
    ELSE [game EXCEPT !.timer = [left |-> @.left - 1, waited |-> 0]]

\* Mutant of update: the first callback ends the countdown.
updateAtOnce(game, deltaTime) ==
  IF hasKey(game) /\ game.timer.waited + deltaTime >= Second
    THEN [game EXCEPT !.paused = FALSE, !.told = "Pause"]
    ELSE game

\* Mutant of update: a frame that is no multiple of a second is lost.
updateWholeSeconds(game, deltaTime) ==
  IF hasKey(game) /\ deltaTime >= 2 * Second THEN callback(game) ELSE game

\* TimeHandler::update, for the countdown.
update(game, deltaTime) ==
  CASE ~hasKey(game) -> game
    [] hasKey(game) /\ game.timer.waited + deltaTime >= Second -> callback(game)
    [] hasKey(game) /\ game.timer.waited + deltaTime < Second ->
         [game EXCEPT !.timer.waited = @ + deltaTime]

\* The game as TetrisGame has it.
Untimed(game) ==
  [countDown |-> game.countDown, paused |-> game.paused, scheduled |-> hasKey(game)]
==============================================================================
