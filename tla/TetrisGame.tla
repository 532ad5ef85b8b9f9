----------------------------- MODULE TetrisGame ------------------------------
(***************************************************************************)
(* When the game of a client runs and when it halts (class TetrisGame).     *)
(*                                                                         *)
(* A game of several players starts, restarts and is resumed with a         *)
(* countdown of three seconds: paused stays TRUE until the last of three    *)
(* callbacks of the TimeHandler, which are one step here, CountDownOver.    *)
(* What paused says of a game is thus not whether it is halted: it may be   *)
(* about to go on.                                                         *)
(***************************************************************************)
EXTENDS Naturals

\* scheduled: the callbacks of the countdown are in the TimeHandler (hasKey(pauseKey_)).
Game == [countDown : BOOLEAN, paused : BOOLEAN, scheduled : BOOLEAN]

unPauseGame(game) ==
  IF game.countDown THEN [game EXCEPT !.paused = TRUE, !.scheduled = TRUE]
                    ELSE [game EXCEPT !.paused = FALSE]

pauseGame(game) == [game EXCEPT !.paused = TRUE, !.scheduled = FALSE]

setPause(game, pause) ==
  CASE game.paused = pause -> game
    [] pause # game.paused /\ pause -> pauseGame(game)
    [] pause # game.paused /\ ~pause -> IF game.scheduled THEN game ELSE unPauseGame(game)

\* A game that restarts forgets the countdown under way and starts another.
restartedGame(game) == setPause([game EXCEPT !.paused = TRUE, !.scheduled = FALSE], FALSE)

\* A game of n players.
createdGame(n) == restartedGame([countDown |-> n > 1, paused |-> TRUE, scheduled |-> FALSE])

\* A game is resumed by the last callback of its countdown.
CountDownOver(game) == [game EXCEPT !.paused = FALSE, !.scheduled = FALSE]

\* The program starts with a game of one player that it pauses.
FirstGame == setPause(createdGame(1), TRUE)

\* Nothing makes the game go on by itself.
Halted(game) == game.paused /\ ~game.scheduled
==============================================================================
