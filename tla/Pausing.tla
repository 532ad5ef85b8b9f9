------------------------------- MODULE Pausing -------------------------------
(***************************************************************************)
(* What a client promises of the game it runs: it is created, restarted,    *)
(* paused and resumed as TetrisGame defines, and a countdown is over in one  *)
(* step.  GameSession takes the games of its clients for such ones.         *)
(***************************************************************************)
EXTENDS TetrisGame

CONSTANT MaxPlayers

VARIABLE game

Init == game = FirstGame

Next ==
  \/ game' = FirstGame
  \/ \E n \in 1 .. MaxPlayers : game' = createdGame(n)
  \/ game' = restartedGame(game)
  \/ \E pause \in BOOLEAN : game' = setPause(game, pause)
  \/ game.scheduled /\ game' = CountDownOver(game)

Spec == Init /\ [][Next]_game
==============================================================================
