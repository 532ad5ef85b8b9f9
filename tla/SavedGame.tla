------------------------------ MODULE SavedGame ------------------------------
(***************************************************************************)
(* The saved game (serialize.cpp): a file, and a copy in memory (cachedGame) *)
(* that is loaded from it once.  A game that is cleared is gone from the     *)
(* file, and in memory its time is zero; its board stays there.            *)
(***************************************************************************)
EXTENDS Integers

CONSTANT MaxMoves

ASSUME MaxMovesAssumption == MaxMoves \in Nat \ {0}

\* A board: which one, how often it has moved, whether it is full; and the points of its player.
Board == [id : Nat, moves : 0 .. MaxMoves, over : BOOLEAN, points : 0 .. MaxMoves]

NoBoard == [id |-> 0, moves |-> 0, over |-> FALSE, points |-> 0]

\* player_board, last_played # 0, and whether the file was looked at.
CachedGame == [board : Board, played : BOOLEAN, gameLoaded : BOOLEAN]

NothingCached == [board |-> NoBoard, played |-> FALSE, gameLoaded |-> FALSE]

hasSavedGame(saved) == saved.cached.played

\* Mutant of clearSavedGame: the file stays.
clearCacheOnly(saved) == [saved EXCEPT !.cached.played = FALSE]

clearSavedGame(saved) == [saved EXCEPT !.cached.played = FALSE, !.file = NoBoard]

\* A player without DefaultPlayerData is not saved: the exception comes before any change.
saveGame(saved, board, rules) ==
  IF rules # "Default" THEN saved
  ELSE [saved EXCEPT !.cached.board = board, !.cached.played = TRUE, !.file = board]

\* Mutant of loadGame: the file is never looked at.
loadNothing(saved) == [saved EXCEPT !.cached.gameLoaded = TRUE]

\* The board to play on is then cached.board, if there is one.
loadGame(saved) ==
  IF saved.cached.gameLoaded \/ saved.file = NoBoard
    THEN [saved EXCEPT !.cached.gameLoaded = TRUE]
    ELSE [saved EXCEPT !.cached = [board |-> saved.file, played |-> TRUE, gameLoaded |-> TRUE]]
==============================================================================
