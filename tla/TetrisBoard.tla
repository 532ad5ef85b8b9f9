---------------------------- MODULE TetrisBoard -----------------------------
(***************************************************************************)
(* The board of a player (classes TetrisBoard and Block): what a move makes *)
(* of the squares, the moving block and the rows.                           *)
(*                                                                         *)
(* A row is the set of its filled columns: the types of the squares on the  *)
(* board decide nothing.  Rows are counted from 0 at the bottom, and row r  *)
(* is gameboard[r + 1].  Squares are added and removed by whole rows only,  *)
(* so the vector gameboard_ is a sequence of rows.                          *)
(***************************************************************************)
EXTENDS Integers, Sequences, FiniteSets

CONSTANTS
  Columns, Rows  \* columns_ and rows_: a game does not change them

ASSUME SizeAssumption == Columns \in Nat /\ Rows \in Nat

Column == 0 .. Columns - 1

-----------------------------------------------------------------------------
(* Block *)

BlockType == {"I", "J", "L", "O", "S", "T", "Z"}

Sq(column, row) == [column |-> column, row |-> row]

\* The four squares of a new block, given its start column and its lowest row.
StartSquares(type, c, r) ==
  CASE type = "I" -> {Sq(c, r + 3), Sq(c, r + 2), Sq(c, r + 1), Sq(c, r)}
    [] type = "J" -> {Sq(c + 1, r + 2), Sq(c + 1, r + 1), Sq(c + 1, r), Sq(c, r)}
    [] type = "L" -> {Sq(c, r + 2), Sq(c, r + 1), Sq(c, r), Sq(c + 1, r)}
    [] type = "O" -> {Sq(c, r + 1), Sq(c + 1, r + 1), Sq(c, r), Sq(c + 1, r)}
    [] type = "S" -> {Sq(c + 1, r + 1), Sq(c, r + 1), Sq(c, r), Sq(c - 1, r)}
    [] type = "T" -> {Sq(c, r + 1), Sq(c + 1, r), Sq(c, r), Sq(c - 1, r)}
    [] type = "Z" -> {Sq(c - 1, r + 1), Sq(c, r + 1), Sq(c, r), Sq(c + 1, r)}

\* The square at rotationSquareIndex_.
RotationSquare(type, c, r) ==
  CASE type \in {"I", "L", "O"} -> Sq(c, r + 1)
    [] type = "J" -> Sq(c + 1, r + 1)
    [] type \in {"S", "T", "Z"} -> Sq(c, r)

maxRotations(type) ==
  CASE type = "O" -> 0
    [] type \in {"I", "S", "Z"} -> 1
    [] type \in {"J", "L", "T"} -> 4

NewBlock(type, startColumn, lowestStartRow) ==
  [blockType |-> type,
   squares |-> StartSquares(type, startColumn, lowestStartRow),
   rotationSquare |-> RotationSquare(type, startColumn, lowestStartRow),
   currentRotation |-> 0,
   startColumn |-> startColumn,
   lowestStartRow |-> lowestStartRow]

\* Mutant of Shifted: where the block started is not moved along.
ShiftedFromStart(block, columns, rows) ==
  LET Shift(sq) == Sq(sq.column + columns, sq.row + rows) IN
    [block EXCEPT !.squares = {Shift(sq) : sq \in @}, !.rotationSquare = Shift(@)]

\* moveLeft, moveRight and moveDown.
Shifted(block, columns, rows) ==
  LET Shift(sq) == Sq(sq.column + columns, sq.row + rows) IN
    [block EXCEPT !.squares = {Shift(sq) : sq \in @},
                  !.rotationSquare = Shift(@),
                  !.startColumn = @ + columns,
                  !.lowestStartRow = @ + rows]

Down(block, n) == Shifted(block, 0, -n)

\* A quarter of a turn around the rotation square, to the left for 1 and to the right for -1.
rotate(block, n) ==
  LET o == block.rotationSquare IN
    CASE n = 1 -> [block EXCEPT !.squares =
                     {Sq(o.column + o.row - sq.row, sq.column + o.row - o.column) : sq \in @}]
      [] n = -1 -> [block EXCEPT !.squares =
                     {Sq(sq.row + o.column - o.row, o.column + o.row - sq.column) : sq \in @}]
      [] n = 0 -> block

\* Mutant of rotateLeft: four turns are not the start again.
rotateLeftOnAndOn(block) == [rotate(block, 1) EXCEPT !.currentRotation = @ + 1]

\* A block of four orientations goes on turning; one of two goes back to the one it came from.
rotateLeft(block) ==
  LET next == (block.currentRotation + 1) % 4
      most == maxRotations(block.blockType)
  IN  IF next > most THEN [rotate(block, -most) EXCEPT !.currentRotation = 0]
                     ELSE [rotate(block, 1) EXCEPT !.currentRotation = next]

rotateRight(block) ==
  LET next == (block.currentRotation + 3) % 4
      most == maxRotations(block.blockType)
  IN  IF next > most THEN [rotate(block, most) EXCEPT !.currentRotation = 0]
                     ELSE [rotate(block, -1) EXCEPT !.currentRotation = next]

\* The constructor from what is saved of a block.
BlockOf(type, startColumn, lowestStartRow, rotations) ==
  LET new  == NewBlock(type, startColumn, lowestStartRow)
      once == rotateLeft(new)
  IN  << new, once, rotateLeft(once), rotateLeft(rotateLeft(once)) >>[rotations + 1]

LowestRow(squares) == CHOOSE r \in {sq.row : sq \in squares} : \A sq \in squares : r <= sq.row

getLowestRow(block) == LowestRow(block.squares)

-----------------------------------------------------------------------------
(* TetrisBoard *)

EmptyRow == {}

\* Mutant of createBlock: the starting area is one row too high.
createBlockAbove(type) == NewBlock(type, Columns \div 2 - 1, Rows - 3)

createBlock(type) == NewBlock(type, Columns \div 2 - 1, Rows - 4)

NewBoard(current, next) ==
  [gameboard |-> [r \in 1 .. Rows |-> EmptyRow],
   current |-> createBlock(current),
   next |-> next,
   isGameOver |-> FALSE]

\* Mutant of IsFree: the row below is looked up.
IsFreeBelow(gameboard, sq) ==
  /\ sq.column \in Column
  /\ sq.row >= 0
  /\ sq.row \in DOMAIN gameboard => sq.column \notin gameboard[sq.row]

\* Walls are left, right and below; above all rows it is empty.
IsFree(gameboard, sq) ==
  /\ sq.column \in Column
  /\ sq.row >= 0
  /\ sq.row < Len(gameboard) => sq.column \notin gameboard[sq.row + 1]

collision(gameboard, block) == \E sq \in block.squares : ~IsFree(gameboard, sq)

addBlockToBoard(gameboard, block) ==
  [k \in DOMAIN gameboard |->
     gameboard[k] \cup {sq.column : sq \in {sq \in block.squares : sq.row + 1 = k}}]

\* Mutant of moveRowsOneStepDown: the row is emptied and stays.
moveNoRows(gameboard, row) == [gameboard EXCEPT ![row + 1] = EmptyRow]

\* The row is erased; an empty one replaces it at the top of a board that would get too low.
moveRowsOneStepDown(gameboard, row) ==
  LET erased == [k \in 1 .. Len(gameboard) - 1 |-> gameboard[IF k <= row THEN k ELSE k + 1]]
  IN  IF Len(erased) < Rows THEN Append(erased, EmptyRow) ELSE erased

isRowInsideBoard(gameboard, row) == row >= 0 /\ row < Len(gameboard)

isRowFilled(gameboard, row) == gameboard[row + 1] = Column

\* One turn of the loop of removeFilledRows.
NextRow(loop) ==
  IF isRowInsideBoard(loop.gameboard, loop.row) /\ isRowFilled(loop.gameboard, loop.row)
    THEN [loop EXCEPT !.gameboard = moveRowsOneStepDown(@, loop.row), !.rowsFilled = @ + 1]
    ELSE [loop EXCEPT !.row = @ + 1]

\* Mutant of removeFilledRows: one row less is looked at.
removeThreeRows(gameboard, lowestRow) ==
  NextRow(NextRow(NextRow([gameboard |-> gameboard, row |-> lowestRow, rowsFilled |-> 0])))

\* As many rows as a block has squares are looked at.
removeFilledRows(gameboard, lowestRow) ==
  NextRow(NextRow(NextRow(NextRow([gameboard |-> gameboard, row |-> lowestRow, rowsFilled |-> 0]))))

\* Where a block comes to rest: the loop of DownGround and getBlockDown.
getBlockDown(gameboard, block) ==
  LET fall == CHOOSE n \in 0 .. getLowestRow(block) :
                /\ \A k \in 0 .. n : ~collision(gameboard, Down(block, k))
                /\ collision(gameboard, Down(block, n + 1))
  IN  Down(block, fall)

Move == {"RotateLeft", "RotateRight", "DownGravity", "Down", "DownGround", "Left", "Right", "GameOver"}

\* Where a move puts the block.
Moved(b, move) ==
  CASE move = "Left" -> Shifted(b.current, -1, 0)
    [] move = "Right" -> Shifted(b.current, 1, 0)
    [] move \in {"Down", "DownGravity"} -> Down(b.current, 1)
    [] move = "DownGround" -> getBlockDown(b.gameboard, b.current)
    [] move = "RotateLeft" -> rotateLeft(b.current)
    [] move = "RotateRight" -> rotateRight(b.current)

\* Gravity finds the block down: it becomes part of the board.
Lands(b, move) ==
  /\ move = "DownGravity"
  /\ ~b.isGameOver
  /\ ~collision(b.gameboard, b.current)
  /\ collision(b.gameboard, Down(b.current, 1))

\* The block is added, the callback of BlockCollision puts externalRows (addExternalRows) below
\* everything, filled rows are removed, counted from where the block was, and the next one starts.
Landed(b, externalRows) ==
  LET added == externalRows \o addBlockToBoard(b.gameboard, b.current)
      loop  == removeFilledRows(added, getLowestRow(b.current))
  IN  [board |-> [b EXCEPT !.gameboard = loop.gameboard, !.current = createBlock(b.next)],
       rowsFilled |-> loop.rowsFilled]

\* TetrisBoard::update, for a move that does not land.
update(b, move) ==
  CASE b.isGameOver -> b
    [] ~b.isGameOver /\ (collision(b.gameboard, b.current) \/ move = "GameOver") ->
         [b EXCEPT !.isGameOver = TRUE]
    [] OTHER -> IF collision(b.gameboard, Moved(b, move)) THEN b
                                                          ELSE [b EXCEPT !.current = Moved(b, move)]

-----------------------------------------------------------------------------
(* A board that was saved *)

\* The constructor: rows above the board are put on top, then every row outside that is empty pops
\* the last row.
removeEmptyRowsOutsideBoard(gameboard) ==
  LET outside == {k \in DOMAIN gameboard : k > Rows /\ gameboard[k] = EmptyRow}
  IN  SubSeq(gameboard, 1, Len(gameboard) - Cardinality(outside))

\* What becomes of a board that is saved and loaded (setTpPlayer, toTetrisBoard).
Loaded(b) ==
  LET gameboard == removeEmptyRowsOutsideBoard(b.gameboard \o [r \in 1 .. Rows |-> EmptyRow])
      block     == BlockOf(b.current.blockType, b.current.startColumn, b.current.lowestStartRow,
                           b.current.currentRotation)
  IN  [gameboard |-> gameboard, current |-> block, next |-> b.next,
       isGameOver |-> collision(gameboard, block)]
=============================================================================
