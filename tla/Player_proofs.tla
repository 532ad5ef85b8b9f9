---------------------------- MODULE Player_proofs ----------------------------
(***************************************************************************)
(* Proofs about Player, for boards of every size: a block that lands writes *)
(* inside of the board; when every update has arrived, the copy is the      *)
(* board, although a copy that lets a block land draws a next block of its  *)
(* own; no row floats, a row that is filled goes, nothing is overwritten;   *)
(* and a board that is saved is loaded as it was.                           *)
(***************************************************************************)
EXTENDS Player, NumbersAndQueues, SequenceTheorems, FiniteSetTheorems, TLAPS

-----------------------------------------------------------------------------
(* Blocks *)

Square == [column : Int, row : Int]

\* A block reaches no further than two squares from the square it turns around, which is at least
\* three rows below the top.  Turning keeps the distance, and nothing moves a block up.
Reach(block) ==
  \A sq \in block.squares :
    /\ sq.column - block.rotationSquare.column \in -2 .. 2
    /\ sq.row - block.rotationSquare.row \in -2 .. 2

LowEnough(block) ==
  /\ block.rotationSquare \in block.squares
  /\ block.rotationSquare.row <= Rows - 3
  /\ Reach(block)

GoodBlock(block) == block \in Block /\ LowEnough(block)

LEMMA NewBlockGood ==
  ASSUME NEW type \in BlockType, NEW c \in Int, NEW r \in Int, r <= Rows - 4
  PROVE  GoodBlock(NewBlock(type, c, r))
<1> DEFINE b == NewBlock(type, c, r)
<1>1. /\ b.squares = StartSquares(type, c, r) /\ b.rotationSquare = RotationSquare(type, c, r)
  BY DEF NewBlock
<1>2. CASE type = "I"
  BY <1>1, <1>2, SizeAssumption DEF StartSquares, RotationSquare, NewBlock, GoodBlock, LowEnough, Reach, Block, Sq
<1>3. CASE type = "J"
  BY <1>1, <1>3, SizeAssumption DEF StartSquares, RotationSquare, NewBlock, GoodBlock, LowEnough, Reach, Block, Sq
<1>4. CASE type = "L"
  BY <1>1, <1>4, SizeAssumption DEF StartSquares, RotationSquare, NewBlock, GoodBlock, LowEnough, Reach, Block, Sq
<1>5. CASE type = "O"
  BY <1>1, <1>5, SizeAssumption DEF StartSquares, RotationSquare, NewBlock, GoodBlock, LowEnough, Reach, Block, Sq
<1>6. CASE type = "S"
  BY <1>1, <1>6, SizeAssumption DEF StartSquares, RotationSquare, NewBlock, GoodBlock, LowEnough, Reach, Block, Sq
<1>7. CASE type = "T"
  BY <1>1, <1>7, SizeAssumption DEF StartSquares, RotationSquare, NewBlock, GoodBlock, LowEnough, Reach, Block, Sq
<1>8. CASE type = "Z"
  BY <1>1, <1>8, SizeAssumption DEF StartSquares, RotationSquare, NewBlock, GoodBlock, LowEnough, Reach, Block, Sq
<1> QED BY <1>2, <1>3, <1>4, <1>5, <1>6, <1>7, <1>8 DEF BlockType

LEMMA ShiftedGood ==
  ASSUME NEW block, GoodBlock(block), NEW columns \in Int, NEW rows \in Int, rows <= 0
  PROVE  GoodBlock(Shifted(block, columns, rows))
<1> DEFINE Shift(sq) == Sq(sq.column + columns, sq.row + rows)
           b == Shifted(block, columns, rows)
<1>1. block \in Block /\ LowEnough(block)
  BY DEF GoodBlock
<1>2. /\ b = [block EXCEPT !.squares = {Shift(sq) : sq \in block.squares},
                           !.rotationSquare = Shift(block.rotationSquare),
                           !.startColumn = block.startColumn + columns,
                           !.lowestStartRow = block.lowestStartRow + rows]
  BY <1>1 DEF Shifted, Block
<1>3. \A sq \in Square : Shift(sq) \in Square
  BY DEF Square, Sq
<1>4. block.squares \in SUBSET Square /\ block.rotationSquare \in Square
  BY <1>1 DEF Block, Square
<1>5. /\ b.squares = {Shift(sq) : sq \in block.squares}
      /\ b.rotationSquare = Shift(block.rotationSquare)
  BY <1>1, <1>2 DEF Block
<1>6. b \in Block
  <2>1. {Shift(sq) : sq \in block.squares} \in SUBSET Square
    BY <1>3, <1>4
  <2>2. Shift(block.rotationSquare) \in Square
    BY <1>3, <1>4
  <2>3. block.startColumn + columns \in Int /\ block.lowestStartRow + rows \in Int
    BY <1>1 DEF Block
  <2>4. ASSUME NEW squares \in SUBSET Square, NEW rotationSquare \in Square,
               NEW startColumn \in Int, NEW lowestStartRow \in Int
        PROVE  [block EXCEPT !.squares = squares, !.rotationSquare = rotationSquare,
                             !.startColumn = startColumn, !.lowestStartRow = lowestStartRow] \in Block
    BY <1>1 DEF Block, Square
  <2> HIDE DEF Shift, b
  <2> QED BY <1>2, <2>1, <2>2, <2>3, <2>4
<1>7. LowEnough(b)
  <2>1. b.rotationSquare \in b.squares
    BY <1>1, <1>5 DEF LowEnough
  <2>2. b.rotationSquare.row <= Rows - 3
    BY <1>1, <1>4, <1>5, SizeAssumption DEF LowEnough, Square, Sq
  <2>3. Reach(b)
    <3>1. ASSUME NEW sq \in block.squares
          PROVE  /\ Shift(sq).column - b.rotationSquare.column \in -2 .. 2
                 /\ Shift(sq).row - b.rotationSquare.row \in -2 .. 2
      BY <1>1, <1>4, <1>5 DEF LowEnough, Reach, Square, Sq
    <3> QED BY <3>1, <1>5 DEF Reach
  <2> QED BY <2>1, <2>2, <2>3 DEF LowEnough
<1> QED BY <1>6, <1>7 DEF GoodBlock

LEMMA DownGood ==
  ASSUME NEW block, GoodBlock(block), NEW n \in Nat
  PROVE  GoodBlock(Down(block, n))
BY ShiftedGood DEF Down

LEMMA rotateGood ==
  ASSUME NEW block, GoodBlock(block), NEW n \in {-1, 0, 1}
  PROVE  /\ GoodBlock(rotate(block, n))
         /\ \A k \in 0 .. 3 : GoodBlock([rotate(block, n) EXCEPT !.currentRotation = k])
<1> DEFINE o == block.rotationSquare
           Left(sq) == Sq(o.column + o.row - sq.row, sq.column + o.row - o.column)
           Right(sq) == Sq(sq.row + o.column - o.row, o.column + o.row - sq.column)
           b == rotate(block, n)
<1>1. block \in Block /\ LowEnough(block)
  BY DEF GoodBlock
<1>2. block.squares \in SUBSET Square /\ o \in Square
  BY <1>1 DEF Block, Square
<1>3. ASSUME NEW k \in 0 .. 3, GoodBlock(b) PROVE GoodBlock([b EXCEPT !.currentRotation = k])
  BY <1>3 DEF GoodBlock, Block, LowEnough, Reach
<1>4. ASSUME NEW squares \in SUBSET Square, o \in squares,
             \A sq \in squares : sq.column - o.column \in -2 .. 2 /\ sq.row - o.row \in -2 .. 2
      PROVE  GoodBlock([block EXCEPT !.squares = squares])
  BY <1>1, <1>4 DEF GoodBlock, Block, LowEnough, Reach, Square
<1>5. CASE n = 1
  <2>1. b = [block EXCEPT !.squares = {Left(sq) : sq \in block.squares}]
    BY <1>1, <1>5 DEF rotate, Block
  <2>2. \A sq \in Square : Left(sq) \in Square
    BY <1>2 DEF Square, Sq
  <2>3. Left(o) = o
    BY <1>2 DEF Square, Sq
  <2>4. o \in {Left(sq) : sq \in block.squares}
    BY <1>1, <2>3 DEF LowEnough
  <2>5. ASSUME NEW sq \in block.squares
        PROVE  Left(sq).column - o.column \in -2 .. 2 /\ Left(sq).row - o.row \in -2 .. 2
    BY <1>1, <1>2 DEF LowEnough, Reach, Square, Sq
  <2>6. {Left(sq) : sq \in block.squares} \in SUBSET Square
    BY <1>2, <2>2
  <2>7. GoodBlock(b)
    BY <1>4, <2>1, <2>4, <2>5, <2>6
  <2> QED BY <1>3, <2>7
<1>6. CASE n = -1
  <2>1. b = [block EXCEPT !.squares = {Right(sq) : sq \in block.squares}]
    BY <1>1, <1>6 DEF rotate, Block
  <2>2. \A sq \in Square : Right(sq) \in Square
    BY <1>2 DEF Square, Sq
  <2>3. Right(o) = o
    BY <1>2 DEF Square, Sq
  <2>4. o \in {Right(sq) : sq \in block.squares}
    BY <1>1, <2>3 DEF LowEnough
  <2>5. ASSUME NEW sq \in block.squares
        PROVE  Right(sq).column - o.column \in -2 .. 2 /\ Right(sq).row - o.row \in -2 .. 2
    BY <1>1, <1>2 DEF LowEnough, Reach, Square, Sq
  <2>6. {Right(sq) : sq \in block.squares} \in SUBSET Square
    BY <1>2, <2>2
  <2>7. GoodBlock(b)
    BY <1>4, <2>1, <2>4, <2>5, <2>6
  <2> QED BY <1>3, <2>7
<1>7. CASE n = 0
  BY <1>3, <1>7 DEF rotate
<1> QED BY <1>5, <1>6, <1>7

\* No rotation turns by more than a quarter: a block of four orientations never goes back.
LEMMA rotateLeftGood ==
  ASSUME NEW block, GoodBlock(block)
  PROVE  GoodBlock(rotateLeft(block))
<1> DEFINE next == (block.currentRotation + 1) % 4
           most == maxRotations(block.blockType)
<1>1. block.blockType \in BlockType /\ block.currentRotation \in 0 .. 3
  BY DEF GoodBlock, Block
<1>2. next \in 0 .. 3 /\ most \in {0, 1, 4}
  BY <1>1 DEF maxRotations, BlockType
<1>3. CASE next > most
  <2>1. -most \in {-1, 0, 1}
    BY <1>2, <1>3
  <2>2. rotateLeft(block) = [rotate(block, -most) EXCEPT !.currentRotation = 0]
    BY <1>3 DEF rotateLeft
  <2>3. ASSUME NEW n \in {-1, 0, 1} PROVE GoodBlock([rotate(block, n) EXCEPT !.currentRotation = 0])
    <3>1. \A k \in 0 .. 3 : GoodBlock([rotate(block, n) EXCEPT !.currentRotation = k])
      BY ONLY <2>3, rotateGood, GoodBlock(block)
    <3>2. 0 \in 0 .. 3
      OBVIOUS
    <3> QED BY ONLY <3>1, <3>2
  <2> HIDE DEF most
  <2>4. GoodBlock([rotate(block, -most) EXCEPT !.currentRotation = 0])
    BY <2>1, <2>3
  <2> QED BY <2>2, <2>4
<1>4. CASE ~(next > most)
  <2>1. rotateLeft(block) = [rotate(block, 1) EXCEPT !.currentRotation = next]
    BY <1>4 DEF rotateLeft
  <2>2. GoodBlock([rotate(block, 1) EXCEPT !.currentRotation = next])
    BY <1>2, rotateGood
  <2> QED BY <2>1, <2>2
<1> QED BY <1>3, <1>4

LEMMA rotateRightGood ==
  ASSUME NEW block, GoodBlock(block)
  PROVE  GoodBlock(rotateRight(block))
<1> DEFINE next == (block.currentRotation + 3) % 4
           most == maxRotations(block.blockType)
<1>1. block.blockType \in BlockType /\ block.currentRotation \in 0 .. 3
  BY DEF GoodBlock, Block
<1>2. next \in 0 .. 3 /\ most \in {0, 1, 4}
  BY <1>1 DEF maxRotations, BlockType
<1>3. CASE next > most
  <2>1. most \in {-1, 0, 1}
    BY <1>2, <1>3
  <2>2. rotateRight(block) = [rotate(block, most) EXCEPT !.currentRotation = 0]
    BY <1>3 DEF rotateRight
  <2>3. ASSUME NEW n \in {-1, 0, 1} PROVE GoodBlock([rotate(block, n) EXCEPT !.currentRotation = 0])
    <3>1. \A k \in 0 .. 3 : GoodBlock([rotate(block, n) EXCEPT !.currentRotation = k])
      BY ONLY <2>3, rotateGood, GoodBlock(block)
    <3>2. 0 \in 0 .. 3
      OBVIOUS
    <3> QED BY ONLY <3>1, <3>2
  <2> HIDE DEF most
  <2>4. GoodBlock([rotate(block, most) EXCEPT !.currentRotation = 0])
    BY <2>1, <2>3
  <2> QED BY <2>2, <2>4
<1>4. CASE ~(next > most)
  <2>1. rotateRight(block) = [rotate(block, -1) EXCEPT !.currentRotation = next]
    BY <1>4 DEF rotateRight
  <2>2. GoodBlock([rotate(block, -1) EXCEPT !.currentRotation = next])
    BY <1>2, rotateGood
  <2> QED BY <2>1, <2>2
<1> QED BY <1>3, <1>4

LEMMA createBlockGood ==
  ASSUME NEW type \in BlockType
  PROVE  GoodBlock(createBlock(type))
<1>1. Columns \div 2 - 1 \in Int /\ Rows - 4 \in Int
  BY SizeAssumption
<1> QED BY <1>1, NewBlockGood, SizeAssumption DEF createBlock

-----------------------------------------------------------------------------
(* The fall of a block *)

LEMMA DownSquares ==
  ASSUME NEW block, GoodBlock(block), NEW n \in Nat
  PROVE  /\ Down(block, n).squares = {Sq(sq.column, sq.row - n) : sq \in block.squares}
         /\ Down(block, n).blockType = block.blockType
<1>1. block \in Block
  BY DEF GoodBlock
<1>2. Down(block, n).squares = {Sq(sq.column + 0, sq.row + (-n)) : sq \in block.squares}
  BY <1>1 DEF Down, Shifted, Block
<1>3. \A sq \in block.squares : Sq(sq.column + 0, sq.row + (-n)) = Sq(sq.column, sq.row - n)
  BY <1>1 DEF Block
<1>4. Down(block, n).blockType = block.blockType
  BY <1>1 DEF Down, Shifted, Block
<1> QED BY <1>2, <1>3, <1>4

LEMMA LowestRowExists ==
  ASSUME NEW block, GoodBlock(block), \A sq \in block.squares : sq.row >= 0
  PROVE  /\ getLowestRow(block) \in Nat
         /\ \E sq \in block.squares : sq.row = getLowestRow(block)
<1> DEFINE heights == {sq.row : sq \in block.squares}
<1>1. block.squares \in SUBSET Square /\ block.squares # {}
  BY DEF GoodBlock, Block, LowEnough, Square
<1>2. heights \in SUBSET Nat /\ heights # {}
  BY <1>1 DEF Square
<1>3. PICK r \in heights : \A other \in heights : r <= other
  BY <1>2, LeastExists
<1>4. \A sq \in block.squares : r <= sq.row
  BY <1>3
<1>5. /\ getLowestRow(block) \in heights
      /\ \A sq \in block.squares : getLowestRow(block) <= sq.row
  BY <1>3, <1>4 DEF getLowestRow, LowestRow
<1> QED BY <1>2, <1>5

\* A block without collision that falls comes to rest above the bottom.
LEMMA getBlockDownFalls ==
  ASSUME NEW gameboard, NEW block, GoodBlock(block), ~collision(gameboard, block)
  PROVE  \E fall \in Nat : getBlockDown(gameboard, block) = Down(block, fall)
<1> DEFINE low == getLowestRow(block)
           stops == {n \in Nat : collision(gameboard, Down(block, n + 1))}
           Rests(n) == /\ \A k \in 0 .. n : ~collision(gameboard, Down(block, k))
                       /\ collision(gameboard, Down(block, n + 1))
<1>1. \A sq \in block.squares : sq.row >= 0
  BY DEF collision, IsFree
<1>2. low \in Nat
  BY <1>1, LowestRowExists
<1>3. low \in stops
  <2>1. PICK sq \in block.squares : sq.row = low
    BY <1>1, LowestRowExists
  <2>2. Sq(sq.column, sq.row - (low + 1)) \in Down(block, low + 1).squares
    BY <1>2, DownSquares
  <2>3. ~IsFree(gameboard, Sq(sq.column, sq.row - (low + 1)))
    BY <1>2, <2>1 DEF IsFree, Sq
  <2>4. collision(gameboard, Down(block, low + 1))
    BY <2>2, <2>3 DEF collision
  <2> QED BY <1>2, <2>4
<1>4. PICK n \in stops : \A m \in stops : n <= m
  BY <1>3, LeastExists
<1>5. n \in 0 .. low
  BY <1>2, <1>3, <1>4
<1>6. Rests(n)
  <2>1. ASSUME NEW k \in 0 .. n PROVE ~collision(gameboard, Down(block, k))
    <3>1. CASE k = 0
      <4>1. Down(block, 0).squares = {Sq(sq.column, sq.row - 0) : sq \in block.squares}
        BY DownSquares
      <4>2. \A sq \in block.squares : Sq(sq.column, sq.row - 0) = sq
        BY DEF GoodBlock, Block, Sq
      <4>3. \A sq \in Down(block, 0).squares : sq \in block.squares
        BY <4>1, <4>2
      <4> QED BY <3>1, <4>3 DEF collision
    <3>2. CASE k # 0
      <4>1. k - 1 \in Nat /\ k - 1 < n /\ (k - 1) + 1 = k
        BY <1>5, <3>2
      <4>2. k - 1 \notin stops
        BY <1>4, <1>5, <4>1
      <4> QED BY <4>1, <4>2
    <3> QED BY <3>1, <3>2
  <2> QED BY <2>1
<1> DEFINE fall == CHOOSE f \in 0 .. low : Rests(f)
<1>7. fall \in 0 .. low
  BY <1>5, <1>6
<1>8. fall \in Nat
  BY <1>2, <1>7
<1>9. getBlockDown(gameboard, block) = Down(block, fall)
  BY DEF getBlockDown
<1> HIDE DEF fall
<1> QED BY <1>8, <1>9

LEMMA getBlockDownGood ==
  ASSUME NEW gameboard, NEW block, GoodBlock(block), ~collision(gameboard, block)
  PROVE  GoodBlock(getBlockDown(gameboard, block))
BY getBlockDownFalls, DownGood

-----------------------------------------------------------------------------
(* Rows *)

\* A board never gets lower than it was.
GoodRows(gameboard) == gameboard \in Seq(SUBSET Column) /\ Len(gameboard) >= Rows

LEMMA NewRowsGood == GoodRows([r \in 1 .. Rows |-> EmptyRow])
<1> DEFINE rows == [r \in 1 .. Rows |-> EmptyRow]
<1>1. rows \in Seq(SUBSET Column)
  BY SizeAssumption DEF EmptyRow
<1>2. Len(rows) = Rows
  BY SizeAssumption, LenProperties, <1>1
<1> QED BY <1>1, <1>2, SizeAssumption DEF GoodRows

LEMMA addBlockToBoardGood ==
  ASSUME NEW gameboard, GoodRows(gameboard), NEW block, GoodBlock(block), ~collision(gameboard, block)
  PROVE  GoodRows(addBlockToBoard(gameboard, block))
<1> DEFINE Here(k) == {sq.column : sq \in {sq \in block.squares : sq.row + 1 = k}}
           added == addBlockToBoard(gameboard, block)
<1>1. gameboard \in Seq(SUBSET Column) /\ Len(gameboard) >= Rows
  BY DEF GoodRows
<1>2. \A sq \in block.squares : sq.column \in Column
  BY DEF collision, IsFree
<1>3. \A k \in 1 .. Len(gameboard) : gameboard[k] \cup Here(k) \in SUBSET Column
  BY <1>1, <1>2
<1>4. added = [k \in 1 .. Len(gameboard) |-> gameboard[k] \cup Here(k)]
  BY <1>1, LenProperties DEF addBlockToBoard
<1> HIDE DEF Here, added
<1>5. Len(gameboard) \in Nat
  BY <1>1
<1>6. added \in Seq(SUBSET Column)
  BY <1>3, <1>4, <1>5
<1>7. Len(added) = Len(gameboard)
  BY <1>4, <1>5, <1>6, LenProperties
<1> QED BY <1>1, <1>6, <1>7 DEF GoodRows, added

LEMMA moveRowsGood ==
  ASSUME NEW gameboard, GoodRows(gameboard), NEW row \in Nat, isRowInsideBoard(gameboard, row)
  PROVE  GoodRows(moveRowsOneStepDown(gameboard, row))
<1> DEFINE high == Len(gameboard) - 1
           erased == [k \in 1 .. high |-> gameboard[IF k <= row THEN k ELSE k + 1]]
<1>1. gameboard \in Seq(SUBSET Column) /\ Len(gameboard) \in Nat /\ Len(gameboard) >= Rows
  BY DEF GoodRows
<1>2. high \in Nat /\ high + 1 >= Rows
  BY <1>1, SizeAssumption DEF isRowInsideBoard
<1>3. \A k \in 1 .. high : gameboard[IF k <= row THEN k ELSE k + 1] \in SUBSET Column
  BY <1>1, <1>2
<1>4. erased \in Seq(SUBSET Column)
  <2>1. erased \in [1 .. high -> SUBSET Column]
    BY <1>3
  <2> HIDE DEF erased, high
  <2> QED BY <1>2, <2>1, SeqDef
<1>5. Len(erased) = high
  BY <1>2, <1>4, LenProperties
<1>6. moveRowsOneStepDown(gameboard, row) = IF Len(erased) < Rows THEN Append(erased, EmptyRow) ELSE erased
  BY DEF moveRowsOneStepDown
<1> HIDE DEF erased, high
<1>7. EmptyRow \in SUBSET Column
  BY DEF EmptyRow
<1>8. /\ Append(erased, EmptyRow) \in Seq(SUBSET Column)
      /\ Len(Append(erased, EmptyRow)) = high + 1
  BY <1>2, <1>4, <1>5, <1>7, AppendProperties
<1> QED BY <1>2, <1>4, <1>5, <1>6, <1>8, SizeAssumption DEF GoodRows

GoodLoop(loop) ==
  /\ loop \in [gameboard : Seq(SUBSET Column), row : Nat, rowsFilled : Nat]
  /\ GoodRows(loop.gameboard)

LEMMA NextRowGood ==
  ASSUME NEW loop, GoodLoop(loop)
  PROVE  GoodLoop(NextRow(loop))
<1>1. loop \in [gameboard : Seq(SUBSET Column), row : Nat, rowsFilled : Nat] /\ GoodRows(loop.gameboard)
  BY DEF GoodLoop
<1>2. CASE isRowInsideBoard(loop.gameboard, loop.row) /\ isRowFilled(loop.gameboard, loop.row)
  <2>1. GoodRows(moveRowsOneStepDown(loop.gameboard, loop.row))
    BY <1>1, <1>2, moveRowsGood
  <2>2. NextRow(loop) = [loop EXCEPT !.gameboard = moveRowsOneStepDown(loop.gameboard, loop.row),
                                     !.rowsFilled = loop.rowsFilled + 1]
    BY <1>1, <1>2 DEF NextRow
  <2>3. ASSUME NEW gameboard, GoodRows(gameboard), NEW rowsFilled \in Nat
        PROVE  GoodLoop([loop EXCEPT !.gameboard = gameboard, !.rowsFilled = rowsFilled])
    BY <1>1, <2>3 DEF GoodLoop, GoodRows
  <2>4. loop.rowsFilled + 1 \in Nat
    BY <1>1
  <2>5. GoodLoop([loop EXCEPT !.gameboard = moveRowsOneStepDown(loop.gameboard, loop.row),
                              !.rowsFilled = loop.rowsFilled + 1])
    BY <2>1, <2>3, <2>4
  <2> QED BY <2>2, <2>5
<1>3. CASE ~(isRowInsideBoard(loop.gameboard, loop.row) /\ isRowFilled(loop.gameboard, loop.row))
  BY <1>1, <1>3 DEF NextRow, GoodLoop
<1> QED BY <1>2, <1>3

LEMMA removeFilledRowsGood ==
  ASSUME NEW gameboard, GoodRows(gameboard), NEW row \in Nat
  PROVE  /\ GoodRows(removeFilledRows(gameboard, row).gameboard)
         /\ removeFilledRows(gameboard, row).rowsFilled \in Nat
<1>1. GoodLoop([gameboard |-> gameboard, row |-> row, rowsFilled |-> 0])
  BY DEF GoodLoop, GoodRows
<1>2. GoodLoop(removeFilledRows(gameboard, row))
  BY <1>1, NextRowGood DEF removeFilledRows
<1> QED BY <1>2 DEF GoodLoop

-----------------------------------------------------------------------------
(* Boards and players *)

GoodBoard(b) == b \in Board /\ LowEnough(b.current) /\ Len(b.gameboard) >= Rows

LEMMA GoodBoardParts ==
  ASSUME NEW b, GoodBoard(b)
  PROVE  b \in Board /\ GoodRows(b.gameboard) /\ GoodBlock(b.current) /\ b.next \in BlockType
BY DEF GoodBoard, GoodRows, GoodBlock, Board

LEMMA GoodBoardInside ==
  ASSUME NEW b, GoodBoard(b), ~collision(b.gameboard, b.current), NEW sq \in b.current.squares
  PROVE  sq.column \in Column /\ isRowInsideBoard(b.gameboard, sq.row)
<1>1. sq.column \in Column /\ sq.row >= 0
  BY DEF collision, IsFree
<1>2. sq.row - b.current.rotationSquare.row \in -2 .. 2
  BY DEF GoodBoard, LowEnough, Reach
<1>3. b.current.rotationSquare.row <= Rows - 3
  BY DEF GoodBoard, LowEnough
<1>4. sq.row \in Int /\ b.current.rotationSquare.row \in Int
  BY DEF GoodBoard, Board, Block
<1>5. Len(b.gameboard) \in Nat /\ Len(b.gameboard) >= Rows
  BY DEF GoodBoard, Board
<1>6. sq.row < Len(b.gameboard)
  BY <1>2, <1>3, <1>4, <1>5, SizeAssumption
<1> QED BY <1>1, <1>6 DEF isRowInsideBoard

LEMMA NewBoardGood ==
  ASSUME NEW current \in BlockType, NEW next \in BlockType
  PROVE  GoodBoard(NewBoard(current, next))
<1>1. GoodBlock(createBlock(current))
  BY createBlockGood
<1>2. GoodRows([r \in 1 .. Rows |-> EmptyRow])
  BY NewRowsGood
<1> DEFINE rows == [r \in 1 .. Rows |-> EmptyRow]
           block == createBlock(current)
<1>3. NewBoard(current, next) = [gameboard |-> rows, current |-> block, next |-> next, isGameOver |-> FALSE]
  BY DEF NewBoard
<1>4. ASSUME NEW gameboard, GoodRows(gameboard), NEW moving, GoodBlock(moving)
      PROVE  GoodBoard([gameboard |-> gameboard, current |-> moving, next |-> next, isGameOver |-> FALSE])
  BY <1>4 DEF GoodBoard, GoodBlock, GoodRows, Board
<1> HIDE DEF rows, block
<1>5. GoodRows(rows) /\ GoodBlock(block)
  BY <1>1, <1>2 DEF rows, block
<1> QED BY <1>3, <1>4, <1>5

LEMMA MovedGood ==
  ASSUME NEW b, GoodBoard(b), ~collision(b.gameboard, b.current), NEW move \in Move \ {"GameOver"}
  PROVE  GoodBlock(Moved(b, move))
<1>1. GoodBlock(b.current)
  BY GoodBoardParts
<1>2. ASSUME NEW columns \in Int PROVE GoodBlock(Shifted(b.current, columns, 0))
  BY <1>1, ShiftedGood
<1>3. CASE move \in {"Left", "Right"}
  <2>1. Moved(b, move) \in {Shifted(b.current, -1, 0), Shifted(b.current, 1, 0)}
    BY <1>3 DEF Moved
  <2>2. GoodBlock(Shifted(b.current, -1, 0)) /\ GoodBlock(Shifted(b.current, 1, 0))
    BY <1>2
  <2> QED BY <2>1, <2>2
<1>4. CASE move \in {"Down", "DownGravity"}
  BY <1>1, <1>4, DownGood DEF Moved
<1>5. CASE move = "DownGround"
  BY <1>1, <1>5, getBlockDownGood DEF Moved
<1>6. CASE move = "RotateLeft"
  BY <1>1, <1>6, rotateLeftGood DEF Moved
<1>7. CASE move = "RotateRight"
  BY <1>1, <1>7, rotateRightGood DEF Moved
<1> QED BY <1>3, <1>4, <1>5, <1>6, <1>7 DEF Move

LEMMA updateGood ==
  ASSUME NEW b, GoodBoard(b), NEW move \in Move
  PROVE  GoodBoard(update(b, move))
<1>1. b \in Board
  BY GoodBoardParts
<1>2. GoodBoard([b EXCEPT !.isGameOver = TRUE])
  BY <1>1 DEF GoodBoard, Board
<1>3. ASSUME NEW block, GoodBlock(block) PROVE GoodBoard([b EXCEPT !.current = block])
  BY <1>1, <1>3 DEF GoodBoard, GoodBlock, Board
<1>4. CASE b.isGameOver \/ collision(b.gameboard, b.current) \/ move = "GameOver"
  BY <1>2, <1>4 DEF update
<1>5. CASE ~(b.isGameOver \/ collision(b.gameboard, b.current) \/ move = "GameOver")
  <2>1. GoodBlock(Moved(b, move))
    BY <1>5, MovedGood
  <2>2. GoodBoard([b EXCEPT !.current = Moved(b, move)])
    BY <1>3, <2>1
  <2>3. update(b, move) \in {b, [b EXCEPT !.current = Moved(b, move)]}
    BY <1>5 DEF update
  <2> QED BY <2>2, <2>3
<1> QED BY <1>4, <1>5

\* A landing block is inside the board, whose rows only get more.
LEMMA LandedGood ==
  ASSUME NEW b, GoodBoard(b), NEW move, Lands(b, move), NEW externalRows \in Seq(ExternalRow)
  PROVE  GoodBoard(Landed(b, externalRows).board) /\ Landed(b, externalRows).rowsFilled \in Nat
<1> DEFINE block == b.current
           written == addBlockToBoard(b.gameboard, block)
           added == externalRows \o written
           loop == removeFilledRows(added, getLowestRow(block))
<1>1. GoodRows(b.gameboard) /\ GoodBlock(block) /\ ~collision(b.gameboard, block)
  BY GoodBoardParts DEF Lands
<1>2. GoodRows(written)
  BY <1>1, addBlockToBoardGood
<1>3. GoodRows(added)
  <2>1. externalRows \in Seq(SUBSET Column)
    BY PlayerAssumption
  <2>2. written \in Seq(SUBSET Column) /\ Len(written) >= Rows
    BY <1>2 DEF GoodRows
  <2> HIDE DEF written
  <2>3. added \in Seq(SUBSET Column) /\ Len(added) = Len(externalRows) + Len(written)
    BY <2>1, <2>2, ConcatProperties
  <2>4. Len(externalRows) \in Nat /\ Len(written) \in Nat
    BY <2>1, <2>2
  <2> QED BY <2>2, <2>3, <2>4, SizeAssumption DEF GoodRows
<1>4. getLowestRow(block) \in Nat
  <2>1. \A sq \in block.squares : sq.row >= 0
    BY <1>1 DEF collision, IsFree
  <2> QED BY <1>1, <2>1, LowestRowExists
<1>5. GoodRows(loop.gameboard) /\ loop.rowsFilled \in Nat
  BY <1>3, <1>4, removeFilledRowsGood
<1>6. GoodBlock(createBlock(b.next))
  BY GoodBoardParts, createBlockGood
<1>7. Landed(b, externalRows) = [board |-> [b EXCEPT !.gameboard = loop.gameboard, !.current = createBlock(b.next)],
                                 rowsFilled |-> loop.rowsFilled]
  BY DEF Landed
<1>8. ASSUME NEW gameboard, GoodRows(gameboard), NEW current, GoodBlock(current)
      PROVE  GoodBoard([b EXCEPT !.gameboard = gameboard, !.current = current])
  BY <1>8 DEF GoodBoard, GoodRows, GoodBlock, Board
<1> HIDE DEF loop
<1>9. GoodBoard([b EXCEPT !.gameboard = loop.gameboard, !.current = createBlock(b.next)])
  BY <1>5, <1>6, <1>8
<1> QED BY <1>5, <1>7, <1>9

GoodPlayer(p) == p \in PlayerState /\ GoodBoard(p.tetrisBoard)

LEMMA NewPlayerGood ==
  ASSUME NEW current \in BlockType, NEW next \in BlockType
  PROVE  GoodPlayer(NewPlayer(current, next))
<1>1. GoodBoard(NewBoard(current, next))
  BY NewBoardGood
<1>2. << >> \in Seq(ExternalRow)
  OBVIOUS
<1> QED BY <1>1, <1>2, GoodBoardParts DEF NewPlayer, GoodPlayer, PlayerState

LEMMA updateMoveGood ==
  ASSUME NEW p, GoodPlayer(p), NEW move \in Move, NEW random \in BlockType
  PROVE  GoodPlayer(updateMove(p, move, random))
<1> DEFINE landed == Landed(p.tetrisBoard, p.externalRows)
<1>1. p \in PlayerState /\ GoodBoard(p.tetrisBoard)
  BY DEF GoodPlayer
<1>2. CASE Lands(p.tetrisBoard, move)
  <2>1. GoodBoard(landed.board) /\ landed.rowsFilled \in Nat
    BY <1>1, <1>2, LandedGood DEF PlayerState
  <2>2. updateMove(p, move, random) = [tetrisBoard |-> [landed.board EXCEPT !.next = random],
                                       clearedRows |-> p.clearedRows + landed.rowsFilled,
                                       externalRows |-> << >>]
    BY <1>2 DEF updateMove
  <2> HIDE DEF landed
  <2>3. GoodBoard([landed.board EXCEPT !.next = random])
    BY <2>1 DEF GoodBoard, Board
  <2>4. p.clearedRows + landed.rowsFilled \in Nat
    BY <1>1, <2>1 DEF PlayerState
  <2>5. << >> \in Seq(ExternalRow)
    OBVIOUS
  <2>6. ASSUME NEW b, GoodBoard(b), NEW clearedRows \in Nat, NEW externalRows \in Seq(ExternalRow)
        PROVE  GoodPlayer([tetrisBoard |-> b, clearedRows |-> clearedRows, externalRows |-> externalRows])
    BY <2>6, GoodBoardParts DEF GoodPlayer, PlayerState
  <2> QED BY <2>2, <2>3, <2>4, <2>5, <2>6
<1>3. CASE ~Lands(p.tetrisBoard, move)
  <2>1. GoodBoard(update(p.tetrisBoard, move))
    BY <1>1, updateGood
  <2>2. updateMove(p, move, random) = [p EXCEPT !.tetrisBoard = update(p.tetrisBoard, move)]
    BY <1>1, <1>3 DEF updateMove, PlayerState
  <2>3. ASSUME NEW b, GoodBoard(b) PROVE GoodPlayer([p EXCEPT !.tetrisBoard = b])
    BY <1>1, <2>3, GoodBoardParts DEF GoodPlayer, PlayerState
  <2> QED BY <2>1, <2>2, <2>3
<1> QED BY <1>2, <1>3

LEMMA updateNextBlockGood ==
  ASSUME NEW p, GoodPlayer(p), NEW next \in BlockType
  PROVE  GoodPlayer(updateNextBlock(p, next))
<1>1. p \in PlayerState /\ GoodBoard(p.tetrisBoard)
  BY DEF GoodPlayer
<1>2. GoodBoard([p.tetrisBoard EXCEPT !.next = next])
  BY <1>1 DEF GoodBoard, Board
<1>3. updateNextBlock(p, next) = [p EXCEPT !.tetrisBoard = [p.tetrisBoard EXCEPT !.next = next]]
  BY <1>1 DEF updateNextBlock, PlayerState
<1>4. ASSUME NEW b, GoodBoard(b) PROVE GoodPlayer([p EXCEPT !.tetrisBoard = b])
  BY <1>1, <1>4, GoodBoardParts DEF GoodPlayer, PlayerState
<1> QED BY <1>2, <1>3, <1>4

LEMMA addExternalRowsGood ==
  ASSUME NEW p, GoodPlayer(p), NEW rows \in Seq(ExternalRow)
  PROVE  GoodPlayer(addExternalRows(p, rows))
<1>1. p \in PlayerState /\ GoodBoard(p.tetrisBoard)
  BY DEF GoodPlayer
<1>2. p.externalRows \o rows \in Seq(ExternalRow)
  BY <1>1, ConcatProperties DEF PlayerState
<1>3. addExternalRows(p, rows) = [p EXCEPT !.externalRows = p.externalRows \o rows]
  BY <1>1 DEF addExternalRows, PlayerState
<1>4. ASSUME NEW waiting \in Seq(ExternalRow) PROVE GoodPlayer([p EXCEPT !.externalRows = waiting])
  BY <1>1 DEF GoodPlayer, PlayerState
<1> QED BY <1>2, <1>3, <1>4

-----------------------------------------------------------------------------
(* Steps *)

\* Both boards are low enough for every turn, and what is sent fits.
IInv == TypeOK /\ GoodPlayer(owner) /\ GoodPlayer(copy)

LEMMA InitIsGood == Init => IInv
<1> SUFFICES ASSUME Init PROVE IInv
  OBVIOUS
<1>1. left \in [types : SUBSET BlockType, landings : Nat, attacks : Nat, restarts : Nat]
  BY PlayerAssumption DEF Init
<1>2. PICK current \in left.types, next \in left.types : owner = NewPlayer(current, next)
  BY DEF Init
<1>3. GoodPlayer(owner) /\ GoodPlayer(copy)
  BY <1>1, <1>2, NewPlayerGood DEF Init
<1>4. updates \in Seq(Update)
  BY DEF Init
<1> QED BY <1>1, <1>3, <1>4 DEF IInv, TypeOK, GoodPlayer

LEMMA SpendGood ==
  ASSUME left \in [types : SUBSET BlockType, landings : Nat, attacks : Nat, restarts : Nat],
         NEW what \in {"landings", "attacks", "restarts"}, Spend(what)
  PROVE  left' \in [types : SUBSET BlockType, landings : Nat, attacks : Nat, restarts : Nat]
<1>1. left[what] \in Nat /\ left[what] > 0
  BY DEF Spend
<1>2. left[what] - 1 \in Nat
  BY <1>1
<1>3. left' = [left EXCEPT ![what] = left[what] - 1]
  BY DEF Spend
<1> QED BY <1>2, <1>3

LEMMA NextIsGood == IInv /\ [Next]_vars => IInv'
<1> SUFFICES ASSUME IInv, [Next]_vars PROVE IInv'
  OBVIOUS
<1> USE DEF IInv
<1>1. /\ left \in [types : SUBSET BlockType, landings : Nat, attacks : Nat, restarts : Nat]
      /\ updates \in Seq(Update)
  BY DEF TypeOK
<1>2. ASSUME GoodPlayer(owner'), GoodPlayer(copy'), updates' \in Seq(Update),
             left' \in [types : SUBSET BlockType, landings : Nat, attacks : Nat, restarts : Nat]
      PROVE  IInv'
  BY <1>2 DEF TypeOK, GoodPlayer
<1>3. ASSUME NEW move \in Moves, OwnerMoves(move) PROVE IInv'
  <2>1. PICK random \in left.types :
          /\ \/ /\ Lands(owner.tetrisBoard, move)
                /\ Spend("landings")
                /\ updates' = updates \o << [type |-> "board_move", move |-> move],
                                            [type |-> "next_block", next |-> random] >>
             \/ /\ ~Lands(owner.tetrisBoard, move)
                /\ random = owner.tetrisBoard.next
                /\ updates' = Append(updates, [type |-> "board_move", move |-> move])
                /\ UNCHANGED left
          /\ owner' = updateMove(owner, move, random)
          /\ UNCHANGED copy
    BY <1>3 DEF OwnerMoves
  <2>2. random \in BlockType /\ move \in Move
    BY <1>1, PlayerAssumption
  <2>3. GoodPlayer(owner') /\ GoodPlayer(copy')
    BY <2>1, <2>2, updateMoveGood
  <2>4. /\ [type |-> "board_move", move |-> move] \in Update
        /\ [type |-> "next_block", next |-> random] \in Update
    BY <2>2 DEF Update
  <2>5. updates' \in Seq(Update)
    <3>1. ASSUME NEW one \in Update, NEW other \in Update PROVE updates \o << one, other >> \in Seq(Update)
      BY <1>1
    <3>2. ASSUME NEW one \in Update PROVE Append(updates, one) \in Seq(Update)
      BY <1>1
    <3>3. /\ updates \o << [type |-> "board_move", move |-> move],
                           [type |-> "next_block", next |-> random] >> \in Seq(Update)
          /\ Append(updates, [type |-> "board_move", move |-> move]) \in Seq(Update)
      BY <2>4, <3>1, <3>2
    <3> QED BY <2>1, <3>3
  <2>6. left' \in [types : SUBSET BlockType, landings : Nat, attacks : Nat, restarts : Nat]
    BY <1>1, <2>1, SpendGood
  <2> QED BY <1>2, <2>3, <2>5, <2>6
<1>4. CASE Attack
  <2>1. PICK first \in ExternalRow, second \in ExternalRow :
          /\ Spend("attacks")
          /\ owner' = addExternalRows(addExternalRows(owner, << first >>), << second >>)
          /\ updates' = updates \o << [type |-> "board_external_squares", rows |-> << first >>],
                                      [type |-> "board_external_squares", rows |-> << second >>] >>
          /\ UNCHANGED copy
    BY <1>4 DEF Attack
  <2>2. << first >> \in Seq(ExternalRow) /\ << second >> \in Seq(ExternalRow)
    OBVIOUS
  <2>3. GoodPlayer(owner') /\ GoodPlayer(copy')
    BY <2>1, <2>2, addExternalRowsGood
  <2>4. /\ [type |-> "board_external_squares", rows |-> << first >>] \in Update
        /\ [type |-> "board_external_squares", rows |-> << second >>] \in Update
    BY <2>2 DEF Update
  <2>5. updates' \in Seq(Update)
    BY <1>1, <2>1, <2>4
  <2> QED BY <1>1, <1>2, <2>1, <2>3, <2>5, SpendGood
<1>5. CASE Restart
  <2>1. PICK current \in left.types, next \in left.types :
          /\ Spend("restarts")
          /\ owner' = updateRestart(owner, current, next)
          /\ updates' = Append(updates, [type |-> "game_restart", current |-> current, next |-> next])
          /\ UNCHANGED copy
    BY <1>5 DEF Restart
  <2>2. current \in BlockType /\ next \in BlockType
    BY <1>1
  <2>3. GoodPlayer(owner') /\ GoodPlayer(copy')
    BY <2>1, <2>2, NewPlayerGood DEF updateRestart
  <2>4. [type |-> "game_restart", current |-> current, next |-> next] \in Update
    BY <2>2 DEF Update
  <2>5. updates' \in Seq(Update)
    BY <1>1, <2>1, <2>4
  <2> QED BY <1>1, <1>2, <2>1, <2>3, <2>5, SpendGood
<1>6. CASE CopyReceives
  <2> DEFINE u == Head(updates)
  <2>1. u \in Update /\ updates' \in Seq(Update)
    BY <1>1, <1>6, HeadTailProperties DEF CopyReceives
  <2>2. UNCHANGED <<owner, left>>
    BY <1>6 DEF CopyReceives
  <2>3. GoodPlayer(copy')
    <3> HIDE DEF u
    <3>1. CASE u.type = "board_move"
      <4>1. PICK random \in left.types : copy' = updateMove(copy, u.move, random)
        BY <1>6, <3>1 DEF CopyReceives, u
      <4>2. u.move \in Move /\ random \in BlockType
        BY <1>1, <2>1, <3>1, PlayerAssumption DEF Update
      <4> QED BY <4>1, <4>2, updateMoveGood
    <3>2. CASE u.type = "next_block"
      <4>1. copy' = updateNextBlock(copy, u.next)
        BY <1>6, <3>2 DEF CopyReceives, u
      <4>2. u.next \in BlockType
        BY <2>1, <3>2 DEF Update
      <4> QED BY <4>1, <4>2, updateNextBlockGood
    <3>3. CASE u.type = "board_external_squares"
      <4>1. copy' = addExternalRows(copy, u.rows)
        BY <1>6, <3>3 DEF CopyReceives, u
      <4>2. u.rows \in Seq(ExternalRow)
        BY <2>1, <3>3 DEF Update
      <4> QED BY <4>1, <4>2, addExternalRowsGood
    <3>4. CASE u.type = "game_restart"
      <4>1. copy' = updateRestart(copy, u.current, u.next)
        BY <1>6, <3>4 DEF CopyReceives, u
      <4>2. u.current \in BlockType /\ u.next \in BlockType
        BY <2>1, <3>4 DEF Update
      <4> QED BY <4>1, <4>2, NewPlayerGood DEF updateRestart
    <3> QED BY <2>1, <3>1, <3>2, <3>3, <3>4 DEF Update
  <2> QED BY <1>1, <1>2, <2>1, <2>2, <2>3
<1>7. CASE UNCHANGED vars
  BY <1>1, <1>2, <1>7 DEF vars
<1> QED BY <1>3, <1>4, <1>5, <1>6, <1>7 DEF Next

LEMMA AlwaysGood == Spec => []IInv
<1> QED BY InitIsGood, NextIsGood, PTL DEF Spec

\* A board and its copy have the types of the code's classes, whatever is played and sent: Player's
\* type invariant.
THEOREM TypeCorrect == Spec => []TypeOK
<1>1. IInv => TypeOK
  BY DEF IInv
<1> QED BY <1>1, AlwaysGood, PTL

\* addBlockToBoard writes inside of the vector, on boards of every size: a block that is turned and
\* moved stays low enough for the rows there are, and the rows never get less.
THEOREM AlwaysLandsInside == Spec => []LandsInside
<1>1. IInv => LandsInside
  BY GoodBoardInside DEF IInv, GoodPlayer, LandsInside
<1> QED BY <1>1, AlwaysGood, PTL

-----------------------------------------------------------------------------
(* The states between copy and owner *)

\* What an update makes of a player.  The block that is drawn when a block lands is not told by the
\* move but by the update that follows it, so nothing is drawn here.
Applied(p, u) ==
  IF u.type = "board_move" THEN updateMove(p, u.move, p.tetrisBoard.next)
  ELSE IF u.type = "next_block" THEN updateNextBlock(p, u.next)
  ELSE IF u.type = "board_external_squares" THEN addExternalRows(p, u.rows)
  ELSE updateRestart(p, u.current, u.next)

\* h leads through the updates.
Leads(h, us) ==
  /\ h \in [1 .. Len(us) + 1 -> PlayerState]
  /\ \A i \in 1 .. Len(us) : h[i + 1] = Applied(h[i], us[i])

MoveLands(p, u) == u.type = "board_move" /\ Lands(p.tetrisBoard, u.move)

\* A move that lets the block land, up to the n-th update, is followed by the next block.
Announced(h, us, n) ==
  \A i \in 1 .. n : MoveLands(h[i], us[i]) => i + 1 \in 1 .. Len(us) /\ us[i + 1].type = "next_block"

\* The copy is p, or differs in the next block that is about to arrive.
CopyIs(p) ==
  \/ copy = p
  \/ /\ updates # << >>
     /\ updates[1].type = "next_block"
     /\ \A next \in BlockType : updateNextBlock(copy, next) = updateNextBlock(p, next)

Led(h) ==
  /\ Leads(h, updates)
  /\ Announced(h, updates, Len(updates))
  /\ h[Len(updates) + 1] = owner
  /\ CopyIs(h[1])

\* The updates lead from the copy to the owner.
CopyInv == \E h : Led(h)

\* One more update.
LEMMA LeadsOn ==
  ASSUME NEW us \in Seq(Update), NEW h, Leads(h, us), NEW u \in Update, Applied(h[Len(us) + 1], u) \in PlayerState
  PROVE  \E g : /\ Leads(g, Append(us, u))
                /\ \A i \in 1 .. Len(us) + 1 : g[i] = h[i]
                /\ g[Len(us) + 2] = Applied(h[Len(us) + 1], u)
<1> DEFINE n == Len(us)
           q == Applied(h[n + 1], u)
           more == Append(us, u)
           g == [i \in 1 .. n + 2 |-> IF i = n + 2 THEN q ELSE h[i]]
<1>1. n \in Nat /\ more \in Seq(Update) /\ Len(more) = n + 1 /\ more[n + 1] = u /\ \A i \in 1 .. n : more[i] = us[i]
  BY AppendProperties
<1>2. h \in [1 .. n + 1 -> PlayerState] /\ \A i \in 1 .. n : h[i + 1] = Applied(h[i], us[i])
  BY DEF Leads
<1>3. q \in PlayerState
  OBVIOUS
<1> HIDE DEF n, q, more
<1>4. g \in [1 .. n + 2 -> PlayerState] /\ (\A i \in 1 .. n + 1 : g[i] = h[i]) /\ g[n + 2] = q
  BY <1>1, <1>2, <1>3
<1> HIDE DEF g
<1>5. ASSUME NEW i \in 1 .. n + 1 PROVE g[i + 1] = Applied(g[i], more[i])
  <2>1. CASE i = n + 1
    <3>1. i + 1 = n + 2 /\ g[i] = h[n + 1] /\ more[i] = u
      BY <1>1, <1>4, <2>1
    <3> QED BY <1>4, <3>1 DEF q, n
  <2>2. CASE i # n + 1
    <3>1. i \in 1 .. n /\ i + 1 \in 1 .. n + 1
      BY <1>1, <2>2
    <3> QED BY <1>1, <1>2, <1>4, <3>1
  <2> QED BY <2>1, <2>2
<1>6. n + 1 + 1 = n + 2
  BY <1>1
<1>7. Leads(g, more)
  BY <1>1, <1>4, <1>5, <1>6 DEF Leads
<1> QED BY <1>4, <1>7 DEF more, q, n

LEMMA AnnouncedOn ==
  ASSUME NEW us \in Seq(Update), NEW h, NEW n \in 0 .. Len(us), Announced(h, us, n), NEW u \in Update,
         NEW g, \A i \in 1 .. n : g[i] = h[i]
  PROVE  Announced(g, Append(us, u), n)
<1> DEFINE more == Append(us, u)
           size == Len(us)
<1>1. size \in Nat /\ Len(more) = size + 1 /\ \A i \in 1 .. size : more[i] = us[i]
  BY AppendProperties
<1>2. n \in 0 .. size
  OBVIOUS
<1> HIDE DEF more, size
<1>3. ASSUME NEW i \in 1 .. n, MoveLands(g[i], more[i]) PROVE i + 1 \in 1 .. size + 1 /\ more[i + 1].type = "next_block"
  <2>1. i \in 1 .. size /\ more[i] = us[i] /\ g[i] = h[i]
    BY <1>1, <1>2
  <2>2. i + 1 \in 1 .. size /\ us[i + 1].type = "next_block"
    BY <1>3, <2>1 DEF Announced, size
  <2> QED BY <1>1, <2>2
<1> QED BY <1>1, <1>3 DEF Announced, more

-----------------------------------------------------------------------------
(* What is drawn *)

LEMMA NothingIsDrawn ==
  ASSUME NEW p, NEW move, ~Lands(p.tetrisBoard, move), NEW random, NEW other
  PROVE  updateMove(p, move, random) = updateMove(p, move, other)
BY DEF updateMove

\* After the next block is told, it does not matter what was drawn.
LEMMA TheDrawIsReplaced ==
  ASSUME NEW p, GoodPlayer(p), NEW move, Lands(p.tetrisBoard, move), NEW random, NEW next
  PROVE  updateNextBlock(updateMove(p, move, random), next) = updateMove(p, move, next)
<1> DEFINE landed == Landed(p.tetrisBoard, p.externalRows)
           cleared == p.clearedRows + landed.rowsFilled
<1>1. landed.board \in Board
  BY LandedGood, GoodBoardParts DEF GoodPlayer, PlayerState
<1>2. \A x : updateMove(p, move, x) = [tetrisBoard |-> [landed.board EXCEPT !.next = x], clearedRows |-> cleared,
                                       externalRows |-> << >>]
  BY DEF updateMove
<1> HIDE DEF landed, cleared
<1>3. [[landed.board EXCEPT !.next = random] EXCEPT !.next = next] = [landed.board EXCEPT !.next = next]
  BY <1>1 DEF Board
<1>4. ASSUME NEW b, NEW c, NEW rows
      PROVE  updateNextBlock([tetrisBoard |-> b, clearedRows |-> c, externalRows |-> rows], next)
               = [tetrisBoard |-> [b EXCEPT !.next = next], clearedRows |-> c, externalRows |-> rows]
  BY DEF updateNextBlock
<1> QED BY <1>2, <1>3, <1>4

\* The update of a player that is told whole.
LEMMA AppliedGood ==
  ASSUME NEW p, GoodPlayer(p), NEW u \in Update
  PROVE  GoodPlayer(Applied(p, u))
<1>1. CASE u.type = "board_move"
  <2>1. u.move \in Move /\ p.tetrisBoard.next \in BlockType
    BY <1>1, PlayerAssumption, GoodBoardParts DEF Update, GoodPlayer
  <2> QED BY <1>1, <2>1, updateMoveGood DEF Applied
<1>2. CASE u.type = "next_block"
  BY <1>2, updateNextBlockGood DEF Applied, Update
<1>3. CASE u.type = "board_external_squares"
  BY <1>3, addExternalRowsGood DEF Applied, Update
<1>4. CASE u.type = "game_restart"
  BY <1>4, NewPlayerGood DEF Applied, Update, updateRestart
<1> QED BY <1>1, <1>2, <1>3, <1>4 DEF Update

\* The copy is where it was as long as the head of the updates is the same.
LEMMA CopyStays ==
  ASSUME updates \in Seq(Update), NEW p, CopyIs(p), UNCHANGED copy, updates' \in Seq(Update),
         Len(updates') >= Len(updates), \A i \in 1 .. Len(updates) : updates'[i] = updates[i]
  PROVE  CopyIs(p)'
<1>1. CASE copy = p
  BY <1>1 DEF CopyIs
<1>2. CASE copy # p
  <2>1. updates # << >> /\ updates[1].type = "next_block" /\ \A next \in BlockType : updateNextBlock(copy, next) = updateNextBlock(p, next)
    BY <1>2 DEF CopyIs
  <2>2. Len(updates) >= 1 /\ Len(updates) \in Nat /\ Len(updates') \in Nat
    BY <2>1, EmptySeq
  <2>3. updates' # << >> /\ updates'[1] = updates[1]
    BY <2>2, EmptySeq
  <2> QED BY <2>1, <2>3 DEF CopyIs
<1> QED BY <1>1, <1>2

\* h leads through the updates to p, and the moves that let a block land are announced.
LeadsTo(h, us, p) == Leads(h, us) /\ Announced(h, us, Len(us)) /\ h[Len(us) + 1] = p

\* One more update that lets no block land.
LEMMA OneMore ==
  ASSUME NEW us \in Seq(Update), NEW h, NEW p, GoodPlayer(p), LeadsTo(h, us, p), NEW u \in Update, ~MoveLands(p, u)
  PROVE  \E g : LeadsTo(g, Append(us, u), Applied(p, u)) /\ g[1] = h[1]
<1> DEFINE n == Len(us)
           more == Append(us, u)
           q == Applied(p, u)
<1>1. Leads(h, us) /\ Announced(h, us, n) /\ h[n + 1] = p
  BY DEF LeadsTo
<1>2. q \in PlayerState
  BY AppliedGood DEF GoodPlayer
<1>3. PICK g : Leads(g, more) /\ (\A i \in 1 .. n + 1 : g[i] = h[i]) /\ g[n + 2] = q
  BY <1>1, <1>2, LeadsOn
<1>4. n \in Nat /\ more \in Seq(Update) /\ Len(more) = n + 1 /\ more[n + 1] = u
  BY AppendProperties
<1>5. Announced(g, more, n)
  <2>1. n \in 0 .. Len(us) /\ \A i \in 1 .. n : g[i] = h[i]
    BY <1>3, <1>4
  <2> QED BY <1>1, <2>1, AnnouncedOn
<1> HIDE DEF n, more, q
<1>6. Announced(g, more, n + 1)
  <2>1. ~MoveLands(g[n + 1], more[n + 1])
    BY <1>1, <1>3, <1>4
  <2> QED BY <1>4, <1>5, <2>1 DEF Announced
<1>7. n + 1 + 1 = n + 2 /\ 1 \in 1 .. n + 1
  BY <1>4
<1>8. LeadsTo(g, more, q) /\ g[1] = h[1]
  BY <1>3, <1>4, <1>6, <1>7 DEF LeadsTo
<1> QED BY <1>8 DEF more, q

\* The owner takes a step that one update tells.
LEMMA OwnerGoesOn ==
  ASSUME updates \in Seq(Update), GoodPlayer(owner), CopyInv, UNCHANGED copy,
         NEW u \in Update, updates' = Append(updates, u), owner' = Applied(owner, u), ~MoveLands(owner, u)
  PROVE  CopyInv'
<1>1. PICK h : LeadsTo(h, updates, owner) /\ CopyIs(h[1])
  BY DEF CopyInv, Led, LeadsTo
<1>2. PICK g : LeadsTo(g, updates', owner') /\ g[1] = h[1]
  BY <1>1, OneMore
<1>3. updates' \in Seq(Update) /\ Len(updates') >= Len(updates) /\ \A i \in 1 .. Len(updates) : updates'[i] = updates[i]
  BY AppendProperties
<1>4. CopyIs(g[1])'
  BY <1>1, <1>2, <1>3, CopyStays
<1>5. Led(g)'
  BY <1>2, <1>4 DEF Led, LeadsTo
<1> QED BY <1>5 DEF CopyInv

\* An attack is told by two updates.
LEMMA AttackTold ==
  ASSUME updates \in Seq(Update), GoodPlayer(owner), CopyInv, Attack
  PROVE  CopyInv'
<1>1. PICK first \in ExternalRow, second \in ExternalRow :
        /\ owner' = addExternalRows(addExternalRows(owner, << first >>), << second >>)
        /\ updates' = updates \o << [type |-> "board_external_squares", rows |-> << first >>],
                                    [type |-> "board_external_squares", rows |-> << second >>] >>
        /\ UNCHANGED copy
  BY DEF Attack
<1> DEFINE u == [type |-> "board_external_squares", rows |-> << first >>]
           v == [type |-> "board_external_squares", rows |-> << second >>]
           more == Append(updates, u)
           p == Applied(owner, u)
<1>2. u \in Update /\ v \in Update /\ ~MoveLands(owner, u) /\ ~MoveLands(p, v)
  BY DEF Update, MoveLands
<1>3. owner' = Applied(p, v)
  BY <1>1 DEF Applied
<1>4. updates' = Append(more, v)
  BY <1>1, <1>2
<1> HIDE DEF u, v
<1>5. PICK h : LeadsTo(h, updates, owner) /\ CopyIs(h[1])
  BY DEF CopyInv, Led, LeadsTo
<1>6. PICK f : LeadsTo(f, more, p) /\ f[1] = h[1]
  BY <1>2, <1>5, OneMore
<1>7. GoodPlayer(p)
  BY <1>2, AppliedGood
<1>8. more \in Seq(Update) /\ Len(more) = Len(updates) + 1 /\ \A i \in 1 .. Len(updates) : more[i] = updates[i]
  BY <1>2, AppendProperties
<1>9. updates' \in Seq(Update) /\ Len(updates') = Len(more) + 1 /\ \A i \in 1 .. Len(more) : updates'[i] = more[i]
  BY <1>2, <1>4, <1>8, AppendProperties
<1> HIDE DEF more, p
<1>10. PICK g : LeadsTo(g, updates', owner') /\ g[1] = f[1]
  BY <1>2, <1>3, <1>4, <1>6, <1>7, <1>8, OneMore
<1>11. CopyIs(g[1])'
  <2>1. g[1] = h[1] /\ Len(updates) \in Nat /\ Len(updates') = Len(updates) + 1 + 1
    BY <1>6, <1>8, <1>9, <1>10
  <2>2. Len(updates') >= Len(updates)
    BY <2>1
  <2>3. \A i \in 1 .. Len(updates) : updates'[i] = updates[i]
    BY <1>8, <1>9, <2>1
  <2> QED BY <1>1, <1>5, <1>9, <2>1, <2>2, <2>3, CopyStays
<1>12. Led(g)'
  BY <1>10, <1>11 DEF Led, LeadsTo
<1> QED BY <1>12 DEF CopyInv

\* The owner lets a block land, and tells what it drew.
LEMMA OwnerLands ==
  ASSUME updates \in Seq(Update), GoodPlayer(owner), CopyInv, UNCHANGED copy,
         NEW move \in Moves, Lands(owner.tetrisBoard, move), NEW random \in BlockType,
         updates' = updates \o << [type |-> "board_move", move |-> move], [type |-> "next_block", next |-> random] >>,
         owner' = updateMove(owner, move, random)
  PROVE  CopyInv'
<1> DEFINE n == Len(updates)
           u == [type |-> "board_move", move |-> move]
           v == [type |-> "next_block", next |-> random]
           more == Append(updates, u)
           moved == Applied(owner, u)
<1>1. PICK h : Led(h)
  BY DEF CopyInv
<1>2. Leads(h, updates) /\ Announced(h, updates, n) /\ h[n + 1] = owner /\ CopyIs(h[1])
  BY <1>1 DEF Led
<1>3. u \in Update /\ v \in Update /\ u.type = "board_move" /\ v.type = "next_block"
  BY DEF Update
<1>4. GoodPlayer(moved) /\ moved \in PlayerState /\ owner' = Applied(moved, v) /\ owner' \in PlayerState
  <2>1. GoodPlayer(moved)
    BY <1>3, AppliedGood
  <2>2. GoodPlayer(Applied(moved, v))
    BY <1>3, <2>1, AppliedGood
  <2>3. moved = updateMove(owner, move, owner.tetrisBoard.next)
    BY DEF Applied
  <2>4. Applied(moved, v) = updateNextBlock(moved, random)
    BY DEF Applied
  <2>5. updateNextBlock(moved, random) = owner'
    BY <2>3, TheDrawIsReplaced
  <2> QED BY <2>1, <2>2, <2>4, <2>5 DEF GoodPlayer
<1> HIDE DEF moved
<1>5. PICK f : Leads(f, more) /\ (\A i \in 1 .. n + 1 : f[i] = h[i]) /\ f[n + 2] = moved
  BY <1>2, <1>3, <1>4, LeadsOn DEF moved
<1>6. n \in Nat /\ more \in Seq(Update) /\ Len(more) = n + 1 /\ more[n + 1] = u /\ \A i \in 1 .. n : more[i] = updates[i]
  BY <1>3, AppendProperties
<1>7. updates' = Append(more, v)
  BY <1>3
<1> HIDE DEF more, u, v
<1>8. n + 1 + 1 = n + 2 /\ n + 1 + 2 = n + 3 /\ n + 2 + 1 = n + 3
  BY <1>6
<1>9. PICK g : Leads(g, updates') /\ (\A i \in 1 .. n + 2 : g[i] = f[i]) /\ g[n + 3] = owner'
  <2>1. Applied(f[Len(more) + 1], v) \in PlayerState /\ more \in Seq(Update) /\ Leads(f, more) /\ v \in Update
    BY <1>3, <1>4, <1>5, <1>6, <1>8
  <2>2. PICK g : /\ Leads(g, Append(more, v))
                 /\ \A i \in 1 .. Len(more) + 1 : g[i] = f[i]
                 /\ g[Len(more) + 2] = Applied(f[Len(more) + 1], v)
    BY <2>1, LeadsOn
  <2>3. Len(more) + 1 = n + 2 /\ Len(more) + 2 = n + 3 /\ Applied(f[n + 2], v) = owner'
    BY <1>4, <1>5, <1>6, <1>8
  <2>4. \A i \in 1 .. n + 2 : g[i] = f[i]
    BY <2>2, <2>3
  <2>5. g[n + 3] = owner'
    BY <2>2, <2>3
  <2> QED BY <1>7, <2>2, <2>4, <2>5
<1>10. updates' \in Seq(Update) /\ Len(updates') = n + 2 /\ updates'[n + 2] = v /\ \A i \in 1 .. n + 1 : updates'[i] = more[i]
  BY <1>3, <1>6, <1>7, <1>8, AppendProperties
<1>11. Announced(f, more, n)
  <2>1. n \in 0 .. Len(updates) /\ \A i \in 1 .. n : f[i] = h[i]
    BY <1>5, <1>6
  <2> QED BY <1>2, <1>3, <2>1, AnnouncedOn DEF more
<1>12. Announced(g, updates', n)
  <2>1. n \in 0 .. Len(more) /\ \A i \in 1 .. n : g[i] = f[i]
    BY <1>6, <1>9
  <2> QED BY <1>3, <1>6, <1>7, <1>11, <2>1, AnnouncedOn
<1> HIDE DEF n
<1>13. Announced(g, updates', n + 2)
  <2>1. updates'[n + 2].type = "next_block"
    BY <1>3, <1>10
  <2>2. ASSUME NEW i \in 1 .. n + 2, MoveLands(g[i], updates'[i])
        PROVE  i + 1 \in 1 .. n + 2 /\ updates'[i + 1].type = "next_block"
    <3>1. i # n + 2
      BY <2>1, <2>2 DEF MoveLands
    <3>2. CASE i = n + 1
      <4>1. i + 1 = n + 2 /\ n + 2 \in 1 .. n + 2
        BY <1>6, <3>2
      <4> QED BY <2>1, <4>1
    <3>3. CASE i \in 1 .. n
      <4>1. i + 1 \in 1 .. Len(updates') /\ updates'[i + 1].type = "next_block"
        BY <1>12, <2>2, <3>3 DEF Announced
      <4> QED BY <1>10, <4>1
    <3>4. i = n + 1 \/ i \in 1 .. n
      <4>1. n \in Nat
        BY <1>6
      <4> QED BY <3>1, <4>1
    <3> QED BY <3>2, <3>3, <3>4
  <2> QED BY <1>10, <2>2 DEF Announced
<1>14. CopyIs(g[1])'
  <2>1. g[1] = h[1]
    BY <1>5, <1>6, <1>9
  <2>2. Len(updates') >= n /\ \A i \in 1 .. n : updates'[i] = updates[i]
    BY <1>6, <1>10
  <2> QED BY <1>2, <1>10, <2>1, <2>2, CopyStays DEF n
<1>15. Led(g)'
  BY <1>8, <1>9, <1>10, <1>13, <1>14 DEF Led
<1> QED BY <1>15 DEF CopyInv

-----------------------------------------------------------------------------
(* Steps *)

\* What is left leads on from the second state.
LEMMA LeadsAfter ==
  ASSUME NEW us \in Seq(Update), us # << >>, NEW h, Leads(h, us), Announced(h, us, Len(us))
  PROVE  \E g : /\ Leads(g, Tail(us)) /\ Announced(g, Tail(us), Len(Tail(us)))
                /\ g[1] = h[2] /\ g[Len(Tail(us)) + 1] = h[Len(us) + 1]
<1> DEFINE n == Len(us)
           rest == Tail(us)
           g == [i \in 1 .. n |-> h[i + 1]]
<1>1. n \in Nat /\ n >= 1
  BY EmptySeq
<1>2. rest \in Seq(Update) /\ Len(rest) = n - 1 /\ \A i \in 1 .. n - 1 : rest[i] = us[i + 1]
  BY HeadTailProperties
<1>3. h \in [1 .. n + 1 -> PlayerState] /\ \A i \in 1 .. n : h[i + 1] = Applied(h[i], us[i])
  BY DEF Leads
<1> HIDE DEF n, rest
<1>4. g \in [1 .. n -> PlayerState] /\ \A i \in 1 .. n : g[i] = h[i + 1]
  <2>1. \A i \in 1 .. n : i + 1 \in 1 .. n + 1
    BY <1>1
  <2> QED BY <1>3, <2>1
<1> HIDE DEF g
<1>5. ASSUME NEW i \in 1 .. n - 1 PROVE g[i + 1] = Applied(g[i], rest[i])
  <2>1. i \in 1 .. n /\ i + 1 \in 1 .. n
    BY <1>1
  <2>2. g[i] = h[i + 1] /\ g[i + 1] = h[i + 1 + 1] /\ rest[i] = us[i + 1]
    BY <1>2, <1>4, <2>1
  <2>3. h[i + 1 + 1] = Applied(h[i + 1], us[i + 1])
    BY <1>3, <2>1
  <2> QED BY <2>2, <2>3
<1>6. ASSUME NEW i \in 1 .. n - 1, MoveLands(g[i], rest[i]) PROVE i + 1 \in 1 .. n - 1 /\ rest[i + 1].type = "next_block"
  <2>1. i \in 1 .. n /\ i + 1 \in 1 .. n
    BY <1>1
  <2>2. MoveLands(h[i + 1], us[i + 1])
    BY <1>2, <1>4, <1>6, <2>1
  <2>3. i + 1 + 1 \in 1 .. n /\ us[i + 1 + 1].type = "next_block"
    BY <2>1, <2>2 DEF Announced, n
  <2>4. i + 1 \in 1 .. n - 1
    BY <1>1, <2>3
  <2> QED BY <1>2, <2>3, <2>4
<1>7. Leads(g, rest)
  <2>1. n - 1 + 1 = n
    BY <1>1
  <2> QED BY <1>2, <1>4, <1>5, <2>1 DEF Leads
<1>8. Announced(g, rest, Len(rest))
  BY <1>2, <1>6 DEF Announced
<1>9. g[1] = h[2] /\ g[Len(rest) + 1] = h[n + 1]
  <2>1. 1 \in 1 .. n /\ n \in 1 .. n /\ 1 + 1 = 2 /\ Len(rest) + 1 = n
    BY <1>1, <1>2
  <2> QED BY <1>4, <2>1
<1> QED BY <1>7, <1>8, <1>9 DEF n, rest

LEMMA CopyGoesOn ==
  ASSUME IInv, CopyInv, CopyReceives
  PROVE  CopyInv'
<1> DEFINE u == Head(updates)
           n == Len(updates)
<1>1. updates \in Seq(Update) /\ GoodPlayer(copy) /\ GoodPlayer(owner) /\ left.types \in SUBSET BlockType
  BY DEF IInv, TypeOK
<1>2. updates # << >> /\ updates' = Tail(updates) /\ UNCHANGED owner
  BY DEF CopyReceives
<1>3. n \in Nat /\ n >= 1 /\ u = updates[1] /\ u \in Update /\ 1 \in 1 .. n
  <2>1. n \in Nat /\ n >= 1
    BY <1>1, <1>2, EmptySeq
  <2>2. u = updates[1] /\ u \in Update
    BY <1>1, <1>2, HeadTailProperties
  <2> QED BY <2>1, <2>2
<1>4. PICK h : Led(h)
  BY DEF CopyInv
<1>5. Leads(h, updates) /\ Announced(h, updates, n) /\ h[n + 1] = owner /\ CopyIs(h[1])
  BY <1>4 DEF Led
<1>6. PICK g : /\ Leads(g, updates') /\ Announced(g, updates', Len(updates'))
               /\ g[1] = h[2] /\ g[Len(updates') + 1] = owner'
  BY <1>1, <1>2, <1>5, LeadsAfter
<1>7. h[2] = Applied(h[1], u)
  <2>1. 1 + 1 = 2
    OBVIOUS
  <2> QED BY <1>3, <1>5, <2>1 DEF Leads
<1>8. u.type # "next_block" => copy = h[1]
  BY <1>3, <1>5 DEF CopyIs
<1>9. MoveLands(h[1], u) => n >= 2 /\ updates[2].type = "next_block"
  <2>1. 1 + 1 = 2
    OBVIOUS
  <2> QED BY <1>3, <1>5, <2>1 DEF Announced
<1>10. Len(updates') = n - 1 /\ \A i \in 1 .. n - 1 : updates'[i] = updates[i + 1]
  BY <1>1, <1>2, HeadTailProperties
<1> HIDE DEF n, u
<1>11. CopyIs(h[2])'
  <2>1. SUFFICES copy' = h[2]
                 \/ /\ updates' # << >>
                    /\ updates'[1].type = "next_block"
                    /\ \A next \in BlockType : updateNextBlock(copy', next) = updateNextBlock(h[2], next)
    BY DEF CopyIs
  <2>2. CASE u.type = "board_move"
    <3>1. PICK random \in left.types :
            (Lands(copy.tetrisBoard, u.move) \/ random = copy.tetrisBoard.next) /\ copy' = updateMove(copy, u.move, random)
      BY <2>2 DEF CopyReceives, u
    <3>2. h[2] = updateMove(copy, u.move, copy.tetrisBoard.next)
      BY <1>7, <1>8, <2>2 DEF Applied
    <3>3. CASE Lands(copy.tetrisBoard, u.move)
      <4>1. n >= 2 /\ updates[2].type = "next_block"
        BY <1>8, <1>9, <2>2, <3>3 DEF MoveLands
      <4>2. updates'[1].type = "next_block" /\ updates' # << >>
        <5>1. 1 \in 1 .. n - 1 /\ Len(updates') # 0 /\ 1 + 1 = 2
          BY <1>3, <1>10, <4>1
        <5>2. updates'[1] = updates[2]
          BY <1>10, <5>1
        <5> QED BY <4>1, <5>1, <5>2
      <4>3. \A next : updateNextBlock(copy', next) = updateNextBlock(h[2], next)
        BY <1>1, <3>1, <3>2, <3>3, TheDrawIsReplaced
      <4> QED BY <4>2, <4>3
    <3>4. CASE ~Lands(copy.tetrisBoard, u.move)
      BY <3>1, <3>2, <3>4
    <3> QED BY <3>3, <3>4
  <2>3. CASE u.type = "next_block"
    <3>1. copy' = updateNextBlock(copy, u.next)
      BY <2>3 DEF CopyReceives, u
    <3>2. h[2] = updateNextBlock(h[1], u.next)
      BY <1>7, <2>3 DEF Applied
    <3>3. u.next \in BlockType
      BY <1>3, <2>3 DEF Update
    <3>4. updateNextBlock(copy, u.next) = updateNextBlock(h[1], u.next)
      BY <1>5, <3>3 DEF CopyIs
    <3> QED BY <3>1, <3>2, <3>4
  <2>4. CASE u.type = "board_external_squares"
    <3>1. copy' = addExternalRows(copy, u.rows)
      BY <2>4 DEF CopyReceives, u
    <3> QED BY <1>7, <1>8, <2>4, <3>1 DEF Applied
  <2>5. CASE u.type = "game_restart"
    <3>1. copy' = updateRestart(copy, u.current, u.next)
      BY <2>5 DEF CopyReceives, u
    <3> QED BY <1>7, <1>8, <2>5, <3>1 DEF Applied
  <2> QED BY <1>3, <2>2, <2>3, <2>4, <2>5 DEF Update
<1>12. Led(g)'
  BY <1>6, <1>11 DEF Led
<1> QED BY <1>12 DEF CopyInv

LEMMA CopyInvInitially == Init => CopyInv
<1> SUFFICES ASSUME Init PROVE CopyInv
  OBVIOUS
<1>1. updates = << >> /\ copy = owner /\ owner \in PlayerState
  BY InitIsGood DEF Init, IInv, TypeOK
<1> DEFINE h == [i \in 1 .. 1 |-> owner]
<1>2. Len(updates) = 0 /\ 0 + 1 = 1
  BY <1>1
<1>3. h \in [1 .. 1 -> PlayerState] /\ h[1] = owner
  BY <1>1
<1> HIDE DEF h
<1>4. Leads(h, updates) /\ Announced(h, updates, Len(updates))
  BY <1>2, <1>3 DEF Leads, Announced
<1>5. Led(h)
  BY <1>1, <1>2, <1>3, <1>4 DEF Led, CopyIs
<1> QED BY <1>5 DEF CopyInv

LEMMA CopyInvKept == IInv /\ CopyInv /\ [Next]_vars => CopyInv'
<1> SUFFICES ASSUME IInv, CopyInv, [Next]_vars PROVE CopyInv'
  OBVIOUS
<1>1. updates \in Seq(Update) /\ GoodPlayer(owner) /\ left.types \in SUBSET BlockType
  BY DEF IInv, TypeOK
<1>2. ASSUME NEW move \in Moves, OwnerMoves(move) PROVE CopyInv'
  <2>1. PICK random \in left.types :
          /\ \/ /\ Lands(owner.tetrisBoard, move)
                /\ updates' = updates \o << [type |-> "board_move", move |-> move],
                                            [type |-> "next_block", next |-> random] >>
             \/ /\ ~Lands(owner.tetrisBoard, move)
                /\ random = owner.tetrisBoard.next
                /\ updates' = Append(updates, [type |-> "board_move", move |-> move])
          /\ owner' = updateMove(owner, move, random)
          /\ UNCHANGED copy
    BY <1>2 DEF OwnerMoves
  <2>2. CASE Lands(owner.tetrisBoard, move)
    BY <1>1, <2>1, <2>2, OwnerLands
  <2>3. CASE ~Lands(owner.tetrisBoard, move)
    <3> DEFINE u == [type |-> "board_move", move |-> move]
    <3>1. u \in Update /\ ~MoveLands(owner, u)
      BY <2>3 DEF Update, MoveLands
    <3>2. owner' = Applied(owner, u)
      BY <2>1, <2>3 DEF Applied
    <3>3. updates' = Append(updates, u)
      BY <2>1, <2>3
    <3> HIDE DEF u
    <3> QED BY <1>1, <2>1, <3>1, <3>2, <3>3, OwnerGoesOn
  <2> QED BY <2>2, <2>3
<1>3. CASE Restart
  <2>1. PICK current \in left.types, next \in left.types :
          /\ owner' = updateRestart(owner, current, next)
          /\ updates' = Append(updates, [type |-> "game_restart", current |-> current, next |-> next])
          /\ UNCHANGED copy
    BY <1>3 DEF Restart
  <2> DEFINE u == [type |-> "game_restart", current |-> current, next |-> next]
  <2>2. u \in Update /\ ~MoveLands(owner, u)
    BY <1>1 DEF Update, MoveLands
  <2>3. owner' = Applied(owner, u)
    BY <2>1 DEF Applied
  <2>4. updates' = Append(updates, u)
    BY <2>1
  <2> HIDE DEF u
  <2> QED BY <1>1, <2>1, <2>2, <2>3, <2>4, OwnerGoesOn
<1>4. CASE Attack
  BY <1>1, <1>4, AttackTold
<1>5. CASE CopyReceives
  BY <1>5, CopyGoesOn
<1>6. CASE UNCHANGED vars
  BY <1>6 DEF vars, CopyInv, Led, CopyIs
<1> QED BY <1>2, <1>3, <1>4, <1>5, <1>6 DEF Next

\* Whatever is played, sent and restarted: a copy that has received every update is the owner's board,
\* down to the next block, the rows that wait and the number of rows cleared.
THEOREM CopyAlwaysEqualsOwner == Spec => []CopyEqualsOwner
<1>1. IInv /\ CopyInv => CopyEqualsOwner
  <2> SUFFICES ASSUME CopyInv, updates = << >> PROVE copy = owner
    BY DEF CopyEqualsOwner
  <2>1. PICK h : Led(h)
    BY DEF CopyInv
  <2>2. h[1] = owner /\ CopyIs(h[1])
    BY <2>1 DEF Led
  <2> QED BY <2>2 DEF CopyIs
<1> QED BY <1>1, AlwaysGood, CopyInvInitially, CopyInvKept, PTL DEF Spec


-----------------------------------------------------------------------------
(* The box around a block *)

\* A block is in a box of four by four, and touches each of the rows and columns of its box.
Box(squares, lo, hi, west, east) ==
  /\ hi - lo <= 3 /\ east - west <= 3
  /\ \A sq \in squares : sq.row \in lo .. hi /\ sq.column \in west .. east
  /\ \A row \in lo .. hi : \E sq \in squares : sq.row = row
  /\ \A column \in west .. east : \E sq \in squares : sq.column = column

Compact(squares) == \E lo \in Int, hi \in Int, west \in Int, east \in Int : Box(squares, lo, hi, west, east)

LEMMA BoxOfSquares ==
  ASSUME NEW squares \in SUBSET Square, NEW lo \in Int, NEW west \in Int, NEW h \in 0 .. 3, NEW w \in 0 .. 3,
         \A sq \in squares : sq.row - lo \in 0 .. h /\ sq.column - west \in 0 .. w,
         \A k \in 0 .. h : \E sq \in squares : sq.row = lo + k,
         \A k \in 0 .. w : \E sq \in squares : sq.column = west + k
  PROVE  Compact(squares)
<1>1. h \in Int /\ w \in Int /\ \A sq \in squares : sq.row \in Int /\ sq.column \in Int
  BY DEF Square
<1>2. \A sq \in squares : sq.row \in lo .. lo + h /\ sq.column \in west .. west + w
  BY <1>1
<1>3. ASSUME NEW row \in lo .. lo + h PROVE \E sq \in squares : sq.row = row
  <2>1. PICK k \in 0 .. h : row = lo + k
    <3>1. row - lo \in 0 .. h /\ row = lo + (row - lo)
      BY <1>1
    <3> QED BY <3>1
  <2> QED BY <2>1
<1>4. ASSUME NEW column \in west .. west + w PROVE \E sq \in squares : sq.column = column
  <2>1. PICK k \in 0 .. w : column = west + k
    <3>1. column - west \in 0 .. w /\ column = west + (column - west)
      BY <1>1
    <3> QED BY <3>1
  <2> QED BY <2>1
<1>5. Box(squares, lo, lo + h, west, west + w)
  BY <1>1, <1>2, <1>3, <1>4 DEF Box
<1> QED BY <1>1, <1>5 DEF Compact

LEMMA StartCompact ==
  ASSUME NEW type \in BlockType, NEW c \in Int, NEW r \in Int
  PROVE  Compact(NewBlock(type, c, r).squares)
<1> DEFINE S == StartSquares(type, c, r)
           Row(row) == \E sq \in S : sq.row = row
           Col(column) == \E sq \in S : sq.column = column
<1>1. NewBlock(type, c, r).squares = S
  BY DEF NewBlock
<1>2. \A column, row : Sq(column, row) \in S => Row(row) /\ Col(column)
  BY DEF Sq
<1>3. ASSUME NEW west \in Int, NEW h \in 0 .. 3, NEW w \in 0 .. 3,
             \A sq \in S : sq \in Square /\ sq.row - r \in 0 .. h /\ sq.column - west \in 0 .. w,
             \A k \in 0 .. h : Row(r + k), \A k \in 0 .. w : Col(west + k)
      PROVE  Compact(S)
  <2> HIDE DEF S
  <2> QED BY <1>3, BoxOfSquares
<1> HIDE DEF Row, Col
<1>4. CASE type = "I"
  <2>1. S = {Sq(c, r + 3), Sq(c, r + 2), Sq(c, r + 1), Sq(c, r)}
    BY <1>4 DEF StartSquares
  <2>2. \A sq \in S : sq \in Square /\ sq.row - r \in 0 .. 3 /\ sq.column - (c) \in 0 .. 0
    BY <2>1 DEF Sq, Square
  <2> HIDE DEF S
  <2>3. Row(r) /\ Row(r + 1) /\ Row(r + 2) /\ Row(r + 3) /\ Col(c)
    BY <1>2, <2>1
  <2>4. (\A k \in 0 .. 3 : Row(r + k)) /\ (\A k \in 0 .. 0 : Col(c + k))
    BY <2>3
  <2>5. Compact(S)
    BY <1>3, <2>2, <2>4
  <2> QED BY <1>1, <2>5
<1>5. CASE type = "J"
  <2>1. S = {Sq(c + 1, r + 2), Sq(c + 1, r + 1), Sq(c + 1, r), Sq(c, r)}
    BY <1>5 DEF StartSquares
  <2>2. \A sq \in S : sq \in Square /\ sq.row - r \in 0 .. 2 /\ sq.column - (c) \in 0 .. 1
    BY <2>1 DEF Sq, Square
  <2> HIDE DEF S
  <2>3. Row(r) /\ Row(r + 1) /\ Row(r + 2) /\ Col(c) /\ Col(c + 1)
    BY <1>2, <2>1
  <2>4. (\A k \in 0 .. 2 : Row(r + k)) /\ (\A k \in 0 .. 1 : Col(c + k))
    BY <2>3
  <2>5. Compact(S)
    BY <1>3, <2>2, <2>4
  <2> QED BY <1>1, <2>5
<1>6. CASE type = "L"
  <2>1. S = {Sq(c, r + 2), Sq(c, r + 1), Sq(c, r), Sq(c + 1, r)}
    BY <1>6 DEF StartSquares
  <2>2. \A sq \in S : sq \in Square /\ sq.row - r \in 0 .. 2 /\ sq.column - (c) \in 0 .. 1
    BY <2>1 DEF Sq, Square
  <2> HIDE DEF S
  <2>3. Row(r) /\ Row(r + 1) /\ Row(r + 2) /\ Col(c) /\ Col(c + 1)
    BY <1>2, <2>1
  <2>4. (\A k \in 0 .. 2 : Row(r + k)) /\ (\A k \in 0 .. 1 : Col(c + k))
    BY <2>3
  <2>5. Compact(S)
    BY <1>3, <2>2, <2>4
  <2> QED BY <1>1, <2>5
<1>7. CASE type = "O"
  <2>1. S = {Sq(c, r + 1), Sq(c + 1, r + 1), Sq(c, r), Sq(c + 1, r)}
    BY <1>7 DEF StartSquares
  <2>2. \A sq \in S : sq \in Square /\ sq.row - r \in 0 .. 1 /\ sq.column - (c) \in 0 .. 1
    BY <2>1 DEF Sq, Square
  <2> HIDE DEF S
  <2>3. Row(r) /\ Row(r + 1) /\ Col(c) /\ Col(c + 1)
    BY <1>2, <2>1
  <2>4. (\A k \in 0 .. 1 : Row(r + k)) /\ (\A k \in 0 .. 1 : Col(c + k))
    BY <2>3
  <2>5. Compact(S)
    BY <1>3, <2>2, <2>4
  <2> QED BY <1>1, <2>5
<1>8. CASE type = "S"
  <2>1. S = {Sq(c + 1, r + 1), Sq(c, r + 1), Sq(c, r), Sq(c - 1, r)}
    BY <1>8 DEF StartSquares
  <2>2. \A sq \in S : sq \in Square /\ sq.row - r \in 0 .. 1 /\ sq.column - (c - 1) \in 0 .. 2
    BY <2>1 DEF Sq, Square
  <2> HIDE DEF S
  <2>3. Row(r) /\ Row(r + 1) /\ Col(c - 1) /\ Col(c) /\ Col(c + 1)
    BY <1>2, <2>1
  <2>4. (\A k \in 0 .. 1 : Row(r + k)) /\ (\A k \in 0 .. 2 : Col(c - 1 + k))
    BY <2>3
  <2>5. Compact(S)
    BY <1>3, <2>2, <2>4
  <2> QED BY <1>1, <2>5
<1>9. CASE type = "T"
  <2>1. S = {Sq(c, r + 1), Sq(c + 1, r), Sq(c, r), Sq(c - 1, r)}
    BY <1>9 DEF StartSquares
  <2>2. \A sq \in S : sq \in Square /\ sq.row - r \in 0 .. 1 /\ sq.column - (c - 1) \in 0 .. 2
    BY <2>1 DEF Sq, Square
  <2> HIDE DEF S
  <2>3. Row(r) /\ Row(r + 1) /\ Col(c - 1) /\ Col(c) /\ Col(c + 1)
    BY <1>2, <2>1
  <2>4. (\A k \in 0 .. 1 : Row(r + k)) /\ (\A k \in 0 .. 2 : Col(c - 1 + k))
    BY <2>3
  <2>5. Compact(S)
    BY <1>3, <2>2, <2>4
  <2> QED BY <1>1, <2>5
<1>10. CASE type = "Z"
  <2>1. S = {Sq(c - 1, r + 1), Sq(c, r + 1), Sq(c, r), Sq(c + 1, r)}
    BY <1>10 DEF StartSquares
  <2>2. \A sq \in S : sq \in Square /\ sq.row - r \in 0 .. 1 /\ sq.column - (c - 1) \in 0 .. 2
    BY <2>1 DEF Sq, Square
  <2> HIDE DEF S
  <2>3. Row(r) /\ Row(r + 1) /\ Col(c - 1) /\ Col(c) /\ Col(c + 1)
    BY <1>2, <2>1
  <2>4. (\A k \in 0 .. 1 : Row(r + k)) /\ (\A k \in 0 .. 2 : Col(c - 1 + k))
    BY <2>3
  <2>5. Compact(S)
    BY <1>3, <2>2, <2>4
  <2> QED BY <1>1, <2>5
<1> QED BY <1>4, <1>5, <1>6, <1>7, <1>8, <1>9, <1>10 DEF BlockType

LEMMA ShiftedCompact ==
  ASSUME NEW block, GoodBlock(block), Compact(block.squares), NEW columns \in Int, NEW rows \in Int
  PROVE  Compact(Shifted(block, columns, rows).squares)
<1> DEFINE S == block.squares
           T == Shifted(block, columns, rows).squares
<1>1. S \in SUBSET Square
  BY DEF GoodBlock, Block, Square
<1>2. T = {Sq(sq.column + columns, sq.row + rows) : sq \in S}
  BY DEF GoodBlock, Shifted, Block
<1>3. PICK lo \in Int, hi \in Int, west \in Int, east \in Int : Box(S, lo, hi, west, east)
  BY DEF Compact
<1> HIDE DEF S, T
<1>4. Box(T, lo + rows, hi + rows, west + columns, east + columns)
  <2>1. \A sq \in T : sq.row \in lo + rows .. hi + rows /\ sq.column \in west + columns .. east + columns
    BY <1>1, <1>2, <1>3 DEF Box, Square, Sq
  <2>2. ASSUME NEW row \in lo + rows .. hi + rows PROVE \E sq \in T : sq.row = row
    <3>1. row - rows \in lo .. hi
      OBVIOUS
    <3>2. PICK sq \in S : sq.row = row - rows
      BY <1>3, <3>1 DEF Box
    <3>3. Sq(sq.column + columns, sq.row + rows) \in T /\ Sq(sq.column + columns, sq.row + rows).row = row
      BY <1>2, <3>2 DEF Sq
    <3> QED BY <3>3
  <2>3. ASSUME NEW column \in west + columns .. east + columns PROVE \E sq \in T : sq.column = column
    <3>1. column - columns \in west .. east
      OBVIOUS
    <3>2. PICK sq \in S : sq.column = column - columns
      BY <1>3, <3>1 DEF Box
    <3>3. Sq(sq.column + columns, sq.row + rows) \in T /\ Sq(sq.column + columns, sq.row + rows).column = column
      BY <1>2, <3>2 DEF Sq
    <3> QED BY <3>3
  <2>4. (hi + rows) - (lo + rows) <= 3 /\ (east + columns) - (west + columns) <= 3
    BY <1>3 DEF Box
  <2> QED BY <2>1, <2>2, <2>3, <2>4 DEF Box
<1> QED BY <1>4 DEF Compact, T

\* A turn makes columns of rows, and rows of columns.
LEMMA rotateCompact ==
  ASSUME NEW block, GoodBlock(block), Compact(block.squares), NEW n \in {-1, 0, 1}
  PROVE  Compact(rotate(block, n).squares)
<1> DEFINE S == block.squares
           T == rotate(block, n).squares
           o == block.rotationSquare
           Left(sq) == Sq(o.column + o.row - sq.row, sq.column + o.row - o.column)
           Right(sq) == Sq(sq.row + o.column - o.row, o.column + o.row - sq.column)
<1>1. S \in SUBSET Square /\ o \in Square
  BY DEF GoodBlock, Block, Square
<1>2. (n = 1 => T = {Left(sq) : sq \in S}) /\ (n = -1 => T = {Right(sq) : sq \in S}) /\ (n = 0 => T = S)
  BY DEF GoodBlock, rotate, Block
<1>3. PICK lo \in Int, hi \in Int, west \in Int, east \in Int : Box(S, lo, hi, west, east)
  BY DEF Compact
<1> HIDE DEF S, T, o
<1> DEFINE d == o.row - o.column
           e == o.column + o.row
<1>4. o.column \in Int /\ o.row \in Int /\ d \in Int /\ e \in Int
  BY <1>1 DEF Square
<1>5. \A sq \in S : /\ sq.row \in Int /\ sq.column \in Int
                    /\ Left(sq).column = e - sq.row /\ Left(sq).row = sq.column + d
                    /\ Right(sq).column = sq.row - d /\ Right(sq).row = e - sq.column
  BY <1>1, <1>4 DEF Square, Sq
<1> HIDE DEF d, e, Left, Right
<1>6. CASE n = 1
  <2>1. T = {Left(sq) : sq \in S}
    BY <1>2, <1>6
  <2>2. \A sq \in T : sq.row \in west + d .. east + d /\ sq.column \in e - hi .. e - lo
    BY <1>3, <1>4, <1>5, <2>1 DEF Box
  <2>3. ASSUME NEW row \in west + d .. east + d PROVE \E sq \in T : sq.row = row
    <3>1. PICK sq \in S : sq.column = row - d
      <4>1. row - d \in west .. east
        BY <1>4
      <4> QED BY <1>3, <4>1 DEF Box
    <3>2. Left(sq) \in T /\ Left(sq).row = row
      BY <1>4, <1>5, <2>1, <3>1
    <3> QED BY <3>2
  <2>4. ASSUME NEW column \in e - hi .. e - lo PROVE \E sq \in T : sq.column = column
    <3>1. PICK sq \in S : sq.row = e - column
      <4>1. e - column \in lo .. hi
        BY <1>4
      <4> QED BY <1>3, <4>1 DEF Box
    <3>2. Left(sq) \in T /\ Left(sq).column = column
      BY <1>4, <1>5, <2>1, <3>1
    <3> QED BY <3>2
  <2>5. (east + d) - (west + d) <= 3 /\ (e - lo) - (e - hi) <= 3 /\ west + d \in Int /\ east + d \in Int
        /\ e - lo \in Int /\ e - hi \in Int
    BY <1>3, <1>4 DEF Box
  <2>6. Box(T, west + d, east + d, e - hi, e - lo)
    BY <2>2, <2>3, <2>4, <2>5 DEF Box
  <2> QED BY <2>5, <2>6 DEF Compact, T
<1>7. CASE n = -1
  <2>1. T = {Right(sq) : sq \in S}
    BY <1>2, <1>7
  <2>2. \A sq \in T : sq.row \in e - east .. e - west /\ sq.column \in lo - d .. hi - d
    BY <1>3, <1>4, <1>5, <2>1 DEF Box
  <2>3. ASSUME NEW row \in e - east .. e - west PROVE \E sq \in T : sq.row = row
    <3>1. PICK sq \in S : sq.column = e - row
      <4>1. e - row \in west .. east
        BY <1>4
      <4> QED BY <1>3, <4>1 DEF Box
    <3>2. Right(sq) \in T /\ Right(sq).row = row
      BY <1>4, <1>5, <2>1, <3>1
    <3> QED BY <3>2
  <2>4. ASSUME NEW column \in lo - d .. hi - d PROVE \E sq \in T : sq.column = column
    <3>1. PICK sq \in S : sq.row = column + d
      <4>1. column + d \in lo .. hi
        BY <1>4
      <4> QED BY <1>3, <4>1 DEF Box
    <3>2. Right(sq) \in T /\ Right(sq).column = column
      BY <1>4, <1>5, <2>1, <3>1
    <3> QED BY <3>2
  <2>5. (e - west) - (e - east) <= 3 /\ (hi - d) - (lo - d) <= 3 /\ e - west \in Int /\ e - east \in Int
        /\ lo - d \in Int /\ hi - d \in Int
    BY <1>3, <1>4 DEF Box
  <2>6. Box(T, e - east, e - west, lo - d, hi - d)
    BY <2>2, <2>3, <2>4, <2>5 DEF Box
  <2> QED BY <2>5, <2>6 DEF Compact, T
<1>8. CASE n = 0
  BY <1>2, <1>8 DEF S, T
<1> QED BY <1>6, <1>7, <1>8

\* Every turn is one by a quarter, or none.
LEMMA TurnsAreRotations ==
  ASSUME NEW block, GoodBlock(block)
  PROVE  /\ \E n \in {-1, 0, 1} : rotateLeft(block).squares = rotate(block, n).squares
         /\ \E n \in {-1, 0, 1} : rotateRight(block).squares = rotate(block, n).squares
<1> DEFINE most == maxRotations(block.blockType)
           next == (block.currentRotation + 1) % 4
           last == (block.currentRotation + 3) % 4
<1>1. block.blockType \in BlockType /\ block.currentRotation \in 0 .. 3 /\ block \in Block
  BY DEF GoodBlock, Block
<1>2. next \in 0 .. 3 /\ last \in 0 .. 3 /\ most \in {0, 1, 4}
  BY <1>1 DEF maxRotations, BlockType
<1>3. ASSUME NEW n \in {-1, 0, 1}, NEW k PROVE [rotate(block, n) EXCEPT !.currentRotation = k].squares = rotate(block, n).squares
  <2>1. rotate(block, n) \in Block
    BY rotateGood DEF GoodBlock
  <2> HIDE DEF rotate
  <2> QED BY <2>1 DEF Block
<1>4. rotateLeft(block) = IF next > most THEN [rotate(block, -most) EXCEPT !.currentRotation = 0]
                                         ELSE [rotate(block, 1) EXCEPT !.currentRotation = next]
  BY DEF rotateLeft
<1>5. rotateRight(block) = IF last > most THEN [rotate(block, most) EXCEPT !.currentRotation = 0]
                                          ELSE [rotate(block, -1) EXCEPT !.currentRotation = last]
  BY DEF rotateRight
<1>6. next > most => -most \in {-1, 0, 1}
  BY <1>2
<1>7. last > most => most \in {-1, 0, 1}
  BY <1>2
<1> HIDE DEF most, next, last
<1>8. \E n \in {-1, 0, 1} : rotateLeft(block).squares = rotate(block, n).squares
  <2>1. CASE next > most
    <3>1. rotateLeft(block).squares = rotate(block, -most).squares
      BY <1>3, <1>4, <1>6, <2>1
    <3> QED BY <1>6, <2>1, <3>1
  <2>2. CASE ~(next > most)
    <3>1. rotateLeft(block).squares = rotate(block, 1).squares
      BY <1>3, <1>4, <2>2
    <3> QED BY <3>1
  <2> QED BY <2>1, <2>2
<1>9. \E n \in {-1, 0, 1} : rotateRight(block).squares = rotate(block, n).squares
  <2>1. CASE last > most
    <3>1. rotateRight(block).squares = rotate(block, most).squares
      BY <1>3, <1>5, <1>7, <2>1
    <3> QED BY <1>7, <2>1, <3>1
  <2>2. CASE ~(last > most)
    <3>1. rotateRight(block).squares = rotate(block, -1).squares
      BY <1>3, <1>5, <2>2
    <3> QED BY <3>1
  <2> QED BY <2>1, <2>2
<1> QED BY <1>8, <1>9

-----------------------------------------------------------------------------
(* Four squares *)

FourSquares(squares) == IsFiniteSet(squares) /\ Cardinality(squares) = 4

\* Sets that a function pairs off are equally large.
LEMMA SameSize ==
  ASSUME NEW S, IsFiniteSet(S), NEW T, NEW f \in [S -> T],
         \A x, y \in S : f[x] = f[y] => x = y,
         \A t \in T : \E x \in S : f[x] = t
  PROVE  IsFiniteSet(T) /\ Cardinality(T) = Cardinality(S)
<1>1. f \in Bijection(S, T)
  BY DEF Bijection, Injection, Surjection, IsInjective
<1>2. ExistsBijection(S, T)
  BY <1>1 DEF ExistsBijection
<1> QED BY <1>2, FS_Bijection

LEMMA FourDifferent ==
  ASSUME NEW a, NEW b, NEW c, NEW d, a # b, a # c, a # d, b # c, b # d, c # d
  PROVE  FourSquares({a, b, c, d})
<1>1. IsFiniteSet({a}) /\ Cardinality({a}) = 1
  BY FS_Singleton
<1>2. IsFiniteSet({a} \cup {b}) /\ Cardinality({a} \cup {b}) = 2
  BY <1>1, FS_AddElement
<1>3. IsFiniteSet(({a} \cup {b}) \cup {c}) /\ Cardinality(({a} \cup {b}) \cup {c}) = 3
  BY <1>2, FS_AddElement
<1>4. IsFiniteSet((({a} \cup {b}) \cup {c}) \cup {d}) /\ Cardinality((({a} \cup {b}) \cup {c}) \cup {d}) = 4
  BY <1>3, FS_AddElement
<1>5. (({a} \cup {b}) \cup {c}) \cup {d} = {a, b, c, d}
  OBVIOUS
<1> QED BY <1>4, <1>5 DEF FourSquares

LEMMA StartFour ==
  ASSUME NEW type \in BlockType, NEW c \in Int, NEW r \in Int
  PROVE  FourSquares(NewBlock(type, c, r).squares)
<1>1. NewBlock(type, c, r).squares = StartSquares(type, c, r)
  BY DEF NewBlock
<1>2. CASE type = "I"
  <2>1. StartSquares(type, c, r) = {Sq(c, r + 3), Sq(c, r + 2), Sq(c, r + 1), Sq(c, r)}
    BY <1>2 DEF StartSquares
  <2>2. /\ Sq(c, r + 3) # Sq(c, r + 2) /\ Sq(c, r + 3) # Sq(c, r + 1) /\ Sq(c, r + 3) # Sq(c, r)
        /\ Sq(c, r + 2) # Sq(c, r + 1) /\ Sq(c, r + 2) # Sq(c, r) /\ Sq(c, r + 1) # Sq(c, r)
    BY DEF Sq
  <2>3. FourSquares({Sq(c, r + 3), Sq(c, r + 2), Sq(c, r + 1), Sq(c, r)})
    BY ONLY <2>2, FourDifferent
  <2> QED BY <1>1, <2>1, <2>3
<1>3. CASE type = "J"
  <2>1. StartSquares(type, c, r) = {Sq(c + 1, r + 2), Sq(c + 1, r + 1), Sq(c + 1, r), Sq(c, r)}
    BY <1>3 DEF StartSquares
  <2>2. /\ Sq(c + 1, r + 2) # Sq(c + 1, r + 1) /\ Sq(c + 1, r + 2) # Sq(c + 1, r) /\ Sq(c + 1, r + 2) # Sq(c, r)
        /\ Sq(c + 1, r + 1) # Sq(c + 1, r) /\ Sq(c + 1, r + 1) # Sq(c, r) /\ Sq(c + 1, r) # Sq(c, r)
    BY DEF Sq
  <2>3. FourSquares({Sq(c + 1, r + 2), Sq(c + 1, r + 1), Sq(c + 1, r), Sq(c, r)})
    BY ONLY <2>2, FourDifferent
  <2> QED BY <1>1, <2>1, <2>3
<1>4. CASE type = "L"
  <2>1. StartSquares(type, c, r) = {Sq(c, r + 2), Sq(c, r + 1), Sq(c, r), Sq(c + 1, r)}
    BY <1>4 DEF StartSquares
  <2>2. /\ Sq(c, r + 2) # Sq(c, r + 1) /\ Sq(c, r + 2) # Sq(c, r) /\ Sq(c, r + 2) # Sq(c + 1, r)
        /\ Sq(c, r + 1) # Sq(c, r) /\ Sq(c, r + 1) # Sq(c + 1, r) /\ Sq(c, r) # Sq(c + 1, r)
    BY DEF Sq
  <2>3. FourSquares({Sq(c, r + 2), Sq(c, r + 1), Sq(c, r), Sq(c + 1, r)})
    BY ONLY <2>2, FourDifferent
  <2> QED BY <1>1, <2>1, <2>3
<1>5. CASE type = "O"
  <2>1. StartSquares(type, c, r) = {Sq(c, r + 1), Sq(c + 1, r + 1), Sq(c, r), Sq(c + 1, r)}
    BY <1>5 DEF StartSquares
  <2>2. /\ Sq(c, r + 1) # Sq(c + 1, r + 1) /\ Sq(c, r + 1) # Sq(c, r) /\ Sq(c, r + 1) # Sq(c + 1, r)
        /\ Sq(c + 1, r + 1) # Sq(c, r) /\ Sq(c + 1, r + 1) # Sq(c + 1, r) /\ Sq(c, r) # Sq(c + 1, r)
    BY DEF Sq
  <2>3. FourSquares({Sq(c, r + 1), Sq(c + 1, r + 1), Sq(c, r), Sq(c + 1, r)})
    BY ONLY <2>2, FourDifferent
  <2> QED BY <1>1, <2>1, <2>3
<1>6. CASE type = "S"
  <2>1. StartSquares(type, c, r) = {Sq(c + 1, r + 1), Sq(c, r + 1), Sq(c, r), Sq(c - 1, r)}
    BY <1>6 DEF StartSquares
  <2>2. /\ Sq(c + 1, r + 1) # Sq(c, r + 1) /\ Sq(c + 1, r + 1) # Sq(c, r) /\ Sq(c + 1, r + 1) # Sq(c - 1, r)
        /\ Sq(c, r + 1) # Sq(c, r) /\ Sq(c, r + 1) # Sq(c - 1, r) /\ Sq(c, r) # Sq(c - 1, r)
    BY DEF Sq
  <2>3. FourSquares({Sq(c + 1, r + 1), Sq(c, r + 1), Sq(c, r), Sq(c - 1, r)})
    BY ONLY <2>2, FourDifferent
  <2> QED BY <1>1, <2>1, <2>3
<1>7. CASE type = "T"
  <2>1. StartSquares(type, c, r) = {Sq(c, r + 1), Sq(c + 1, r), Sq(c, r), Sq(c - 1, r)}
    BY <1>7 DEF StartSquares
  <2>2. /\ Sq(c, r + 1) # Sq(c + 1, r) /\ Sq(c, r + 1) # Sq(c, r) /\ Sq(c, r + 1) # Sq(c - 1, r)
        /\ Sq(c + 1, r) # Sq(c, r) /\ Sq(c + 1, r) # Sq(c - 1, r) /\ Sq(c, r) # Sq(c - 1, r)
    BY DEF Sq
  <2>3. FourSquares({Sq(c, r + 1), Sq(c + 1, r), Sq(c, r), Sq(c - 1, r)})
    BY ONLY <2>2, FourDifferent
  <2> QED BY <1>1, <2>1, <2>3
<1>8. CASE type = "Z"
  <2>1. StartSquares(type, c, r) = {Sq(c - 1, r + 1), Sq(c, r + 1), Sq(c, r), Sq(c + 1, r)}
    BY <1>8 DEF StartSquares
  <2>2. /\ Sq(c - 1, r + 1) # Sq(c, r + 1) /\ Sq(c - 1, r + 1) # Sq(c, r) /\ Sq(c - 1, r + 1) # Sq(c + 1, r)
        /\ Sq(c, r + 1) # Sq(c, r) /\ Sq(c, r + 1) # Sq(c + 1, r) /\ Sq(c, r) # Sq(c + 1, r)
    BY DEF Sq
  <2>3. FourSquares({Sq(c - 1, r + 1), Sq(c, r + 1), Sq(c, r), Sq(c + 1, r)})
    BY ONLY <2>2, FourDifferent
  <2> QED BY <1>1, <2>1, <2>3
<1> QED BY <1>2, <1>3, <1>4, <1>5, <1>6, <1>7, <1>8 DEF BlockType

LEMMA ShiftedFour ==
  ASSUME NEW block, GoodBlock(block), FourSquares(block.squares), NEW columns \in Int, NEW rows \in Int
  PROVE  FourSquares(Shifted(block, columns, rows).squares)
<1> DEFINE S == block.squares
           T == Shifted(block, columns, rows).squares
           Shift(sq) == Sq(sq.column + columns, sq.row + rows)
           f == [sq \in S |-> Shift(sq)]
<1>1. S \in SUBSET Square
  BY DEF GoodBlock, Block, Square
<1>2. T = {Shift(sq) : sq \in S}
  BY DEF GoodBlock, Shifted, Block
<1>3. \A sq, other \in S : Shift(sq) = Shift(other) => sq = other
  BY <1>1 DEF Square, Sq
<1> HIDE DEF S, T, Shift
<1>4. f \in [S -> T] /\ (\A sq, other \in S : f[sq] = f[other] => sq = other) /\ (\A t \in T : \E sq \in S : f[sq] = t)
  BY <1>2, <1>3
<1> HIDE DEF f
<1> QED BY <1>4, SameSize DEF FourSquares, S, T

LEMMA rotateFour ==
  ASSUME NEW block, GoodBlock(block), FourSquares(block.squares), NEW n \in {-1, 0, 1}
  PROVE  FourSquares(rotate(block, n).squares)
<1> DEFINE S == block.squares
           T == rotate(block, n).squares
           o == block.rotationSquare
           Left(sq) == Sq(o.column + o.row - sq.row, sq.column + o.row - o.column)
           Right(sq) == Sq(sq.row + o.column - o.row, o.column + o.row - sq.column)
           toLeft == [sq \in S |-> Left(sq)]
           toRight == [sq \in S |-> Right(sq)]
<1>1. S \in SUBSET Square /\ o \in Square
  BY DEF GoodBlock, Block, Square
<1>2. (n = 1 => T = {Left(sq) : sq \in S}) /\ (n = -1 => T = {Right(sq) : sq \in S}) /\ (n = 0 => T = S)
  BY DEF GoodBlock, rotate, Block
<1>3. \A sq, other \in S : (Left(sq) = Left(other) => sq = other) /\ (Right(sq) = Right(other) => sq = other)
  BY <1>1 DEF Square, Sq
<1> HIDE DEF S, T, o, Left, Right
<1>4. CASE n = 1
  <2>1. toLeft \in [S -> T] /\ (\A sq, other \in S : toLeft[sq] = toLeft[other] => sq = other) /\ (\A t \in T : \E sq \in S : toLeft[sq] = t)
    BY <1>2, <1>3, <1>4
  <2> HIDE DEF toLeft
  <2> QED BY <2>1, SameSize DEF FourSquares, S, T
<1>5. CASE n = -1
  <2>1. toRight \in [S -> T] /\ (\A sq, other \in S : toRight[sq] = toRight[other] => sq = other) /\ (\A t \in T : \E sq \in S : toRight[sq] = t)
    BY <1>2, <1>3, <1>5
  <2> HIDE DEF toRight
  <2> QED BY <2>1, SameSize DEF FourSquares, S, T
<1>6. CASE n = 0
  BY <1>2, <1>6 DEF S, T
<1> QED BY <1>4, <1>5, <1>6

\* A block of four squares that touches every row and column of its box.
Tetromino(squares) == Compact(squares) /\ FourSquares(squares)

LEMMA createBlockTetromino ==
  ASSUME NEW type \in BlockType
  PROVE  Tetromino(createBlock(type).squares)
<1>1. Columns \div 2 - 1 \in Int /\ Rows - 4 \in Int
  BY SizeAssumption
<1> QED BY <1>1, StartCompact, StartFour DEF createBlock, Tetromino

LEMMA MovedTetromino ==
  ASSUME NEW b, GoodBoard(b), ~collision(b.gameboard, b.current), Tetromino(b.current.squares),
         NEW move \in Move \ {"GameOver"}
  PROVE  Tetromino(Moved(b, move).squares)
<1> USE DEF Tetromino
<1>1. GoodBlock(b.current)
  BY GoodBoardParts
<1>2. \A columns, rows \in Int : Tetromino(Shifted(b.current, columns, rows).squares)
  BY <1>1, ShiftedCompact, ShiftedFour
<1>3. \A n \in Nat : Tetromino(Down(b.current, n).squares)
  BY <1>2 DEF Down
<1>4. Tetromino(rotateLeft(b.current).squares) /\ Tetromino(rotateRight(b.current).squares)
  BY <1>1, TurnsAreRotations, rotateCompact, rotateFour
<1>5. Tetromino(getBlockDown(b.gameboard, b.current).squares)
  BY <1>1, <1>3, getBlockDownFalls
<1>6. \/ Moved(b, move) \in {Shifted(b.current, -1, 0), Shifted(b.current, 1, 0), Down(b.current, 1)}
      \/ Moved(b, move) = getBlockDown(b.gameboard, b.current)
      \/ Moved(b, move) \in {rotateLeft(b.current), rotateRight(b.current)}
  BY DEF Moved, Move
<1> QED BY <1>2, <1>3, <1>4, <1>5, <1>6

-----------------------------------------------------------------------------
(* No row floats *)

NoFloat(rows) ==
  \A low \in 1 .. Len(rows) : \A high \in 1 .. Len(rows) : low <= high /\ rows[low] = EmptyRow => rows[high] = EmptyRow

\* A block that lands rests on the floor or on a filled square, and leaves out no row of its own.
LEMMA addBlockNoFloat ==
  ASSUME NEW gameboard, GoodRows(gameboard), NoFloat(gameboard), NEW block, GoodBlock(block), Compact(block.squares),
         ~collision(gameboard, block), collision(gameboard, Down(block, 1))
  PROVE  NoFloat(addBlockToBoard(gameboard, block))
<1> DEFINE Here(k) == {sq.column : sq \in {sq \in block.squares : sq.row + 1 = k}}
           added == addBlockToBoard(gameboard, block)
           n == Len(gameboard)
<1>1. gameboard \in Seq(SUBSET Column) /\ n \in Nat
  BY DEF GoodRows
<1>2. added = [k \in 1 .. n |-> gameboard[k] \cup Here(k)]
  BY <1>1, LenProperties DEF addBlockToBoard
<1>3. Len(added) = n
  <2>1. GoodRows(added)
    BY addBlockToBoardGood
  <2> HIDE DEF added, Here
  <2> QED BY <1>1, <1>2, <2>1, LenProperties DEF GoodRows
<1>4. \A sq \in block.squares : sq.row \in Int /\ sq.column \in Int
  BY DEF GoodBlock, Block
<1>5. \A k \in 1 .. n : added[k] = EmptyRow <=> gameboard[k] = EmptyRow /\ \A sq \in block.squares : sq.row + 1 # k
  <2>1. ASSUME NEW k \in 1 .. n PROVE Here(k) = EmptyRow <=> \A sq \in block.squares : sq.row + 1 # k
    BY DEF EmptyRow
  <2>2. \A k \in 1 .. n : added[k] = gameboard[k] \cup Here(k)
    BY <1>2
  <2> HIDE DEF added, Here
  <2> QED BY <2>1, <2>2 DEF EmptyRow
<1>6. PICK lo \in Int, hi \in Int, west \in Int, east \in Int : Box(block.squares, lo, hi, west, east)
  BY DEF Compact
<1>7. PICK sq \in block.squares : ~IsFree(gameboard, Sq(sq.column, sq.row - 1))
  <2>1. Down(block, 1).squares = {Sq(sq.column, sq.row - 1) : sq \in block.squares}
    BY DownSquares
  <2> QED BY <2>1 DEF collision
<1>8. sq.row = 0 \/ (sq.row \in 1 .. n /\ gameboard[sq.row] # EmptyRow)
  <2>1. sq.column \in Column /\ sq.row >= 0
    BY DEF collision, IsFree
  <2>2. ~(sq.row - 1 >= 0) \/ (sq.row - 1 < n /\ sq.column \in gameboard[sq.row - 1 + 1])
    BY <1>7, <2>1 DEF IsFree, Sq
  <2>3. sq.row - 1 + 1 = sq.row
    BY <1>4
  <2> QED BY <1>1, <1>4, <2>1, <2>2, <2>3 DEF EmptyRow
<1> HIDE DEF added, Here, n
<1>9. ASSUME NEW low \in 1 .. n, NEW high \in 1 .. n, low <= high, added[low] = EmptyRow PROVE added[high] = EmptyRow
  <2>1. gameboard[low] = EmptyRow /\ \A other \in block.squares : other.row + 1 # low
    BY <1>5, <1>9
  <2>2. \A k \in low .. n : gameboard[k] = EmptyRow
    BY <1>1, <2>1 DEF NoFloat, n
  <2>3. sq.row < low
    BY <1>1, <1>4, <1>8, <1>9, <2>2
  <2>4. lo <= sq.row
    BY <1>4, <1>6 DEF Box
  <2>5. hi < low - 1
    <3>1. low - 1 \notin lo .. hi
      <4>1. SUFFICES ASSUME low - 1 \in lo .. hi PROVE FALSE
        OBVIOUS
      <4>2. PICK other \in block.squares : other.row = low - 1
        BY <1>6, <4>1 DEF Box
      <4> QED BY <1>4, <2>1, <4>2
    <3>2. lo <= low - 1
      BY <1>4, <2>3, <2>4
    <3> QED BY <3>1, <3>2
  <2>6. \A other \in block.squares : other.row + 1 # high
    BY <1>4, <1>6, <1>9, <2>5 DEF Box
  <2> QED BY <1>5, <1>9, <2>2, <2>6
<1> QED BY <1>3, <1>9 DEF NoFloat, added

\* The rows of opponents are pushed up from below, and none of them is empty.
LEMMA ExternalRowsNoFloat ==
  ASSUME NEW rows, GoodRows(rows), NoFloat(rows), NEW externalRows \in Seq(ExternalRow)
  PROVE  GoodRows(externalRows \o rows) /\ NoFloat(externalRows \o rows)
<1> DEFINE all == externalRows \o rows
           m == Len(externalRows)
           n == Len(rows)
<1>1. rows \in Seq(SUBSET Column) /\ externalRows \in Seq(SUBSET Column) /\ m \in Nat /\ n \in Nat /\ n >= Rows
  BY PlayerAssumption DEF GoodRows
<1>2. /\ all \in Seq(SUBSET Column) /\ Len(all) = m + n
      /\ \A k \in 1 .. m : all[k] = externalRows[k]
      /\ \A k \in m + 1 .. m + n : all[k] = rows[k - m]
  BY <1>1, ConcatProperties
<1>3. \A k \in 1 .. m : externalRows[k] # EmptyRow
  BY PlayerAssumption, ElementOfSeq DEF EmptyRow
<1> HIDE DEF all, m, n
<1>4. ASSUME NEW low \in 1 .. m + n, NEW high \in 1 .. m + n, low <= high, all[low] = EmptyRow PROVE all[high] = EmptyRow
  <2>1. low \in m + 1 .. m + n
    BY <1>1, <1>2, <1>3, <1>4
  <2>2. high \in m + 1 .. m + n
    BY <1>1, <1>4, <2>1
  <2>3. low - m \in 1 .. n /\ high - m \in 1 .. n /\ low - m <= high - m
    BY <1>1, <1>4, <2>1, <2>2
  <2>4. rows[low - m] = EmptyRow
    BY <1>2, <1>4, <2>1
  <2>5. rows[high - m] = EmptyRow
    BY <2>3, <2>4 DEF NoFloat, n
  <2> QED BY <1>2, <2>2, <2>5
<1>5. m + n >= Rows
  BY <1>1, SizeAssumption
<1> QED BY <1>2, <1>4, <1>5 DEF NoFloat, GoodRows, all

\* What the board is after a row is erased, row by row.
LEMMA moveRowsProperties ==
  ASSUME NEW gameboard, GoodRows(gameboard), NEW row \in Nat, isRowInsideBoard(gameboard, row)
  PROVE  LET after == moveRowsOneStepDown(gameboard, row) IN
           /\ Len(after) \in {Len(gameboard) - 1, Len(gameboard)}
           /\ \A k \in 1 .. Len(gameboard) - 1 : after[k] = gameboard[IF k <= row THEN k ELSE k + 1]
           /\ Len(after) = Len(gameboard) => after[Len(gameboard)] = EmptyRow
<1> DEFINE high == Len(gameboard) - 1
           erased == [k \in 1 .. high |-> gameboard[IF k <= row THEN k ELSE k + 1]]
<1>1. gameboard \in Seq(SUBSET Column) /\ Len(gameboard) \in Nat /\ Len(gameboard) >= Rows
  BY DEF GoodRows
<1>2. high \in Nat /\ high + 1 = Len(gameboard)
  BY <1>1 DEF isRowInsideBoard
<1>3. erased \in Seq(SUBSET Column) /\ Len(erased) = high
  <2>1. \A k \in 1 .. high : gameboard[IF k <= row THEN k ELSE k + 1] \in SUBSET Column
    BY <1>1, <1>2
  <2>2. erased \in [1 .. high -> SUBSET Column]
    BY <2>1
  <2> HIDE DEF erased, high
  <2>3. erased \in Seq(SUBSET Column)
    BY <1>2, <2>2, SeqDef
  <2> QED BY <1>2, <2>2, <2>3, LenProperties
<1>4. \A k \in 1 .. high : erased[k] = gameboard[IF k <= row THEN k ELSE k + 1]
  OBVIOUS
<1>5. moveRowsOneStepDown(gameboard, row) = IF Len(erased) < Rows THEN Append(erased, EmptyRow) ELSE erased
  BY DEF moveRowsOneStepDown
<1> HIDE DEF erased
<1>6. EmptyRow \in SUBSET Column
  BY DEF EmptyRow
<1>7. /\ Len(Append(erased, EmptyRow)) = high + 1
      /\ \A k \in 1 .. high : Append(erased, EmptyRow)[k] = erased[k]
      /\ Append(erased, EmptyRow)[high + 1] = EmptyRow
  BY <1>3, <1>6, AppendProperties
<1> HIDE DEF high
<1>8. CASE Len(erased) < Rows
  <2>1. moveRowsOneStepDown(gameboard, row) = Append(erased, EmptyRow)
    BY <1>5, <1>8
  <2> QED BY <1>2, <1>4, <1>7, <2>1 DEF high
<1>9. CASE ~(Len(erased) < Rows)
  <2>1. moveRowsOneStepDown(gameboard, row) = erased
    BY <1>5, <1>9
  <2>2. high # Len(gameboard)
    BY <1>1, <1>2
  <2> QED BY <1>2, <1>3, <1>4, <2>1, <2>2 DEF high
<1> QED BY <1>8, <1>9

LEMMA moveRowsNoFloat ==
  ASSUME NEW gameboard, GoodRows(gameboard), NoFloat(gameboard), NEW row \in Nat, isRowInsideBoard(gameboard, row)
  PROVE  NoFloat(moveRowsOneStepDown(gameboard, row))
<1> DEFINE after == moveRowsOneStepDown(gameboard, row)
           n == Len(gameboard)
           From(k) == IF k <= row THEN k ELSE k + 1
<1>1. n \in Nat /\ Len(after) \in {n - 1, n}
  BY moveRowsProperties DEF GoodRows
<1>2. \A k \in 1 .. n - 1 : after[k] = gameboard[From(k)]
  BY moveRowsProperties
<1>3. Len(after) = n => after[n] = EmptyRow
  BY moveRowsProperties
<1> HIDE DEF after, n
<1>4. ASSUME NEW low \in 1 .. Len(after), NEW high \in 1 .. Len(after), low <= high, after[low] = EmptyRow
      PROVE  after[high] = EmptyRow
  <2>1. CASE high = n
    BY <1>1, <1>3, <2>1
  <2>2. CASE high # n
    <3>1. low \in 1 .. n - 1 /\ high \in 1 .. n - 1
      BY <1>1, <1>4, <2>2
    <3>2. From(low) \in 1 .. n /\ From(high) \in 1 .. n /\ From(low) <= From(high)
      BY <1>1, <1>4, <3>1
    <3>3. gameboard[From(low)] = EmptyRow
      BY <1>2, <1>4, <3>1
    <3> HIDE DEF From
    <3>4. gameboard[From(high)] = EmptyRow
      BY <3>2, <3>3 DEF NoFloat, n
    <3> QED BY <1>2, <3>1, <3>4
  <2> QED BY <2>1, <2>2
<1> QED BY <1>4 DEF NoFloat, after

LEMMA NextRowNoFloat ==
  ASSUME NEW loop, GoodLoop(loop), NoFloat(loop.gameboard)
  PROVE  GoodLoop(NextRow(loop)) /\ NoFloat(NextRow(loop).gameboard)
<1>1. loop \in [gameboard : Seq(SUBSET Column), row : Nat, rowsFilled : Nat] /\ GoodRows(loop.gameboard)
  BY DEF GoodLoop
<1>2. GoodLoop(NextRow(loop))
  BY NextRowGood
<1>3. CASE isRowInsideBoard(loop.gameboard, loop.row) /\ isRowFilled(loop.gameboard, loop.row)
  <2>1. NoFloat(moveRowsOneStepDown(loop.gameboard, loop.row))
    BY <1>1, <1>3, moveRowsNoFloat
  <2>2. NextRow(loop).gameboard = moveRowsOneStepDown(loop.gameboard, loop.row)
    BY <1>1, <1>3 DEF NextRow
  <2> QED BY <1>2, <2>1, <2>2
<1>4. CASE ~(isRowInsideBoard(loop.gameboard, loop.row) /\ isRowFilled(loop.gameboard, loop.row))
  BY <1>1, <1>2, <1>4 DEF NextRow
<1> QED BY <1>3, <1>4

LEMMA removeFilledRowsNoFloat ==
  ASSUME NEW gameboard, GoodRows(gameboard), NoFloat(gameboard), NEW row \in Nat
  PROVE  NoFloat(removeFilledRows(gameboard, row).gameboard)
<1>1. GoodLoop([gameboard |-> gameboard, row |-> row, rowsFilled |-> 0])
  BY DEF GoodLoop, GoodRows
<1> DEFINE l0 == [gameboard |-> gameboard, row |-> row, rowsFilled |-> 0]
           l1 == NextRow(l0)
           l2 == NextRow(l1)
           l3 == NextRow(l2)
           l4 == NextRow(l3)
<1>2. GoodLoop(l0) /\ NoFloat(l0.gameboard)
  BY <1>1
<1> HIDE DEF l0
<1>3. GoodLoop(l1) /\ NoFloat(l1.gameboard)
  BY <1>2, NextRowNoFloat
<1> HIDE DEF l1
<1>4. GoodLoop(l2) /\ NoFloat(l2.gameboard)
  BY <1>3, NextRowNoFloat
<1> HIDE DEF l2
<1>5. GoodLoop(l3) /\ NoFloat(l3.gameboard)
  BY <1>4, NextRowNoFloat
<1> HIDE DEF l3
<1>6. NoFloat(l4.gameboard)
  BY <1>5, NextRowNoFloat
<1> QED BY <1>6 DEF removeFilledRows, l3, l2, l1, l0

\* What a player's board keeps: the shape of the block, and no row floats.
Firm(b) == Tetromino(b.current.squares) /\ NoFloat(b.gameboard)

\* The parts of a board after a block has landed.
LEMMA LandedParts ==
  ASSUME NEW b, GoodBoard(b), NEW move, Lands(b, move), NEW externalRows \in Seq(ExternalRow)
  PROVE  /\ Landed(b, externalRows).board.gameboard
              = removeFilledRows(externalRows \o addBlockToBoard(b.gameboard, b.current), getLowestRow(b.current)).gameboard
         /\ Landed(b, externalRows).board.current = createBlock(b.next)
         /\ Landed(b, externalRows).board.isGameOver = b.isGameOver
         /\ Landed(b, externalRows).board \in Board
         /\ getLowestRow(b.current) \in Nat
<1> DEFINE loop == removeFilledRows(externalRows \o addBlockToBoard(b.gameboard, b.current), getLowestRow(b.current))
<1>1. Landed(b, externalRows) = [board |-> [b EXCEPT !.gameboard = loop.gameboard, !.current = createBlock(b.next)],
                                 rowsFilled |-> loop.rowsFilled]
  BY DEF Landed
<1>2. b \in Board /\ GoodBlock(b.current) /\ ~collision(b.gameboard, b.current)
  BY GoodBoardParts DEF Lands
<1>3. GoodBoard(Landed(b, externalRows).board)
  BY LandedGood
<1>4. getLowestRow(b.current) \in Nat
  <2>1. \A sq \in b.current.squares : sq.row >= 0
    BY <1>2 DEF collision, IsFree
  <2> QED BY <1>2, <2>1, LowestRowExists
<1> HIDE DEF loop
<1>5. /\ Landed(b, externalRows).board.gameboard = loop.gameboard
      /\ Landed(b, externalRows).board.current = createBlock(b.next)
      /\ Landed(b, externalRows).board.isGameOver = b.isGameOver
  <2>1. Landed(b, externalRows).board = [b EXCEPT !.gameboard = loop.gameboard, !.current = createBlock(b.next)]
    BY <1>1
  <2>2. ASSUME NEW rows, NEW block
        PROVE  LET other == [b EXCEPT !.gameboard = rows, !.current = block] IN
                 other.gameboard = rows /\ other.current = block /\ other.isGameOver = b.isGameOver
    BY <1>2 DEF Board
  <2> QED BY <2>1, <2>2
<1> QED BY <1>3, <1>4, <1>5, GoodBoardParts DEF loop

LEMMA LandedFirm ==
  ASSUME NEW b, GoodBoard(b), Firm(b), NEW move, Lands(b, move), NEW externalRows \in Seq(ExternalRow)
  PROVE  Firm(Landed(b, externalRows).board)
<1> DEFINE written == addBlockToBoard(b.gameboard, b.current)
           low == getLowestRow(b.current)
<1>1. /\ GoodRows(b.gameboard) /\ GoodBlock(b.current) /\ b.next \in BlockType
      /\ ~collision(b.gameboard, b.current) /\ collision(b.gameboard, Down(b.current, 1))
  BY GoodBoardParts DEF Lands
<1>2. GoodRows(written) /\ NoFloat(written)
  BY <1>1, addBlockToBoardGood, addBlockNoFloat DEF Firm, Tetromino
<1> HIDE DEF written
<1>3. GoodRows(externalRows \o written) /\ NoFloat(externalRows \o written)
  BY <1>2, ExternalRowsNoFloat
<1>4. low \in Nat
  BY LandedParts
<1> HIDE DEF low
<1>5. NoFloat(removeFilledRows(externalRows \o written, low).gameboard)
  BY <1>3, <1>4, removeFilledRowsNoFloat
<1>6. Tetromino(createBlock(b.next).squares)
  BY <1>1, createBlockTetromino
<1>7. /\ Landed(b, externalRows).board.gameboard = removeFilledRows(externalRows \o written, low).gameboard
      /\ Landed(b, externalRows).board.current = createBlock(b.next)
  BY LandedParts DEF written, low
<1> QED BY <1>5, <1>6, <1>7 DEF Firm

LEMMA updateFirm ==
  ASSUME NEW b, GoodBoard(b), Firm(b), NEW move \in Move
  PROVE  Firm(update(b, move))
<1>1. b \in Board
  BY GoodBoardParts
<1>2. Firm([b EXCEPT !.isGameOver = TRUE])
  BY <1>1 DEF Firm, Board
<1>3. ASSUME NEW block, Tetromino(block.squares) PROVE Firm([b EXCEPT !.current = block])
  BY <1>1, <1>3 DEF Firm, Board
<1>4. CASE b.isGameOver \/ collision(b.gameboard, b.current) \/ move = "GameOver"
  BY <1>2, <1>4 DEF update
<1>5. CASE ~(b.isGameOver \/ collision(b.gameboard, b.current) \/ move = "GameOver")
  <2>1. Tetromino(Moved(b, move).squares)
    BY <1>5, MovedTetromino DEF Firm
  <2>2. Firm([b EXCEPT !.current = Moved(b, move)])
    BY <1>3, <2>1
  <2>3. update(b, move) \in {b, [b EXCEPT !.current = Moved(b, move)]}
    BY <1>5 DEF update
  <2> QED BY <2>2, <2>3
<1> QED BY <1>4, <1>5

LEMMA NewPlayerFirm ==
  ASSUME NEW current \in BlockType, NEW next \in BlockType
  PROVE  Firm(NewPlayer(current, next).tetrisBoard)
<1> DEFINE rows == [r \in 1 .. Rows |-> EmptyRow]
           block == createBlock(current)
<1>1. Tetromino(block.squares)
  BY createBlockTetromino
<1>2. NoFloat(rows)
  <2>1. GoodRows(rows)
    BY NewRowsGood
  <2>2. Len(rows) = Rows
    BY SizeAssumption, <2>1, LenProperties DEF GoodRows
  <2> QED BY <2>2 DEF NoFloat
<1>3. /\ NewPlayer(current, next).tetrisBoard.gameboard = rows
      /\ NewPlayer(current, next).tetrisBoard.current = block
  BY DEF NewPlayer, NewBoard
<1> HIDE DEF rows, block
<1> QED BY <1>1, <1>2, <1>3 DEF Firm

LEMMA updateMoveFirm ==
  ASSUME NEW p, GoodPlayer(p), Firm(p.tetrisBoard), NEW move \in Move, NEW random \in BlockType
  PROVE  Firm(updateMove(p, move, random).tetrisBoard)
<1> DEFINE landed == Landed(p.tetrisBoard, p.externalRows)
<1>1. p \in PlayerState /\ GoodBoard(p.tetrisBoard) /\ p.externalRows \in Seq(ExternalRow)
  BY DEF GoodPlayer, PlayerState
<1>2. CASE Lands(p.tetrisBoard, move)
  <2>1. Firm(landed.board) /\ landed.board \in Board
    BY <1>1, <1>2, LandedFirm, LandedParts
  <2>2. updateMove(p, move, random) = [tetrisBoard |-> [landed.board EXCEPT !.next = random],
                                       clearedRows |-> p.clearedRows + landed.rowsFilled,
                                       externalRows |-> << >>]
    BY <1>2 DEF updateMove
  <2> HIDE DEF landed
  <2>3. Firm([landed.board EXCEPT !.next = random])
    BY <2>1 DEF Firm, Board
  <2>4. updateMove(p, move, random).tetrisBoard = [landed.board EXCEPT !.next = random]
    BY <2>2
  <2> QED BY <2>3, <2>4
<1>3. CASE ~Lands(p.tetrisBoard, move)
  <2>1. Firm(update(p.tetrisBoard, move))
    BY <1>1, updateFirm
  <2>2. updateMove(p, move, random) = [p EXCEPT !.tetrisBoard = update(p.tetrisBoard, move)]
    BY <1>1, <1>3 DEF updateMove, PlayerState
  <2>3. updateMove(p, move, random).tetrisBoard = update(p.tetrisBoard, move)
    BY <1>1, <2>2 DEF PlayerState
  <2> QED BY <2>1, <2>3
<1> QED BY <1>2, <1>3

LEMMA AttackKeepsBoard ==
  ASSUME GoodPlayer(owner), Attack
  PROVE  owner'.tetrisBoard = owner.tetrisBoard
<1>1. PICK first \in ExternalRow, second \in ExternalRow :
        owner' = addExternalRows(addExternalRows(owner, << first >>), << second >>)
  BY DEF Attack
<1>2. owner \in PlayerState /\ \A rows : \A p \in PlayerState : addExternalRows(p, rows).tetrisBoard = p.tetrisBoard
  BY DEF addExternalRows, PlayerState, GoodPlayer
<1>3. addExternalRows(owner, << first >>) \in PlayerState
  <2>1. << first >> \in Seq(ExternalRow)
    OBVIOUS
  <2> QED BY <2>1, addExternalRowsGood DEF GoodPlayer
<1> QED BY <1>1, <1>2, <1>3

\* The block of an owner keeps its shape, and none of its rows floats.
OwnerFirm == Firm(owner.tetrisBoard)

LEMMA InitIsFirm == Init => OwnerFirm
<1> SUFFICES ASSUME Init PROVE OwnerFirm
  OBVIOUS
<1>1. PICK current \in left.types, next \in left.types : owner = NewPlayer(current, next)
  BY DEF Init
<1>2. left.types \in SUBSET BlockType
  BY PlayerAssumption DEF Init
<1> QED BY <1>1, <1>2, NewPlayerFirm DEF OwnerFirm

LEMMA NextIsFirm == IInv /\ OwnerFirm /\ [Next]_vars => OwnerFirm'
<1> SUFFICES ASSUME IInv, OwnerFirm, [Next]_vars PROVE OwnerFirm'
  OBVIOUS
<1>1. GoodPlayer(owner) /\ left.types \in SUBSET BlockType /\ owner \in PlayerState
  BY DEF IInv, TypeOK
<1>2. ASSUME NEW move \in Moves, OwnerMoves(move) PROVE OwnerFirm'
  <2>1. PICK random \in left.types : owner' = updateMove(owner, move, random)
    BY <1>2 DEF OwnerMoves
  <2>2. random \in BlockType /\ move \in Move
    BY <1>1, PlayerAssumption
  <2> QED BY <1>1, <2>1, <2>2, updateMoveFirm DEF OwnerFirm
<1>3. CASE Attack
  <2>1. owner'.tetrisBoard = owner.tetrisBoard
    BY <1>1, <1>3, AttackKeepsBoard
  <2> QED BY <2>1 DEF OwnerFirm
<1>4. CASE Restart
  <2>1. PICK current \in left.types, next \in left.types : owner' = NewPlayer(current, next)
    BY <1>4 DEF Restart, updateRestart
  <2> QED BY <1>1, <2>1, NewPlayerFirm DEF OwnerFirm
<1>5. CASE CopyReceives \/ UNCHANGED vars
  BY <1>5 DEF CopyReceives, vars, OwnerFirm
<1> QED BY <1>2, <1>3, <1>4, <1>5 DEF Next

LEMMA AlwaysFirm == Spec => []OwnerFirm
<1> QED BY InitIsFirm, NextIsFirm, AlwaysGood, PTL DEF Spec

\* Whatever block lands, rows are removed or pushed up from below: on a board of any size there is no
\* empty row below a filled square.
THEOREM AlwaysNoRowFloats == Spec => []NoRowFloats
<1>1. IInv /\ OwnerFirm => NoRowFloats
  <2> SUFFICES ASSUME IInv, OwnerFirm PROVE NoRowFloats
    OBVIOUS
  <2> DEFINE rows == owner.tetrisBoard.gameboard
  <2>1. rows \in Seq(SUBSET Column) /\ NoFloat(rows)
    BY DEF IInv, GoodPlayer, GoodBoard, Board, OwnerFirm, Firm
  <2>2. DOMAIN rows = 1 .. Len(rows) /\ Len(rows) \in Nat
    BY <2>1, LenProperties
  <2> HIDE DEF rows
  <2>3. \A k \in DOMAIN rows : rows[k] = EmptyRow => \A above \in k .. Len(rows) : rows[above] = EmptyRow
    BY <2>1, <2>2 DEF NoFloat
  <2> QED BY <2>3 DEF NoRowFloats, rows
<1> QED BY <1>1, AlwaysGood, AlwaysFirm, PTL

-----------------------------------------------------------------------------
(* Filled rows go *)

\* The filled rows are among the n rows from row on.
FilledWithin(gameboard, row, n) ==
  \A k \in 1 .. Len(gameboard) : gameboard[k] = Column => k - 1 \in row .. row + n - 1

\* Each turn of the loop takes away a filled row, or goes one up: a row less is to be looked at.
LEMMA NextRowLooks ==
  ASSUME NEW loop, GoodLoop(loop), NEW n \in Nat, FilledWithin(loop.gameboard, loop.row, n + 1), EmptyRow # Column
  PROVE  FilledWithin(NextRow(loop).gameboard, NextRow(loop).row, n)
<1> DEFINE gameboard == loop.gameboard
           row == loop.row
           size == Len(gameboard)
<1>1. /\ loop \in [gameboard : Seq(SUBSET Column), row : Nat, rowsFilled : Nat] /\ GoodRows(gameboard)
      /\ row \in Nat /\ size \in Nat
  BY DEF GoodLoop
<1>2. ASSUME NEW k \in 1 .. size, gameboard[k] = Column PROVE k - 1 \in row .. row + n
  <2>1. k - 1 \in row .. row + (n + 1) - 1
    BY <1>2 DEF FilledWithin
  <2> HIDE DEF row
  <2> QED BY <1>1, <2>1
<1>3. CASE isRowInsideBoard(gameboard, row) /\ isRowFilled(gameboard, row)
  <2> DEFINE after == moveRowsOneStepDown(gameboard, row)
             From(k) == IF k <= row THEN k ELSE k + 1
  <2>1. NextRow(loop).gameboard = after /\ NextRow(loop).row = row
    BY <1>1, <1>3 DEF NextRow
  <2>2. Len(after) \in {size - 1, size}
    BY <1>1, <1>3, moveRowsProperties
  <2>3. \A k \in 1 .. size - 1 : after[k] = gameboard[From(k)]
    BY <1>1, <1>3, moveRowsProperties
  <2>4. Len(after) = size => after[size] = EmptyRow
    BY <1>1, <1>3, moveRowsProperties
  <2> HIDE DEF after, gameboard, row, size
  <2>5. ASSUME NEW k \in 1 .. Len(after), after[k] = Column PROVE k - 1 \in row .. row + n - 1
    <3>1. k \in 1 .. size - 1
      BY <1>1, <2>2, <2>4, <2>5
    <3>2. From(k) \in 1 .. size
      BY <1>1, <3>1
    <3>3. gameboard[From(k)] = Column
      BY <2>3, <2>5, <3>1
    <3> HIDE DEF From
    <3>4. From(k) - 1 \in row .. row + n
      BY <1>2, <3>2, <3>3
    <3> QED BY <1>1, <3>1, <3>4 DEF From
  <2> QED BY <2>1, <2>5 DEF FilledWithin
<1>4. CASE ~(isRowInsideBoard(gameboard, row) /\ isRowFilled(gameboard, row))
  <2>1. NextRow(loop).gameboard = gameboard /\ NextRow(loop).row = row + 1
    BY <1>1, <1>4 DEF NextRow
  <2>2. row < size => gameboard[row + 1] # Column
    BY <1>1, <1>4 DEF isRowInsideBoard, isRowFilled
  <2> HIDE DEF gameboard, row, size
  <2>3. ASSUME NEW k \in 1 .. size, gameboard[k] = Column PROVE k - 1 \in row + 1 .. row + 1 + n - 1
    <3>1. k - 1 \in row .. row + n
      BY <1>2, <2>3
    <3>2. k # row + 1
      BY <1>1, <2>2, <2>3
    <3> QED BY <1>1, <3>1, <3>2
  <2> QED BY <2>1, <2>3 DEF FilledWithin, size
<1> QED BY <1>3, <1>4

LEMMA removeFilledRowsLooks ==
  ASSUME NEW gameboard, GoodRows(gameboard), NEW row \in Nat, FilledWithin(gameboard, row, 4), EmptyRow # Column
  PROVE  FilledRows(removeFilledRows(gameboard, row).gameboard) = {}
<1> DEFINE l0 == [gameboard |-> gameboard, row |-> row, rowsFilled |-> 0]
           l1 == NextRow(l0)
           l2 == NextRow(l1)
           l3 == NextRow(l2)
           l4 == NextRow(l3)
<1>1. GoodLoop(l0) /\ FilledWithin(l0.gameboard, l0.row, 4)
  BY DEF GoodLoop, GoodRows
<1> HIDE DEF l0
<1>2. GoodLoop(l1) /\ FilledWithin(l1.gameboard, l1.row, 3)
  <2>1. 3 + 1 = 4 /\ 3 \in Nat
    OBVIOUS
  <2> QED BY <1>1, <2>1, NextRowGood, NextRowLooks
<1> HIDE DEF l1
<1>3. GoodLoop(l2) /\ FilledWithin(l2.gameboard, l2.row, 2)
  <2>1. 2 + 1 = 3 /\ 2 \in Nat
    OBVIOUS
  <2> QED BY <1>2, <2>1, NextRowGood, NextRowLooks
<1> HIDE DEF l2
<1>4. GoodLoop(l3) /\ FilledWithin(l3.gameboard, l3.row, 1)
  <2>1. 1 + 1 = 2 /\ 1 \in Nat
    OBVIOUS
  <2> QED BY <1>3, <2>1, NextRowGood, NextRowLooks
<1> HIDE DEF l3
<1>5. GoodLoop(l4) /\ FilledWithin(l4.gameboard, l4.row, 0)
  <2>1. 0 + 1 = 1 /\ 0 \in Nat
    OBVIOUS
  <2> QED BY <1>4, <2>1, NextRowGood, NextRowLooks
<1> HIDE DEF l4
<1>6. ASSUME NEW r \in 0 .. Len(l4.gameboard) - 1 PROVE ~isRowFilled(l4.gameboard, r)
  <2>1. l4.row \in Nat /\ Len(l4.gameboard) \in Nat
    BY <1>5 DEF GoodLoop
  <2>2. r + 1 \in 1 .. Len(l4.gameboard) /\ r + 1 - 1 = r
    BY <2>1
  <2>3. r \notin l4.row .. l4.row + 0 - 1
    BY <2>1
  <2> QED BY <1>5, <2>2, <2>3 DEF FilledWithin, isRowFilled
<1>7. removeFilledRows(gameboard, row) = l4
  BY DEF removeFilledRows, l4, l3, l2, l1, l0
<1> QED BY <1>6, <1>7 DEF FilledRows

LEMMA LowestRowIsLowest ==
  ASSUME NEW block, GoodBlock(block), \A sq \in block.squares : sq.row >= 0
  PROVE  \A sq \in block.squares : getLowestRow(block) <= sq.row
<1> DEFINE heights == {sq.row : sq \in block.squares}
<1>1. block.squares \in SUBSET Square /\ block.squares # {}
  BY DEF GoodBlock, Block, LowEnough, Square
<1>2. heights \in SUBSET Nat /\ heights # {}
  BY <1>1 DEF Square
<1>3. PICK r \in heights : \A other \in heights : r <= other
  BY <1>2, LeastExists
<1>4. \A sq \in block.squares : r <= sq.row
  BY <1>3
<1> QED BY <1>3, <1>4 DEF getLowestRow, LowestRow

\* A block fills rows of its own only, and those are the four from its lowest one on.
LEMMA BlockFillsItsRows ==
  ASSUME NEW gameboard, GoodRows(gameboard), FilledRows(gameboard) = {}, NEW block, GoodBlock(block),
         Compact(block.squares), ~collision(gameboard, block)
  PROVE  FilledWithin(addBlockToBoard(gameboard, block), getLowestRow(block), 4) /\ EmptyRow # Column
<1> DEFINE Here(k) == {sq.column : sq \in {sq \in block.squares : sq.row + 1 = k}}
           added == addBlockToBoard(gameboard, block)
           size == Len(gameboard)
           bottom == getLowestRow(block)
<1>1. gameboard \in Seq(SUBSET Column) /\ size \in Nat
  BY DEF GoodRows
<1>2. added = [k \in 1 .. size |-> gameboard[k] \cup Here(k)]
  BY <1>1, LenProperties DEF addBlockToBoard
<1>3. Len(added) = size
  <2>1. GoodRows(added)
    BY addBlockToBoardGood
  <2> HIDE DEF added, Here
  <2> QED BY <1>1, <1>2, <2>1, LenProperties DEF GoodRows
<1>4. \A sq \in block.squares : sq.row \in Int /\ sq.row >= 0 /\ sq.column \in Column
  BY DEF GoodBlock, Block, collision, IsFree
<1>5. bottom \in Nat /\ (\E sq \in block.squares : sq.row = bottom) /\ \A sq \in block.squares : bottom <= sq.row
  BY <1>4, LowestRowExists, LowestRowIsLowest
<1> HIDE DEF bottom
<1>6. \A sq \in block.squares : sq.row \in bottom .. bottom + 3
  <2>1. PICK lo \in Int, hi \in Int, west \in Int, east \in Int : Box(block.squares, lo, hi, west, east)
    BY DEF Compact
  <2>2. lo <= bottom /\ hi - lo <= 3 /\ \A sq \in block.squares : sq.row <= hi
    BY <1>5, <2>1 DEF Box
  <2> QED BY <1>4, <1>5, <2>2
<1>7. EmptyRow # Column
  BY <1>4, <1>5 DEF EmptyRow
<1>8. ASSUME NEW k \in 1 .. size, added[k] = Column PROVE k - 1 \in bottom .. bottom + 4 - 1
  <2>1. gameboard[k] # Column
    <3>1. k - 1 \in 0 .. size - 1 /\ k - 1 + 1 = k
      BY <1>1
    <3> QED BY <3>1 DEF FilledRows, isRowFilled
  <2>2. Here(k) # {}
    BY <1>2, <1>8, <2>1
  <2>3. PICK sq \in block.squares : sq.row + 1 = k
    BY <2>2
  <2> QED BY <1>4, <1>5, <1>6, <2>3
<1> QED BY <1>3, <1>7, <1>8 DEF FilledWithin, bottom

LEMMA NewRowsNotFilled ==
  ASSUME NEW gameboard, GoodRows(gameboard), FilledRows(gameboard) = {}, NEW current, NEW next
  PROVE  FilledRows(NewPlayer(current, next).tetrisBoard.gameboard) = {}
<1> DEFINE rows == [r \in 1 .. Rows |-> EmptyRow]
<1>1. NewPlayer(current, next).tetrisBoard.gameboard = rows
  BY DEF NewPlayer, NewBoard
<1>2. GoodRows(rows) /\ Len(rows) = Rows /\ \A k \in 1 .. Rows : rows[k] = EmptyRow
  <2>1. GoodRows(rows)
    BY NewRowsGood
  <2> QED BY SizeAssumption, <2>1, LenProperties DEF GoodRows
<1>3. CASE Columns = 0
  <2>1. \A k \in 1 .. Len(gameboard) : gameboard[k] = Column
    BY <1>3 DEF GoodRows, Column
  <2>2. Len(gameboard) = 0
    <3>1. Len(gameboard) \in Nat
      BY DEF GoodRows
    <3>2. SUFFICES ASSUME Len(gameboard) > 0 PROVE FALSE
      BY <3>1
    <3>3. 0 \in 0 .. Len(gameboard) - 1 /\ 0 + 1 \in 1 .. Len(gameboard)
      BY <3>1, <3>2
    <3> QED BY <2>1, <3>3 DEF FilledRows, isRowFilled
  <2>3. Rows = 0
    BY <2>2, SizeAssumption DEF GoodRows
  <2> QED BY <1>1, <1>2, <2>3 DEF FilledRows
<1>4. CASE Columns # 0
  <2>1. EmptyRow # Column
    BY <1>4, SizeAssumption DEF EmptyRow, Column
  <2> HIDE DEF rows
  <2>2. \A r \in 0 .. Rows - 1 : rows[r + 1] # Column
    BY <1>2, <2>1, SizeAssumption
  <2> QED BY <1>1, <1>2, <2>2 DEF FilledRows, isRowFilled
<1> QED BY <1>3, <1>4

LEMMA LandedFilled ==
  ASSUME NEW b, GoodBoard(b), Firm(b), FilledRows(b.gameboard) = {}, NEW move, Lands(b, move)
  PROVE  FilledRows(Landed(b, << >>).board.gameboard) = {}
<1> DEFINE written == addBlockToBoard(b.gameboard, b.current)
           low == getLowestRow(b.current)
<1>1. << >> \in Seq(ExternalRow)
  OBVIOUS
<1>2. GoodRows(b.gameboard) /\ GoodBlock(b.current) /\ ~collision(b.gameboard, b.current)
  BY GoodBoardParts DEF Lands
<1>3. GoodRows(written)
  BY <1>2, addBlockToBoardGood
<1>4. FilledWithin(written, low, 4) /\ EmptyRow # Column
  BY <1>2, BlockFillsItsRows DEF Firm, Tetromino
<1>5. low \in Nat
  BY <1>1, LandedParts
<1>6. Landed(b, << >>).board.gameboard = removeFilledRows(<< >> \o written, low).gameboard
  BY <1>1, LandedParts
<1> HIDE DEF written, low
<1>7. << >> \o written = written
  BY <1>3, ConcatEmptySeq DEF GoodRows
<1>8. FilledRows(removeFilledRows(written, low).gameboard) = {}
  BY <1>3, <1>4, <1>5, removeFilledRowsLooks
<1> QED BY <1>6, <1>7, <1>8

LEMMA updateKeepsRows ==
  ASSUME NEW b, GoodBoard(b), NEW move
  PROVE  update(b, move).gameboard = b.gameboard
<1>1. b \in Board
  BY GoodBoardParts
<1>2. update(b, move) \in {b, [b EXCEPT !.isGameOver = TRUE], [b EXCEPT !.current = Moved(b, move)]}
  BY <1>1 DEF update
<1>3. ASSUME NEW block PROVE [b EXCEPT !.current = block].gameboard = b.gameboard
  BY <1>1 DEF Board
<1> QED BY <1>1, <1>2, <1>3 DEF Board

\* On a board of any size: no row that a block fills stays, when no rows were waiting and none was
\* filled before.  The four turns of the loop are enough, also when removed rows make others slide.
THEOREM FilledRowsAlwaysGo == Spec => FilledRowsGo
<1> DEFINE Before == FilledRows(owner.tetrisBoard.gameboard) = {} /\ owner.externalRows = << >>
           After == FilledRows(owner.tetrisBoard.gameboard) = {}
<1>1. ASSUME IInv, OwnerFirm, [Next]_vars, Before PROVE After'
  <2>1. /\ GoodPlayer(owner) /\ owner \in PlayerState /\ GoodBoard(owner.tetrisBoard)
        /\ left.types \in SUBSET BlockType /\ Firm(owner.tetrisBoard)
    BY <1>1 DEF IInv, TypeOK, GoodPlayer, OwnerFirm
  <2>2. ASSUME NEW move \in Moves, OwnerMoves(move) PROVE After'
    <3>1. PICK random \in left.types : owner' = updateMove(owner, move, random)
      BY <2>2 DEF OwnerMoves
    <3>2. move \in Move
      BY PlayerAssumption
    <3>3. CASE ~Lands(owner.tetrisBoard, move)
      <4>1. owner'.tetrisBoard = update(owner.tetrisBoard, move)
        BY <2>1, <3>1, <3>3 DEF updateMove, PlayerState
      <4>2. update(owner.tetrisBoard, move).gameboard = owner.tetrisBoard.gameboard
        BY <2>1, updateKeepsRows
      <4> QED BY <1>1, <4>1, <4>2
    <3>4. CASE Lands(owner.tetrisBoard, move)
      <4> DEFINE b == owner.tetrisBoard
                 landed == Landed(b, << >>)
      <4>1. owner'.tetrisBoard = [landed.board EXCEPT !.next = random]
        BY <1>1, <3>1, <3>4 DEF updateMove
      <4>2. << >> \in Seq(ExternalRow)
        OBVIOUS
      <4>3. FilledRows(landed.board.gameboard) = {}
        BY <1>1, <2>1, <3>4, LandedFilled
      <4>4. landed.board \in Board
        BY <2>1, <3>4, <4>2, LandedParts
      <4> HIDE DEF landed
      <4>5. owner'.tetrisBoard.gameboard = landed.board.gameboard
        BY <4>1, <4>4 DEF Board
      <4> QED BY <4>3, <4>5
    <3> QED BY <3>3, <3>4
  <2>3. CASE Attack
    <3>1. owner'.tetrisBoard = owner.tetrisBoard
      BY <2>1, <2>3, AttackKeepsBoard
    <3> QED BY <1>1, <3>1
  <2>4. CASE Restart
    <3>1. PICK current \in left.types, next \in left.types : owner' = NewPlayer(current, next)
      BY <2>4 DEF Restart, updateRestart
    <3> QED BY <1>1, <2>1, <3>1, NewRowsNotFilled, GoodBoardParts
  <2>5. CASE CopyReceives \/ UNCHANGED vars
    BY <1>1, <2>5 DEF CopyReceives, vars
  <2> QED BY <1>1, <2>2, <2>3, <2>4, <2>5 DEF Next
<1>2. IInv /\ OwnerFirm /\ [Next]_vars =>
        [/\ FilledRows(owner.tetrisBoard.gameboard) = {}
         /\ owner.externalRows = << >>
         => FilledRows(owner'.tetrisBoard.gameboard) = {}]_vars
  BY <1>1
<1> QED BY <1>2, AlwaysGood, AlwaysFirm, PTL DEF Spec, FilledRowsGo

-----------------------------------------------------------------------------
(* Counting squares *)

LEMMA ColumnsAreFinite == IsFiniteSet(Column) /\ Cardinality(Column) = Columns
<1>1. 0 \in Int /\ Columns - 1 \in Int
  BY SizeAssumption
<1>2. IsFiniteSet(0 .. Columns - 1) /\ Cardinality(0 .. Columns - 1) = IF 0 > Columns - 1 THEN 0 ELSE Columns - 1 - 0 + 1
  BY <1>1, FS_Interval
<1> QED BY <1>2, SizeAssumption DEF Column

LEMMA FilledSquares ==
  ASSUME NEW rows \in Seq(SUBSET Column)
  PROVE  /\ Filled(rows) = {p \in (1 .. Len(rows)) \X Column : p[2] \in rows[p[1]]}
         /\ IsFiniteSet(Filled(rows)) /\ SquaresOf(rows) \in Nat
<1> DEFINE n == Len(rows)
           F == {p \in (1 .. n) \X Column : p[2] \in rows[p[1]]}
<1>1. DOMAIN rows = 1 .. n /\ n \in Nat /\ \A k \in 1 .. n : rows[k] \subseteq Column
  BY LenProperties
<1>2. Filled(rows) = F
  <2> HIDE DEF n
  <2>1. \A k \in 1 .. n : {k} \X rows[k] \subseteq F
    BY <1>1
  <2>2. Filled(rows) \subseteq F
    BY <1>1, <2>1 DEF Filled
  <2>3. ASSUME NEW p \in F PROVE p \in Filled(rows)
    <3>1. p[1] \in 1 .. n /\ p \in {p[1]} \X rows[p[1]]
      OBVIOUS
    <3> QED BY <1>1, <3>1 DEF Filled
  <2> QED BY <2>2, <2>3
<1>3. IsFiniteSet(F)
  <2>1. IsFiniteSet(1 .. n)
    BY <1>1, FS_Interval
  <2>2. IsFiniteSet((1 .. n) \X Column)
    BY <2>1, ColumnsAreFinite, FS_Product
  <2>3. F \in SUBSET ((1 .. n) \X Column)
    OBVIOUS
  <2> QED BY <2>2, <2>3, FS_Subset
<1> QED BY <1>2, <1>3, FS_CardinalityType DEF SquaresOf

\* A block without collision fills four squares more.
LEMMA SquaresOfAdded ==
  ASSUME NEW gameboard, GoodRows(gameboard), NEW block, GoodBlock(block), FourSquares(block.squares),
         ~collision(gameboard, block), \A sq \in block.squares : isRowInsideBoard(gameboard, sq.row)
  PROVE  SquaresOf(addBlockToBoard(gameboard, block)) = SquaresOf(gameboard) + 4
<1> DEFINE Here(k) == {sq.column : sq \in {sq \in block.squares : sq.row + 1 = k}}
           added == addBlockToBoard(gameboard, block)
           S == block.squares
           n == Len(gameboard)
           At(sq) == << sq.row + 1, sq.column >>
           T == {At(sq) : sq \in S}
           F == Filled(gameboard)
           G == Filled(added)
           f == [sq \in S |-> At(sq)]
<1>1. gameboard \in Seq(SUBSET Column) /\ n \in Nat
  BY DEF GoodRows
<1>2. added = [k \in 1 .. n |-> gameboard[k] \cup Here(k)]
  BY <1>1, LenProperties DEF addBlockToBoard
<1>3. added \in Seq(SUBSET Column) /\ Len(added) = n
  <2>1. GoodRows(added)
    BY addBlockToBoardGood
  <2> HIDE DEF added, Here
  <2> QED BY <1>1, <1>2, <2>1, LenProperties DEF GoodRows
<1>4. S \in SUBSET Square /\ \A sq \in S : sq.row \in 0 .. n - 1 /\ sq.column \in Column /\ sq.column \notin gameboard[sq.row + 1]
  BY <1>1 DEF GoodBlock, Block, Square, collision, IsFree, isRowInsideBoard
<1>5. F = {p \in (1 .. n) \X Column : p[2] \in gameboard[p[1]]} /\ IsFiniteSet(F) /\ SquaresOf(gameboard) = Cardinality(F) /\ Cardinality(F) \in Nat
  BY <1>1, FilledSquares DEF SquaresOf
<1>6. G = {p \in (1 .. n) \X Column : p[2] \in added[p[1]]} /\ SquaresOf(added) = Cardinality(G)
  BY <1>3, FilledSquares DEF SquaresOf
<1>7. \A k \in 1 .. n : \A c : c \in added[k] <=> c \in gameboard[k] \/ \E sq \in S : sq.row + 1 = k /\ sq.column = c
  BY <1>2
<1> HIDE DEF added, Here, S, n, F, G
<1>8. T \subseteq (1 .. n) \X Column
  BY <1>1, <1>4
<1>9. G = F \cup T
  <2>1. ASSUME NEW p \in (1 .. n) \X Column PROVE p \in T <=> \E sq \in S : sq.row + 1 = p[1] /\ sq.column = p[2]
    BY <1>1, <1>4
  <2>2. \A p \in (1 .. n) \X Column : p[1] \in 1 .. n
    OBVIOUS
  <2>3. \A p \in (1 .. n) \X Column : p \in G <=> p \in F \/ p \in T
    BY <1>5, <1>6, <1>7, <2>1, <2>2
  <2> HIDE DEF T
  <2>4. F \subseteq (1 .. n) \X Column /\ G \subseteq (1 .. n) \X Column
    BY <1>5, <1>6
  <2> QED BY <1>8, <2>3, <2>4
<1>10. F \cap T = {}
  BY <1>4, <1>5
<1>11. IsFiniteSet(T) /\ Cardinality(T) = 4
  <2>1. \A sq, other \in S : At(sq) = At(other) => sq = other
    BY <1>4 DEF Square
  <2>2. f \in [S -> T] /\ (\A sq, other \in S : f[sq] = f[other] => sq = other) /\ (\A t \in T : \E sq \in S : f[sq] = t)
    BY <2>1
  <2> HIDE DEF f, T
  <2>3. IsFiniteSet(T) /\ Cardinality(T) = Cardinality(S)
    BY <2>2, SameSize DEF FourSquares, S
  <2> QED BY <2>3 DEF FourSquares, S
<1> HIDE DEF T
<1>12. Cardinality(G) = Cardinality(F) + Cardinality(T) - Cardinality(F \cap T)
  BY <1>5, <1>9, <1>11, FS_Union
<1>13. Cardinality(F \cap T) = 0
  BY <1>10, FS_EmptySet
<1> QED BY <1>5, <1>6, <1>11, <1>12, <1>13 DEF added

LEMMA SquaresOfBoth ==
  ASSUME NEW below \in Seq(SUBSET Column), NEW rows \in Seq(SUBSET Column)
  PROVE  SquaresOf(below \o rows) = SquaresOf(below) + SquaresOf(rows)
<1> DEFINE all == below \o rows
           m == Len(below)
           n == Len(rows)
           Up(p) == << p[1] + m, p[2] >>
           B == Filled(below)
           F == Filled(rows)
           G == Filled(all)
           T == {Up(p) : p \in F}
           f == [p \in F |-> Up(p)]
<1>1. m \in Nat /\ n \in Nat
  OBVIOUS
<1>2. /\ all \in Seq(SUBSET Column) /\ Len(all) = m + n
      /\ \A k \in 1 .. m : all[k] = below[k]
      /\ \A k \in m + 1 .. m + n : all[k] = rows[k - m]
  BY ConcatProperties
<1>3. /\ B = {p \in (1 .. m) \X Column : p[2] \in below[p[1]]} /\ IsFiniteSet(B)
      /\ SquaresOf(below) = Cardinality(B) /\ Cardinality(B) \in Nat
  BY FilledSquares DEF SquaresOf
<1>4. /\ F = {p \in (1 .. n) \X Column : p[2] \in rows[p[1]]} /\ IsFiniteSet(F)
      /\ SquaresOf(rows) = Cardinality(F) /\ Cardinality(F) \in Nat
  BY FilledSquares DEF SquaresOf
<1> HIDE DEF all
<1>5. G = {p \in (1 .. m + n) \X Column : p[2] \in all[p[1]]} /\ SquaresOf(all) = Cardinality(G)
  BY <1>2, FilledSquares DEF SquaresOf
<1> HIDE DEF m, n, B, F, G
<1>6. \A p \in F : Up(p) \in (m + 1 .. m + n) \X Column /\ Up(p) \in G
  <2>1. ASSUME NEW p \in F PROVE Up(p) \in (m + 1 .. m + n) \X Column /\ Up(p) \in G
    <3>1. p[1] \in 1 .. n /\ p[2] \in Column /\ p[2] \in rows[p[1]]
      BY <1>4
    <3>2. p[1] + m \in m + 1 .. m + n /\ p[1] + m - m = p[1]
      BY <1>1, <3>1
    <3>3. all[p[1] + m] = rows[p[1]]
      <4>1. PICK k \in m + 1 .. m + n : k = p[1] + m
        BY <3>2
      <4>2. all[k] = rows[k - m]
        BY <1>2
      <4>3. k - m = p[1]
        BY <1>1, <3>1, <4>1
      <4> QED BY <4>1, <4>2, <4>3
    <3>4. p[1] + m \in 1 .. m + n
      BY <1>1, <3>2
    <3> QED BY <1>5, <3>1, <3>2, <3>3, <3>4
  <2> QED BY <2>1
<1>7. \A p \in F, q \in F : Up(p) = Up(q) => p = q
  <2>1. \A p \in F : p[1] \in Int /\ p = << p[1], p[2] >>
    BY <1>4
  <2>2. ASSUME NEW p \in F, NEW q \in F, Up(p) = Up(q) PROVE p = q
    <3>1. p[1] + m = q[1] + m /\ p[2] = q[2]
      BY <2>2
    <3>2. p[1] = q[1]
      BY <1>1, <2>1, <3>1
    <3> QED BY <2>1, <3>1, <3>2
  <2> QED BY <2>2
<1>8. G = B \cup T
  <2>1. \A p \in B : p \in G
    <3>1. ASSUME NEW p \in B PROVE p \in G
      <4>1. p[1] \in 1 .. m /\ p[2] \in Column /\ p[2] \in below[p[1]] /\ p = << p[1], p[2] >>
        BY <1>3
      <4>2. p[1] \in 1 .. m + n /\ all[p[1]] = below[p[1]]
        BY <1>1, <1>2, <4>1
      <4> QED BY <1>5, <4>1, <4>2
    <3> QED BY <3>1
  <2>2. ASSUME NEW p \in G PROVE p \in B \/ p \in T
    <3>1. p[1] \in 1 .. m + n /\ p[2] \in Column /\ p[2] \in all[p[1]] /\ p = << p[1], p[2] >>
      BY <1>5
    <3>2. CASE p[1] \in 1 .. m
      BY <1>2, <1>3, <3>1, <3>2
    <3>3. CASE p[1] \notin 1 .. m
      <4>1. p[1] \in m + 1 .. m + n /\ p[1] - m \in 1 .. n /\ p[1] - m + m = p[1]
        BY <1>1, <3>1, <3>3
      <4> DEFINE q == << p[1] - m, p[2] >>
      <4>2. q \in F
        BY <1>2, <1>4, <3>1, <4>1
      <4>3. Up(q) = p
        BY <3>1, <4>1
      <4> QED BY <4>2, <4>3
    <3> QED BY <3>2, <3>3
  <2>3. \A p \in T : p \in G
    BY <1>6
  <2> QED BY <2>1, <2>2, <2>3
<1>9. B \cap T = {}
  BY <1>1, <1>3, <1>6
<1>10. IsFiniteSet(T) /\ Cardinality(T) = Cardinality(F)
  <2>1. f \in [F -> T] /\ (\A p, q \in F : f[p] = f[q] => p = q) /\ (\A t \in T : \E p \in F : f[p] = t)
    BY <1>7
  <2>2. IsFiniteSet(F)
    BY <1>4
  <2> HIDE DEF f, T
  <2> QED BY <2>1, <2>2, SameSize
<1> HIDE DEF T
<1>11. Cardinality(G) = Cardinality(B) + Cardinality(T) - Cardinality(B \cap T)
  BY <1>3, <1>8, <1>10, FS_Union
<1>12. Cardinality(B \cap T) = 0
  BY <1>9, FS_EmptySet
<1>13. Cardinality(G) = Cardinality(B) + Cardinality(F)
  <2>1. Cardinality(B) \in Nat /\ Cardinality(F) \in Nat
    BY <1>3, <1>4
  <2> QED BY <1>10, <1>11, <1>12, <2>1
<1>14. SquaresOf(all) = Cardinality(G) /\ SquaresOf(below) = Cardinality(B) /\ SquaresOf(rows) = Cardinality(F)
  BY <1>3, <1>4, <1>5
<1> QED BY <1>13, <1>14 DEF all

\* A filled row that is erased takes its squares along, and no other ones.
LEMMA SquaresOfErased ==
  ASSUME NEW gameboard, GoodRows(gameboard), NEW row \in Nat, isRowInsideBoard(gameboard, row),
         isRowFilled(gameboard, row)
  PROVE  SquaresOf(moveRowsOneStepDown(gameboard, row)) = SquaresOf(gameboard) - Columns
<1> DEFINE after == moveRowsOneStepDown(gameboard, row)
           n == Len(gameboard)
           From(k) == IF k <= row THEN k ELSE k + 1
           Slide(p) == << IF p[1] <= row THEN p[1] ELSE p[1] - 1, p[2] >>
           F == Filled(gameboard)
           G == Filled(after)
           T == {row + 1} \X Column
           R == F \ T
           f == [p \in R |-> Slide(p)]
<1>1. gameboard \in Seq(SUBSET Column) /\ n \in Nat /\ row + 1 \in 1 .. n /\ gameboard[row + 1] = Column
  BY DEF GoodRows, isRowInsideBoard, isRowFilled
<1>2. after \in Seq(SUBSET Column)
  BY moveRowsGood DEF GoodRows
<1>3. Len(after) \in {n - 1, n} /\ \A k \in 1 .. n - 1 : after[k] = gameboard[From(k)]
  BY moveRowsProperties
<1>4. Len(after) = n => after[n] = EmptyRow
  BY moveRowsProperties
<1>5. /\ F = {p \in (1 .. n) \X Column : p[2] \in gameboard[p[1]]} /\ IsFiniteSet(F)
      /\ SquaresOf(gameboard) = Cardinality(F) /\ Cardinality(F) \in Nat
  BY <1>1, FilledSquares DEF SquaresOf
<1>6. SquaresOf(after) = Cardinality(G)
  BY DEF SquaresOf
<1>7. G = {p \in (1 .. n - 1) \X Column : p[2] \in gameboard[From(p[1])]}
  <2>1. G = {p \in (1 .. Len(after)) \X Column : p[2] \in after[p[1]]}
    BY <1>2, FilledSquares
  <2> HIDE DEF after, G, F, From, n
  <2>2. ASSUME NEW p \in (1 .. Len(after)) \X Column, p[2] \in after[p[1]] PROVE p[1] \in 1 .. n - 1
    <3>1. p[1] \in 1 .. Len(after)
      OBVIOUS
    <3>2. ~(Len(after) = n /\ p[1] = n)
      BY <1>4, <2>2 DEF EmptyRow
    <3> QED BY <1>1, <1>3, <3>1, <3>2
  <2>3. 1 .. n - 1 \subseteq 1 .. Len(after)
    BY <1>1, <1>3
  <2> QED BY <1>3, <2>1, <2>2, <2>3
<1> HIDE DEF after, n, F, G
<1>8. T \subseteq F
  BY <1>1, <1>5
<1>9. IsFiniteSet(T) /\ Cardinality(T) = Columns
  <2>1. IsFiniteSet({row + 1}) /\ Cardinality({row + 1}) = 1
    BY FS_Singleton
  <2>2. IsFiniteSet(T) /\ Cardinality(T) = 1 * Columns
    BY <2>1, ColumnsAreFinite, FS_Product
  <2> QED BY <2>2, SizeAssumption
<1>10. R = {p \in (1 .. n) \X Column : p[2] \in gameboard[p[1]] /\ p[1] # row + 1}
  BY <1>5
<1>11. IsFiniteSet(R) /\ Cardinality(R) = Cardinality(F) - Columns
  <2>1. F \cap T = T
    BY <1>8
  <2>2. IsFiniteSet(F)
    BY <1>5
  <2> HIDE DEF T
  <2> QED BY <1>9, <2>1, <2>2, FS_Difference
<1> HIDE DEF R
<1>12. ASSUME NEW p \in R
       PROVE  /\ Slide(p) \in G /\ p[1] \in Int /\ p = << p[1], p[2] >>
              /\ p[1] = From(Slide(p)[1])
  <2>1. p[1] \in 1 .. n /\ p[2] \in Column /\ p[2] \in gameboard[p[1]] /\ p[1] # row + 1 /\ p = << p[1], p[2] >>
    BY <1>10
  <2> DEFINE k == IF p[1] <= row THEN p[1] ELSE p[1] - 1
  <2>2. k \in 1 .. n - 1 /\ From(k) = p[1]
    BY <1>1, <2>1
  <2>3. Slide(p) = << k, p[2] >>
    OBVIOUS
  <2> HIDE DEF k, Slide, From
  <2>4. << k, p[2] >> \in G
    BY <1>7, <2>1, <2>2
  <2> QED BY <2>1, <2>2, <2>3, <2>4
<1>13. ASSUME NEW p \in R, NEW q \in R, Slide(p) = Slide(q) PROVE p = q
  <2>1. p[1] = q[1]
    BY <1>12, <1>13
  <2>2. p[2] = q[2]
    BY <1>13
  <2> QED BY <1>12, <2>1, <2>2
<1>14. ASSUME NEW p \in G PROVE \E q \in R : Slide(q) = p
  <2>1. p[1] \in 1 .. n - 1 /\ p[2] \in Column /\ p[2] \in gameboard[From(p[1])] /\ p = << p[1], p[2] >>
    BY <1>7
  <2>2. From(p[1]) \in 1 .. n /\ From(p[1]) # row + 1
    BY <1>1, <2>1
  <2>3. (IF From(p[1]) <= row THEN From(p[1]) ELSE From(p[1]) - 1) = p[1]
    BY <1>1, <2>1
  <2> DEFINE q == << From(p[1]), p[2] >>
  <2> HIDE DEF From
  <2>4. q \in R
    BY <1>10, <2>1, <2>2
  <2>5. Slide(q) = p
    BY <2>1, <2>3
  <2> QED BY <2>4, <2>5
<1>15. Cardinality(G) = Cardinality(R)
  <2>1. f \in [R -> G] /\ (\A p, q \in R : f[p] = f[q] => p = q) /\ (\A t \in G : \E p \in R : f[p] = t)
    BY <1>12, <1>13, <1>14
  <2> HIDE DEF f
  <2> QED BY <1>11, <2>1, SameSize
<1> QED BY <1>5, <1>6, <1>11, <1>15 DEF after

\* What is on the board and what has been removed, together.
Total(loop) == SquaresOf(loop.gameboard) + Columns * loop.rowsFilled

LEMMA NextRowTotal ==
  ASSUME NEW loop, GoodLoop(loop)
  PROVE  GoodLoop(NextRow(loop)) /\ Total(NextRow(loop)) = Total(loop)
<1>1. loop \in [gameboard : Seq(SUBSET Column), row : Nat, rowsFilled : Nat] /\ GoodRows(loop.gameboard)
  BY DEF GoodLoop
<1>2. GoodLoop(NextRow(loop))
  BY NextRowGood
<1>3. CASE isRowInsideBoard(loop.gameboard, loop.row) /\ isRowFilled(loop.gameboard, loop.row)
  <2>1. /\ NextRow(loop).gameboard = moveRowsOneStepDown(loop.gameboard, loop.row)
        /\ NextRow(loop).rowsFilled = loop.rowsFilled + 1
    BY <1>1, <1>3 DEF NextRow
  <2>2. SquaresOf(NextRow(loop).gameboard) = SquaresOf(loop.gameboard) - Columns
    BY <1>1, <1>3, <2>1, SquaresOfErased
  <2>3. SquaresOf(loop.gameboard) \in Nat
    BY <1>1, FilledSquares
  <2>4. \A a, c, k \in Nat : (a - c) + c * (k + 1) = a + c * k
    OBVIOUS
  <2>5. loop.rowsFilled \in Nat
    BY <1>1
  <2> QED BY <1>2, <2>1, <2>2, <2>3, <2>4, <2>5, SizeAssumption DEF Total
<1>4. CASE ~(isRowInsideBoard(loop.gameboard, loop.row) /\ isRowFilled(loop.gameboard, loop.row))
  BY <1>1, <1>2, <1>4 DEF NextRow, Total
<1> QED BY <1>3, <1>4

LEMMA removeFilledRowsTotal ==
  ASSUME NEW gameboard, GoodRows(gameboard), NEW row \in Nat
  PROVE  SquaresOf(removeFilledRows(gameboard, row).gameboard)
           = SquaresOf(gameboard) - Columns * removeFilledRows(gameboard, row).rowsFilled
<1> DEFINE l0 == [gameboard |-> gameboard, row |-> row, rowsFilled |-> 0]
           l1 == NextRow(l0)
           l2 == NextRow(l1)
           l3 == NextRow(l2)
           l4 == NextRow(l3)
<1>1. GoodLoop(l0) /\ l0.gameboard = gameboard /\ l0.rowsFilled = 0
  BY DEF GoodLoop, GoodRows
<1>2. SquaresOf(gameboard) \in Nat
  BY FilledSquares DEF GoodRows
<1> HIDE DEF l0
<1>3. Total(l0) = SquaresOf(gameboard)
  BY <1>1, <1>2, SizeAssumption DEF Total
<1>4. GoodLoop(l1) /\ Total(l1) = Total(l0)
  BY <1>1, NextRowTotal
<1> HIDE DEF l1
<1>5. GoodLoop(l2) /\ Total(l2) = Total(l1)
  BY <1>4, NextRowTotal
<1> HIDE DEF l2
<1>6. GoodLoop(l3) /\ Total(l3) = Total(l2)
  BY <1>5, NextRowTotal
<1> HIDE DEF l3
<1>7. GoodLoop(l4) /\ Total(l4) = Total(l3)
  BY <1>6, NextRowTotal
<1> HIDE DEF l4
<1>8. SquaresOf(l4.gameboard) \in Nat /\ l4.rowsFilled \in Nat
  BY <1>7, FilledSquares DEF GoodLoop
<1>9. Columns * l4.rowsFilled \in Int
  BY <1>8, SizeAssumption
<1>10. SquaresOf(l4.gameboard) + Columns * l4.rowsFilled = SquaresOf(gameboard)
  BY <1>3, <1>4, <1>5, <1>6, <1>7 DEF Total
<1>11. SquaresOf(l4.gameboard) = SquaresOf(gameboard) - Columns * l4.rowsFilled
  <2> DEFINE taken == Columns * l4.rowsFilled
  <2> HIDE DEF taken
  <2>1. taken \in Int /\ SquaresOf(l4.gameboard) + taken = SquaresOf(gameboard)
    BY <1>9, <1>10 DEF taken
  <2>2. SquaresOf(l4.gameboard) = SquaresOf(gameboard) - taken
    BY <1>2, <1>8, <2>1
  <2> QED BY <2>2 DEF taken
<1>12. removeFilledRows(gameboard, row) = l4
  BY DEF removeFilledRows, l4, l3, l2, l1, l0
<1> QED BY <1>11, <1>12

\* The squares of a board after a block has landed.
LEMMA LandedSquares ==
  ASSUME NEW b, GoodBoard(b), Firm(b), NEW move, Lands(b, move), NEW externalRows \in Seq(ExternalRow)
  PROVE  SquaresOf(Landed(b, externalRows).board.gameboard)
           = SquaresOf(b.gameboard) + (4 + SquaresOf(externalRows)) - Columns * Landed(b, externalRows).rowsFilled
<1> DEFINE written == addBlockToBoard(b.gameboard, b.current)
           low == getLowestRow(b.current)
           loop == removeFilledRows(externalRows \o written, low)
           removed == Columns * loop.rowsFilled
<1>1. GoodRows(b.gameboard) /\ GoodBlock(b.current) /\ ~collision(b.gameboard, b.current) /\ externalRows \in Seq(SUBSET Column)
  BY GoodBoardParts, PlayerAssumption DEF Lands
<1>2. GoodRows(written) /\ SquaresOf(written) = SquaresOf(b.gameboard) + 4
  BY <1>1, addBlockToBoardGood, SquaresOfAdded, GoodBoardInside DEF Firm, Tetromino
<1>3. low \in Nat /\ Landed(b, externalRows).board.gameboard = loop.gameboard /\ Landed(b, externalRows).rowsFilled = loop.rowsFilled
  BY LandedParts DEF Landed
<1> HIDE DEF written, low
<1>4. GoodRows(externalRows \o written) /\ SquaresOf(externalRows \o written) = SquaresOf(externalRows) + SquaresOf(written)
  <2>1. written \in Seq(SUBSET Column) /\ Len(written) >= Rows /\ Len(written) \in Nat /\ Len(externalRows) \in Nat
    BY <1>1, <1>2 DEF GoodRows
  <2>2. externalRows \o written \in Seq(SUBSET Column) /\ Len(externalRows \o written) = Len(externalRows) + Len(written)
    BY <1>1, <2>1, ConcatProperties
  <2>3. Len(externalRows) + Len(written) >= Rows
    BY <2>1, SizeAssumption
  <2> QED BY <1>1, <2>1, <2>2, <2>3, SquaresOfBoth DEF GoodRows
<1>5. SquaresOf(loop.gameboard) = SquaresOf(externalRows \o written) - removed
  BY <1>3, <1>4, removeFilledRowsTotal
<1>6. loop.rowsFilled \in Nat
  BY <1>3, <1>4, removeFilledRowsGood
<1>7. SquaresOf(b.gameboard) \in Nat /\ SquaresOf(externalRows) \in Nat /\ removed \in Int
  BY <1>1, <1>6, FilledSquares, SizeAssumption DEF GoodRows
<1> HIDE DEF removed
<1>8. SquaresOf(loop.gameboard) = SquaresOf(b.gameboard) + (4 + SquaresOf(externalRows)) - removed
  BY <1>2, <1>4, <1>5, <1>7
<1> QED BY <1>3, <1>8 DEF removed

\* On a board of any size: a block that lands overlaps nothing, nothing is lost when rows are pushed
\* up or removed, and nothing else touches the squares that lie there.
THEOREM NothingIsEverOverwritten == Spec => NothingIsOverwritten
<1> DEFINE Counted(added) ==
             SquaresOf(owner'.tetrisBoard.gameboard)
               = SquaresOf(owner.tetrisBoard.gameboard) + added - Columns * (owner'.clearedRows - owner.clearedRows)
<1>1. ASSUME IInv, OwnerFirm, [Next]_vars, left'.restarts = left.restarts
      PROVE  Counted(IF left'.landings # left.landings THEN 4 + SquaresOf(owner.externalRows) ELSE 0)
  <2>1. /\ GoodPlayer(owner) /\ owner \in PlayerState /\ GoodBoard(owner.tetrisBoard) /\ Firm(owner.tetrisBoard)
        /\ left \in [types : SUBSET BlockType, landings : Nat, attacks : Nat, restarts : Nat]
        /\ owner.externalRows \in Seq(ExternalRow) /\ owner.clearedRows \in Nat
    BY <1>1 DEF IInv, TypeOK, GoodPlayer, OwnerFirm, PlayerState
  <2>2. ASSUME UNCHANGED <<owner.tetrisBoard.gameboard, owner.clearedRows, left.landings>>
        PROVE  Counted(IF left'.landings # left.landings THEN 4 + SquaresOf(owner.externalRows) ELSE 0)
    <3>1. SquaresOf(owner.tetrisBoard.gameboard) \in Nat
      BY <2>1, GoodBoardParts, FilledSquares DEF GoodRows
    <3>2. Columns * (owner'.clearedRows - owner.clearedRows) = 0
      BY <2>1, <2>2, SizeAssumption
    <3> QED BY <2>2, <3>1, <3>2
  <2>3. ASSUME NEW move \in Moves, OwnerMoves(move)
        PROVE  Counted(IF left'.landings # left.landings THEN 4 + SquaresOf(owner.externalRows) ELSE 0)
    <3>1. PICK random \in left.types :
            /\ \/ Lands(owner.tetrisBoard, move) /\ Spend("landings")
               \/ ~Lands(owner.tetrisBoard, move) /\ UNCHANGED left
            /\ owner' = updateMove(owner, move, random)
      BY <2>3 DEF OwnerMoves
    <3>2. CASE ~Lands(owner.tetrisBoard, move)
      <4>1. owner' = [owner EXCEPT !.tetrisBoard = update(owner.tetrisBoard, move)]
        BY <2>1, <3>1, <3>2 DEF updateMove, PlayerState
      <4>2. owner'.tetrisBoard.gameboard = owner.tetrisBoard.gameboard /\ owner'.clearedRows = owner.clearedRows
        BY <2>1, <4>1, updateKeepsRows DEF PlayerState
      <4> QED BY <2>2, <3>1, <3>2, <4>2
    <3>3. CASE Lands(owner.tetrisBoard, move)
      <4> DEFINE landed == Landed(owner.tetrisBoard, owner.externalRows)
      <4>1. owner' = [tetrisBoard |-> [landed.board EXCEPT !.next = random],
                      clearedRows |-> owner.clearedRows + landed.rowsFilled, externalRows |-> << >>]
        BY <3>1, <3>3 DEF updateMove
      <4>2. landed.board \in Board /\ landed.rowsFilled \in Nat
        BY <2>1, <3>3, LandedParts, LandedGood
      <4>3. SquaresOf(landed.board.gameboard)
              = SquaresOf(owner.tetrisBoard.gameboard) + (4 + SquaresOf(owner.externalRows)) - Columns * landed.rowsFilled
        BY <2>1, <3>3, LandedSquares
      <4> HIDE DEF landed
      <4>4. owner'.tetrisBoard.gameboard = landed.board.gameboard
        <5>1. [landed.board EXCEPT !.next = random].gameboard = landed.board.gameboard
          BY <4>2 DEF Board
        <5> QED BY <4>1, <5>1
      <4>5. owner'.clearedRows - owner.clearedRows = landed.rowsFilled
        <5>1. owner'.clearedRows = owner.clearedRows + landed.rowsFilled
          BY <4>1
        <5> QED BY <2>1, <4>2, <5>1
      <4>6. left'.landings # left.landings
        BY <2>1, <3>1, <3>3 DEF Spend
      <4> QED BY <4>3, <4>4, <4>5, <4>6
    <3> QED BY <3>2, <3>3
  <2>4. CASE Attack
    <3>1. PICK first \in ExternalRow, second \in ExternalRow :
            owner' = addExternalRows(addExternalRows(owner, << first >>), << second >>)
      BY <2>4 DEF Attack
    <3>2. owner'.clearedRows = owner.clearedRows
      <4>1. \A rows : \A p \in PlayerState : addExternalRows(p, rows).clearedRows = p.clearedRows
        BY DEF addExternalRows, PlayerState
      <4>2. addExternalRows(owner, << first >>) \in PlayerState
        <5>1. << first >> \in Seq(ExternalRow)
          OBVIOUS
        <5> QED BY <2>1, <5>1, addExternalRowsGood DEF GoodPlayer
      <4> QED BY <2>1, <3>1, <4>1, <4>2
    <3>3. left'.landings = left.landings
      BY <2>1, <2>4 DEF Attack, Spend
    <3> QED BY <2>1, <2>2, <2>4, <3>2, <3>3, AttackKeepsBoard
  <2>5. CASE Restart
    <3>1. left'.restarts # left.restarts
      BY <2>1, <2>5 DEF Restart, Spend
    <3> QED BY <1>1, <3>1
  <2>6. CASE CopyReceives \/ UNCHANGED vars
    BY <2>2, <2>6 DEF CopyReceives, vars
  <2> QED BY <1>1, <2>3, <2>4, <2>5, <2>6 DEF Next
<1>2. IInv /\ OwnerFirm /\ [Next]_vars =>
        [left'.restarts = left.restarts =>
           SquaresOf(owner'.tetrisBoard.gameboard)
             = SquaresOf(owner.tetrisBoard.gameboard)
               + (IF left'.landings # left.landings THEN 4 + SquaresOf(owner.externalRows) ELSE 0)
               - Columns * (owner'.clearedRows - owner.clearedRows)]_vars
  BY <1>1
<1> QED BY <1>2, AlwaysGood, AlwaysFirm, PTL DEF Spec, NothingIsOverwritten

-----------------------------------------------------------------------------
(* A saved block is built anew *)

\* What a quarter of a turn makes of squares.
Turned(squares, o, n) ==
  CASE n = 1 -> {Sq(o.column + o.row - sq.row, sq.column + o.row - o.column) : sq \in squares}
    [] n = -1 -> {Sq(sq.row + o.column - o.row, o.column + o.row - sq.column) : sq \in squares}
    [] n = 0 -> squares

LEMMA TurnedSquares ==
  ASSUME NEW squares \in SUBSET Square, NEW o \in Square, NEW n \in {-1, 0, 1}
  PROVE  Turned(squares, o, n) \in SUBSET Square
<1> DEFINE Left(sq) == Sq(o.column + o.row - sq.row, sq.column + o.row - o.column)
           Right(sq) == Sq(sq.row + o.column - o.row, o.column + o.row - sq.column)
<1>1. \A sq \in squares : Left(sq) \in Square /\ Right(sq) \in Square
  BY DEF Square, Sq
<1>2. n = 1 => Turned(squares, o, n) = {Left(sq) : sq \in squares}
  BY DEF Turned
<1>3. n = -1 => Turned(squares, o, n) = {Right(sq) : sq \in squares}
  BY DEF Turned
<1>4. n = 0 => Turned(squares, o, n) = squares
  BY DEF Turned
<1> HIDE DEF Left, Right
<1> QED BY <1>1, <1>2, <1>3, <1>4

\* A quarter to the left and one to the right are none, nor are four to the left.
LEMMA TurnedBack ==
  ASSUME NEW squares \in SUBSET Square, NEW o \in Square
  PROVE  /\ Turned(Turned(squares, o, 1), o, -1) = squares
         /\ Turned(Turned(Turned(Turned(squares, o, 1), o, 1), o, 1), o, 1) = squares
<1> DEFINE Left(sq) == Sq(o.column + o.row - sq.row, sq.column + o.row - o.column)
           Right(sq) == Sq(sq.row + o.column - o.row, o.column + o.row - sq.column)
<1>1. ASSUME NEW sq \in squares
      PROVE  Right(Left(sq)) = sq /\ Left(Left(Left(Left(sq)))) = sq
  <2>1. sq = Sq(sq.column, sq.row) /\ sq.column \in Int /\ sq.row \in Int /\ o.column \in Int /\ o.row \in Int
    BY DEF Square, Sq
  <2>2. Left(sq) = Sq(o.column + o.row - sq.row, sq.column + o.row - o.column)
    OBVIOUS
  <2>3. Left(Left(sq)) = Sq(2 * o.column - sq.column, 2 * o.row - sq.row)
    BY <2>1, <2>2 DEF Sq
  <2>4. Left(Left(Left(sq))) = Sq(sq.row + o.column - o.row, o.column + o.row - sq.column)
    BY <2>1, <2>3 DEF Sq
  <2> HIDE DEF Left, Right
  <2>5. Right(Left(sq)) = sq
    BY <2>1, <2>2 DEF Sq, Right
  <2>6. Left(Left(Left(Left(sq)))) = sq
    BY <2>1, <2>4 DEF Sq, Left
  <2> QED BY <2>5, <2>6
<1>2. \A S : Turned(S, o, 1) = {Left(sq) : sq \in S} /\ Turned(S, o, -1) = {Right(sq) : sq \in S}
  BY DEF Turned
<1> HIDE DEF Left, Right
<1>3. {Right(sq) : sq \in {Left(x) : x \in squares}} = squares
  <2>1. {Right(sq) : sq \in {Left(x) : x \in squares}} = {Right(Left(x)) : x \in squares}
    OBVIOUS
  <2> QED BY <1>1, <2>1
<1>4. {Left(d) : d \in {Left(c) : c \in {Left(b) : b \in {Left(a) : a \in squares}}}} = squares
  <2>1. {Left(d) : d \in {Left(c) : c \in {Left(b) : b \in {Left(a) : a \in squares}}}}
          = {Left(Left(Left(Left(a)))) : a \in squares}
    OBVIOUS
  <2> QED BY <1>1, <2>1
<1> QED BY <1>2, <1>3, <1>4

ShiftedSq(sq, x, y) == Sq(sq.column + x, sq.row + y)

ShiftedSquares(squares, x, y) == {ShiftedSq(sq, x, y) : sq \in squares}

\* Turning and shifting go together.
LEMMA TurnedShifted ==
  ASSUME NEW squares \in SUBSET Square, NEW o \in Square, NEW n \in {-1, 0, 1}, NEW x \in Int, NEW y \in Int
  PROVE  Turned(ShiftedSquares(squares, x, y), ShiftedSq(o, x, y), n) = ShiftedSquares(Turned(squares, o, n), x, y)
<1> DEFINE Shift(sq) == ShiftedSq(sq, x, y)
           Left(c, sq) == Sq(c.column + c.row - sq.row, sq.column + c.row - c.column)
           Right(c, sq) == Sq(sq.row + c.column - c.row, c.column + c.row - sq.column)
<1>1. ASSUME NEW sq \in squares
      PROVE  Left(Shift(o), Shift(sq)) = Shift(Left(o, sq)) /\ Right(Shift(o), Shift(sq)) = Shift(Right(o, sq))
  BY DEF Square, Sq, ShiftedSq
<1>2. \A S, c : Turned(S, c, 1) = {Left(c, sq) : sq \in S} /\ Turned(S, c, -1) = {Right(c, sq) : sq \in S}
                /\ Turned(S, c, 0) = S
  BY DEF Turned
<1> HIDE DEF Shift, Left, Right
<1>3. {Left(Shift(o), sq) : sq \in {Shift(a) : a \in squares}} = {Shift(sq) : sq \in {Left(o, a) : a \in squares}}
  <2>1. {Left(Shift(o), sq) : sq \in {Shift(a) : a \in squares}} = {Left(Shift(o), Shift(a)) : a \in squares}
    OBVIOUS
  <2>2. {Shift(sq) : sq \in {Left(o, a) : a \in squares}} = {Shift(Left(o, a)) : a \in squares}
    OBVIOUS
  <2> QED BY <1>1, <2>1, <2>2
<1>4. {Right(Shift(o), sq) : sq \in {Shift(a) : a \in squares}} = {Shift(sq) : sq \in {Right(o, a) : a \in squares}}
  <2>1. {Right(Shift(o), sq) : sq \in {Shift(a) : a \in squares}} = {Right(Shift(o), Shift(a)) : a \in squares}
    OBVIOUS
  <2>2. {Shift(sq) : sq \in {Right(o, a) : a \in squares}} = {Shift(Right(o, a)) : a \in squares}
    OBVIOUS
  <2> QED BY <1>1, <2>1, <2>2
<1>5. Turned({Shift(sq) : sq \in squares}, Shift(o), n) = {Shift(sq) : sq \in Turned(squares, o, n)}
  BY <1>2, <1>3, <1>4
<1> QED BY <1>5 DEF Shift, ShiftedSquares

\* The parts of a block: what is turned or shifted, and what stays.
BlockWith(type, squares, o, rotations, c, r) ==
  [blockType |-> type, squares |-> squares, rotationSquare |-> o, currentRotation |-> rotations,
   startColumn |-> c, lowestStartRow |-> r]

LEMMA PartsOfBlock ==
  ASSUME NEW b \in Block
  PROVE  /\ b = BlockWith(b.blockType, b.squares, b.rotationSquare, b.currentRotation, b.startColumn, b.lowestStartRow)
         /\ b.blockType \in BlockType /\ b.squares \in SUBSET Square /\ b.rotationSquare \in Square
         /\ b.currentRotation \in 0 .. 3 /\ b.startColumn \in Int /\ b.lowestStartRow \in Int
BY DEF Block, BlockWith, Square

LEMMA BlockFromParts ==
  ASSUME NEW type \in BlockType, NEW squares \in SUBSET Square, NEW o \in Square, NEW k \in 0 .. 3,
         NEW c \in Int, NEW r \in Int
  PROVE  BlockWith(type, squares, o, k, c, r) \in Block
BY DEF Block, BlockWith, Square

LEMMA RotatedParts ==
  ASSUME NEW type, NEW squares, NEW o, NEW k, NEW c, NEW r, NEW n \in {-1, 0, 1}
  PROVE  rotate(BlockWith(type, squares, o, k, c, r), n) = BlockWith(type, Turned(squares, o, n), o, k, c, r)
<1> DEFINE b == BlockWith(type, squares, o, k, c, r)
<1>1. \A S : [b EXCEPT !.squares = S] = BlockWith(type, S, o, k, c, r)
  BY DEF BlockWith
<1>2. b.squares = squares /\ b.rotationSquare = o /\ [b EXCEPT !.squares = b.squares] = b
  BY DEF BlockWith
<1> HIDE DEF b
<1>3. rotate(b, n) = [b EXCEPT !.squares = Turned(squares, o, n)]
  <2>1. CASE n = 1
    BY <1>2, <2>1 DEF rotate, Turned
  <2>2. CASE n = -1
    BY <1>2, <2>2 DEF rotate, Turned
  <2>3. CASE n = 0
    <3>1. rotate(b, n) = b /\ Turned(squares, o, n) = squares
      BY <2>3 DEF rotate, Turned
    <3> QED BY <1>2, <3>1
  <2> QED BY <2>1, <2>2, <2>3
<1>4. rotate(b, n) = BlockWith(type, Turned(squares, o, n), o, k, c, r)
  BY <1>1, <1>3
<1> QED BY <1>4 DEF b

\* A turn of a block, by its type and how often it was turned.
LEMMA rotateLeftParts ==
  ASSUME NEW type \in BlockType, NEW squares, NEW o, NEW k \in 0 .. 3, NEW c, NEW r
  PROVE  LET next == (k + 1) % 4
             most == maxRotations(type)
         IN  rotateLeft(BlockWith(type, squares, o, k, c, r))
               = IF next > most THEN BlockWith(type, Turned(squares, o, -most), o, 0, c, r)
                                ELSE BlockWith(type, Turned(squares, o, 1), o, next, c, r)
<1> DEFINE b == BlockWith(type, squares, o, k, c, r)
           next == (k + 1) % 4
           most == maxRotations(type)
<1>1. b.currentRotation = k /\ b.blockType = type
  BY DEF BlockWith
<1>2. most \in {0, 1, 4} /\ next \in 0 .. 3
  BY DEF maxRotations, BlockType
<1>3. rotateLeft(b) = IF next > most THEN [rotate(b, -most) EXCEPT !.currentRotation = 0]
                                     ELSE [rotate(b, 1) EXCEPT !.currentRotation = next]
  BY <1>1 DEF rotateLeft
<1>4. next > most => -most \in {-1, 0, 1}
  BY <1>2
<1>5. \A n \in {-1, 0, 1} : rotate(b, n) = BlockWith(type, Turned(squares, o, n), o, k, c, r)
  <2>1. rotate(b, 1) = BlockWith(type, Turned(squares, o, 1), o, k, c, r)
    BY RotatedParts
  <2>2. rotate(b, -1) = BlockWith(type, Turned(squares, o, -1), o, k, c, r)
    BY RotatedParts
  <2>3. rotate(b, 0) = BlockWith(type, Turned(squares, o, 0), o, k, c, r)
    BY RotatedParts
  <2> HIDE DEF b
  <2> QED BY <2>1, <2>2, <2>3
<1>6. next > most => rotate(b, -most) = BlockWith(type, Turned(squares, o, -most), o, k, c, r)
  <2> HIDE DEF b, next, most
  <2> QED BY <1>4, <1>5
<1>7. \A S, j : [BlockWith(type, S, o, k, c, r) EXCEPT !.currentRotation = j] = BlockWith(type, S, o, j, c, r)
  BY DEF BlockWith
<1> HIDE DEF b, next, most
<1>8. CASE next > most
  <2>1. rotateLeft(b) = [BlockWith(type, Turned(squares, o, -most), o, k, c, r) EXCEPT !.currentRotation = 0]
    BY <1>3, <1>6, <1>8
  <2>2. rotateLeft(b) = BlockWith(type, Turned(squares, o, -most), o, 0, c, r)
    BY <1>7, <2>1, Zenon
  <2> QED BY <1>8, <2>2 DEF b, next, most
<1>9. CASE ~(next > most)
  <2>1. rotateLeft(b) = [BlockWith(type, Turned(squares, o, 1), o, k, c, r) EXCEPT !.currentRotation = next]
    BY <1>3, <1>5, <1>9
  <2>2. rotateLeft(b) = BlockWith(type, Turned(squares, o, 1), o, next, c, r)
    BY <1>7, <2>1, Zenon
  <2> QED BY <1>9, <2>2 DEF b, next, most
<1> QED BY <1>8, <1>9

LEMMA NewBlockParts ==
  ASSUME NEW type \in BlockType, NEW c \in Int, NEW r \in Int
  PROVE  /\ NewBlock(type, c, r) = BlockWith(type, StartSquares(type, c, r), RotationSquare(type, c, r), 0, c, r)
         /\ StartSquares(type, c, r) \in SUBSET Square
         /\ RotationSquare(type, c, r) \in Square
<1>1. NewBlock(type, c, r) = BlockWith(type, StartSquares(type, c, r), RotationSquare(type, c, r), 0, c, r)
  BY DEF NewBlock, BlockWith
<1>2. \A a, d : a \in Int /\ d \in Int => Sq(a, d) \in Square
  BY DEF Sq, Square
<1>3. StartSquares(type, c, r) \in SUBSET Square
  <2>1. \A a, d \in {-1, 0, 1, 2, 3} : Sq(c + a, r + d) \in Square
    BY <1>2
  <2>2. c + 0 = c /\ r + 0 = r /\ c + (-1) = c - 1
    OBVIOUS
  <2> QED BY <1>2 DEF StartSquares, BlockType
<1>4. RotationSquare(type, c, r) \in Square
  BY <1>2 DEF RotationSquare, BlockType
<1> QED BY <1>1, <1>3, <1>4

\* What a block that was turned so often has for its squares.
TurnedOften(squares, o, k) ==
  CASE k = 0 -> squares
    [] k = 1 -> Turned(squares, o, 1)
    [] k = 2 -> Turned(Turned(squares, o, 1), o, 1)
    [] k = 3 -> Turned(Turned(Turned(squares, o, 1), o, 1), o, 1)

\* How often a block can be turned before it is the one it was.
Often(type) ==
  CASE type = "O" -> {0}
    [] type \in {"I", "S", "Z"} -> {0, 1}
    [] type \in {"J", "L", "T"} -> 0 .. 3

\* The block of that type that started there, turned k times.
TurnedBlock(type, c, r, k) ==
  BlockWith(type, TurnedOften(StartSquares(type, c, r), RotationSquare(type, c, r), k),
            RotationSquare(type, c, r), k, c, r)

LEMMA rotateLeftTurned ==
  ASSUME NEW type \in BlockType, NEW c \in Int, NEW r \in Int, NEW k \in Often(type)
  PROVE  LET next == (k + 1) % 4 IN
           rotateLeft(TurnedBlock(type, c, r, k))
             = IF next \in Often(type) THEN TurnedBlock(type, c, r, next) ELSE TurnedBlock(type, c, r, 0)
<1> DEFINE S == StartSquares(type, c, r)
           o == RotationSquare(type, c, r)
           L(squares) == Turned(squares, o, 1)
           next == (k + 1) % 4
           most == maxRotations(type)
<1>1. S \in SUBSET Square /\ o \in Square
  BY NewBlockParts
<1>2. L(S) \in SUBSET Square
  BY <1>1, TurnedSquares
<1>3. Turned(L(S), o, -1) = S /\ L(L(L(L(S)))) = S
  BY <1>1, TurnedBack
<1>4. Turned(S, o, 0) = S
  BY DEF Turned
<1>5. /\ TurnedOften(S, o, 0) = S
      /\ TurnedOften(S, o, 1) = L(S)
      /\ TurnedOften(S, o, 2) = L(L(S))
      /\ TurnedOften(S, o, 3) = L(L(L(S)))
  BY DEF TurnedOften
<1>6. k \in 0 .. 3
  BY DEF Often, BlockType
<1>7. \A squares : rotateLeft(BlockWith(type, squares, o, k, c, r))
                     = IF next > most THEN BlockWith(type, Turned(squares, o, -most), o, 0, c, r)
                                      ELSE BlockWith(type, Turned(squares, o, 1), o, next, c, r)
  <2>1. ASSUME NEW squares
        PROVE  rotateLeft(BlockWith(type, squares, o, k, c, r))
                     = IF next > most THEN BlockWith(type, Turned(squares, o, -most), o, 0, c, r)
                                      ELSE BlockWith(type, Turned(squares, o, 1), o, next, c, r)
    BY <1>6, rotateLeftParts
  <2> QED BY <2>1
<1>8. \A j : TurnedBlock(type, c, r, j) = BlockWith(type, TurnedOften(S, o, j), o, j, c, r)
  BY DEF TurnedBlock
<1>9. CASE type = "O"
  <2>1. k = 0 /\ next = 1 /\ most = 0 /\ Often(type) = {0}
    <3>1. Often(type) = {0} /\ most = 0
      BY <1>9 DEF Often, maxRotations
    <3>2. k = 0
      BY <3>1
    <3>3. next = 1
      BY <3>2
    <3> HIDE DEF next, most
    <3> QED BY <3>1, <3>2, <3>3
  <2> HIDE DEF S, o, L, next, most
  <2>2. rotateLeft(TurnedBlock(type, c, r, k)) = BlockWith(type, S, o, 0, c, r)
    <3>1. -most \in Int /\ -most >= 0 /\ -most <= 0
      BY <2>1
    <3>2. \A z \in Int : z >= 0 /\ z <= 0 => Turned(S, o, z) = S
      BY <1>4
    <3>3. Turned(S, o, -most) = S
      BY <3>1, <3>2
    <3>4. rotateLeft(TurnedBlock(type, c, r, k)) = BlockWith(type, Turned(S, o, -most), o, 0, c, r)
      BY <1>5, <1>7, <1>8, <2>1
    <3> QED BY <3>3, <3>4
  <2> QED BY <1>5, <1>8, <2>1, <2>2 DEF next
<1>10. CASE type \in {"I", "S", "Z"}
  <2>1. k \in {0, 1} /\ most = 1 /\ Often(type) = {0, 1} /\ -most = -1
    BY <1>10 DEF Often, maxRotations
  <2>2. CASE k = 0
    <3>1. next = 1
      BY <2>2
    <3> HIDE DEF S, o, next, most
    <3>2. rotateLeft(TurnedBlock(type, c, r, k)) = BlockWith(type, L(S), o, 1, c, r)
      BY <1>5, <1>7, <1>8, <2>1, <2>2, <3>1
    <3> QED BY <1>5, <1>8, <2>1, <3>1, <3>2 DEF next
  <2>3. CASE k = 1
    <3>1. next = 2
      BY <2>3
    <3> HIDE DEF S, o, L, next, most
    <3>2. rotateLeft(TurnedBlock(type, c, r, k)) = BlockWith(type, S, o, 0, c, r)
      BY <1>3, <1>5, <1>7, <1>8, <2>1, <2>3, <3>1
    <3> QED BY <1>5, <1>8, <2>1, <3>1, <3>2 DEF next
  <2> QED BY <2>1, <2>2, <2>3
<1>11. CASE type \in {"J", "L", "T"}
  <2>1. most = 4 /\ Often(type) = 0 .. 3 /\ next \in 0 .. 3
    BY <1>6, <1>11 DEF Often, maxRotations
  <2>2. TurnedOften(S, o, next) = L(TurnedOften(S, o, k))
    <3>1. \/ k = 0 /\ next = 1
          \/ k = 1 /\ next = 2
          \/ k = 2 /\ next = 3
          \/ k = 3 /\ next = 0
      BY <1>6
    <3> HIDE DEF S, o, L, next
    <3> QED BY <1>3, <1>5, <3>1
  <2> HIDE DEF S, o, next, most
  <2>3. rotateLeft(TurnedBlock(type, c, r, k)) = BlockWith(type, L(TurnedOften(S, o, k)), o, next, c, r)
    <3>1. ~(next > most)
      BY <2>1
    <3> QED BY <1>7, <1>8, <3>1
  <2> QED BY <1>8, <2>1, <2>2, <2>3 DEF next
<1> QED BY <1>9, <1>10, <1>11 DEF BlockType

\* A block is the one that is built anew from what is saved of it.
Rebuilt(b) ==
  /\ b.currentRotation \in Often(b.blockType)
  /\ b = TurnedBlock(b.blockType, b.startColumn, b.lowestStartRow, b.currentRotation)

LEMMA TurnedBlockRebuilt ==
  ASSUME NEW type \in BlockType, NEW c \in Int, NEW r \in Int, NEW k \in Often(type)
  PROVE  Rebuilt(TurnedBlock(type, c, r, k))
<1> DEFINE b == TurnedBlock(type, c, r, k)
<1>1. b.blockType = type /\ b.startColumn = c /\ b.lowestStartRow = r /\ b.currentRotation = k
  BY DEF TurnedBlock, BlockWith
<1> HIDE DEF b
<1>2. Rebuilt(b)
  BY <1>1 DEF Rebuilt, b
<1> QED BY <1>2 DEF b

LEMMA rotateLeftRebuilt ==
  ASSUME NEW b \in Block, Rebuilt(b)
  PROVE  Rebuilt(rotateLeft(b))
<1> DEFINE type == b.blockType
           c == b.startColumn
           r == b.lowestStartRow
           k == b.currentRotation
<1>1. type \in BlockType /\ c \in Int /\ r \in Int /\ k \in Often(type) /\ b = TurnedBlock(type, c, r, k)
  BY DEF Rebuilt, Block
<1> HIDE DEF type, c, r, k
<1>2. 0 \in Often(type)
  BY <1>1 DEF Often, BlockType
<1>3. \E j \in Often(type) : rotateLeft(b) = TurnedBlock(type, c, r, j)
  BY <1>1, <1>2, rotateLeftTurned
<1> QED BY <1>1, <1>3, TurnedBlockRebuilt

LEMMA NewBlockRebuilt ==
  ASSUME NEW type \in BlockType, NEW c \in Int, NEW r \in Int
  PROVE  NewBlock(type, c, r) = TurnedBlock(type, c, r, 0) /\ 0 \in Often(type)
<1>1. \A S, o : TurnedOften(S, o, 0) = S
  BY DEF TurnedOften
<1>2. 0 \in Often(type)
  BY DEF Often, BlockType
<1> QED BY <1>1, <1>2, NewBlockParts DEF TurnedBlock

\* What the constructor builds.
LEMMA BlockOfRebuilt ==
  ASSUME NEW b \in Block, Rebuilt(b)
  PROVE  BlockOf(b.blockType, b.startColumn, b.lowestStartRow, b.currentRotation) = b
<1> DEFINE type == b.blockType
           c == b.startColumn
           r == b.lowestStartRow
           k == b.currentRotation
           new == NewBlock(type, c, r)
           once == rotateLeft(new)
<1>1. type \in BlockType /\ c \in Int /\ r \in Int /\ k \in Often(type) /\ k \in 0 .. 3 /\ b = TurnedBlock(type, c, r, k)
  BY DEF Rebuilt, Block
<1>2. BlockOf(type, c, r, k) = << new, once, rotateLeft(once), rotateLeft(rotateLeft(once)) >>[k + 1]
  BY DEF BlockOf
<1>3. /\ k = 0 => BlockOf(type, c, r, k) = new
      /\ k = 1 => BlockOf(type, c, r, k) = once
      /\ k = 2 => BlockOf(type, c, r, k) = rotateLeft(once)
      /\ k = 3 => BlockOf(type, c, r, k) = rotateLeft(rotateLeft(once))
  <2> HIDE DEF new, once, type, c, r, k
  <2>1. CASE k = 0
    BY <1>2, <2>1
  <2>2. CASE k = 1
    BY <1>2, <2>2
  <2>3. CASE k = 2
    BY <1>2, <2>3
  <2>4. CASE k = 3
    BY <1>2, <2>4
  <2> QED BY <2>1, <2>2, <2>3, <2>4
<1> HIDE DEF type, c, r, k
<1>4. new = TurnedBlock(type, c, r, 0) /\ 0 \in Often(type)
  BY <1>1, NewBlockRebuilt
<1> HIDE DEF new
<1>5. 1 \in Often(type) => once = TurnedBlock(type, c, r, 1)
  BY <1>1, <1>4, rotateLeftTurned
<1> HIDE DEF once
<1>6. 2 \in Often(type) => 1 \in Often(type) /\ rotateLeft(once) = TurnedBlock(type, c, r, 2)
  <2>1. 2 \in Often(type) => 1 \in Often(type)
    BY <1>1 DEF Often, BlockType
  <2> QED BY <1>1, <1>5, <2>1, rotateLeftTurned
<1>7. 3 \in Often(type) => rotateLeft(rotateLeft(once)) = TurnedBlock(type, c, r, 3)
  <2>1. 3 \in Often(type) => 2 \in Often(type)
    BY <1>1 DEF Often, BlockType
  <2> QED BY <1>1, <1>6, <2>1, rotateLeftTurned
<1>8. BlockOf(type, c, r, k) = b
  BY <1>1, <1>3, <1>4, <1>5, <1>6, <1>7
<1> QED BY <1>8 DEF type, c, r, k

LEMMA ShiftedParts ==
  ASSUME NEW b \in Block, NEW x \in Int, NEW y \in Int
  PROVE  Shifted(b, x, y) = BlockWith(b.blockType, ShiftedSquares(b.squares, x, y), ShiftedSq(b.rotationSquare, x, y),
                                      b.currentRotation, b.startColumn + x, b.lowestStartRow + y)
<1> DEFINE To(V, p, c, r) == [b EXCEPT !.squares = V, !.rotationSquare = p, !.startColumn = c, !.lowestStartRow = r]
           U == ShiftedSquares(b.squares, x, y)
           o == ShiftedSq(b.rotationSquare, x, y)
           s == Shifted(b, x, y)
           w == BlockWith(b.blockType, U, o, b.currentRotation, b.startColumn + x, b.lowestStartRow + y)
<1>1. s = To(U, o, b.startColumn + x, b.lowestStartRow + y)
  BY DEF Shifted, Block, ShiftedSquares, ShiftedSq
<1>2. U \in SUBSET Square /\ o \in Square
  BY DEF Block, Square, ShiftedSquares, ShiftedSq, Sq
<1> HIDE DEF U, o
<1>3. /\ s \in Block /\ s.blockType = b.blockType /\ s.squares = U /\ s.rotationSquare = o
      /\ s.currentRotation = b.currentRotation
      /\ s.startColumn = b.startColumn + x /\ s.lowestStartRow = b.lowestStartRow + y
  <2>1. ASSUME NEW V \in SUBSET Square, NEW p \in Square, NEW c \in Int, NEW r \in Int, NEW t,
               t = To(V, p, c, r)
        PROVE  /\ t \in Block
               /\ t.blockType = b.blockType /\ t.squares = V /\ t.rotationSquare = p
               /\ t.currentRotation = b.currentRotation /\ t.startColumn = c /\ t.lowestStartRow = r
    <3>1. t \in Block
      BY <2>1 DEF Block, Square
    <3>2. t.blockType = b.blockType /\ t.currentRotation = b.currentRotation
      BY <2>1 DEF Block
    <3>3. t.squares = V /\ t.rotationSquare = p /\ t.startColumn = c /\ t.lowestStartRow = r
      BY <2>1 DEF Block
    <3> QED BY <3>1, <3>2, <3>3
  <2>2. b.startColumn + x \in Int /\ b.lowestStartRow + y \in Int
    BY DEF Block
  <2> HIDE DEF s, To
  <2> QED BY <1>1, <1>2, <2>1, <2>2
<1> HIDE DEF s
<1>4. s = BlockWith(s.blockType, s.squares, s.rotationSquare, s.currentRotation, s.startColumn, s.lowestStartRow)
  BY <1>3, PartsOfBlock
<1> QED BY <1>3, <1>4 DEF s, U, o

\* A block that is moved starts elsewhere.
LEMMA ShiftedRebuilt ==
  ASSUME NEW b \in Block, Rebuilt(b), NEW x \in Int, NEW y \in Int
  PROVE  Rebuilt(Shifted(b, x, y))
<1> DEFINE type == b.blockType
           c == b.startColumn
           r == b.lowestStartRow
           k == b.currentRotation
           Shift(sq) == ShiftedSq(sq, x, y)
           All(squares) == ShiftedSquares(squares, x, y)
           S == StartSquares(type, c, r)
           o == RotationSquare(type, c, r)
<1>1. type \in BlockType /\ c \in Int /\ r \in Int /\ k \in Often(type) /\ k \in 0 .. 3 /\ b = TurnedBlock(type, c, r, k)
  BY DEF Rebuilt, Block
<1>2. b = BlockWith(type, TurnedOften(S, o, k), o, k, c, r)
  BY <1>1 DEF TurnedBlock
<1> HIDE DEF type, c, r, k
<1>3. S \in SUBSET Square /\ o \in Square
  BY <1>1, NewBlockParts
<1>4. StartSquares(type, c + x, r + y) = All(S) /\ RotationSquare(type, c + x, r + y) = Shift(o)
  <2>1. \A d, e : d \in Int /\ e \in Int => Shift(Sq(d, e)) = Sq(d + x, e + y)
    BY DEF Sq, ShiftedSq
  <2>2. \A d, e \in {-1, 0, 1, 2, 3} : Shift(Sq(c + d, r + e)) = Sq(c + x + d, r + y + e)
    <3>1. ASSUME NEW d \in {-1, 0, 1, 2, 3}, NEW e \in {-1, 0, 1, 2, 3}
          PROVE  Shift(Sq(c + d, r + e)) = Sq(c + x + d, r + y + e)
      <4>1. Shift(Sq(c + d, r + e)) = Sq(c + d + x, r + e + y)
        BY <1>1, <2>1
      <4>2. c + d + x = c + x + d /\ r + e + y = r + y + e
        BY <1>1
      <4> QED BY <4>1, <4>2
    <3> QED BY <3>1
  <2>3. \A a \in Int : a + 0 = a /\ a + (-1) = a - 1
    OBVIOUS
  <2>4. c + x \in Int /\ r + y \in Int
    BY <1>1
  <2> HIDE DEF Shift
  <2>0. \A squares : All(squares) = {Shift(sq) : sq \in squares}
    BY DEF ShiftedSquares, Shift
  <2> HIDE DEF All
  <2>5. RotationSquare(type, c + x, r + y) = Shift(o)
    BY <1>1, <2>2, <2>3, <2>4 DEF RotationSquare, BlockType
  <2>6. StartSquares(type, c + x, r + y) = All(S)
    <3>1. CASE type = "I"
      BY <1>1, <2>0, <2>2, <2>3, <2>4, <3>1 DEF StartSquares
    <3>2. CASE type = "J"
      BY <1>1, <2>0, <2>2, <2>3, <2>4, <3>2 DEF StartSquares
    <3>3. CASE type = "L"
      BY <1>1, <2>0, <2>2, <2>3, <2>4, <3>3 DEF StartSquares
    <3>4. CASE type = "O"
      BY <1>1, <2>0, <2>2, <2>3, <2>4, <3>4 DEF StartSquares
    <3>5. CASE type = "S"
      BY <1>1, <2>0, <2>2, <2>3, <2>4, <3>5 DEF StartSquares
    <3>6. CASE type = "T"
      BY <1>1, <2>0, <2>2, <2>3, <2>4, <3>6 DEF StartSquares
    <3>7. CASE type = "Z"
      BY <1>1, <2>0, <2>2, <2>3, <2>4, <3>7 DEF StartSquares
    <3> QED BY <1>1, <3>1, <3>2, <3>3, <3>4, <3>5, <3>6, <3>7 DEF BlockType
  <2> QED BY <2>5, <2>6
<1>5. ASSUME NEW squares \in SUBSET Square
      PROVE  Turned(All(squares), Shift(o), 1) = All(Turned(squares, o, 1)) /\ Turned(squares, o, 1) \in SUBSET Square
  BY <1>3, TurnedShifted, TurnedSquares
<1> HIDE DEF S, o, All, Shift
<1>6. TurnedOften(All(S), Shift(o), k) = All(TurnedOften(S, o, k))
  <2>1. Turned(S, o, 1) \in SUBSET Square /\ Turned(All(S), Shift(o), 1) = All(Turned(S, o, 1))
    BY <1>3, <1>5
  <2>2. /\ Turned(Turned(S, o, 1), o, 1) \in SUBSET Square
        /\ Turned(All(Turned(S, o, 1)), Shift(o), 1) = All(Turned(Turned(S, o, 1), o, 1))
    BY <1>5, <2>1
  <2>3. Turned(All(Turned(Turned(S, o, 1), o, 1)), Shift(o), 1) = All(Turned(Turned(Turned(S, o, 1), o, 1), o, 1))
    BY <1>5, <2>2
  <2>4. k = 0 \/ k = 1 \/ k = 2 \/ k = 3
    BY <1>1
  <2> QED BY <2>1, <2>2, <2>3, <2>4 DEF TurnedOften
<1>7. Shifted(b, x, y) = BlockWith(type, All(TurnedOften(S, o, k)), Shift(o), k, c + x, r + y)
  <2>1. /\ b.blockType = type /\ b.squares = TurnedOften(S, o, k) /\ b.rotationSquare = o /\ b.currentRotation = k
        /\ b.startColumn = c /\ b.lowestStartRow = r
    BY <1>2 DEF BlockWith
  <2> QED BY <2>1, ShiftedParts DEF All, Shift
<1>8. Shifted(b, x, y) = TurnedBlock(type, c + x, r + y, k)
  BY <1>4, <1>6, <1>7 DEF TurnedBlock, S, o
<1>9. c + x \in Int /\ r + y \in Int
  BY <1>1
<1> QED BY <1>1, <1>8, <1>9, TurnedBlockRebuilt

LEMMA MovedRebuilt ==
  ASSUME NEW b, GoodBoard(b), ~collision(b.gameboard, b.current), Rebuilt(b.current),
         NEW move \in Move \ {"GameOver", "RotateRight"}
  PROVE  Rebuilt(Moved(b, move))
<1>1. GoodBlock(b.current) /\ b.current \in Block
  BY GoodBoardParts DEF GoodBlock
<1>2. \A x, y \in Int : Rebuilt(Shifted(b.current, x, y))
  <2>1. ASSUME NEW x \in Int, NEW y \in Int PROVE Rebuilt(Shifted(b.current, x, y))
    BY <1>1, ShiftedRebuilt
  <2> QED BY <2>1
<1>3. \A n \in Nat : Rebuilt(Down(b.current, n))
  BY <1>2 DEF Down
<1>4. Rebuilt(rotateLeft(b.current))
  BY <1>1, rotateLeftRebuilt
<1>5. Rebuilt(getBlockDown(b.gameboard, b.current))
  BY <1>1, <1>3, getBlockDownFalls
<1>6. \/ Moved(b, move) \in {Shifted(b.current, -1, 0), Shifted(b.current, 1, 0), Down(b.current, 1)}
      \/ Moved(b, move) = getBlockDown(b.gameboard, b.current)
      \/ Moved(b, move) = rotateLeft(b.current)
  BY DEF Moved, Move
<1> QED BY <1>2, <1>3, <1>4, <1>5, <1>6

LEMMA createBlockRebuilt ==
  ASSUME NEW type \in BlockType
  PROVE  Rebuilt(createBlock(type))
<1>1. Columns \div 2 - 1 \in Int /\ Rows - 4 \in Int
  BY SizeAssumption
<1> QED BY <1>1, NewBlockRebuilt, TurnedBlockRebuilt DEF createBlock

LEMMA updateRebuilt ==
  ASSUME NEW b, GoodBoard(b), Rebuilt(b.current), NEW move \in Move \ {"RotateRight"}
  PROVE  Rebuilt(update(b, move).current)
<1>1. b \in Board
  BY GoodBoardParts
<1>2. \A block : [b EXCEPT !.current = block].current = block
  BY <1>1 DEF Board
<1>3. [b EXCEPT !.isGameOver = TRUE].current = b.current
  BY <1>1 DEF Board
<1>4. CASE b.isGameOver \/ collision(b.gameboard, b.current) \/ move = "GameOver"
  BY <1>3, <1>4 DEF update
<1>5. CASE ~(b.isGameOver \/ collision(b.gameboard, b.current) \/ move = "GameOver")
  <2>1. Rebuilt(Moved(b, move))
    BY <1>5, MovedRebuilt
  <2>2. update(b, move) \in {b, [b EXCEPT !.current = Moved(b, move)]}
    BY <1>5 DEF update
  <2> QED BY <1>2, <2>1, <2>2
<1> QED BY <1>4, <1>5

\* What the owner's block would be loaded as is what it is.
OwnerRebuilt == Rebuilt(owner.tetrisBoard.current)

LEMMA NewPlayerRebuilt ==
  ASSUME NEW current \in BlockType, NEW next \in BlockType
  PROVE  Rebuilt(NewPlayer(current, next).tetrisBoard.current)
BY createBlockRebuilt DEF NewPlayer, NewBoard

LEMMA updateMoveRebuilt ==
  ASSUME NEW p, GoodPlayer(p), Rebuilt(p.tetrisBoard.current), NEW move \in Move \ {"RotateRight"}, NEW random \in BlockType
  PROVE  Rebuilt(updateMove(p, move, random).tetrisBoard.current)
<1> DEFINE landed == Landed(p.tetrisBoard, p.externalRows)
<1>1. p \in PlayerState /\ GoodBoard(p.tetrisBoard) /\ p.tetrisBoard \in Board
  BY DEF GoodPlayer, PlayerState
<1>2. CASE Lands(p.tetrisBoard, move)
  <2>1. landed.board \in Board
    BY <1>1, <1>2, LandedParts DEF PlayerState
  <2>2. landed.board.current = createBlock(p.tetrisBoard.next) /\ p.tetrisBoard.next \in BlockType
    BY <1>1 DEF Landed, Board
  <2>3. updateMove(p, move, random).tetrisBoard = [landed.board EXCEPT !.next = random]
    BY <1>2 DEF updateMove
  <2> HIDE DEF landed
  <2>4. [landed.board EXCEPT !.next = random].current = landed.board.current
    BY <2>1 DEF Board
  <2> QED BY <2>2, <2>3, <2>4, createBlockRebuilt
<1>3. CASE ~Lands(p.tetrisBoard, move)
  <2>1. Rebuilt(update(p.tetrisBoard, move).current)
    BY <1>1, updateRebuilt
  <2>2. updateMove(p, move, random) = [p EXCEPT !.tetrisBoard = update(p.tetrisBoard, move)]
    BY <1>1, <1>3 DEF updateMove, PlayerState
  <2>3. updateMove(p, move, random).tetrisBoard = update(p.tetrisBoard, move)
    BY <1>1, <2>2 DEF PlayerState
  <2> QED BY <2>1, <2>3
<1> QED BY <1>2, <1>3

LEMMA InitIsRebuilt == Init => OwnerRebuilt
<1> SUFFICES ASSUME Init PROVE OwnerRebuilt
  OBVIOUS
<1>1. PICK current \in left.types, next \in left.types : owner = NewPlayer(current, next)
  BY DEF Init
<1>2. left.types \in SUBSET BlockType
  BY PlayerAssumption DEF Init
<1> QED BY <1>1, <1>2, NewPlayerRebuilt DEF OwnerRebuilt

LEMMA NextIsRebuilt ==
  ASSUME "RotateRight" \notin Moves
  PROVE  IInv /\ OwnerRebuilt /\ [Next]_vars => OwnerRebuilt'
<1> SUFFICES ASSUME IInv, OwnerRebuilt, [Next]_vars PROVE OwnerRebuilt'
  OBVIOUS
<1>1. GoodPlayer(owner) /\ left.types \in SUBSET BlockType /\ owner \in PlayerState
  BY DEF IInv, TypeOK
<1>2. ASSUME NEW move \in Moves, OwnerMoves(move) PROVE OwnerRebuilt'
  <2>1. PICK random \in left.types : owner' = updateMove(owner, move, random)
    BY <1>2 DEF OwnerMoves
  <2>2. random \in BlockType /\ move \in Move \ {"RotateRight"}
    BY <1>1, PlayerAssumption
  <2> QED BY <1>1, <2>1, <2>2, updateMoveRebuilt DEF OwnerRebuilt
<1>3. CASE Attack
  <2>1. owner'.tetrisBoard = owner.tetrisBoard
    BY <1>1, <1>3, AttackKeepsBoard
  <2> QED BY <2>1 DEF OwnerRebuilt
<1>4. CASE Restart
  <2>1. PICK current \in left.types, next \in left.types : owner' = NewPlayer(current, next)
    BY <1>4 DEF Restart, updateRestart
  <2> QED BY <1>1, <2>1, NewPlayerRebuilt DEF OwnerRebuilt
<1>5. CASE CopyReceives \/ UNCHANGED vars
  BY <1>5 DEF CopyReceives, vars, OwnerRebuilt
<1> QED BY <1>2, <1>3, <1>4, <1>5 DEF Next

\* Of rows of which none floats, and empty ones on top, what is popped is as many as are empty above
\* the board, and so all of them.
LEMMA PoppedRows ==
  ASSUME NEW rows, GoodRows(rows), NoFloat(rows)
  PROVE  LET G == rows \o [r \in 1 .. Rows |-> EmptyRow]
             popped == removeEmptyRowsOutsideBoard(G)
         IN  /\ popped \in Seq(SUBSET Column) /\ Len(popped) >= Rows
             /\ \A k \in 1 .. Len(popped) : popped[k] = G[k]
             /\ Len(popped) <= Len(G)
             /\ \A k \in 1 .. Len(G) : k > Len(popped) => G[k] = EmptyRow
<1> DEFINE E == [r \in 1 .. Rows |-> EmptyRow]
           G == rows \o E
           outside == {k \in DOMAIN G : k > Rows /\ G[k] = EmptyRow}
           popped == removeEmptyRowsOutsideBoard(G)
<1>1. E \in Seq(SUBSET Column) /\ Len(E) = Rows /\ Rows \in Nat
  BY NewRowsGood, SizeAssumption DEF GoodRows
<1>2. rows \in Seq(SUBSET Column) /\ Len(rows) \in Nat /\ Len(rows) >= Rows
  BY DEF GoodRows
<1> HIDE DEF E
<1>3. /\ G \in Seq(SUBSET Column) /\ Len(G) = Len(rows) + Rows /\ DOMAIN G = 1 .. Len(G)
      /\ \A k \in 1 .. Len(rows) : G[k] = rows[k]
      /\ \A k \in 1 .. Rows : G[Len(rows) + k] = E[k]
  <2>1. G \in Seq(SUBSET Column) /\ Len(G) = Len(rows) + Rows
    BY <1>1, <1>2, ConcatProperties
  <2>2. \A k \in 1 .. Len(G) : G[k] = IF k <= Len(rows) THEN rows[k] ELSE E[k - Len(rows)]
    BY <1>1, <1>2, ConcatProperties
  <2> HIDE DEF G
  <2>3. DOMAIN G = 1 .. Len(G)
    BY <2>1, LenProperties
  <2>4. ASSUME NEW k \in 1 .. Len(rows) PROVE G[k] = rows[k]
    BY <1>1, <1>2, <2>1, <2>2
  <2>5. ASSUME NEW k \in 1 .. Rows PROVE G[Len(rows) + k] = E[k]
    <3>1. Len(rows) + k \in 1 .. Len(G) /\ ~(Len(rows) + k <= Len(rows)) /\ (Len(rows) + k) - Len(rows) = k
      BY <1>1, <1>2, <2>1
    <3> QED BY <2>2, <3>1
  <2> QED BY <2>1, <2>3, <2>4, <2>5
<1>4. \A k \in 1 .. Len(G) : k > Len(rows) => G[k] = EmptyRow
  <2>1. ASSUME NEW k \in 1 .. Len(G), k > Len(rows) PROVE G[k] = EmptyRow
    <3>1. k - Len(rows) \in 1 .. Rows /\ Len(rows) + (k - Len(rows)) = k
      BY <1>1, <1>2, <1>3, <2>1
    <3>2. E[k - Len(rows)] = EmptyRow
      BY <3>1 DEF E
    <3> HIDE DEF G
    <3> QED BY <1>3, <3>1, <3>2
  <2> QED BY <2>1
<1> HIDE DEF G
<1>5. \A low, high \in 1 .. Len(G) : low <= high /\ G[low] = EmptyRow => G[high] = EmptyRow
  <2>1. ASSUME NEW low \in 1 .. Len(G), NEW high \in 1 .. Len(G), low <= high, G[low] = EmptyRow
        PROVE  G[high] = EmptyRow
    <3>1. CASE high > Len(rows)
      BY <1>4, <3>1
    <3>2. CASE high <= Len(rows)
      <4>1. low \in 1 .. Len(rows) /\ high \in 1 .. Len(rows)
        BY <1>2, <2>1, <3>2
      <4> QED BY <1>3, <2>1, <4>1 DEF NoFloat
    <3> QED BY <1>2, <3>1, <3>2
  <2> QED BY <2>1
<1> DEFINE empty == {k \in Nat : k >= Rows /\ k <= Len(G) /\ \A j \in 1 .. Len(G) : j > k => G[j] = EmptyRow}
<1>6. Len(rows) \in empty
  BY <1>1, <1>2, <1>3, <1>4
<1>7. PICK m \in empty : \A k \in empty : m <= k
  <2>1. empty \in SUBSET Nat /\ empty # {}
    BY <1>6
  <2> HIDE DEF empty
  <2> QED BY <2>1, LeastExists
<1>8. m \in Nat /\ m >= Rows /\ m <= Len(G) /\ \A j \in 1 .. Len(G) : j > m => G[j] = EmptyRow
  BY <1>7
<1> HIDE DEF empty
<1>9. outside = m + 1 .. Len(G)
  <2>1. ASSUME NEW k \in outside PROVE k \in m + 1 .. Len(G)
    <3>1. k \in 1 .. Len(G) /\ k > Rows /\ G[k] = EmptyRow
      BY <1>3, <2>1
    <3>2. CASE k <= m
      <4>1. k - 1 \in empty
        <5>1. \A j \in 1 .. Len(G) : j > k - 1 => G[j] = EmptyRow
          <6>1. ASSUME NEW j \in 1 .. Len(G), j > k - 1 PROVE G[j] = EmptyRow
            <7>1. k <= j
              BY <3>1, <6>1
            <7> QED BY <1>5, <3>1, <7>1
          <6> QED BY <6>1
        <5>2. k - 1 \in Nat /\ k - 1 >= Rows /\ k - 1 <= Len(G)
          BY <1>1, <3>1
        <5> QED BY <5>1, <5>2 DEF empty
      <4>2. m <= k - 1
        BY <1>7, <4>1
      <4> QED BY <1>8, <3>1, <3>2, <4>2
    <3>3. CASE ~(k <= m)
      BY <1>8, <3>1, <3>3
    <3> QED BY <3>2, <3>3
  <2>2. ASSUME NEW k \in m + 1 .. Len(G) PROVE k \in outside
    BY <1>1, <1>3, <1>8, <2>2
  <2> HIDE DEF outside
  <2> QED BY <2>1, <2>2
<1>10. Len(G) - Cardinality(outside) = m
  <2>1. Len(G) \in Nat /\ m + 1 \in Int
    BY <1>1, <1>2, <1>3, <1>8
  <2>2. Cardinality(m + 1 .. Len(G)) = IF m + 1 > Len(G) THEN 0 ELSE Len(G) - (m + 1) + 1
    <3>1. \A a, b \in Int : Cardinality(a .. b) = IF a > b THEN 0 ELSE b - a + 1
      BY FS_Interval
    <3> QED BY <2>1, <3>1
  <2> HIDE DEF outside
  <2> QED BY <1>8, <1>9, <2>1, <2>2
<1>11. popped = SubSeq(G, 1, m)
  BY <1>10 DEF removeEmptyRowsOutsideBoard
<1>12. popped \in Seq(SUBSET Column) /\ Len(popped) = m /\ \A k \in 1 .. m : popped[k] = G[k]
  <2>1. \A i \in 1 .. m : G[i] \in SUBSET Column
    <3>1. \A i \in 1 .. Len(G) : G[i] \in SUBSET Column
      BY <1>3, ElementOfSeq
    <3> QED BY <1>3, <1>8, <3>1
  <2>2. /\ SubSeq(G, 1, m) \in Seq(SUBSET Column) /\ Len(SubSeq(G, 1, m)) = IF 1 <= m THEN m - 1 + 1 ELSE 0
        /\ \A i \in 1 .. m - 1 + 1 : SubSeq(G, 1, m)[i] = G[1 + i - 1]
    <3>1. 1 \in Int /\ m \in Int
      BY <1>8
    <3> QED BY <2>1, <3>1, SubSeqProperties
  <2> HIDE DEF popped
  <2>3. ASSUME NEW k \in 1 .. m PROVE popped[k] = G[k]
    <3>1. k \in 1 .. m - 1 + 1 /\ 1 + k - 1 = k
      BY <1>8
    <3> QED BY <1>11, <2>2, <3>1
  <2>4. (IF 1 <= m THEN m - 1 + 1 ELSE 0) = m
    BY <1>8
  <2> QED BY <1>11, <2>2, <2>3, <2>4
<1> HIDE DEF popped
<1>13. /\ popped \in Seq(SUBSET Column) /\ Len(popped) >= Rows
       /\ \A k \in 1 .. Len(popped) : popped[k] = G[k]
       /\ Len(popped) <= Len(G)
       /\ \A k \in 1 .. Len(G) : k > Len(popped) => G[k] = EmptyRow
  BY <1>8, <1>12
<1> QED BY <1>13 DEF popped, G, E

LEMMA GoodBoardLoaded ==
  ASSUME NEW b, GoodBoard(b), NoFloat(b.gameboard), Rebuilt(b.current), ~b.isGameOver
  PROVE  LET loaded == Loaded(b) IN
           /\ Filled(loaded.gameboard) = Filled(b.gameboard)
           /\ Len(loaded.gameboard) >= Rows
           /\ loaded = [b EXCEPT !.gameboard = loaded.gameboard, !.isGameOver = collision(b.gameboard, b.current)]
<1> DEFINE rows == b.gameboard
           G == rows \o [r \in 1 .. Rows |-> EmptyRow]
           popped == removeEmptyRowsOutsideBoard(G)
           block == b.current
<1>1. b \in Board /\ GoodRows(rows) /\ block \in Block
  BY GoodBoardParts DEF Board
<1>2. BlockOf(block.blockType, block.startColumn, block.lowestStartRow, block.currentRotation) = block
  BY <1>1, BlockOfRebuilt
<1>3. Loaded(b) = [gameboard |-> popped, current |-> block, next |-> b.next, isGameOver |-> collision(popped, block)]
  BY <1>2 DEF Loaded
<1> HIDE DEF rows, block
<1>4. /\ popped \in Seq(SUBSET Column) /\ Len(popped) >= Rows
      /\ \A k \in 1 .. Len(popped) : popped[k] = G[k]
      /\ Len(popped) <= Len(G)
      /\ \A k \in 1 .. Len(G) : k > Len(popped) => G[k] = EmptyRow
  <2>1. NoFloat(rows)
    BY DEF rows
  <2> QED BY <1>1, <2>1, PoppedRows
<1> DEFINE E == [r \in 1 .. Rows |-> EmptyRow]
<1>5. rows \in Seq(SUBSET Column) /\ E \in Seq(SUBSET Column) /\ Len(E) = Rows /\ Rows \in Nat
  BY <1>1, NewRowsGood, SizeAssumption DEF GoodRows
<1> HIDE DEF popped
<1>0. \A j \in 1 .. Rows : E[j] = EmptyRow
  OBVIOUS
<1>6. /\ Len(G) = Len(rows) + Len(E) /\ Len(rows) \in Nat
      /\ \A k \in 1 .. Len(rows) + Len(E) : G[k] = IF k <= Len(rows) THEN rows[k] ELSE E[k - Len(rows)]
  BY <1>5, ConcatProperties
<1> HIDE DEF G, E
<1>7. Len(popped) \in Nat /\ DOMAIN popped = 1 .. Len(popped) /\ DOMAIN rows = 1 .. Len(rows)
  BY <1>4, <1>5, LenProperties
<1>8. \A k \in Nat : \A column :
        (k \in 1 .. Len(popped) /\ column \in popped[k]) <=> (k \in 1 .. Len(rows) /\ column \in rows[k])
  <2>1. ASSUME NEW k \in Nat, NEW column, k \in 1 .. Len(popped), column \in popped[k]
        PROVE  k \in 1 .. Len(rows) /\ column \in rows[k]
    <3>1. k \in 1 .. Len(rows) + Len(E) /\ column \in G[k]
      BY <1>4, <1>5, <1>6, <1>7, <2>1
    <3>2. k <= Len(rows)
      <4>1. SUFFICES ASSUME ~(k <= Len(rows)) PROVE FALSE
        OBVIOUS
      <4>2. G[k] = E[k - Len(rows)] /\ k - Len(rows) \in 1 .. Rows
        BY <1>5, <1>6, <3>1, <4>1
      <4>3. E[k - Len(rows)] = EmptyRow
        BY <1>0, <4>2
      <4> QED BY <3>1, <4>2, <4>3 DEF EmptyRow
    <3> QED BY <1>6, <2>1, <3>1, <3>2
  <2>2. ASSUME NEW k \in Nat, NEW column, k \in 1 .. Len(rows), column \in rows[k]
        PROVE  k \in 1 .. Len(popped) /\ column \in popped[k]
    <3>1. k \in 1 .. Len(G) /\ G[k] = rows[k]
      BY <1>5, <1>6, <2>2
    <3>2. k <= Len(popped)
      BY <1>4, <1>7, <2>2, <3>1 DEF EmptyRow
    <3> QED BY <1>4, <1>7, <2>2, <3>1, <3>2
  <2> QED BY <2>1, <2>2
<1>9. Filled(popped) = Filled(rows)
  <2>1. \A R, x : x \in Filled(R) <=> \E k \in DOMAIN R : x \in {k} \X R[k]
    BY DEF Filled
  <2>2. ASSUME NEW x PROVE x \in Filled(popped) <=> x \in Filled(rows)
    <3>1. \A k, S : x \in {k} \X S <=> x = << x[1], x[2] >> /\ x[1] = k /\ x[2] \in S
      OBVIOUS
    <3>2. \A k \in DOMAIN popped : k \in Nat
      BY <1>7
    <3>3. \A k \in DOMAIN rows : k \in Nat
      BY <1>6, <1>7
    <3> QED BY <1>7, <1>8, <2>1, <3>1, <3>2, <3>3
  <2> QED BY <2>2
<1>10. collision(popped, block) = collision(rows, block)
  <2>1. \A sq \in block.squares : sq.row \in Int /\ sq.column \in Int
    BY <1>1 DEF Block
  <2>2. ASSUME NEW sq \in block.squares PROVE IsFree(popped, sq) <=> IsFree(rows, sq)
    <3>1. CASE sq.row >= 0
      <4>1. sq.row + 1 \in Nat
        BY <2>1, <3>1
      <4>2. (sq.row < Len(popped) /\ sq.column \in popped[sq.row + 1]) <=> (sq.row < Len(rows) /\ sq.column \in rows[sq.row + 1])
        BY <1>6, <1>7, <1>8, <2>1, <3>1, <4>1
      <4> QED BY <4>2 DEF IsFree
    <3>2. CASE ~(sq.row >= 0)
      BY <3>2 DEF IsFree
    <3> QED BY <3>1, <3>2
  <2> QED BY <2>2 DEF collision
<1>11. Loaded(b) = [b EXCEPT !.gameboard = popped, !.isGameOver = collision(rows, block)]
  <2>1. [b EXCEPT !.gameboard = popped, !.isGameOver = collision(rows, block)]
          = [gameboard |-> popped, current |-> block, next |-> b.next, isGameOver |-> collision(rows, block)]
    <3> DEFINE With(g, v) == [b EXCEPT !.gameboard = g, !.isGameOver = v]
    <3>1. ASSUME NEW g \in Seq(SUBSET Column), NEW v \in BOOLEAN
          PROVE  With(g, v) = [gameboard |-> g, current |-> b.current, next |-> b.next, isGameOver |-> v]
      <4>1. \A x \in Board : x = [gameboard |-> x.gameboard, current |-> x.current, next |-> x.next,
                                  isGameOver |-> x.isGameOver]
        BY DEF Board
      <4>2. With(g, v) \in Board
        BY <1>1 DEF Board
      <4>3. /\ With(g, v).gameboard = g /\ With(g, v).isGameOver = v
            /\ With(g, v).current = b.current /\ With(g, v).next = b.next
        BY <1>1 DEF Board
      <4> HIDE DEF With
      <4> QED BY <4>1, <4>2, <4>3
    <3>2. collision(rows, block) \in BOOLEAN
      BY DEF collision
    <3> QED BY <1>4, <3>1, <3>2 DEF block
  <2> QED BY <1>3, <1>10, <2>1
<1>12. Loaded(b).gameboard = popped
  BY <1>3
<1> QED BY <1>4, <1>9, <1>11, <1>12 DEF rows, block

\* On a board of any size, whatever was played without turns to the right, which no controller makes: a
\* game that is saved goes on with the squares and the block that it was saved with.
THEOREM SavedBoardIsAlwaysLoaded ==
  ASSUME "RotateRight" \notin Moves
  PROVE  Spec => []SavedBoardIsLoaded
<1>1. IInv /\ OwnerFirm /\ OwnerRebuilt => SavedBoardIsLoaded
  <2> SUFFICES ASSUME IInv, OwnerFirm, OwnerRebuilt PROVE SavedBoardIsLoaded
    OBVIOUS
  <2>1. GoodBoard(owner.tetrisBoard) /\ NoFloat(owner.tetrisBoard.gameboard) /\ Rebuilt(owner.tetrisBoard.current)
    BY DEF IInv, GoodPlayer, OwnerFirm, Firm, OwnerRebuilt
  <2> QED BY <2>1, GoodBoardLoaded DEF SavedBoardIsLoaded
<1> QED BY <1>1, InitIsRebuilt, NextIsRebuilt, AlwaysGood, AlwaysFirm, PTL DEF Spec
=============================================================================
