------------------------------- MODULE Player -------------------------------
(***************************************************************************)
(* A player (class Player): its board, and the copy of it another client     *)
(* keeps.  What happens to the owner's board is sent as it happens (the     *)
(* events of playerBoardUpdate that Network listens to) and applied to the  *)
(* copy when it is received; GameSession shows that updates arrive once and *)
(* in order, so here they are one FIFO queue.                               *)
(*                                                                         *)
(* Every board draws a random next block when a block lands, the copy too;  *)
(* the owner's draw is sent and replaces the copy's.                        *)
(***************************************************************************)
EXTENDS TetrisBoard

CONSTANTS
  Moves,        \* the moves that are made
  ExternalRow,  \* the rows that opponents send: they have two holes, and boards more columns
  Plans,        \* which types of blocks are drawn, how many land, how often rows come and the
                \* game restarts: one of these plans
  MaxUpdates    \* how many updates are under way

ASSUME PlayerAssumption ==
  /\ Moves \subseteq Move
  /\ ExternalRow \subseteq (SUBSET Column) \ {EmptyRow, Column}
  /\ Plans \subseteq [types : SUBSET BlockType, landings : Nat, attacks : Nat, restarts : Nat]

VARIABLES
  owner, copy,  \* the player, and the remote player of the other client
  updates,      \* from owner to copy
  left          \* what is left of the plan

vars == <<owner, copy, updates, left>>

Block ==
  [blockType : BlockType, squares : SUBSET [column : Int, row : Int], rotationSquare : [column : Int, row : Int],
   currentRotation : 0 .. 3, startColumn : Int, lowestStartRow : Int]

Board == [gameboard : Seq(SUBSET Column), current : Block, next : BlockType, isGameOver : BOOLEAN]

PlayerState == [tetrisBoard : Board, clearedRows : Nat, externalRows : Seq(ExternalRow)]

Update ==
       [type : {"board_move"}, move : Moves]
  \cup [type : {"next_block"}, next : BlockType]
  \cup [type : {"board_external_squares"}, rows : Seq(ExternalRow)]
  \cup [type : {"game_restart"}, current : BlockType, next : BlockType]

TypeOK ==
  /\ owner \in PlayerState
  /\ copy \in PlayerState
  /\ updates \in Seq(Update)
  /\ left \in [types : SUBSET BlockType, landings : Nat, attacks : Nat, restarts : Nat]

NewPlayer(current, next) ==
  [tetrisBoard |-> NewBoard(current, next), clearedRows |-> 0, externalRows |-> << >>]

Init ==
  /\ left \in Plans
  /\ \E current, next \in left.types : owner = NewPlayer(current, next)
  /\ copy = owner
  /\ updates = << >>

-----------------------------------------------------------------------------
(* Player *)

\* updateMove, with what handleBoardEvent does when a block lands: the rows that wait are added, and
\* a random block is next.
updateMove(p, move, random) ==
  IF Lands(p.tetrisBoard, move)
    THEN LET landed == Landed(p.tetrisBoard, p.externalRows)
         IN  [tetrisBoard |-> [landed.board EXCEPT !.next = random],
              clearedRows |-> p.clearedRows + landed.rowsFilled,
              externalRows |-> << >>]
    ELSE [p EXCEPT !.tetrisBoard = update(@, move)]

\* Mutant of updateNextBlock: the draw of the copy stays.
keepNextBlock(p, next) == p

updateNextBlock(p, next) == [p EXCEPT !.tetrisBoard.next = next]

addExternalRows(p, rows) == [p EXCEPT !.externalRows = @ \o rows]

updateRestart(p, current, next) == NewPlayer(current, next)

-----------------------------------------------------------------------------
(* Steps *)

Spend(what) == left[what] > 0 /\ left' = [left EXCEPT ![what] = @ - 1]

\* A move of a human or computer player.  The next block is sent after the move it follows.
OwnerMoves(move) ==
  \E random \in left.types :
    /\ Len(updates) + 2 <= MaxUpdates
    /\ \/ /\ Lands(owner.tetrisBoard, move)
          /\ Spend("landings")
          /\ updates' = updates \o << [type |-> "board_move", move |-> move],
                                      [type |-> "next_block", next |-> random] >>
       \/ /\ ~Lands(owner.tetrisBoard, move)
          /\ random = owner.tetrisBoard.next  \* nothing is drawn
          /\ updates' = Append(updates, [type |-> "board_move", move |-> move])
          /\ UNCHANGED left
    /\ owner' = updateMove(owner, move, random)
    /\ UNCHANGED copy

\* An opponent removes four rows: the rules (SurvivalGameRules) add two rows to a player that is
\* still in the game.  They wait until its block lands.
Attack ==
  \E first, second \in ExternalRow :
    /\ Spend("attacks")
    /\ Len(updates) + 2 <= MaxUpdates
    /\ ~owner.tetrisBoard.isGameOver
    /\ owner' = addExternalRows(addExternalRows(owner, << first >>), << second >>)
    /\ updates' = updates \o << [type |-> "board_external_squares", rows |-> << first >>],
                                [type |-> "board_external_squares", rows |-> << second >>] >>
    /\ UNCHANGED copy

\* handleRequestGameRestart at the owner.
Restart ==
  \E current, next \in left.types :
    /\ Spend("restarts")
    /\ Len(updates) + 1 <= MaxUpdates
    /\ owner' = updateRestart(owner, current, next)
    /\ updates' = Append(updates, [type |-> "game_restart", current |-> current, next |-> next])
    /\ UNCHANGED copy

\* handleBoardMove, handleBoardNextBlock, handleBoardExternalSquares and handleGameRestart.
CopyReceives ==
  /\ updates # << >>
  /\ updates' = Tail(updates)
  /\ LET u == Head(updates) IN
       \/ /\ u.type = "board_move"
          /\ \E random \in left.types :
               /\ Lands(copy.tetrisBoard, u.move) \/ random = copy.tetrisBoard.next
               /\ copy' = updateMove(copy, u.move, random)
       \/ u.type = "next_block" /\ copy' = updateNextBlock(copy, u.next)
       \/ u.type = "board_external_squares" /\ copy' = addExternalRows(copy, u.rows)
       \/ u.type = "game_restart" /\ copy' = updateRestart(copy, u.current, u.next)
  /\ UNCHANGED <<owner, left>>

Next ==
  \/ \E move \in Moves : OwnerMoves(move)
  \/ Attack
  \/ Restart
  \/ CopyReceives

Spec == Init /\ [][Next]_vars

-----------------------------------------------------------------------------
(* Safety *)

\* addBlockToBoard writes the squares of the block that lands into the vector without a check: a
\* block that does not collide is inside of it, however it was moved and turned.
LandsInside ==
  \A b \in {owner.tetrisBoard, copy.tetrisBoard} :
    ~collision(b.gameboard, b.current) =>
      \A sq \in b.current.squares : sq.column \in Column /\ isRowInsideBoard(b.gameboard, sq.row)

\* There is no empty row below a filled square, whichever rows are removed or pushed up from below.
\* (A board that is loaded relies on it.)
NoRowFloats ==
  LET rows == owner.tetrisBoard.gameboard IN
    \A k \in DOMAIN rows : rows[k] = EmptyRow => \A above \in k .. Len(rows) : rows[above] = EmptyRow

Filled(rows) == UNION {{k} \X rows[k] : k \in DOMAIN rows}

SquaresOf(rows) == Cardinality(Filled(rows))

\* A block that lands overlaps nothing and nothing is lost: four squares and those of the waiting
\* rows come, and what goes are the rows that are counted as cleared.
NothingIsOverwritten ==
  [][left'.restarts = left.restarts =>
       SquaresOf(owner'.tetrisBoard.gameboard)
         = SquaresOf(owner.tetrisBoard.gameboard)
           + (IF left'.landings # left.landings THEN 4 + SquaresOf(owner.externalRows) ELSE 0)
           - Columns * (owner'.clearedRows - owner.clearedRows)]_vars

FilledRows(gameboard) == {row \in 0 .. Len(gameboard) - 1 : isRowFilled(gameboard, row)}

\* Every row that a block fills is removed, if no rows were waiting: those push the block up before
\* the rows are looked at, so that filled ones may be missed and stay.
FilledRowsGo ==
  [][/\ FilledRows(owner.tetrisBoard.gameboard) = {}
     /\ owner.externalRows = << >>
     => FilledRows(owner'.tetrisBoard.gameboard) = {}]_vars

\* A game that is saved at any moment goes on, when it is loaded, with the same squares and block:
\* the block is built anew from its type, place and number of rotations, the board without the
\* empty rows on top of it.  Only a block that cannot move any more ends the game at once.
SavedBoardIsLoaded ==
  LET b      == owner.tetrisBoard
      loaded == Loaded(b)
  IN  ~b.isGameOver =>
        /\ Filled(loaded.gameboard) = Filled(b.gameboard)
        /\ Len(loaded.gameboard) >= Rows
        /\ loaded = [b EXCEPT !.gameboard = loaded.gameboard,
                              !.isGameOver = collision(b.gameboard, b.current)]

\* When every update has arrived, the copy is the owner's board: the same rows, moving block, next
\* block, waiting rows and number of cleared rows.
CopyEqualsOwner == updates = << >> => copy = owner
=============================================================================
