------------------------------- MODULE Computer -------------------------------
(***************************************************************************)
(* A computer player (classes Computer and AiMoveController): it asks its   *)
(* Ai where the block should go when a block starts, and holds the keys of  *)
(* a controller like a player does until the events of the board say that   *)
(* the block is there.                                                      *)
(***************************************************************************)
EXTENDS MoveController, Ai, SequencesExt

CONSTANT
  Plans  \* the blocks that are drawn, how many may land, and how often the game restarts

VARIABLES
  board,
  ctl,       \* its controller
  computer,  \* state_, block_ and input_
  left,      \* what is left of the plan
  aim,       \* what the Ai wants of this block, and what may keep it from getting there
  outcome    \* what became of the block before

vars == <<board, ctl, computer, left, aim, outcome>>

Hindrance == {"not asked", "several turns", "turn held", "turn refused", "move refused", "too few steps"}

-----------------------------------------------------------------------------
(* Computer *)

updateKey(nowHeld, prev) ==
  [held |-> nowHeld, pressed |-> nowHeld /\ ~prev.held, released |-> ~nowHeld /\ prev.held]

calculateInput(state, current) ==
  [rotate |-> updateKey(state.rotationLeft > 0, current.rotate),
   left |-> updateKey(state.left > 0, current.left),
   right |-> updateKey(state.left < 0, current.right),
   down |-> updateKey(state.left = 0 /\ state.rotationLeft = 0, current.down),
   downGround |-> updateKey(FALSE, current.downGround)]

isHorizontalMoveDone(c, b) ==
  c.state.left = c.block.rotationSquare.column - b.current.rotationSquare.column

isRotationDone(c, b) == c.state.rotationLeft = b.current.currentRotation - c.block.currentRotation

\* Mutant of onGameboardEvent: a place that is reached is not noticed.
onGameboardEventOfBlock(c, told) ==
  IF told.event = "CurrentBlockUpdated"
    THEN LET state == calculateBestState(told.board) IN
           [state |-> state, block |-> told.board.current, input |-> calculateInput(state, c.input)]
    ELSE c

\* Computer::onGameboardEvent
onGameboardEvent(c, told) ==
  LET asked == IF told.event = "CurrentBlockUpdated"
                 THEN [c EXCEPT !.state = calculateBestState(told.board), !.block = told.board.current]
                 ELSE c
      state == [left |-> IF isHorizontalMoveDone(asked, told.board) THEN 0 ELSE asked.state.left,
                rotationLeft |-> IF isRotationDone(asked, told.board) THEN 0 ELSE asked.state.rotationLeft]
  IN  [asked EXCEPT !.state = state, !.input = calculateInput(state, c.input)]

\* A computer that has not been told of a block wants nothing, and block_ is of no account.
NewComputer(block) ==
  [state |-> [left |-> 0, rotationLeft |-> 0], block |-> block, input |-> [k \in Key |-> KeyUp]]

-----------------------------------------------------------------------------
(* A game of the computer *)

NotAsked == [left |-> 0, rotationLeft |-> 0, steps |-> 0, hindrances |-> {"not asked"}]

NoOutcome == [left |-> 0, rotationLeft |-> 0, wanted |-> [left |-> 0, rotationLeft |-> 0], hindrances |-> {}]

TypeOK ==
  /\ ctl \in Controller
  /\ computer.state \in State
  /\ computer.input \in [Key -> KeyState]
  /\ outcome \in [left : Int, rotationLeft : Int, wanted : State, hindrances : SUBSET Hindrance]

Init ==
  /\ left \in Plans
  /\ \E current, next \in left.types : board = NewBoard(current, next)
  /\ ctl = NewController
  /\ computer = NewComputer(board.current)
  /\ aim = NotAsked
  /\ outcome = NoOutcome

\* What the Ai wants of the block that starts.
Aimed(c) ==
  [left |-> c.state.left, rotationLeft |-> c.state.rotationLeft, steps |-> 0,
   hindrances |-> (IF c.state.rotationLeft > 1 THEN {"several turns"} ELSE {})
                  \cup (IF c.state.rotationLeft > 0 /\ computer.input.rotate.held THEN {"turn held"} ELSE {})]

Places(wanted) == IF wanted < 0 THEN -wanted ELSE wanted

\* The steps in which a key that is held makes the moves that are wanted, the delay included.
Needed(wanted) == IF wanted = 0 THEN 1 ELSE DAS + ARR * Places(wanted)

MovedTo(b, c) ==
  [left |-> c.block.rotationSquare.column - b.current.rotationSquare.column,
   rotationLeft |-> b.current.currentRotation - c.block.currentRotation]

\* A turn that was refused is not tried again, and a move that was refused has cost its time.
Refusals(moved) ==
  (IF "RotateLeft" \in Range(moved.moves) /\ moved.board.current.currentRotation = board.current.currentRotation
     THEN {"turn refused"} ELSE {})
  \cup
  (IF {"Left", "Right"} \cap Range(moved.moves) # {}
      /\ moved.board.current.rotationSquare.column = board.current.rotationSquare.column
     THEN {"move refused"} ELSE {})

\* While a block is down the keys are not looked at.
Flown(moved) ==
  [aim EXCEPT !.hindrances = @ \cup Refusals(moved),
              !.steps = IF ctl.areActive THEN @ ELSE Min({@ + 1, Needed(aim.left)})]

\* The board when the block lands, of which it is not yet part.
Fallen(moved) == SelectSeq(moved.events, LAMBDA told : told.event = "BlockCollision")[1].board

\* What became of the block that lands.
Outcome(b) ==
  MovedTo(b, computer) @@
  [wanted |-> [left |-> aim.left, rotationLeft |-> aim.rotationLeft],
   hindrances |-> aim.hindrances
                  \cup (IF aim.steps < Needed(aim.left) THEN {"too few steps"} ELSE {})]

\* AiMoveController::updateMove: the keys are those of before the step, the computer hears of
\* what they did.
Update ==
  \E random \in left.types : \E moved \in {updated(ctl, board, computer.input, random)} :
    LET lands == "BlockCollision" \in {told.event : told \in Range(moved.events)} IN
      /\ ~board.isGameOver
      /\ lands => left.landings > 0
      /\ lands \/ random = board.next  \* nothing is drawn
      /\ left' = IF lands THEN [left EXCEPT !.landings = @ - 1] ELSE left
      /\ ctl' = moved.ctl
      /\ board' = moved.board
      /\ computer' = FoldLeft(onGameboardEvent, computer, moved.events)
      /\ aim' = IF lands THEN Aimed(computer') ELSE Flown(moved)
      /\ outcome' = IF lands THEN Outcome(Fallen(moved)) ELSE outcome

\* Player::updateRestart restarts the board alone: neither controller nor computer hears of it.
Restart ==
  /\ left.restarts > 0
  /\ left' = [left EXCEPT !.restarts = @ - 1]
  /\ \E current, next \in left.types : board' = NewBoard(current, next)
  /\ aim' = NotAsked
  /\ UNCHANGED <<ctl, computer, outcome>>

Next == Update \/ Restart

Spec == Init /\ [][Next]_vars

-----------------------------------------------------------------------------
(* Properties *)

Between(n, wanted) == IF wanted < 0 THEN n \in wanted .. 0 ELSE n \in 0 .. wanted

\* A block the Ai was asked about is never carried or turned past the place the Ai chose for it, nor
\* the other way, whatever is in its way and however fast it falls: the keys are let go by the events
\* of the board (Computer::onGameboardEvent).  It lands in that very column, turned as the Ai chose,
\* if it had the steps the moves take (it has not when gravity is fast or the board is high), if no
\* move was refused on the way, and if at most one turn was wanted, the key for it was up and the turn
\* was possible where the block then was.
StateIsReached ==
  "not asked" \notin outcome.hindrances =>
    /\ Between(outcome.left, outcome.wanted.left)
    /\ Between(outcome.rotationLeft, outcome.wanted.rotationLeft)
    /\ outcome.hindrances = {} => /\ outcome.left = outcome.wanted.left
                                  /\ outcome.rotationLeft = outcome.wanted.rotationLeft
=============================================================================
