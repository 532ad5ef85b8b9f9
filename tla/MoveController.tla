--------------------------- MODULE MoveController ----------------------------
(***************************************************************************)
(* From the keys to the moves of a board (classes TetrisBoardController,    *)
(* DasArrHandler and ActionHandler): one update of the controller for one   *)
(* fixed time step of the game.                                             *)
(*                                                                         *)
(* Time is counted in steps.  Only the time since something happened is     *)
(* ever compared, so it is what is kept, up to the longest wait.            *)
(***************************************************************************)
EXTENDS TetrisBoard

CONSTANTS
  DAS,        \* steps a key is held until it repeats: 0.167 s
  ARR,        \* steps between two repeats: 0.033 s
  DownWait,   \* steps between two moves down: 0.04 s
  Gravity,    \* steps between two moves of the gravity: 1 / speed_
  AREDuration \* steps a block stays down before it lands: 0.5 s

ASSUME WaitAssumption ==
  /\ {DAS, ARR, DownWait, Gravity, AREDuration} \subseteq Nat \ {0}
  /\ ARR <= DAS

KeyState == [held : BOOLEAN, pressed : BOOLEAN, released : BOOLEAN]

KeyUp == [held |-> FALSE, pressed |-> FALSE, released |-> FALSE]

Key == {"left", "right", "down", "rotate", "downGround"}

-----------------------------------------------------------------------------
(* DasArrHandler: a move when a key goes down, then more while it is held *)

\* elapsed: the time since the last action.
DasArr == [elapsed : 0 .. DAS, inDelayPhase : BOOLEAN, previouslyHeld : BOOLEAN]

NewDasArr == [elapsed |-> 0, inDelayPhase |-> TRUE, previouslyHeld |-> FALSE]

Passed(elapsed, wait) == IF elapsed < wait THEN elapsed + 1 ELSE wait

\* Mutant of dasArr: a key that was held is not forgotten when it is released.
dasArrKeepsHeld(h, key) ==
  LET pressed == key.pressed /\ ~h.previouslyHeld IN
    [handler |-> [h EXCEPT !.previouslyHeld = @ \/ key.held],
     action |-> pressed]

\* DasArrHandler::update, then doAction.
dasArr(h, key) ==
  LET elapsed  == Passed(h.elapsed, DAS)
      pressed  == key.pressed /\ ~h.previouslyHeld
      repeated == ~pressed /\ key.held /\ elapsed >= (IF h.inDelayPhase THEN DAS ELSE ARR)
  IN  [handler |-> [elapsed |-> IF pressed \/ repeated THEN 0 ELSE elapsed,
                    inDelayPhase |-> pressed \/ key.released \/ (h.inDelayPhase /\ ~repeated),
                    previouslyHeld |-> key.held /\ ~key.released],
       action |-> pressed \/ repeated]

-----------------------------------------------------------------------------
(* TetrisBoardController *)

\* Of an ActionHandler it is the time since its last action, or for a waiting time of zero with a
\* rebound its last action.
Controller ==
  [left : DasArr, right : DasArr, down : 0 .. DownWait, gravity : 0 .. Gravity,
   rotate : BOOLEAN, downGround : BOOLEAN, areActive : BOOLEAN, areTimer : 0 .. AREDuration]

NewController ==
  [left |-> NewDasArr, right |-> NewDasArr, down |-> 0, gravity |-> 0,
   rotate |-> FALSE, downGround |-> FALSE, areActive |-> FALSE, areTimer |-> 0]

\* A step under way: the controller, the board, the moves so far and what has been told of them.
Step(ctl, board, next) == [ctl |-> ctl, board |-> board, next |-> next, moves |-> << >>, events |-> << >>]

Told(event, board) == [event |-> event, board |-> board]

isBlockDown(board) == collision(board.gameboard, Down(board.current, 1))

\* A block that lands: the listeners hear of it while it is the block and when the next one is.
\* (The rows that go in between are told too; for who listens here they repeat the first.)
landing(s) ==
  LET board == [Landed(s.board, << >>).board EXCEPT !.next = s.next] IN
    [s EXCEPT !.ctl.left = NewDasArr, !.ctl.right = NewDasArr, !.ctl.down = 0,
              !.board = board,
              !.events = @ \o <<Told("BlockCollision", s.board), Told("CurrentBlockUpdated", board)>>]

\* Nothing happens on the board, and nobody is told of anything.
Refused(board, m) ==
  \/ board.isGameOver
  \/ ~collision(board.gameboard, board.current) /\ collision(board.gameboard, Moved(board, m))

\* The private update: a move of the board, of which the listeners hear.
move(s, m) ==
  LET asked == [s EXCEPT !.moves = Append(@, m)]
      board == update(s.board, m)
      event == IF board.isGameOver THEN "GameOver" ELSE "BlockMoved"
  IN  CASE Lands(s.board, m) -> landing(asked)
        [] ~Lands(s.board, m) /\ Refused(s.board, m) -> asked
        [] OTHER -> [asked EXCEPT !.board = board, !.events = Append(@, Told(event, board))]

\* The time of the block on the ground is over when it gets to zero; the very first lasts no time.
are(s) ==
  IF s.ctl.areTimer <= 1
    THEN move([s EXCEPT !.ctl.areActive = FALSE, !.ctl.areTimer = AREDuration], "DownGravity")
    ELSE [s EXCEPT !.ctl.areTimer = @ - 1]

\* Mutant of gravity: a block that is down waits without end.
gravityStopsOnGround(s) ==
  LET elapsed == Passed(s.ctl.gravity, Gravity) IN
    CASE elapsed < Gravity \/ isBlockDown(s.board) -> [s EXCEPT !.ctl.gravity = elapsed]
      [] OTHER -> move([s EXCEPT !.ctl.gravity = 0], "DownGravity")

gravity(s) ==
  LET elapsed == Passed(s.ctl.gravity, Gravity) IN
    CASE elapsed < Gravity -> [s EXCEPT !.ctl.gravity = elapsed]
      [] elapsed >= Gravity /\ isBlockDown(s.board) -> [s EXCEPT !.ctl.gravity = 0, !.ctl.areActive = TRUE]
      [] OTHER -> move([s EXCEPT !.ctl.gravity = 0], "DownGravity")

\* What each key does to the board.
MoveOf == [left |-> "Left", right |-> "Right", down |-> "Down", rotate |-> "RotateLeft",
           downGround |-> "DownGround"]

\* Left and right, ...
sideways(s, key, input) ==
  LET h == dasArr(s.ctl[key], input[key])
      looked == [s EXCEPT !.ctl[key] = h.handler]
  IN  IF h.action THEN move(looked, MoveOf[key]) ELSE looked

\* ... down while it is held, ...
softDown(s, input) ==
  LET elapsed == Passed(s.ctl.down, DownWait) IN
    IF input.down.held /\ elapsed >= DownWait
      THEN move([s EXCEPT !.ctl.down = 0], "Down")
      ELSE [s EXCEPT !.ctl.down = elapsed]

\* ... and once each time they are pressed: rotate and down to the ground.
once(s, key, input) ==
  LET pressed == input[key].pressed
      looked  == [s EXCEPT !.ctl[key] = pressed]
  IN  IF pressed /\ ~s.ctl[key] THEN move(looked, MoveOf[key]) ELSE looked

Handlers == <<"gravity", "left", "right", "down", "rotate", "downGround">>

doAction(s, handler, input) ==
  CASE handler = "gravity" -> gravity(s)
    [] handler \in {"left", "right"} -> sideways(s, handler, input)
    [] handler = "down" -> softDown(s, input)
    [] handler \in {"rotate", "downGround"} -> once(s, handler, input)

\* TetrisBoardController::update: the handlers one after the other, unless a block is down.  The block
\* after the next one, which a player draws when one lands, is given.
updated(ctl, board, input, next) ==
  LET start == Step(ctl, board, next)
      after[k \in 0 .. Len(Handlers)] ==
        IF k = 0 THEN start ELSE doAction(after[k - 1], Handlers[k], input)
  IN  IF ctl.areActive THEN are(start) ELSE after[Len(Handlers)]
=============================================================================
