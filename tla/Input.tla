-------------------------------- MODULE Input --------------------------------
(***************************************************************************)
(* A player at the keyboard (classes Keyboard, DeviceManager, Device and    *)
(* HumanMoveController): the events of a frame, the fixed steps of the game *)
(* in that frame, and the tick that ends it.                                *)
(*                                                                         *)
(* The player's moves are made from the device's copy of what the keyboard  *)
(* knows.  The copy is made when a key event comes and only then, so after  *)
(* the tick has cleared pressed and released in the keyboard the copy still *)
(* has them.  A frame may have no step, or several.                         *)
(***************************************************************************)
EXTENDS MoveController

CONSTANTS
  MaxSteps,    \* fixed steps in a frame, at most
  Plans        \* the keys that are pressed, how often, how often other keys are, and the blocks

ASSUME PlanAssumption ==
  /\ MaxSteps \in Nat \ {0}
  /\ Plans \subseteq [keys : SUBSET Key, presses : Nat, others : Nat, types : SUBSET BlockType]

VARIABLES
  keyboard,  \* input_ of the Keyboard
  device,    \* input_ of its Device
  ctl,       \* the controller of the player
  board,
  steps,     \* the fixed steps of this frame so far
  left,      \* what is left of the plan
  asked      \* of each key: what the player has asked for since it went down, and got

vars == <<keyboard, device, ctl, board, steps, left, asked>>

\* Ways for a press to be taken wrongly.
Missed == {"DownAndUpInOneFrame", "CopiedTooLate", "UpNotSeen", "HeldForNextBlock"}

\* since: the updates of the controller while the key was down.  upSeen: one has been made since it
\* last went up, with a device that did not have it pressed any more.
\* A key that is held longer, or has made more moves, is not counted further.
MaxSince == DAS + 2 * ARR + 1
MaxMoves == 5

Asked == [since : 0 .. MaxSince, moves : 0 .. MaxMoves, upSeen : BOOLEAN, missed : SUBSET Missed]

TypeOK ==
  /\ keyboard \in [Key -> KeyState]
  /\ device \in [Key -> KeyState]
  /\ ctl \in Controller
  /\ steps \in 0 .. MaxSteps
  /\ asked \in [Key -> Asked]

\* No key has been touched.
IdleKeys ==
  /\ keyboard = [k \in Key |-> KeyUp]
  /\ device = [k \in Key |-> KeyUp]
  /\ steps = 0
  /\ asked = [k \in Key |-> [since |-> 0, moves |-> 0, upSeen |-> TRUE, missed |-> {}]]

Init ==
  /\ left \in Plans
  /\ ctl = NewController
  /\ \E current, next \in left.types : board = NewBoard(current, next)
  /\ IdleKeys

-----------------------------------------------------------------------------
(* The events of a frame *)

handleKey(key, isDown) ==
  IF isDown THEN [key EXCEPT !.pressed = @ \/ ~key.held, !.held = TRUE]
            ELSE [key EXCEPT !.released = @ \/ key.held, !.held = FALSE]

\* DeviceManager::eventUpdate: whatever the key, the device gets a copy.  A key that is down, that
\* no update has looked at, and that is not pressed any more, is copied too late.
Copied ==
  /\ device' = keyboard'
  /\ UNCHANGED <<ctl, board, steps>>

Late(k) == keyboard[k].held /\ asked[k].since = 0 /\ ~keyboard[k].pressed

Noted ==
  [k \in Key |-> IF Late(k) THEN [asked[k] EXCEPT !.missed = @ \cup {"CopiedTooLate"}] ELSE asked[k]]

KeyDown(k) ==
  /\ steps = 0
  /\ k \in left.keys
  /\ left.presses > 0
  /\ ~keyboard[k].held
  /\ left' = [left EXCEPT !.presses = @ - 1]
  /\ keyboard' = [keyboard EXCEPT ![k] = handleKey(@, TRUE)]
  /\ asked' = [Noted EXCEPT ![k] =
       [since |-> 0, moves |-> 0, upSeen |-> asked[k].upSeen,
        missed |-> (IF keyboard[k].released THEN {"DownAndUpInOneFrame"} ELSE {})
                   \cup (IF asked[k].upSeen THEN {} ELSE {"UpNotSeen"})]]
  /\ Copied

EndOfPress(k) == steps = 0 /\ keyboard[k].held

KeyUpAgain(k) ==
  /\ EndOfPress(k)
  /\ keyboard' = [keyboard EXCEPT ![k] = handleKey(@, FALSE)]
  /\ asked' = [Noted EXCEPT ![k].upSeen = FALSE,
                            ![k].missed = @ \cup (IF keyboard[k].pressed THEN {"DownAndUpInOneFrame"}
                                                                         ELSE {})]
  /\ UNCHANGED left
  /\ Copied

\* Any other key goes down or up.
OtherKey ==
  /\ steps = 0
  /\ left.others > 0
  /\ left' = [left EXCEPT !.others = @ - 1]
  /\ asked' = Noted
  /\ UNCHANGED keyboard
  /\ Copied

-----------------------------------------------------------------------------
(* The steps of a frame, and its end *)

Landing(moved) == moved.events # << >> /\ moved.events[1].event = "BlockCollision"

\* What one update of the controller did for a key.  With a block that lands the count starts again.
Counted(k, moved) ==
  LET a == asked[k]
      n == Cardinality({i \in DOMAIN moved.moves : moved.moves[i] = MoveOf[k]})
      updates == IF keyboard[k].held THEN a.since + 1 ELSE a.since
      startsAgain == Landing(moved) /\ a.since > 0 /\ keyboard[k].held
  IN  CASE startsAgain ->
             [a EXCEPT !.since = 0, !.moves = 0, !.missed = @ \cup {"HeldForNextBlock"}]
        [] ~startsAgain /\ (ctl.areActive \/ a.since = MaxSince) -> a
        [] OTHER -> [a EXCEPT !.since = updates,
                              !.moves = IF @ + n > MaxMoves THEN MaxMoves ELSE @ + n,
                              !.upSeen = @ \/ ~(keyboard[k].held \/ device[k].pressed)]

FrameGoesOn == steps < MaxSteps /\ steps' = steps + 1

FrameEnds == steps > 0 /\ steps' = 0

FixedStep ==
  /\ FrameGoesOn
  /\ \E random \in left.types : \E moved \in {updated(ctl, board, device, random)} :
       /\ Landing(moved) \/ random = board.next  \* nothing is drawn
       /\ ctl' = moved.ctl
       /\ board' = moved.board
       /\ asked' = [k \in Key |-> Counted(k, moved)]
  /\ UNCHANGED <<keyboard, device, left>>

\* DeviceManager::tick
Tick ==
  /\ steps' = 0
  /\ keyboard' = [k \in Key |-> [keyboard[k] EXCEPT !.pressed = FALSE, !.released = FALSE]]
  /\ UNCHANGED <<device, ctl, board, left, asked>>

Next ==
  \/ \E k \in Key : KeyDown(k) \/ KeyUpAgain(k)
  \/ OtherKey
  \/ FixedStep
  \/ Tick

\* Frames follow each other and time passes, so that steps are made: FixedStep is the only action
\* that makes FrameGoesOn true, and Tick the one that makes FrameEnds true.
Spec == Init /\ [][Next]_vars /\ WF_steps(FrameGoesOn) /\ WF_steps(FrameEnds)

-----------------------------------------------------------------------------
(* Properties *)

Repeating == {"left", "right"}
Once == {"rotate", "downGround"}

\* The moves a key has a right to: one when it goes down, one after the delay, then one each ARR.
Due(k) ==
  LET a == asked[k] IN
    1 + (IF k \in Repeating /\ a.since > DAS THEN 1 + (a.since - 1 - DAS) \div ARR ELSE 0)

\* A key makes no more moves than it has been held for: none at a rate of its own, and none after it
\* is up (HumanMoveController, DasArrHandler and ActionHandler).  What goes down and up in one frame, or is
\* copied when it is no longer pressed, is taken wrongly.
NotMoreThanAsked ==
  \A k \in Repeating \cup Once :
    asked[k].missed \subseteq {"HeldForNextBlock"} => asked[k].moves <= Due(k)

\* A key that is down when the controller looks at it has made its move.
PressIsAnswered ==
  \A k \in Repeating \cup Once :
    (keyboard[k].held /\ asked[k].since > 0 /\ asked[k].missed = {}) => asked[k].moves > 0

\* Whatever the keys did and whichever are held, blocks keep coming down and land: a player that
\* presses nothing more comes to the end of the game (gravity and the time a block is down).
GameComesToAnEnd == <>(board.isGameOver)
=============================================================================
