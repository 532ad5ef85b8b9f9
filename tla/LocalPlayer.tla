------------------------------ MODULE LocalPlayer ------------------------------
(***************************************************************************)
(* A local player (class Player, its moveController_): a board that a human *)
(* at the keyboard (Input) or a computer (Computer) plays, through the same *)
(* controller (MoveController).                                             *)
(***************************************************************************)
EXTENDS Input

CONSTANTS
  AiColumns, AiRows,  \* the board of a computer, which takes more blocks than that of a human
  AiGravity,          \* and whose blocks fall faster: the computer is at another level
  AiPlans             \* the blocks that are drawn, how many may land, how often it restarts

ASSUME AiAssumption ==
  /\ {AiColumns, AiRows} \subseteq Nat /\ AiColumns >= 4 /\ AiRows >= 4
  /\ AiGravity \in Nat \ {0}
  /\ AiPlans \subseteq [types : SUBSET BlockType, landings : Nat, restarts : Nat]

VARIABLES
  kind,                   \* which of the two moveController_ is
  computer, aim, outcome  \* of Computer

AiPlayer == INSTANCE Computer WITH
  Columns <- AiColumns, Rows <- AiRows, Gravity <- AiGravity, Plans <- AiPlans

humanVars == <<keyboard, device, steps, asked>>
aiVars == <<computer, aim, outcome>>
playerVars == <<kind, board, ctl, left, humanVars, aiVars>>

PlayerInit ==
  \/ /\ kind = "Human"
     /\ Init
     /\ computer = AiPlayer!NewComputer(board.current)
     /\ aim = AiPlayer!NotAsked
     /\ outcome = AiPlayer!NoOutcome
  \/ /\ kind = "Ai"
     /\ AiPlayer!Init
     /\ IdleKeys

PlayerNext ==
  \/ kind = "Human" /\ Next /\ UNCHANGED <<kind, aiVars>>
  \/ kind = "Ai" /\ AiPlayer!Next /\ UNCHANGED <<kind, humanVars>>

\* As in Input: frames follow each other.
PlayerSpec ==
  /\ PlayerInit
  /\ [][PlayerNext]_playerVars
  /\ WF_steps(kind = "Human" /\ FrameGoesOn)
  /\ WF_steps(kind = "Human" /\ FrameEnds)

-----------------------------------------------------------------------------
(* Properties, with those of Input *)

PlayerTypeOK == IF kind = "Human" THEN TypeOK ELSE AiPlayer!TypeOK

\* A player does what its keys say and no more (Input!NotMoreThanAsked, Input!PressIsAnswered).
KeysAreObeyed == PlayerTypeOK /\ NotMoreThanAsked /\ PressIsAnswered

\* A block goes where the Ai chose, and not past it (Computer!StateIsReached).
StateIsReached == AiPlayer!StateIsReached

\* The Ai counts holes in one way (Ai!HolesAgree).  That is about all boards, whatever the state: it is
\* looked at before the first step.
HolesAgree == kind = "Ai" /\ ctl = NewController => AiPlayer!HolesAgree

\* A human who presses nothing more comes to the end of the game (Input!GameComesToAnEnd).
HumanGameEnds == kind = "Human" => GameComesToAnEnd
=============================================================================
