------------------------------ MODULE MCPlayer ------------------------------
(* Moves, rows of opponents, and plans of games, for TLC.                   *)
EXTENDS Player

\* Two of the rows with two holes.
MCExternalRow == {Column \ {0, 1}, Column \ {1, Columns - 1}}

\* The moves TetrisBoardController makes, and the end of a game.
MCMoves == {"DownGravity", "DownGround", "Left", "Right", "RotateLeft", "GameOver"}

Plan(types, landings, attacks, restarts) ==
  [types |-> types, landings |-> landings, attacks |-> attacks, restarts |-> restarts]

\* Two types of block, one with two orientations, with the rows of an attack; every type once; many
\* blocks of one type; and a restart.
MCPlans ==
  {Plan({"I", "L"}, 2, 1, 0), Plan(BlockType, 1, 0, 0), Plan({"I"}, 4, 1, 0), Plan({"O", "S"}, 3, 0, 0),
   Plan({"J"}, 2, 1, 1)}
=============================================================================
