---------------------------------- MODULE Ai ---------------------------------
(***************************************************************************)
(* Where a computer player wants its block (class Ai): the states it can    *)
(* reach, what they are worth, and the best of them.                        *)
(*                                                                         *)
(* Worth is the default function, times five to be an integer; it is what   *)
(* every computer player uses, since AiMoveController makes an Ai of its    *)
(* own whatever Ai it is given.  It looks at one block (depth 1).           *)
(***************************************************************************)
EXTENDS TetrisBoard, FiniteSetsExt, SequencesExt

-----------------------------------------------------------------------------
(* What is seen of a board.  The walls and the floor are filled. *)

Filled(g, x, y) == ~IsFree(g, Sq(x, y))

\* An empty board has no used row.  The code divides size_t(-1) by the columns and keeps 32 bits: with
\* the ten columns of the program that is far below zero.
NoRow == -2

\* Mutant of calculateHighestUsedRow: the row below it.
rowBelowHighestUsed(g) ==
  LET used == {k \in DOMAIN g : g[k] # EmptyRow} IN
    IF used = {} THEN NoRow ELSE Max(used) - 2

calculateHighestUsedRow(g) ==
  LET used == {k \in DOMAIN g : g[k] # EmptyRow} IN
    IF used = {} THEN NoRow ELSE Max(used) - 1

UsedSquares(g) == Column \X (0 .. calculateHighestUsedRow(g))

\* The wall to the right ends a row.
calculateRowTransitions(g) ==
  Cardinality({s \in (0 .. Columns) \X (0 .. calculateHighestUsedRow(g)) :
                 Filled(g, s[1], s[2]) /\ ~Filled(g, s[1] - 1, s[2])})

\* The empty row above ends a column.
calculateColumnTransitions(g) ==
  IF calculateHighestUsedRow(g) = NoRow THEN 0
  ELSE Columns + Cardinality({s \in UsedSquares(g) : Filled(g, s[1], s[2]) /\ ~Filled(g, s[1], s[2] - 1)})

\* Empty squares one above the other count once.
calculateNumberOfHoles(g) ==
  Cardinality({s \in UsedSquares(g) : ~Filled(g, s[1], s[2]) /\ Filled(g, s[1], s[2] + 1)})

calculateHoleDepth(g) ==
  Cardinality({s \in UsedSquares(g) :
                 Filled(g, s[1], s[2]) /\ \E y \in 0 .. s[2] - 1 : ~Filled(g, s[1], y)})

calculateRowHoles(g) ==
  Cardinality({y \in 0 .. calculateHighestUsedRow(g) :
                 \E x \in Column : ~Filled(g, x, y) /\ \E z \in y + 1 .. calculateHighestUsedRow(g) : Filled(g, x, z)})

\* What is a hole is decided five times over, each time by loops of its own: the count of holes, their
\* depth and their rows are zero for the same boards, no hole lies under less than one filled square,
\* a column changes once for every hole and at its top, and a row with a hole changes at least once
\* (calculateNumberOfHoles, calculateHoleDepth, calculateRowHoles, calculateColumnTransitions,
\* calculateRowTransitions).
HolesAgree ==
  \A g \in [1 .. 3 -> SUBSET Column] :
    LET holes == calculateNumberOfHoles(g)
        depth == calculateHoleDepth(g)
        rows  == calculateRowHoles(g)
    IN  /\ holes <= depth
        /\ holes = 0 <=> depth = 0
        /\ holes = 0 <=> rows = 0
        /\ calculateColumnTransitions(g) = (IF g = [k \in 1 .. 3 |-> EmptyRow] THEN 0 ELSE Columns + holes)
        /\ rows <= calculateRowTransitions(g)
        /\ holes = 0 <=> \A s \in Column \X (0 .. 2) : Filled(g, s[1], s[2]) \/
                            \A y \in s[2] .. 2 : ~Filled(g, s[1], y)

\* 0 for 0.
factorial(number) ==
  LET f[n \in Nat] == IF n < 2 THEN n ELSE n * f[n - 1] IN f[number]

\* The depth of the well of column x: of its open squares, those between filled ones, from the first
\* of these down to where they end.
WellDepth(g, x) ==
  LET hi == calculateHighestUsedRow(g)
      open == {y \in 0 .. hi : \A z \in y .. hi : ~Filled(g, x, z)}
      between == {y \in open : Filled(g, x - 1, y) /\ Filled(g, x + 1, y)}
  IN  Cardinality({y \in between : \A z \in y .. Max(between) : z \in between})

calculateCumulativeWells(g) == MapThenSumSet(LAMBDA x : factorial(WellDepth(g, x)), Column)

calculateLandingHeight(block) == getLowestRow(block)

-----------------------------------------------------------------------------
(* The states and the best of them *)

State == [left : Int, rotationLeft : 0 .. 4]

Turned(block, n) ==
  LET turned[k \in 0 .. 4] == IF k = 0 THEN block ELSE rotateLeft(turned[k - 1]) IN turned[n]

\* Every turn, the last of a block of four turns being the first once more, and from there every
\* place to the left and then to the right up to an obstacle.
calculateAllPossibleStates(b) ==
  LET turn(n) == Turned(b.current, n)
      free(block, from, to) == \A k \in from .. to : ~collision(b.gameboard, Shifted(block, k, 0))
      turns == 0 .. maxRotations(b.current.blockType)
  IN  IF collision(b.gameboard, b.current) THEN {}
      ELSE {s \in [left : -Columns .. Columns, rotationLeft : turns] :
              IF s.left > 0 THEN free(turn(s.rotationLeft), -s.left, -1)
                            ELSE free(turn(s.rotationLeft), 0, -s.left)}

\* The order in which they are looked at.
Before(s, t) ==
  \/ s.rotationLeft < t.rotationLeft
  \/ /\ s.rotationLeft = t.rotationLeft
     /\ \/ s.left > 0 /\ (t.left <= 0 \/ s.left < t.left)
        \/ s.left <= 0 /\ t.left < s.left

\* Turns first, then moves, then down, each of which may be refused.
MovesTo(state) ==
  LET times(n, move) == [k \in 1 .. Max({0, n}) |-> move] IN
    times(state.rotationLeft, "RotateLeft")
      \o times(state.left, "Left") \o times(-state.left, "Right") \o <<"DownGround">>

moveBlockToBeforeImpact(b, state) == FoldLeft(update, b, MovesTo(state))

\* The default value function, times five.  (Which of two sums that are equal but for the rounding of
\* floats comes out higher is left out.)
valueOf(g, landingHeight) ==
  -(calculateCumulativeWells(g) + 5 * calculateHoleDepth(g) + 5 * calculateNumberOfHoles(g)
    + 5 * landingHeight)

\* The second DownGround does not make the block part of the board.
moveBlockToGroundCalculateValue(b, state) ==
  LET before == moveBlockToBeforeImpact(b, state) IN
    valueOf(update(before, "DownGround").gameboard, calculateLandingHeight(before.current))

\* The first of the best, of states that have been valued.
first(valued) ==
  CHOOSE v \in valued : \A w \in valued \ {v} :
    v.value > w.value \/ (v.value = w.value /\ Before(v.state, w.state))

calculateBestState(b) ==
  LET states == calculateAllPossibleStates(b) IN
    IF states = {} THEN [left |-> 0, rotationLeft |-> 0]
    ELSE first({[state |-> s, value |-> moveBlockToGroundCalculateValue(b, s)] : s \in states}).state
=============================================================================
