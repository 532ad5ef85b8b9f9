----------------------------- MODULE HighScores ------------------------------
(***************************************************************************)
(* The list of high scores (serializehighscore.cpp).  The file keeps every   *)
(* result; what is shown is sorted and cut to, or filled up to, the first    *)
(* NbrHighScoreResults.                                                    *)
(***************************************************************************)
EXTENDS Integers, Sequences, FiniteSets, SequencesExt

CONSTANTS NbrHighScoreResults, MaxPoints, MaxResults, Days

ASSUME HighScoreAssumption ==
  /\ NbrHighScoreResults \in Nat \ {0}
  /\ {MaxPoints, MaxResults, Days} \subseteq Nat

\* lastPlayed is a day; nothing is kept of the time on it.
Result == [points : 0 .. MaxPoints, lastPlayed : 0 .. Days]

\* What resize appends: no points, and the first of all days.
NoResult == [points |-> 0, lastPlayed |-> 0]

Before(a, b) == a.points > b.points \/ (a.points = b.points /\ a.lastPlayed < b.lastPlayed)

\* Mutant of toHighScoreResults: in the order of the file.
toUnsortedResults(file) == file

toHighScoreResults(file) == SortSeq(file, Before)

loadHighScore(file) ==
  LET results == toHighScoreResults(file) IN
    [i \in 1 .. NbrHighScoreResults |-> IF i <= Len(results) THEN results[i] ELSE NoResult]

getIndexForNewResult(results, points) ==
  LET worse == {i \in DOMAIN results : points > results[i].points} IN
    IF worse = {} THEN Len(results) ELSE CHOOSE i \in 0 .. Len(results) - 1 :
                                           i + 1 \in worse /\ \A j \in worse : i < j

getHighScorePlacement(file, points) == getIndexForNewResult(loadHighScore(file), points) + 1

isNewHighScore(file, points) ==
  getIndexForNewResult(loadHighScore(file), points) < NbrHighScoreResults

saveHighScore(file, points, today) == Append(file, [points |-> points, lastPlayed |-> today])

\* Whatever results there are, with equal points and on equal days among them: a player with
\* points is told a place exactly if the list shows the result there once it is saved (the last
\* place of those with the same points), and every other result keeps its order.
EveryPlacementAgrees ==
  \A n \in 0 .. MaxResults : \A file \in [1 .. n -> Result] : \A points \in 1 .. MaxPoints :
    LET today  == Days
        place  == getHighScorePlacement(file, points)
        before == loadHighScore(file)
        after  == loadHighScore(saveHighScore(file, points, today))
    IN  IF isNewHighScore(file, points)
          THEN /\ after[place] = [points |-> points, lastPlayed |-> today]
               /\ \A i \in 1 .. place - 1 : after[i] = before[i]
               /\ \A i \in place + 1 .. NbrHighScoreResults : after[i] = before[i - 1]
          ELSE \A i \in 1 .. NbrHighScoreResults : after[i].points = before[i].points
==============================================================================
