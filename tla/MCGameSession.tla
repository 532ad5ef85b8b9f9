--------------------------- MODULE MCGameSession ----------------------------
(* Budgets for TLC: how often users press each button, in all.             *)
EXTENDS GameSession, TLC

None == [command \in Command |-> 0]

\* Coming and going between rooms, asking again before the answer.
ComingAndGoing ==
  [None EXCEPT !["connect"] = 2, !["create"] = 2, !["join"] = 1, !["leave"] = 2, !["slot"] = 1,
               !["again"] = 1]

\* A game that is left, and of which a connection is lost.
LeftAndBrokenGame ==
  [None EXCEPT !["connect"] = 2, !["create"] = 1, !["join"] = 1, !["leave"] = 1, !["slot"] = 1,
               !["start"] = 1, !["change"] = 1, !["lose"] = 1]

\* A game of one player of two clients, and a game of two players, with a restart.
PlayedAlone ==
  [None EXCEPT !["connect"] = 2, !["create"] = 1, !["join"] = 1, !["slot"] = 1, !["start"] = 1,
               !["restart"] = 1, !["change"] = 2]

PlayedByTwo == [PlayedAlone EXCEPT !["slot"] = 2, !["change"] = 1]

\* A game that a player leaves, perhaps for another room or to come back, ...
LeftGame ==
  [None EXCEPT !["connect"] = 2, !["create"] = 2, !["join"] = 2, !["leave"] = 1, !["slot"] = 1,
               !["start"] = 1, !["change"] = 1]

\* ... and one that is restarted with or without the player who has left it.
LeftAndRestartedGame == [LeftGame EXCEPT !["create"] = 1, !["restart"] = 1]

\* A game of which a connection is lost.
BrokenGame ==
  [None EXCEPT !["connect"] = 2, !["create"] = 1, !["join"] = 1, !["slot"] = 1, !["start"] = 1,
               !["change"] = 2, !["lose"] = 1]

\* A game of one player that anybody pauses and resumes.
PausedGame ==
  [None EXCEPT !["connect"] = 2, !["create"] = 1, !["join"] = 1, !["slot"] = 1,
               !["start"] = 1, !["pause"] = 2]

\* A game of one client with two players, paused and restarted during its countdowns.
RestartedGame ==
  [None EXCEPT !["connect"] = 1, !["create"] = 1, !["slot"] = 2, !["start"] = 1, !["pause"] = 2,
               !["restart"] = 1]

MCGameBudgets ==
  {ComingAndGoing, LeftAndBrokenGame, PlayedAlone, PlayedByTwo, LeftGame, LeftAndRestartedGame, BrokenGame,
   PausedGame, RestartedGame}

\* A start with a slot left open.
MCOpenSlotBudgets == {[None EXCEPT !["connect"] = 1, !["create"] = 1, !["slot"] = 1, !["start"] = 1]}

\* Requests to enter and to leave, answered or lost with the connection, in the lobby or in a game
\* that was started empty; and of a client alone in a game that counts down, is paused or restarted.
MCAnswerBudgets ==
  {[None EXCEPT !["connect"] = 2, !["create"] = 1, !["join"] = 1, !["leave"] = 1, !["start"] = 1,
                !["list"] = 1, !["lose"] = 1],
   [None EXCEPT !["connect"] = 2, !["create"] = 1, !["join"] = 1, !["leave"] = 2, !["start"] = 1],
   [None EXCEPT !["connect"] = 1, !["create"] = 1, !["leave"] = 1, !["slot"] = 2, !["start"] = 1],
   [None EXCEPT !["connect"] = 1, !["create"] = 1, !["leave"] = 1, !["slot"] = 1, !["start"] = 1,
                !["pause"] = 1, !["change"] = 1],
   [None EXCEPT !["connect"] = 1, !["create"] = 1, !["leave"] = 1, !["slot"] = 1, !["start"] = 1,
                !["restart"] = 1]}

MCSymmetry == Permutations(Client) \cup Permutations(RoomId) \cup Permutations(PlayerId)
              \cup Permutations(ConnectionId)
=============================================================================
