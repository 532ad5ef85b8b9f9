--------------------------- MODULE MCPauseHistory ----------------------------
(* Budgets for TLC: those of MCGameSession, and games of two clients with a player each, with
   countdowns, that both pause, resume and restart.  So many pauses can only be checked of users who
   prepare the game in an orderly way and press nothing else before they start it: what crosses in
   the lobby is left to the other budgets.                                                       *)
EXTENDS PauseHistory, MCGameSession

Pauses == 3

PausedByTwo ==
  [None EXCEPT !["connect"] = 2, !["create"] = 1, !["join"] = 1, !["slot"] = 2, !["start"] = 1,
               !["pause"] = Pauses, !["restart"] = 1]

MCHistoryBudgets == MCGameBudgets \cup {PausedByTwo}

\* No other budget has so many pauses.
Preparing == left["pause"] = Pauses /\ left["start"] > 0

Spends(command) == left'[command] < left[command]

Owner(slot) == IF slot.type = "Open" THEN NoClient ELSE slot.client

\* Buttons are pressed when nothing is under way, and the game starts when each client has a slot.
Orderly ==
  /\ left' # left => \A c \in Client : toServer[c] = << >> /\ toClient[c] = << >>
  /\ ~Spends("pause") /\ ~Spends("restart")
  /\ Spends("start") => \E r \in RoomId : /\ gameRoomById[r] # NoRoom
                                          /\ {Owner(gameRoomById[r].playerSlots[i]) : i \in SlotIndex} = Client

MCSpec == HistoryInit /\ [][HistoryNext /\ (Preparing => Orderly)]_historyVars
=============================================================================
