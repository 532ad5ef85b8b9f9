---------------------------- MODULE PauseHistory -----------------------------
(***************************************************************************)
(* GameSession with an auxiliary variable that remembers, for the property   *)
(* below and for no step, what the pause of the room means to each client.   *)
(*                                                                         *)
(* A client takes a pause or a resume of the room with setPause, and a pause *)
(* that comes during a countdown is dropped there; a game that is created or *)
(* restarted begins to run whether or not the room is paused.                *)
(***************************************************************************)
EXTENDS GameSession

VARIABLE outOfStep  \* outOfStep[c]: c dropped the last pause, or its game began anew after it

historyVars == <<sessionVars, outOfStep>>

\* A client whose game begins when it handles m: one is created, its own boards are restarted, or
\* those of another client.
Begins(c, m) ==
  \/ phase[c] = "lobby" /\ m.type = "create_game"
  \/ phase[c] = "game" /\ m.type = "request_game_restart" /\ Local(c) # {}
  \/ phase[c] = "game" /\ m.type = "game_restart" /\ m.client # clientId[c]

\* What c remembers of the message m it handles.
Remember(c, m) ==
  outOfStep' = [outOfStep EXCEPT ![c] =
    \/ Begins(c, m)
    \/ IF phase[c] = "game" /\ m.type = "game_command"
         THEN m.pause /\ tetrisGame[c].scheduled
         ELSE @]

HistoryInit == SessionInit /\ outOfStep = [c \in Client |-> FALSE]

HistoryNext ==
  \E c \in Client :
    \/ ClientReceives(c) /\ Remember(c, Head(toClient[c]))
    \/ (Connect(c) \/ UserCommand(c) \/ Deliver(c) \/ Frame(c) \/ SessionOver(c)) /\ UNCHANGED outOfStep

HistorySpec == HistoryInit /\ [][HistoryNext]_historyVars

\* Several clients press the button, each for the opposite of what it sees, while countdowns end and
\* restarts cross.  Once nothing is under way to or from a client that plays, its game is halted if
\* and only if the server has the room paused, so that those who play together agree - unless, since
\* the last pause or resume that reached it, it was out of step: that pause met a countdown (where
\* TetrisGame::setPause drops it), or its game was created or restarted after it.  Its game then
\* runs, or will after the countdown, paused room or not: no pause outlives the command that ends it.
PauseAgreesWhenQuiet ==
  \A c \in Client : Quiet(c) /\ phase[c] = "game" =>
    (Halted(tetrisGame[c]) <=> gameRoomById[gameRoomId[c]].paused /\ ~outOfStep[c])
==============================================================================
