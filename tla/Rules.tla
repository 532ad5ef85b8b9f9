-------------------------------- MODULE Rules --------------------------------
(***************************************************************************)
(* The rules of a game of several players on several clients (classes       *)
(* DefaultGameRules and SurvivalGameRules): levels, points, the rows of     *)
(* opponents, who is out, and the places.                                   *)
(*                                                                         *)
(* Every client has rules of its own.  They listen to all players of the    *)
(* game, its own and the copies of the others', and act on its own.  What   *)
(* they decide is not sent; only what happens to boards is, and the rules   *)
(* of the others decide again.                                              *)
(*                                                                         *)
(* The server puts what is sent into one order, so each client has one      *)
(* inbox.  The boards are no more than what the rules see of them.          *)
(***************************************************************************)
EXTENDS Integers, Sequences, FiniteSets, SequencesExt, Selection

CONSTANTS
  Client, Player,
  Owner,      \* the client a player is local at
  Order,      \* the players in the order of players_, the same at every client
  LevelUpNbr, \* rows per level: 10 in the code, and no fewer than a block can fill
  Plans       \* which rules, how often rows go, boards fill, games restart and clients vanish

ASSUME RulesAssumption ==
  /\ Owner \in [Player -> Client]
  /\ IsFiniteSet(Player)
  /\ Order \in Seq(Player) /\ IsInjective(Order) /\ \A p \in Player : \E k \in DOMAIN Order : Order[k] = p
  /\ LevelUpNbr \in Nat /\ LevelUpNbr >= 4
  /\ Plans \subseteq [rules : {"Default", "Survival"}, removals : Nat, deaths : Nat, restarts : Nat, vanish : Nat]

VARIABLES
  plan,
  info,    \* what the rules of a client see of each player and say of it
  inbox,   \* what has been sent to a client
  gone,    \* the clients that have vanished
  causes   \* what crossed on the way and may make clients see the game differently

vars == <<plan, info, inbox, gone, causes>>

NewData == [level |-> 1, points |-> 0, opponentRows |-> 0, position |-> 0]

\* A board that starts, with a gravity of calculateGravity(1).
NewInfo == [isGameOver |-> FALSE, clearedRows |-> 0, externalRows |-> 0, gravity |-> 1, data |-> NewData]

Data == [level : Nat, points : Nat, opponentRows : Nat, position : 0 .. Cardinality(Player)]

Message ==
  [type : {"rows"}, player : Player, n : {1, 4}] \cup [type : {"over", "external"}, player : Player]
    \cup [type : {"ask"}] \cup [type : {"restart", "gone"}, client : Client]

TypeOK ==
  /\ plan \in [rules : {"Default", "Survival"}, removals : Nat, deaths : Nat, restarts : Nat, vanish : Nat]
  /\ info \in [Client -> [Player ->
       [isGameOver : BOOLEAN, clearedRows : Nat, externalRows : Nat, gravity : Nat, data : Data]]]
  /\ inbox \in [Client -> Seq(Message)]
  /\ gone \subseteq Client
  /\ causes \subseteq {"deaths crossed", "restart crossed", "client vanished"}

Init ==
  /\ plan \in Plans
  /\ info = [c \in Client |-> [p \in Player |-> NewInfo]]
  /\ inbox = [c \in Client |-> << >>]
  /\ gone = {}
  /\ causes = {}

-----------------------------------------------------------------------------
(* The rules of client c, given what they see, i *)

isLocal(c, p) == Owner[p] = c

Playing(i) == {p \in Player : ~i[p].isGameOver}

\* What the rules of c make of something: what they see then, and what c sends for it.
Rows(p, n) == [type |-> "rows", player |-> p, n |-> n]
Over(p) == [type |-> "over", player |-> p]
External(p) == [type |-> "external", player |-> p]

\* rowsRemove of DefaultGameRules.  The player counts the rows after the signal (handleBoardEvent), so
\* the level is that of the rows before.
defaultRowsRemove(c, i, p, n) ==
  LET level == i[p].clearedRows \div LevelUpNbr + 1 IN
    [info |-> IF isLocal(c, p)
                THEN [i EXCEPT ![p].data.level = level, ![p].data.points = @ + level * n * n,
                               ![p].gravity = level]
                ELSE i,
     sent |-> << >>]

\* rowsRemove of SurvivalGameRules: four rows add two to the board of each opponent that plays here.
survivalRowsRemove(c, i, p, n) ==
  LET opponents == {q \in Player \ {p} : isLocal(c, q)}
      hit       == IF n = 4 THEN opponents \cap Playing(i) ELSE {}
      counted   == [q \in Player |-> IF q \in opponents THEN [i[q] EXCEPT !.data.opponentRows = @ + n] ELSE i[q]]
      attacked  == [q \in Player |-> IF q \in hit THEN [counted[q] EXCEPT !.externalRows = @ + 2] ELSE counted[q]]
      targets   == SelectIn(Order, hit)
  IN  [info |-> IF isLocal(c, p) THEN [attacked EXCEPT ![p].gravity = i[p].data.opponentRows] ELSE attacked,
       sent |-> [k \in DOMAIN targets |-> External(targets[k])]]

\* Mutant of rowsRemove: a client counts the rows for the copies, too.
survivalRowsOfAll(c, i, p, n) ==
  [info |-> [q \in Player |-> IF q # p THEN [i[q] EXCEPT !.data.opponentRows = @ + 2 * n] ELSE i[q]], sent |-> << >>]
rowsRemoveOfAll(c, i, p, n) ==
  IF plan.rules = "Default" THEN defaultRowsRemove(c, i, p, n) ELSE survivalRowsOfAll(c, i, p, n)

rowsRemove(c, i, p, n) ==
  IF plan.rules = "Default" THEN defaultRowsRemove(c, i, p, n) ELSE survivalRowsRemove(c, i, p, n)

\* A block of p lands and n rows go: the rows that waited are on the board, and the rules are told.
RowsRemoved(c, i, p, n) ==
  LET after == rowsRemove(c, [i EXCEPT ![p].externalRows = 0], p, n)
  IN  [after EXCEPT !.info[p].clearedRows = @ + n]

\* Mutants of gameOver: the last one plays on; the place is counted without the one that is out.
gameOverOfOne(c, i, p) ==
  [info |-> [i EXCEPT ![p].isGameOver = TRUE,
                      ![p].data.position = Cardinality(Playing(i) \ {p}) + 1], sent |-> << >>]
gameOverPlacedLate(c, i, p) ==
  LET over == [i EXCEPT ![p].isGameOver = TRUE]
      last == IF Cardinality(Playing(over)) = 1 THEN {q \in Playing(over) : isLocal(c, q)} ELSE {}
  IN  [info |-> [q \in Player |->
         IF q \in last THEN [over[q] EXCEPT !.isGameOver = TRUE, !.data.position = 1]
         ELSE IF q = p THEN [over[q] EXCEPT !.data.position = Cardinality(Playing(over) \ last) + 1]
         ELSE over[q]],
       sent |-> SetToSeq({Over(q) : q \in last})]

\* gameOver, of both rules: the board of p is over.  Its place is behind those that play.  If that is
\* one, and it is local, its board is ended too and it has won.
gameOver(c, i, p) ==
  LET over == [i EXCEPT ![p].isGameOver = TRUE]
      nbr  == Cardinality(Playing(over))
      last == IF nbr = 1 THEN {q \in Playing(over) : isLocal(c, q)} ELSE {}
  IN  [info |-> [q \in Player |->
         IF Cardinality(Player) = 1 THEN over[q]
         ELSE IF q \in last THEN [over[q] EXCEPT !.isGameOver = TRUE, !.data.position = 1]
         ELSE IF q = p THEN [over[q] EXCEPT !.data.position = nbr + 1]
         ELSE over[q]],
       sent |-> SetToSeq({Over(q) : q \in last})]

\* Move::GameOver for p: nothing, when its board is over.
End(c, i, p) == IF i[p].isGameOver THEN [info |-> i, sent |-> << >>] ELSE gameOver(c, i, p)

\* Only DefaultGameRules set the gravity anew when they restart.
GravityAfterRestart(i, p) == IF plan.rules = "Default" THEN 1 ELSE i[p].gravity

\* restart of the rules, and of the players of one client (updateRestart).
restart(i, client) ==
  [p \in Player |->
     [isGameOver   |-> i[p].isGameOver /\ Owner[p] # client,
      clearedRows  |-> IF Owner[p] = client THEN 0 ELSE i[p].clearedRows,
      externalRows |-> IF Owner[p] = client THEN 0 ELSE i[p].externalRows,
      gravity      |-> GravityAfterRestart(i, p),
      data         |-> NewData]]

-----------------------------------------------------------------------------
(* Steps *)

Spend(what) == plan[what] > 0 /\ plan' = [plan EXCEPT ![what] = @ - 1]

\* The server sends on what c sends, to all others; receiver c has taken its message out of its inbox.
Relay(c, messages, boxes) ==
  inbox' = [d \in Client |-> IF d = c \/ d \in gone THEN boxes[d] ELSE boxes[d] \o messages]

\* Something of these types is on its way to c.
Pending(c, types) == \E k \in DOMAIN inbox[c] : inbox[c][k].type \in types

\* Not every client has restarted all players yet.
Restarting == \E c \in Client : Pending(c, {"ask", "restart"})

LocalRows(c, p, n) ==
  /\ c \notin gone /\ isLocal(c, p) /\ p \in Playing(info[c])
  /\ Spend("removals")
  /\ LET after == RowsRemoved(c, info[c], p, n) IN
       /\ info' = [info EXCEPT ![c] = after.info]
       /\ Relay(c, <<Rows(p, n)>> \o after.sent, inbox)
  /\ causes' = IF Restarting THEN causes \cup {"restart crossed"} ELSE causes
  /\ UNCHANGED gone

\* The board of a local player is full when its next block starts.
LocalDeath(c, p) ==
  /\ c \notin gone /\ isLocal(c, p) /\ p \in Playing(info[c])
  /\ Spend("deaths")
  /\ LET after == gameOver(c, info[c], p) IN
       /\ info' = [info EXCEPT ![c] = after.info]
       /\ Relay(c, <<Over(p)>> \o after.sent, inbox)
  /\ causes' = causes \cup (IF Pending(c, {"over"}) THEN {"deaths crossed"} ELSE {})
                      \cup (IF Restarting THEN {"restart crossed"} ELSE {})
  /\ UNCHANGED gone

\* Somebody presses Restart: the server asks every client.
AskRestart ==
  /\ Spend("restarts")
  /\ inbox' = [c \in Client |-> IF c \in gone THEN inbox[c] ELSE Append(inbox[c], [type |-> "ask"])]
  /\ causes' = IF \E c \in Client : inbox[c] # << >> THEN causes \cup {"restart crossed"} ELSE causes
  /\ UNCHANGED <<info, gone>>

\* A client vanishes, with what it has not read.
Vanish(c) ==
  /\ c \notin gone
  /\ Spend("vanish")
  /\ gone' = gone \cup {c}
  /\ inbox' = [d \in Client |-> IF d = c THEN << >> ELSE IF d \in gone THEN inbox[d]
                                ELSE Append(inbox[d], [type |-> "gone", client |-> c])]
  /\ causes' = causes \cup {"client vanished"}
  /\ UNCHANGED info

\* handleRemoveClient ends the board of every player, one after the other, whoever vanished: with the
\* rules told of each, the place of a player is behind those whose turn is still to come.
EndAll(c, i) ==
  LET ended   == SelectIn(Order, Playing(i))
      turn(p) == CHOOSE k \in DOMAIN ended : ended[k] = p
      own     == SelectIn(ended, {p \in Player : isLocal(c, p)})
  IN  [info |-> [p \in Player |->
         IF p \notin Playing(i) THEN i[p]
         ELSE IF Cardinality(Player) = 1 THEN [i[p] EXCEPT !.isGameOver = TRUE]
         ELSE [i[p] EXCEPT !.isGameOver = TRUE, !.data.position = Len(ended) - turn(p) + 1]],
       sent |-> [k \in DOMAIN own |-> Over(own[k])]]

\* What a message makes of what the client sees.
Handled(c, i, m) ==
  CASE m.type = "rows" -> RowsRemoved(c, i, m.player, m.n)
    [] m.type = "over" -> End(c, i, m.player)
    [] m.type = "external" -> [info |-> [i EXCEPT ![m.player].externalRows = @ + 2], sent |-> << >>]
    [] m.type = "ask" -> [info |-> restart(i, c), sent |-> <<[type |-> "restart", client |-> c]>>]
    [] m.type = "restart" -> [info |-> restart(i, m.client), sent |-> << >>]
    [] m.type = "gone" -> EndAll(c, i)

\* A copy whose board is over does nothing more, and a player that was removed is not found.
Ignored(c, i, m) ==
  \/ m.type \in {"rows", "external", "over"} /\ Owner[m.player] \in gone
  \/ m.type = "rows" /\ i[m.player].isGameOver
  \/ m.type = "restart" /\ m.client \in gone

Receive(c) ==
  /\ inbox[c] # << >>
  /\ LET m     == Head(inbox[c])
         after == IF Ignored(c, info[c], m) THEN [info |-> info[c], sent |-> << >>] ELSE Handled(c, info[c], m)
     IN  /\ info' = [info EXCEPT ![c] = after.info]
         /\ Relay(c, after.sent, [inbox EXCEPT ![c] = Tail(@)])
  /\ UNCHANGED <<plan, gone, causes>>

Next ==
  \/ \E c \in Client : \E p \in Player :
       \/ \E n \in {1, 4} : LocalRows(c, p, n)
       \/ LocalDeath(c, p)
  \/ \E c \in Client : Receive(c) \/ Vanish(c)
  \/ AskRestart

Spec == Init /\ [][Next]_vars

-----------------------------------------------------------------------------
(* Properties *)

Quiet == \A c \in Client : inbox[c] = << >>

Here == Client \ gone

\* A game of several ends when one is left, however deaths, restarts and clients that vanish cross:
\* when all has arrived, nobody plays alone, unless nobody else is there.
NobodyPlaysAlone ==
  Quiet /\ Cardinality({p \in Player : Owner[p] \in Here}) > 1 =>
    \A c \in Here : Cardinality(Playing(info[c])) # 1

\* If nothing crossed, all clients see the same places when all has arrived: those that are out have
\* the last ones, each its own, and so there is one winner at most.  Who plays alone has no place.
PlacesAgree ==
  Cardinality(Player) > 1 /\ Quiet /\ causes = {} =>
    \A c, d \in Here :
      /\ \A p \in Player : info[c][p].data.position = info[d][p].data.position
      /\ LET out == Player \ Playing(info[c]) IN
           {info[c][p].data.position : p \in out}
             = Cardinality(Player) - Cardinality(out) + 1 .. Cardinality(Player)

\* The rows that the players of S have removed, as i counts them.
RowsOf(S, i) == UNION {{p} \X (1 .. i[p].clearedRows) : p \in S}

\* If nothing crossed with a restart: points are given for rows, the level is at most one behind the
\* rows and the gravity is that of the level; or a player has had the rows that its opponents removed,
\* each once, wherever they play.
ScoreFollowsRows ==
  /\ TypeOK
  /\ Quiet /\ "restart crossed" \notin causes =>
       \A p \in Player : Owner[p] \in Here =>
         LET i == info[Owner[p]]
             d == i[p].data
         IN  /\ plan.rules = "Default" =>
                  /\ d.points >= i[p].clearedRows
                  /\ d.points = 0 <=> i[p].clearedRows = 0
                  /\ i[p].clearedRows \div LevelUpNbr + 1 \in {d.level, d.level + 1}
                  /\ i[p].gravity = d.level
             /\ plan.rules = "Survival" /\ gone = {} => d.opponentRows = Cardinality(RowsOf(Player \ {p}, i))
==============================================================================
