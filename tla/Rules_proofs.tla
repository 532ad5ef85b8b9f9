---------------------------- MODULE Rules_proofs ----------------------------
(***************************************************************************)
(* Proofs about the rules of a game of several players on several clients,  *)
(* for any number of clients and players, any budgets of what happens, and  *)
(* every order in which messages, restarts and losses of clients cross:     *)
(* nobody plays alone; and where nothing crossed, all agree on the places   *)
(* and the scores follow the rows.                                          *)
(***************************************************************************)
EXTENDS Rules, NumbersAndQueues

-----------------------------------------------------------------------------
(* Messages *)

IsRestart(m, c) == m.type = "restart" /\ m.client = c
IsOver(m, p) == m.type = "over" /\ m.player = p

\* What makes a client see the player q play, or not.
Starts(m, q) == IsRestart(m, Owner[q])
Ends(m, q) == m.type = "gone" \/ IsOver(m, q)

Has(box, types) == \E k \in DOMAIN box : box[k].type \in types

\* A client that sees i and has box still to read will see q play, unless more is sent.
WillPlay(box, i, q) ==
  \/ /\ ~i[q].isGameOver
     /\ \A k \in DOMAIN box : ~Ends(box[k], q)
  \/ \E k \in DOMAIN box :
       /\ Starts(box[k], q)
       /\ \A j \in DOMAIN box : j > k => ~Ends(box[j], q)

\* A message is about another client than its receiver; those of g have vanished.
FromOther(g, d, m) ==
  /\ m.type \in {"rows", "over", "external"} => Owner[m.player] # d
  /\ m.type \in {"restart", "gone"} => m.client # d
  /\ m.type = "gone" => m.client \in g

Routed ==
  /\ \A d \in Client : \A k \in DOMAIN inbox[d] : FromOther(gone, d, inbox[d][k])
  /\ \A d \in gone : inbox[d] = << >>
  /\ gone # {} => "client vanished" \in causes

-----------------------------------------------------------------------------
(* Who plays *)

\* What a client will see of a player of another is what that one sees, unless that one is about to
\* end all boards.
ViewsMeet(c, d) ==
  \A q \in Player : Owner[q] = d =>
    /\ q \notin Playing(info[d]) => ~WillPlay(inbox[c], info[c], q)
    /\ q \in Playing(info[d]) /\ ~Has(inbox[d], {"gone"}) => WillPlay(inbox[c], info[c], q)

\* The answer of c to the request at place k of the inbox of d is behind it, or still to come.
Answers(c, d, k) ==
  \/ Has(inbox[c], {"ask"})
  \/ \E j \in DOMAIN inbox[d] : j > k /\ IsRestart(inbox[d][j], c)

AsksAnswered(c, d) == \A k \in DOMAIN inbox[d] : inbox[d][k].type = "ask" => Answers(c, d, k)

\* The players of client c will be restarted at d.
Expected(d, c) ==
  \/ c # d /\ Has(inbox[c], {"ask"})
  \/ \E j \in DOMAIN inbox[d] : IsRestart(inbox[d][j], c)

\* Nobody but q has a client.
NobodyElse(q) == \A p \in Player : Owner[p] \in Here => p = q

\* A local player that plays alone waits for others to be restarted, or for its end.
AloneWaits(d) ==
  \A q \in Player : Owner[q] = d /\ Playing(info[d]) = {q} =>
    \/ Has(inbox[d], {"gone"})
    \/ NobodyElse(q)
    \/ \E p \in Player : Owner[p] \in Here \ {d} /\ Expected(d, Owner[p])

GoneAreOut(c) ==
  \A p \in Player : Owner[p] \in gone => p \notin Playing(info[c]) \/ Has(inbox[c], {"gone"})

PlayInv ==
  /\ TypeOK
  /\ Routed
  /\ \A c, d \in Here : c # d => ViewsMeet(c, d) /\ AsksAnswered(c, d)
  /\ \A d \in Here : AloneWaits(d) /\ GoneAreOut(d)

-----------------------------------------------------------------------------
(* Restarts that nothing crossed *)

Uncrossed == "restart crossed" \notin causes

\* A request is the first that c reads.
AsksFirst(c) == \A k \in DOMAIN inbox[c] : inbox[c][k].type = "ask" => k = 1

\* Who has read a request has no rows.
NoRows ==
  \A p \in Player : Owner[p] \in Here =>
    Has(inbox[Owner[p]], {"ask"}) \/ info[Owner[p]][p].clearedRows = 0

RestartsFirst == Uncrossed => (\A c \in Here : AsksFirst(c)) /\ (Restarting => NoRows)

Scored(x) ==
  /\ x.data.points >= x.clearedRows
  /\ x.data.points = 0 <=> x.clearedRows = 0
  /\ x.clearedRows \div LevelUpNbr + 1 \in {x.data.level, x.data.level + 1}
  /\ x.gravity = x.data.level

DefaultScored ==
  plan.rules = "Default" /\ Uncrossed => \A p \in Player : Owner[p] \in Here => Scored(info[Owner[p]][p])

Fresh(x) == ~x.isGameOver /\ x.clearedRows = 0

\* All at client c is new, or will be.
Renewed(c) == \A p \in Player : info[c][p].data = NewData /\ (Fresh(info[c][p]) \/ Expected(c, Owner[p]))

\* While a restart that nothing crossed is under way, nobody plays.
Clean ==
  /\ \A c \in Client : \A k \in DOMAIN inbox[c] : inbox[c][k].type \in {"ask", "restart"}
  /\ \A c \in Client : Has(inbox[c], {"ask"}) \/ Renewed(c)

RestartsClean == Uncrossed /\ gone = {} /\ Restarting => Clean

\* p has had the rows of its opponents, as its client i counts them.
HasRowsOf(i, p) == i[p].data.opponentRows = Cardinality(RowsOf(Player \ {p}, i))

SurvivalCounted ==
  plan.rules = "Survival" /\ Uncrossed /\ gone = {} /\ ~Restarting => \A p \in Player : HasRowsOf(info[Owner[p]], p)

ScoreInv == RestartsFirst /\ DefaultScored /\ RestartsClean /\ SurvivalCounted

-----------------------------------------------------------------------------
(* Places *)

\* Who is out, and at which place, as one client has it; and as the client of each player has it.
OutOf(i) == {p \in Player : i[p].isGameOver}
Positions(i) == [p \in Player |-> i[p].data.position]
Out == {p \in Player : info[Owner[p]][p].isGameOver}
Places == [p \in Player |-> info[Owner[p]][p].data.position]

\* Of those that are out, O, each has a place of its own, behind all that play on.
Taken(O, pl) ==
  \A p \in O :
    /\ pl[p] = Cardinality(Player) - Cardinality({q \in O : pl[q] > pl[p]})
    /\ \A q \in O : pl[q] = pl[p] => q = p

\* A client that has seen the first ones of O, X, at pos, will read of the others in their order in box.
Sees(O, pl, X, pos, box) ==
  /\ X \subseteq O
  /\ \A p \in Player : pos[p] = IF p \in X THEN pl[p] ELSE 0
  /\ \A p \in X, q \in O \ X : pl[p] > pl[q]
  /\ \A p \in O \ X : \E k \in DOMAIN box : IsOver(box[k], p)
  /\ \A k \in DOMAIN box : box[k].type = "over" => box[k].player \in O \ X
  /\ \A j, k \in DOMAIN box :
       box[j].type = "over" /\ box[k].type = "over" /\ j < k => pl[box[j].player] > pl[box[k].player]

\* All clients do: client d sees V[d] out at P[d], and has B[d] to read.
AllSee(O, pl, V, P, B) == Taken(O, pl) /\ \A d \in Client : Sees(O, pl, V[d], P[d], B[d])

Outs == [d \in Client |-> OutOf(info[d])]
Standings == [d \in Client |-> Positions(info[d])]

PlacesHold == AllSee(Out, Places, Outs, Standings, inbox)

PlaceInv == causes = {} /\ ~Restarting /\ Cardinality(Player) > 1 => PlacesHold

-----------------------------------------------------------------------------
(* Boxes: what is appended to one, and what is read from it *)

\* The places of a box that was added to.
LEMMA Added ==
  ASSUME NEW T, NEW box \in Seq(T), NEW sent \in Seq(T)
  PROVE  /\ box \o sent \in Seq(T)
         /\ \A k \in DOMAIN box : k \in DOMAIN (box \o sent) /\ (box \o sent)[k] = box[k]
         /\ \A k \in DOMAIN sent :
              /\ Len(box) + k \in DOMAIN (box \o sent)
              /\ (box \o sent)[Len(box) + k] = sent[k]
              /\ \A j \in DOMAIN box : j < Len(box) + k
         /\ \A k \in DOMAIN (box \o sent) :
              \/ k \in DOMAIN box /\ (box \o sent)[k] = box[k]
              \/ \E j \in DOMAIN sent : k = Len(box) + j /\ (box \o sent)[k] = sent[j]
<1>1. /\ Len(box) \in Nat /\ Len(sent) \in Nat
      /\ DOMAIN box = 1 .. Len(box) /\ DOMAIN sent = 1 .. Len(sent)
  BY LenProperties
<1>2. /\ box \o sent \in Seq(T)
      /\ Len(box \o sent) = Len(box) + Len(sent)
      /\ \A i \in 1 .. Len(box) + Len(sent) :
           (box \o sent)[i] = IF i <= Len(box) THEN box[i] ELSE sent[i - Len(box)]
  BY ConcatProperties
<1>3. DOMAIN (box \o sent) = 1 .. Len(box) + Len(sent)
  BY <1>2, LenProperties
<1> DEFINE b == Len(box)
           s == Len(sent)
           all == box \o sent
<1> HIDE DEF b, s, all
<1>4. /\ b \in Nat /\ s \in Nat /\ DOMAIN box = 1 .. b /\ DOMAIN sent = 1 .. s /\ DOMAIN all = 1 .. b + s
      /\ \A i \in 1 .. b + s : all[i] = IF i <= b THEN box[i] ELSE sent[i - b]
  BY <1>1, <1>2, <1>3 DEF b, s, all
<1>5. \A k \in DOMAIN box : k \in DOMAIN all /\ all[k] = box[k]
  BY <1>4
<1>6. ASSUME NEW k \in DOMAIN sent
      PROVE  b + k \in DOMAIN all /\ all[b + k] = sent[k] /\ \A j \in DOMAIN box : j < b + k
  <2>1. k \in 1 .. s /\ b + k \in 1 .. b + s /\ ~(b + k <= b) /\ b + k - b = k
    BY <1>4
  <2> QED BY <1>4, <2>1
<1>7. ASSUME NEW k \in DOMAIN all
      PROVE  \/ k \in DOMAIN box /\ all[k] = box[k]
             \/ \E j \in DOMAIN sent : k = b + j /\ all[k] = sent[j]
  <2>1. CASE k <= b
    BY <1>4, <2>1
  <2>2. CASE ~(k <= b)
    <3>1. k - b \in 1 .. s /\ k = b + (k - b) /\ k \in 1 .. b + s
      BY <1>4, <2>2
    <3>2. all[k] = sent[k - b] /\ k - b \in DOMAIN sent
      BY <1>4, <2>2, <3>1
    <3> QED BY <3>1, <3>2
  <2> QED BY <2>1, <2>2
<1>8. all \in Seq(T)
  BY <1>2 DEF all
<1> QED BY <1>5, <1>6, <1>7, <1>8 DEF all, b

\* The places of a box that was read from.
LEMMA Read ==
  ASSUME NEW T, NEW box \in Seq(T), box # << >>
  PROVE  /\ Head(box) \in T /\ 1 \in DOMAIN box /\ box[1] = Head(box)
         /\ Tail(box) \in Seq(T)
         /\ \A k \in DOMAIN Tail(box) : k \in Nat /\ k + 1 \in DOMAIN box /\ Tail(box)[k] = box[k + 1]
         /\ \A k \in DOMAIN box : k \in Nat /\ (k = 1 \/ (k - 1 \in DOMAIN Tail(box) /\ Tail(box)[k - 1] = box[k]))
<1>1. Len(box) \in Nat \ {0} /\ DOMAIN box = 1 .. Len(box)
  BY LenProperties, EmptySeq
<1>2. /\ Head(box) \in T
      /\ Tail(box) \in Seq(T)
      /\ Len(Tail(box)) = Len(box) - 1
      /\ \A i \in 1 .. Len(Tail(box)) : Tail(box)[i] = box[i + 1]
  BY HeadTailProperties
<1>3. DOMAIN Tail(box) = 1 .. Len(box) - 1
  BY <1>2, LenProperties
<1>4. Head(box) = box[1]
  OBVIOUS
<1> DEFINE b == Len(box)
           rest == Tail(box)
<1> HIDE DEF b, rest
<1>5. /\ b \in Nat \ {0} /\ DOMAIN box = 1 .. b /\ DOMAIN rest = 1 .. b - 1
      /\ \A i \in 1 .. b - 1 : rest[i] = box[i + 1]
  BY <1>1, <1>2, <1>3 DEF b, rest
<1>6. 1 \in DOMAIN box
  BY <1>5
<1>7. \A k \in DOMAIN rest : k \in Nat /\ k + 1 \in DOMAIN box /\ rest[k] = box[k + 1]
  BY <1>5
<1>8. ASSUME NEW k \in DOMAIN box PROVE k \in Nat /\ (k = 1 \/ (k - 1 \in DOMAIN rest /\ rest[k - 1] = box[k]))
  <2>1. CASE k # 1
    <3>1. k \in Nat /\ k - 1 \in 1 .. b - 1 /\ (k - 1) + 1 = k
      BY <1>5, <2>1
    <3>2. rest[k - 1] = box[(k - 1) + 1]
      BY <1>5, <3>1
    <3> QED BY <1>5, <3>1, <3>2
  <2> QED BY <1>5, <2>1
<1> QED BY <1>2, <1>4, <1>6, <1>7, <1>8 DEF rest

\* Nothing of what was sent has one of these types, so the box is as it was.
LEMMA HasAdded ==
  ASSUME NEW T, NEW box \in Seq(T), NEW sent \in Seq(T), NEW types
  PROVE  /\ Has(box, types) => Has(box \o sent, types)
         /\ Has(box \o sent, types) => Has(box, types) \/ Has(sent, types)
<1>1. ASSUME Has(box, types) PROVE Has(box \o sent, types)
  <2>1. PICK k \in DOMAIN box : box[k].type \in types
    BY <1>1 DEF Has
  <2>2. k \in DOMAIN (box \o sent) /\ (box \o sent)[k] = box[k]
    BY Added
  <2> QED BY <2>1, <2>2 DEF Has
<1>2. ASSUME Has(box \o sent, types) PROVE Has(box, types) \/ Has(sent, types)
  <2>1. PICK k \in DOMAIN (box \o sent) : (box \o sent)[k].type \in types
    BY <1>2 DEF Has
  <2>2. \/ k \in DOMAIN box /\ (box \o sent)[k] = box[k]
        \/ \E j \in DOMAIN sent : k = Len(box) + j /\ (box \o sent)[k] = sent[j]
    BY Added
  <2> QED BY <2>1, <2>2 DEF Has
<1> QED BY <1>1, <1>2

LEMMA HasRead ==
  ASSUME NEW T, NEW box \in Seq(T), box # << >>, NEW types
  PROVE  Has(box, types) <=> Head(box).type \in types \/ Has(Tail(box), types)
<1>1. ASSUME Has(box, types) PROVE Head(box).type \in types \/ Has(Tail(box), types)
  <2>1. PICK k \in DOMAIN box : box[k].type \in types
    BY <1>1 DEF Has
  <2>2. k = 1 \/ (k - 1 \in DOMAIN Tail(box) /\ Tail(box)[k - 1] = box[k])
    BY Read
  <2>3. box[1] = Head(box)
    BY Read
  <2> QED BY <2>1, <2>2, <2>3 DEF Has
<1>2. ASSUME Head(box).type \in types PROVE Has(box, types)
  <2>1. 1 \in DOMAIN box /\ box[1] = Head(box)
    BY Read
  <2> QED BY <1>2, <2>1 DEF Has
<1>3. ASSUME Has(Tail(box), types) PROVE Has(box, types)
  <2>1. PICK k \in DOMAIN Tail(box) : Tail(box)[k].type \in types
    BY <1>3 DEF Has
  <2>2. k + 1 \in DOMAIN box /\ Tail(box)[k] = box[k + 1]
    BY Read
  <2> QED BY <2>1, <2>2 DEF Has
<1> QED BY <1>1, <1>2, <1>3

-----------------------------------------------------------------------------
(* What a client will see *)

LEMMA WillPlayAdded ==
  ASSUME NEW T, NEW box \in Seq(T), NEW sent \in Seq(T), NEW i, NEW q \in Player,
         \A k \in DOMAIN sent : ~Starts(sent[k], q) /\ ~Ends(sent[k], q)
  PROVE  WillPlay(box \o sent, i, q) <=> WillPlay(box, i, q)
<1>1. /\ \A k \in DOMAIN box : k \in DOMAIN (box \o sent) /\ (box \o sent)[k] = box[k]
      /\ \A k \in DOMAIN (box \o sent) :
           \/ k \in DOMAIN box /\ (box \o sent)[k] = box[k]
           \/ \E j \in DOMAIN sent : (box \o sent)[k] = sent[j]
  BY Added
<1> DEFINE all == box \o sent
<1> HIDE DEF all
<1>2. \A k \in DOMAIN box : k \in DOMAIN all /\ all[k] = box[k]
  BY <1>1 DEF all
<1>3. \A k \in DOMAIN all : Starts(all[k], q) \/ Ends(all[k], q) => k \in DOMAIN box /\ all[k] = box[k]
  BY <1>1 DEF all
<1>4. (\A k \in DOMAIN all : ~Ends(all[k], q)) <=> (\A k \in DOMAIN box : ~Ends(box[k], q))
  BY <1>2, <1>3
<1>5. (\E k \in DOMAIN all : Starts(all[k], q) /\ \A j \in DOMAIN all : j > k => ~Ends(all[j], q))
      <=> (\E k \in DOMAIN box : Starts(box[k], q) /\ \A j \in DOMAIN box : j > k => ~Ends(box[j], q))
  BY <1>2, <1>3
<1>6. WillPlay(all, i, q) <=> WillPlay(box, i, q)
  BY <1>4, <1>5 DEF WillPlay
<1> QED BY <1>6 DEF all

LEMMA WillEndAdded ==
  ASSUME NEW T, NEW box \in Seq(T), NEW sent \in Seq(T), NEW i, NEW q \in Player,
         \A k \in DOMAIN sent : ~Starts(sent[k], q),
         \E k \in DOMAIN sent : Ends(sent[k], q)
  PROVE  ~WillPlay(box \o sent, i, q)
<1>1. PICK k \in DOMAIN sent : Ends(sent[k], q)
  OBVIOUS
<1>2. /\ Len(box) + k \in DOMAIN (box \o sent)
      /\ (box \o sent)[Len(box) + k] = sent[k]
      /\ \A j \in DOMAIN box : j < Len(box) + k
      /\ \A n \in DOMAIN (box \o sent) : n \in DOMAIN box \/ \E j \in DOMAIN sent : (box \o sent)[n] = sent[j]
  BY Added
<1>3. \A n \in DOMAIN (box \o sent) : Starts((box \o sent)[n], q) => n < Len(box) + k
  BY <1>2
<1>4. DOMAIN (box \o sent) \subseteq Nat /\ Len(box) + k \in Nat
  <2>1. box \o sent \in Seq(T)
    BY Added
  <2>2. DOMAIN (box \o sent) = 1 .. Len(box \o sent) /\ Len(box \o sent) \in Nat
    BY <2>1, LenProperties
  <2> QED BY <1>2, <2>2
<1>5. \A n \in DOMAIN (box \o sent) : Starts((box \o sent)[n], q) => Len(box) + k > n
  <2> DEFINE last == Len(box) + k
             all == box \o sent
  <2> HIDE DEF last, all
  <2>1. \A n \in DOMAIN all : n \in Nat /\ last \in Nat /\ (Starts(all[n], q) => n < last)
    BY <1>3, <1>4 DEF last, all
  <2>2. \A n \in DOMAIN all : Starts(all[n], q) => last > n
    BY <2>1
  <2> QED BY <2>2 DEF last, all
<1> QED BY <1>1, <1>2, <1>5 DEF WillPlay

LEMMA WillStartAdded ==
  ASSUME NEW T, NEW box \in Seq(T), NEW m \in T, NEW i, NEW q \in Player, Starts(m, q)
  PROVE  WillPlay(box \o <<m>>, i, q)
<1> DEFINE sent == <<m>>
<1>1. sent \in Seq(T) /\ Len(sent) = 1 /\ DOMAIN sent = 1 .. 1 /\ sent[1] = m
  OBVIOUS
<1> HIDE DEF sent
<1>2. /\ Len(box) + 1 \in DOMAIN (box \o sent)
      /\ (box \o sent)[Len(box) + 1] = m
      /\ \A n \in DOMAIN (box \o sent) : n \in DOMAIN box \/ \E j \in DOMAIN sent : n = Len(box) + j
  <2>1. 1 \in DOMAIN sent
    BY <1>1
  <2> QED BY <1>1, <2>1, Added
<1>3. \A n \in DOMAIN (box \o sent) : ~(n > Len(box) + 1)
  <2>1. DOMAIN box = 1 .. Len(box) /\ Len(box) \in Nat
    BY LenProperties
  <2> DEFINE b == Len(box)
  <2> HIDE DEF b
  <2>2. \A n \in 1 .. b : ~(n > b + 1)
    BY <2>1 DEF b
  <2>3. \A j \in DOMAIN sent : ~(b + j > b + 1)
    BY <1>1, <2>1 DEF b
  <2> QED BY <1>2, <2>1, <2>2, <2>3 DEF b
<1>4. WillPlay(box \o sent, i, q)
  BY <1>2, <1>3 DEF WillPlay
<1> QED BY <1>4 DEF sent

\* What is read is seen.
LEMMA WillPlayRead ==
  ASSUME NEW T, NEW box \in Seq(T), box # << >>, NEW i, NEW seen, NEW q \in Player,
         seen[q].isGameOver \in BOOLEAN, i[q].isGameOver \in BOOLEAN,
         seen[q].isGameOver <=> ~Starts(Head(box), q) /\ (i[q].isGameOver \/ Ends(Head(box), q)),
         ~(Starts(Head(box), q) /\ Ends(Head(box), q))
  PROVE  WillPlay(Tail(box), seen, q) <=> WillPlay(box, i, q)
<1> DEFINE m == Head(box)
           rest == Tail(box)
<1>1. /\ 1 \in DOMAIN box /\ box[1] = m
      /\ \A k \in DOMAIN rest : k \in Nat /\ k + 1 \in DOMAIN box /\ rest[k] = box[k + 1]
      /\ \A k \in DOMAIN box : k \in Nat /\ (k = 1 \/ (k - 1 \in DOMAIN rest /\ rest[k - 1] = box[k]))
  BY Read
<1>a. /\ seen[q].isGameOver <=> ~Starts(m, q) /\ (i[q].isGameOver \/ Ends(m, q))
      /\ ~(Starts(m, q) /\ Ends(m, q))
  OBVIOUS
<1> HIDE DEF m, rest
<1>2. ASSUME WillPlay(rest, seen, q) PROVE WillPlay(box, i, q)
  <2>1. CASE \E k \in DOMAIN rest : Starts(rest[k], q) /\ \A j \in DOMAIN rest : j > k => ~Ends(rest[j], q)
    <3>1. PICK k \in DOMAIN rest : Starts(rest[k], q) /\ \A j \in DOMAIN rest : j > k => ~Ends(rest[j], q)
      BY <2>1
    <3>2. k \in Nat /\ k + 1 \in DOMAIN box /\ Starts(box[k + 1], q)
      BY <1>1, <3>1
    <3>3. ASSUME NEW j \in DOMAIN box, j > k + 1 PROVE ~Ends(box[j], q)
      <4>1. j \in Nat /\ j # 1 /\ j - 1 > k
        BY <1>1, <3>2, <3>3
      <4> QED BY <1>1, <3>1, <4>1
    <3> QED BY <3>2, <3>3 DEF WillPlay
  <2>2. CASE ~seen[q].isGameOver /\ \A k \in DOMAIN rest : ~Ends(rest[k], q)
    <3>1. CASE Starts(m, q)
      <4>1. ASSUME NEW j \in DOMAIN box, j > 1 PROVE ~Ends(box[j], q)
        <5>1. j # 1
          BY <1>1, <4>1
        <5> QED BY <1>1, <2>2, <5>1
      <4> QED BY <1>1, <3>1, <4>1 DEF WillPlay
    <3>2. CASE ~Starts(m, q)
      <4>1. ~i[q].isGameOver /\ ~Ends(m, q)
        BY <1>a, <2>2, <3>2
      <4>2. \A k \in DOMAIN box : ~Ends(box[k], q)
        BY <1>1, <2>2, <4>1
      <4> QED BY <4>1, <4>2 DEF WillPlay
    <3> QED BY <3>1, <3>2
  <2> QED BY <1>2, <2>1, <2>2 DEF WillPlay
<1>3. ASSUME WillPlay(box, i, q) PROVE WillPlay(rest, seen, q)
  <2>1. CASE \E k \in DOMAIN box : Starts(box[k], q) /\ \A j \in DOMAIN box : j > k => ~Ends(box[j], q)
    <3>1. PICK k \in DOMAIN box : Starts(box[k], q) /\ \A j \in DOMAIN box : j > k => ~Ends(box[j], q)
      BY <2>1
    <3>2. ASSUME NEW j \in DOMAIN rest, j > k - 1 PROVE ~Ends(rest[j], q)
      <4>1. j \in Nat /\ k \in Nat /\ j + 1 \in DOMAIN box /\ j + 1 > k /\ rest[j] = box[j + 1]
        BY <1>1, <3>2
      <4> QED BY <3>1, <4>1
    <3>3. CASE k = 1
      <4>1. Starts(m, q) /\ ~seen[q].isGameOver
        BY <1>1, <1>a, <3>1, <3>3
      <4>2. \A j \in DOMAIN rest : ~Ends(rest[j], q)
        <5>1. ASSUME NEW j \in DOMAIN rest PROVE ~Ends(rest[j], q)
          <6>1. j \in Nat /\ j + 1 \in DOMAIN box
            BY <1>1
          <6>2. j + 1 \in Nat /\ (j + 1 = 1 \/ j + 1 > 1)
            BY <6>1
          <6>3. j + 1 > 1 => ~Ends(box[j + 1], q)
            BY <3>1, <3>3, <6>1
          <6>4. j \in DOMAIN rest /\ rest[j] = box[j + 1]
            BY <1>1
          <6>5. j # 0
            <7>1. Tail(box) \in Seq(T)
              BY Read
            <7>2. DOMAIN Tail(box) = 1 .. Len(Tail(box))
              BY <7>1, LenProperties
            <7>3. 0 \notin 1 .. Len(Tail(box))
              BY <7>1, LenProperties
            <7> QED BY <7>2, <7>3 DEF rest
          <6> QED BY <6>1, <6>2, <6>3, <6>4, <6>5
        <5> QED BY <5>1
      <4> QED BY <4>1, <4>2 DEF WillPlay
    <3>4. CASE k # 1
      <4>1. k - 1 \in DOMAIN rest /\ Starts(rest[k - 1], q)
        BY <1>1, <3>1, <3>4
      <4> QED BY <3>2, <4>1 DEF WillPlay
    <3> QED BY <3>3, <3>4
  <2>2. CASE ~i[q].isGameOver /\ \A k \in DOMAIN box : ~Ends(box[k], q)
    <3>1. ~seen[q].isGameOver
      BY <1>1, <1>a, <2>2
    <3>2. \A k \in DOMAIN rest : ~Ends(rest[k], q)
      BY <1>1, <2>2
    <3> QED BY <3>1, <3>2 DEF WillPlay
  <2> QED BY <1>3, <2>1, <2>2 DEF WillPlay
<1> QED BY <1>2, <1>3 DEF rest

-----------------------------------------------------------------------------
(* What the rules make of what they see *)

Seen == [isGameOver : BOOLEAN, clearedRows : Nat, externalRows : Nat, gravity : Nat, data : Data]
View == [Player -> Seen]

LEMMA PlayersAreFinite ==
  /\ IsFiniteSet(Player) /\ Cardinality(Player) \in Nat
  /\ \A S \in SUBSET Player : IsFiniteSet(S) /\ Cardinality(S) \in 0 .. Cardinality(Player)
<1>1. IsFiniteSet(Player) /\ Cardinality(Player) \in Nat
  BY RulesAssumption, FS_CardinalityType
<1>2. ASSUME NEW S \in SUBSET Player PROVE IsFiniteSet(S) /\ Cardinality(S) \in 0 .. Cardinality(Player)
  <2>1. IsFiniteSet(S) /\ Cardinality(S) <= Cardinality(Player)
    BY <1>1, FS_Subset
  <2>2. Cardinality(S) \in Nat
    BY <2>1, FS_CardinalityType
  <2> QED BY <1>1, <2>1, <2>2
<1> QED BY <1>1, <1>2

\* sent tells of the end of each player of S, and of nothing else.
TellsOver(sent, S) ==
  /\ sent \in Seq(Message)
  /\ \A k \in DOMAIN sent : sent[k].type = "over" /\ sent[k].player \in S
  /\ \A p \in S : \E k \in DOMAIN sent : sent[k] = Over(p)

LEMMA OverIsMessage ==
  ASSUME NEW p \in Player
  PROVE  Over(p) \in Message /\ Over(p).type = "over" /\ Over(p).player = p
BY DEF Over, Message

LEMMA SetToSeqParts ==
  ASSUME NEW S, IsFiniteSet(S)
  PROVE  /\ SetToSeq(S) \in [1 .. Cardinality(S) -> S]
         /\ \A x \in S : \E k \in 1 .. Cardinality(S) : SetToSeq(S)[k] = x
<1> DEFINE n == Cardinality(S)
           f == SetToSeq(S)
<1>1. n \in Nat /\ ExistsBijection(1 .. n, S)
  BY FS_CardinalityType
<1> HIDE DEF n
<1>2. PICK g \in [1 .. n -> S] : \A a, b \in 1 .. n : g[a] = g[b] => a = b
  BY <1>1 DEF ExistsBijection, Bijection, Injection, IsInjective
<1>3. \E h \in [1 .. n -> S] : IsInjective(h)
  BY <1>2 DEF IsInjective
<1>4. f \in [1 .. n -> S] /\ IsInjective(f)
  BY <1>3 DEF SetToSeq, n
<1>5. f \in Injection(1 .. n, S)
  BY <1>4 DEF Injection, IsInjective
<1>6. IsFiniteSet(1 .. n) /\ Cardinality(1 .. n) = n
  <2>1. Cardinality(1 .. n) = IF 1 > n THEN 0 ELSE n - 1 + 1
    BY <1>1, FS_Interval
  <2>2. IsFiniteSet(1 .. n)
    BY <1>1, FS_Interval
  <2> QED BY <1>1, <2>1, <2>2
<1>7. f \in Surjection(1 .. n, S)
  BY <1>5, <1>6, FS_Injection DEF n
<1>8. \A x \in S : \E k \in 1 .. n : f[k] = x
  BY <1>7 DEF Surjection
<1> QED BY <1>4, <1>8 DEF n

LEMMA TellsSetToSeq ==
  ASSUME NEW S \in SUBSET Player
  PROVE  TellsOver(SetToSeq({Over(p) : p \in S}), S)
<1> DEFINE overs == {Over(p) : p \in S}
           sent == SetToSeq(overs)
<1>1. IsFiniteSet(overs)
  <2> DEFINE f == [p \in S |-> Over(p)]
  <2>1. f \in Surjection(S, overs)
    BY DEF Surjection
  <2>2. IsFiniteSet(S)
    BY PlayersAreFinite
  <2> HIDE DEF f, overs
  <2> QED BY <2>1, <2>2, FS_Surjection
<1> DEFINE n == Cardinality(overs)
<1>2. n \in Nat
  BY <1>1, FS_CardinalityType
<1>3. /\ sent \in [1 .. n -> overs]
      /\ \A x \in overs : \E k \in 1 .. n : sent[k] = x
  <2> HIDE DEF overs
  <2> QED BY <1>1, SetToSeqParts
<1>4. overs \subseteq Message
  BY OverIsMessage
<1> HIDE DEF n, sent
<1>5. sent \in Seq(Message) /\ DOMAIN sent = 1 .. n
  <2> HIDE DEF overs
  <2>1. sent \in Seq(overs)
    BY <1>2, <1>3
  <2>2. sent \in [1 .. n -> Message]
    BY <1>3, <1>4
  <2> QED BY <1>2, <2>2
<1>6. \A k \in DOMAIN sent : sent[k].type = "over" /\ sent[k].player \in S
  BY <1>3, <1>5, OverIsMessage
<1>7. \A p \in S : \E k \in DOMAIN sent : sent[k] = Over(p)
  BY <1>3, <1>5
<1> QED BY <1>5, <1>6, <1>7 DEF TellsOver, sent

\* All but who is out, and at which place, is as it was.
OnlyPlaces(i, seen) ==
  \A q \in Player :
    /\ seen[q].clearedRows = i[q].clearedRows
    /\ seen[q].externalRows = i[q].externalRows
    /\ seen[q].gravity = i[q].gravity
    /\ seen[q].data.level = i[q].data.level
    /\ seen[q].data.points = i[q].data.points
    /\ seen[q].data.opponentRows = i[q].data.opponentRows

\* Who gameOver ends besides p: the last one, if it is local to c.
LastOne(c, i, p) ==
  IF Cardinality(Playing(i) \ {p}) = 1 THEN {q \in Playing(i) \ {p} : Owner[q] = c} ELSE {}

\* The places after it: p is behind those that play, the last one is first.
PlacedOver(c, i, p, seen) ==
  \A q \in Player : seen[q].data.position =
    IF q \in LastOne(c, i, p) THEN 1
    ELSE IF q = p THEN Cardinality(Playing(i) \ {p}) + 1
    ELSE i[q].data.position

LEMMA GameOverParts ==
  ASSUME NEW c \in Client, NEW i \in View, NEW p \in Player
  PROVE  LET after == gameOver(c, i, p)
             rest  == Playing(i) \ {p}
             last  == LastOne(c, i, p)
         IN  /\ after.info \in View
             /\ Playing(after.info) = rest \ last
             /\ OnlyPlaces(i, after.info)
             /\ Cardinality(Player) # 1 => PlacedOver(c, i, p, after.info)
             /\ TellsOver(after.sent, last)
<1> DEFINE over == [i EXCEPT ![p].isGameOver = TRUE]
           rest == Playing(i) \ {p}
           nbr == Cardinality(Playing(over))
           last == IF nbr = 1 THEN {q \in Playing(over) : isLocal(c, q)} ELSE {}
           N == Cardinality(Player)
           info2 == [q \in Player |->
                       IF N = 1 THEN over[q]
                       ELSE IF q \in last THEN [over[q] EXCEPT !.isGameOver = TRUE, !.data.position = 1]
                       ELSE IF q = p THEN [over[q] EXCEPT !.data.position = nbr + 1]
                       ELSE over[q]]
<1>1. gameOver(c, i, p) = [info |-> info2, sent |-> SetToSeq({Over(q) : q \in last})]
  BY DEF gameOver
<1>2. over \in View /\ \A q \in Player :
        /\ q # p => over[q] = i[q]
        /\ over[q].isGameOver <=> (i[q].isGameOver \/ q = p)
        /\ over[q].clearedRows = i[q].clearedRows /\ over[q].externalRows = i[q].externalRows
        /\ over[q].gravity = i[q].gravity /\ over[q].data = i[q].data
  BY DEF View, Seen
<1>3. Playing(over) = rest
  BY <1>2 DEF Playing
<1>4. last = LastOne(c, i, p)
  BY <1>3 DEF LastOne, isLocal
<1>5. last \in SUBSET rest /\ rest \in SUBSET Player
  BY <1>3, <1>4 DEF Playing
<1>6. N \in Nat /\ nbr \in Nat /\ nbr + 1 \in 0 .. N /\ (N # 1 => 1 \in 0 .. N) /\ (N = 1 => last = {})
  <2>1. N \in Nat /\ IsFiniteSet(Player)
    BY PlayersAreFinite
  <2>2. nbr \in 0 .. N
    BY <1>3, <1>5, PlayersAreFinite
  <2>3. IsFiniteSet(rest) /\ rest # Player /\ rest \in SUBSET Player
    BY <1>5, PlayersAreFinite
  <2>4. nbr # N
    BY <1>3, <2>1, <2>3, FS_Subset
  <2>5. N = 1 => nbr = 0
    BY <2>1, <2>2, <2>4
  <2> HIDE DEF nbr, N
  <2>6. nbr + 1 \in 0 .. N /\ (N # 1 => 1 \in 0 .. N) /\ (N = 1 => ~(nbr = 1))
    BY <2>1, <2>2, <2>4, <2>5
  <2>7. N = 1 => last = {}
    BY <2>6
  <2> QED BY <2>1, <2>2, <2>6, <2>7
<1> HIDE DEF over, N, nbr, last
<1>7. info2 \in View
  <2>1. ASSUME NEW q \in Player PROVE info2[q] \in Seen
    <3>1. over[q] \in Seen
      BY <1>2 DEF View
    <3>2. over[q].data \in Data
      BY <3>1 DEF Seen
    <3>3. N # 1 => [over[q] EXCEPT !.isGameOver = TRUE, !.data.position = 1] \in Seen
      BY <3>1, <3>2, <1>6 DEF Seen, Data, N
    <3>4. [over[q] EXCEPT !.data.position = nbr + 1] \in Seen
      BY <3>1, <3>2, <1>6 DEF Seen, Data, N
    <3> QED BY <3>1, <3>3, <3>4
  <2> QED BY <2>1 DEF View
<1>8. \A q \in Player :
        /\ info2[q].isGameOver <=> (over[q].isGameOver \/ q \in last)
        /\ info2[q].clearedRows = over[q].clearedRows /\ info2[q].externalRows = over[q].externalRows
        /\ info2[q].gravity = over[q].gravity /\ info2[q].data.level = over[q].data.level
        /\ info2[q].data.points = over[q].data.points
        /\ info2[q].data.opponentRows = over[q].data.opponentRows
        /\ N # 1 => info2[q].data.position =
             IF q \in last THEN 1 ELSE IF q = p THEN nbr + 1 ELSE over[q].data.position
  <2>1. ASSUME NEW q \in Player
        PROVE  /\ info2[q].isGameOver <=> (over[q].isGameOver \/ q \in last)
               /\ info2[q].clearedRows = over[q].clearedRows /\ info2[q].externalRows = over[q].externalRows
               /\ info2[q].gravity = over[q].gravity /\ info2[q].data.level = over[q].data.level
               /\ info2[q].data.points = over[q].data.points
               /\ info2[q].data.opponentRows = over[q].data.opponentRows
               /\ N # 1 => info2[q].data.position =
                    IF q \in last THEN 1 ELSE IF q = p THEN nbr + 1 ELSE over[q].data.position
    <3>1. over[q] \in Seen /\ over[q].data \in Data
      BY <1>2 DEF View, Seen
    <3>2. CASE N = 1
      BY <1>6, <3>1, <3>2
    <3>3. CASE N # 1 /\ q \in last
      <4>1. info2[q] = [over[q] EXCEPT !.isGameOver = TRUE, !.data.position = 1]
        BY <3>3
      <4> QED BY <3>1, <3>3, <4>1 DEF Seen, Data
    <3>4. CASE N # 1 /\ q \notin last /\ q = p
      <4>1. info2[q] = [over[q] EXCEPT !.data.position = nbr + 1]
        BY <3>4
      <4> QED BY <3>1, <3>4, <4>1 DEF Seen, Data
    <3>5. CASE N # 1 /\ q \notin last /\ q # p
      BY <3>1, <3>5
    <3> QED BY <3>2, <3>3, <3>4, <3>5
  <2> QED BY <2>1
<1>9. Playing(info2) = rest \ last
  <2>1. \A q \in Player : ~info2[q].isGameOver <=> q \in rest \ last
    BY <1>8, <1>3, <1>7 DEF Playing, View, Seen
  <2> HIDE DEF info2
  <2> QED BY <2>1, <1>5 DEF Playing
<1>10. OnlyPlaces(i, info2)
  BY <1>2, <1>8 DEF OnlyPlaces
<1>11. N # 1 => \A q \in Player : info2[q].data.position =
         IF q \in last THEN 1 ELSE IF q = p THEN Cardinality(rest) + 1 ELSE i[q].data.position
  BY <1>2, <1>3, <1>8 DEF nbr
<1>12. TellsOver(SetToSeq({Over(q) : q \in last}), last)
  BY <1>5, TellsSetToSeq
<1> HIDE DEF info2
<1>13. gameOver(c, i, p).info = info2 /\ TellsOver(gameOver(c, i, p).sent, last)
  BY <1>1, <1>12
<1>14. Cardinality(Player) # 1 => PlacedOver(c, i, p, info2)
  BY <1>4, <1>11 DEF N, PlacedOver
<1> QED BY <1>4, <1>7, <1>9, <1>10, <1>13, <1>14

\* When p is over already nothing is ended.
LEMMA EndParts ==
  ASSUME NEW c \in Client, NEW i \in View, NEW p \in Player
  PROVE  LET after == End(c, i, p)
             last  == IF i[p].isGameOver THEN {} ELSE LastOne(c, i, p)
         IN  /\ after.info \in View
             /\ Playing(after.info) = Playing(i) \ ({p} \cup last)
             /\ OnlyPlaces(i, after.info)
             /\ TellsOver(after.sent, last)
<1>1. CASE i[p].isGameOver
  <2>1. End(c, i, p) = [info |-> i, sent |-> << >>]
    BY <1>1 DEF End
  <2>2. p \notin Playing(i)
    BY <1>1 DEF Playing
  <2>3. TellsOver(<< >>, {})
    BY DEF TellsOver
  <2>4. OnlyPlaces(i, i)
    BY DEF OnlyPlaces
  <2> QED BY <1>1, <2>1, <2>2, <2>3, <2>4
<1>2. CASE ~i[p].isGameOver
  <2>1. End(c, i, p) = gameOver(c, i, p)
    BY <1>2 DEF End
  <2>2. Playing(gameOver(c, i, p).info) = Playing(i) \ ({p} \cup LastOne(c, i, p))
    <3> DEFINE last == LastOne(c, i, p)
               seen == Playing(gameOver(c, i, p).info)
    <3>1. seen = (Playing(i) \ {p}) \ last
      BY GameOverParts
    <3> HIDE DEF last, seen
    <3>2. seen = Playing(i) \ ({p} \cup last)
      BY <3>1
    <3> QED BY <3>2 DEF last, seen
  <2> QED BY <1>2, <2>1, <2>2, GameOverParts
<1> QED BY <1>1, <1>2

LEMMA OrderIsShort == Len(Order) \in 0 .. Cardinality(Player)
<1>1. Order \in Seq(Player) /\ IsInjective(Order) /\ Len(Order) \in Nat /\ DOMAIN Order = 1 .. Len(Order)
  BY RulesAssumption, LenProperties
<1> DEFINE n == Len(Order)
<1>2. Order \in [1 .. n -> Player]
  BY <1>1, LenProperties
<1>3. Order \in Injection(1 .. n, Player)
  BY <1>1, <1>2 DEF Injection, IsInjective
<1>4. IsFiniteSet(Player) /\ Cardinality(Player) \in Nat
  BY PlayersAreFinite
<1>5. Cardinality(1 .. n) <= Cardinality(Player)
  BY <1>3, <1>4, FS_Injection
<1>6. Cardinality(1 .. n) = n
  <2>1. Cardinality(1 .. n) = IF 1 > n THEN 0 ELSE n - 1 + 1
    BY <1>1, FS_Interval
  <2> QED BY <1>1, <2>1
<1> QED BY <1>1, <1>4, <1>5, <1>6

LEMMA EndAllParts ==
  ASSUME NEW c \in Client, NEW i \in View
  PROVE  LET after == EndAll(c, i) IN
           /\ after.info \in View
           /\ Playing(after.info) = {}
           /\ OnlyPlaces(i, after.info)
           /\ TellsOver(after.sent, {q \in Playing(i) : Owner[q] = c})
<1> DEFINE ended == SelectIn(Order, Playing(i))
           mine == {p \in Player : isLocal(c, p)}
           own == SelectIn(ended, mine)
           turn(p) == CHOOSE k \in DOMAIN ended : ended[k] = p
           N == Cardinality(Player)
           seen == [p \in Player |->
                      IF p \notin Playing(i) THEN i[p]
                      ELSE IF N = 1 THEN [i[p] EXCEPT !.isGameOver = TRUE]
                      ELSE [i[p] EXCEPT !.isGameOver = TRUE, !.data.position = Len(ended) - turn(p) + 1]]
           sent == [k \in DOMAIN own |-> Over(own[k])]
           S == {q \in Playing(i) : Owner[q] = c}
<1>1. EndAll(c, i) = [info |-> seen, sent |-> sent]
  BY DEF EndAll
<1>2. Order \in Seq(Player) /\ \A p \in Player : \E k \in DOMAIN Order : Order[k] = p
  BY RulesAssumption
<1>3. ended \in Seq(Player \cap Playing(i)) /\ Len(ended) <= Len(Order)
  BY <1>2, SelectInParts
<1>4. \A p \in Playing(i) : \E k \in DOMAIN ended : ended[k] = p
  <2>1. ASSUME NEW p \in Playing(i) PROVE \E k \in DOMAIN ended : ended[k] = p
    <3>1. PICK k \in DOMAIN Order : Order[k] = p
      BY <1>2 DEF Playing
    <3>2. Order[k] \in Playing(i)
      BY <3>1
    <3>3. \E n \in DOMAIN ended : ended[n] = Order[k]
      BY <1>2, <3>2, SelectInAll
    <3> QED BY <3>1, <3>3
  <2> QED BY <2>1
<1> HIDE DEF ended
<1>5. own \in Seq((Player \cap Playing(i)) \cap mine)
  BY <1>3, SelectInParts
<1>6. \A p \in S : \E k \in DOMAIN own : own[k] = p
  <2>1. ASSUME NEW p \in S PROVE \E k \in DOMAIN own : own[k] = p
    <3>1. PICK k \in DOMAIN ended : ended[k] = p
      BY <1>4
    <3>2. ended[k] \in mine
      BY <3>1 DEF isLocal, Playing
    <3>3. \E n \in DOMAIN own : own[n] = ended[k]
      BY <1>3, <3>2, SelectInAll
    <3> QED BY <3>1, <3>3
  <2> QED BY <2>1
<1> HIDE DEF own
<1>7. (Player \cap Playing(i)) \cap mine = S /\ S \subseteq Player
  BY DEF Playing, isLocal
<1>8. TellsOver(sent, S)
  <2>1. own \in Seq(S) /\ DOMAIN own = 1 .. Len(own) /\ Len(own) \in Nat
    BY <1>5, <1>7, LenProperties
  <2>2. \A k \in DOMAIN own : own[k] \in S
    BY <2>1
  <2>3. /\ DOMAIN sent = DOMAIN own
        /\ \A k \in DOMAIN own : sent[k] = Over(own[k])
    OBVIOUS
  <2>4. \A k \in DOMAIN own : sent[k] \in Message /\ sent[k].type = "over" /\ sent[k].player = own[k]
    BY <1>7, <2>2, <2>3, OverIsMessage
  <2>5. sent \in Seq(Message)
    <3> DEFINE n == Len(own)
    <3>1. n \in Nat /\ DOMAIN own = 1 .. n
      BY <2>1
    <3> HIDE DEF n
    <3>2. sent \in [1 .. n -> Message]
      BY <2>3, <2>4, <3>1
    <3> QED BY <3>1, <3>2
  <2>6. \A p \in S : \E k \in DOMAIN sent : sent[k] = Over(p)
    BY <1>6, <2>3
  <2> HIDE DEF sent
  <2> QED BY <2>2, <2>3, <2>4, <2>5, <2>6 DEF TellsOver
<1>9. ASSUME NEW p \in Playing(i) PROVE Len(ended) - turn(p) + 1 \in 0 .. N
  <2>1. turn(p) \in DOMAIN ended
    BY <1>4
  <2>2. DOMAIN ended = 1 .. Len(ended) /\ Len(ended) \in Nat
    BY <1>3, LenProperties
  <2>3. Len(Order) \in 0 .. N /\ N \in Nat
    BY OrderIsShort, PlayersAreFinite
  <2> DEFINE t == turn(p)
             l == Len(ended)
             o == Len(Order)
  <2> HIDE DEF turn, t, l, N, o
  <2>4. t \in 1 .. l /\ l \in Nat /\ o \in 0 .. N /\ N \in Nat /\ l <= o
    BY <1>3, <2>1, <2>2, <2>3 DEF t, l, o
  <2>5. l - t + 1 \in 0 .. N
    BY <2>4
  <2> QED BY <2>5 DEF t, l
<1> HIDE DEF turn, sent, S
<1>10. ASSUME NEW q \in Player
       PROVE  /\ seen[q] \in Seen /\ seen[q].isGameOver
              /\ seen[q].clearedRows = i[q].clearedRows /\ seen[q].externalRows = i[q].externalRows
              /\ seen[q].gravity = i[q].gravity /\ seen[q].data.level = i[q].data.level
              /\ seen[q].data.points = i[q].data.points
              /\ seen[q].data.opponentRows = i[q].data.opponentRows
  <2>1. i[q] \in Seen /\ i[q].data \in Data /\ i[q].isGameOver \in BOOLEAN
    BY DEF View, Seen
  <2>2. CASE q \notin Playing(i)
    BY <2>1, <2>2 DEF Playing
  <2>3. CASE q \in Playing(i) /\ N = 1
    <3>1. seen[q] = [i[q] EXCEPT !.isGameOver = TRUE]
      BY <2>3
    <3> QED BY <2>1, <3>1 DEF Seen
  <2>4. CASE q \in Playing(i) /\ N # 1
    <3> DEFINE pos == Len(ended) - turn(q) + 1
    <3>1. seen[q] = [i[q] EXCEPT !.isGameOver = TRUE, !.data.position = pos]
      BY <2>4
    <3>2. pos \in 0 .. N
      BY <1>9, <2>4
    <3> HIDE DEF pos
    <3> QED BY <2>1, <3>1, <3>2 DEF Seen, Data, N
  <2> QED BY <2>2, <2>3, <2>4
<1>11. seen \in View
  <2>1. seen = [q \in Player |-> seen[q]]
    OBVIOUS
  <2> HIDE DEF seen
  <2> QED BY <1>10, <2>1 DEF View
<1> HIDE DEF seen
<1>12. Playing(seen) = {}
  BY <1>10 DEF Playing
<1>13. OnlyPlaces(i, seen)
  BY <1>10 DEF OnlyPlaces
<1>14. EndAll(c, i).info = seen /\ EndAll(c, i).sent = sent
  BY <1>1
<1> QED BY <1>8, <1>11, <1>12, <1>13, <1>14 DEF S

\* What rows make of the data and gravity of player q.
Counts(c, i, p, n, q, seen) ==
  /\ seen[q].isGameOver = i[q].isGameOver
  /\ seen[q].data.position = i[q].data.position
  /\ seen[q].clearedRows = i[q].clearedRows + (IF q = p THEN n ELSE 0)
  /\ plan.rules = "Default" =>
       LET level == i[p].clearedRows \div LevelUpNbr + 1 IN
         IF q = p /\ Owner[p] = c
           THEN /\ seen[q].data.level = level /\ seen[q].gravity = level
                /\ seen[q].data.points = i[q].data.points + level * n * n
           ELSE seen[q].data = i[q].data /\ seen[q].gravity = i[q].gravity
  /\ plan.rules = "Survival" =>
       seen[q].data.opponentRows = i[q].data.opponentRows + (IF q # p /\ Owner[q] = c THEN n ELSE 0)

LEMMA LevelType ==
  ASSUME NEW a \in Nat
  PROVE  a \div LevelUpNbr + 1 \in Nat
<1>1. LevelUpNbr \in Nat /\ LevelUpNbr > 0
  BY RulesAssumption
<1> DEFINE l == LevelUpNbr
<1> HIDE DEF l
<1>2. l \in Nat /\ l > 0
  BY <1>1 DEF l
<1>3. a \div l + 1 \in Nat
  BY <1>2
<1> QED BY <1>3 DEF l

LEMMA DefaultRows ==
  ASSUME NEW c \in Client, NEW i \in View, NEW p \in Player, NEW n \in {1, 4}, plan.rules = "Default"
  PROVE  LET after == RowsRemoved(c, i, p, n) IN
           /\ after.info \in View
           /\ \A q \in Player : Counts(c, i, p, n, q, after.info)
           /\ after.sent = << >>
<1> DEFINE base == [i EXCEPT ![p].externalRows = 0]
           level == base[p].clearedRows \div LevelUpNbr + 1
           scored == IF isLocal(c, p)
                       THEN [base EXCEPT ![p].data.level = level, ![p].data.points = @ + level * n * n,
                                         ![p].gravity = level]
                       ELSE base
           seen == [scored EXCEPT ![p].clearedRows = @ + n]
<1>1. RowsRemoved(c, i, p, n) = [info |-> seen, sent |-> << >>]
  <2> DEFINE after == rowsRemove(c, base, p, n)
  <2>1. after = [info |-> scored, sent |-> << >>]
    BY DEF rowsRemove, defaultRowsRemove
  <2>2. RowsRemoved(c, i, p, n) = [after EXCEPT !.info[p].clearedRows = @ + n]
    BY DEF RowsRemoved
  <2> HIDE DEF after, scored
  <2> QED BY <2>1, <2>2
<1>2. /\ base \in View
      /\ \A q \in Player :
           /\ q # p => base[q] = i[q]
           /\ base[q].isGameOver = i[q].isGameOver /\ base[q].clearedRows = i[q].clearedRows
           /\ base[q].gravity = i[q].gravity /\ base[q].data = i[q].data
  BY DEF View, Seen
<1>3. level = i[p].clearedRows \div LevelUpNbr + 1 /\ level \in Nat
  <2>1. base[p].clearedRows = i[p].clearedRows /\ i[p].clearedRows \in Nat
    BY <1>2 DEF View, Seen
  <2> HIDE DEF base
  <2> QED BY <2>1, LevelType
<1> HIDE DEF base, level
<1>4. /\ scored \in View
      /\ \A q \in Player :
           /\ q # p => scored[q] = base[q]
           /\ scored[q].isGameOver = base[q].isGameOver /\ scored[q].clearedRows = base[q].clearedRows
           /\ scored[q].data.position = base[q].data.position
           /\ IF q = p /\ Owner[p] = c
                THEN /\ scored[q].data.level = level /\ scored[q].gravity = level
                     /\ scored[q].data.points = base[q].data.points + level * n * n
                ELSE scored[q].data = base[q].data /\ scored[q].gravity = base[q].gravity
  <2>1. CASE Owner[p] = c
    <3> DEFINE more == level * n * n
    <3>1. more \in Nat
      BY <1>3
    <3> HIDE DEF more
    <3>2. scored = [base EXCEPT ![p].data.level = level, ![p].data.points = @ + more, ![p].gravity = level]
      BY <2>1 DEF isLocal, more
    <3> HIDE DEF scored
    <3>3. base[p] \in Seen /\ base[p].data \in Data
      BY <1>2 DEF View, Seen
    <3>4. scored[p] = [base[p] EXCEPT !.data.level = level, !.data.points = @ + more, !.gravity = level]
      BY <1>2, <3>2 DEF View
    <3>5. /\ scored[p] \in Seen
          /\ scored[p].isGameOver = base[p].isGameOver /\ scored[p].clearedRows = base[p].clearedRows
          /\ scored[p].data.position = base[p].data.position
          /\ scored[p].data.level = level /\ scored[p].gravity = level
          /\ scored[p].data.points = base[p].data.points + more
      <4> DEFINE b == base[p]
                 x == scored[p]
      <4>1. x = [b EXCEPT !.data.level = level, !.data.points = @ + more, !.gravity = level]
        BY <3>4
      <4>2. b \in Seen /\ b.data \in Data
        BY <3>3
      <4> HIDE DEF b, x
      <4>3. /\ x.isGameOver = b.isGameOver /\ x.clearedRows = b.clearedRows /\ x.externalRows = b.externalRows
            /\ x.gravity = level
            /\ x = [isGameOver |-> x.isGameOver, clearedRows |-> x.clearedRows, externalRows |-> x.externalRows,
                    gravity |-> x.gravity, data |-> x.data]
        BY <4>1, <4>2 DEF Seen
      <4>4. x.data = [b.data EXCEPT !.level = level, !.points = @ + more]
        BY <4>1, <4>2 DEF Seen, Data
      <4>5. /\ x.data \in Data /\ x.data.level = level /\ x.data.points = b.data.points + more
            /\ x.data.position = b.data.position
        <5> DEFINE d == b.data
                   e == x.data
        <5>1. e = [d EXCEPT !.level = level, !.points = @ + more] /\ d \in Data
          BY <4>2, <4>4
        <5>2. level \in Nat /\ more \in Nat
          BY <1>3, <3>1
        <5> HIDE DEF d, e
        <5>3. e.level = level /\ e.points = d.points + more /\ e.position = d.position
          BY <5>1 DEF Data
        <5>4. d.points + more \in Nat
          BY <5>1, <5>2 DEF Data
        <5>5. e = [level |-> level, points |-> d.points + more, opponentRows |-> d.opponentRows,
                   position |-> d.position]
          BY <5>1 DEF Data
        <5>6. e \in Data
          BY <5>1, <5>2, <5>4, <5>5 DEF Data
        <5> QED BY <5>3, <5>6 DEF d, e
      <4>6. x \in Seen
        BY <1>3, <4>2, <4>3, <4>5 DEF Seen
      <4> QED BY <4>3, <4>5, <4>6 DEF b, x
    <3>6. \A q \in Player : q # p => scored[q] = base[q]
      BY <1>2, <3>2 DEF View
    <3>7. scored \in View
      <4>1. scored = [q \in Player |-> scored[q]]
        BY <1>2, <3>2 DEF View
      <4>2. \A q \in Player : scored[q] \in Seen
        BY <1>2, <3>5, <3>6 DEF View
      <4> QED BY <4>1, <4>2 DEF View
    <3> QED BY <2>1, <3>5, <3>6, <3>7 DEF more
  <2>2. CASE Owner[p] # c
    BY <1>2, <2>2 DEF isLocal
  <2> QED BY <2>1, <2>2
<1> HIDE DEF scored
<1>5. /\ seen \in View
      /\ \A q \in Player :
           /\ seen[q].isGameOver = scored[q].isGameOver /\ seen[q].data = scored[q].data
           /\ seen[q].gravity = scored[q].gravity
           /\ seen[q].clearedRows = scored[q].clearedRows + (IF q = p THEN n ELSE 0)
  BY <1>4 DEF View, Seen
<1> HIDE DEF seen
<1>6. \A q \in Player : Counts(c, i, p, n, q, seen)
  <2>1. ASSUME NEW q \in Player PROVE Counts(c, i, p, n, q, seen)
    <3>1. /\ seen[q].isGameOver = i[q].isGameOver
          /\ seen[q].data.position = i[q].data.position
          /\ seen[q].clearedRows = i[q].clearedRows + (IF q = p THEN n ELSE 0)
      BY <1>2, <1>4, <1>5
    <3>2. IF q = p /\ Owner[p] = c
            THEN /\ seen[q].data.level = level /\ seen[q].gravity = level
                 /\ seen[q].data.points = i[q].data.points + level * n * n
            ELSE seen[q].data = i[q].data /\ seen[q].gravity = i[q].gravity
      BY <1>2, <1>4, <1>5
    <3> QED BY <1>3, <3>1, <3>2 DEF Counts
  <2> QED BY <2>1
<1> QED BY <1>1, <1>5, <1>6

LEMMA SurvivalRows ==
  ASSUME NEW c \in Client, NEW i \in View, NEW p \in Player, NEW n \in {1, 4}, plan.rules = "Survival"
  PROVE  LET after == RowsRemoved(c, i, p, n) IN
           /\ after.info \in View
           /\ \A q \in Player : Counts(c, i, p, n, q, after.info)
           /\ after.sent \in Seq(Message)
           /\ \A k \in DOMAIN after.sent : after.sent[k].type = "external" /\ Owner[after.sent[k].player] = c
<1> DEFINE base == [i EXCEPT ![p].externalRows = 0]
           opponents == {q \in Player \ {p} : isLocal(c, q)}
           hit == IF n = 4 THEN opponents \cap Playing(base) ELSE {}
           counted == [q \in Player |->
             IF q \in opponents THEN [base[q] EXCEPT !.data.opponentRows = @ + n] ELSE base[q]]
           attacked == [q \in Player |->
             IF q \in hit THEN [counted[q] EXCEPT !.externalRows = @ + 2] ELSE counted[q]]
           targets == SelectIn(Order, hit)
           faster == IF isLocal(c, p) THEN [attacked EXCEPT ![p].gravity = base[p].data.opponentRows] ELSE attacked
           sent == [k \in DOMAIN targets |-> External(targets[k])]
           seen == [faster EXCEPT ![p].clearedRows = @ + n]
<1>1. RowsRemoved(c, i, p, n) = [info |-> seen, sent |-> sent]
  <2> DEFINE after == rowsRemove(c, base, p, n)
  <2>1. after = [info |-> faster, sent |-> sent]
    BY DEF rowsRemove, survivalRowsRemove
  <2>2. RowsRemoved(c, i, p, n) = [after EXCEPT !.info[p].clearedRows = @ + n]
    BY DEF RowsRemoved
  <2> HIDE DEF after, faster, sent
  <2> QED BY <2>1, <2>2
<1>2. /\ base \in View
      /\ \A q \in Player :
           /\ base[q].isGameOver = i[q].isGameOver /\ base[q].clearedRows = i[q].clearedRows
           /\ base[q].data = i[q].data
  BY DEF View, Seen
<1>3. \A q \in Player : q \in opponents <=> q # p /\ Owner[q] = c
  BY DEF isLocal
<1>4. hit \subseteq opponents /\ opponents \subseteq Player
  OBVIOUS
<1> HIDE DEF base, opponents, hit
<1>5. ASSUME NEW q \in Player
      PROVE  /\ counted[q] \in Seen
             /\ counted[q].isGameOver = base[q].isGameOver /\ counted[q].clearedRows = base[q].clearedRows
             /\ counted[q].data.position = base[q].data.position
             /\ counted[q].data.opponentRows = base[q].data.opponentRows + (IF q \in opponents THEN n ELSE 0)
  <2>1. base[q] \in Seen /\ base[q].data \in Data
    BY <1>2 DEF View, Seen
  <2>2. CASE q \in opponents
    <3>1. counted[q] = [base[q] EXCEPT !.data.opponentRows = @ + n]
      BY <2>2
    <3> QED BY <2>1, <2>2, <3>1 DEF Seen, Data
  <2>3. CASE q \notin opponents
    <3>1. counted[q] = base[q]
      BY <2>3
    <3>2. base[q].data.opponentRows + 0 = base[q].data.opponentRows
      BY <2>1 DEF Data
    <3> QED BY <2>1, <2>3, <3>1, <3>2
  <2> QED BY <2>2, <2>3
<1> HIDE DEF counted
<1>6. ASSUME NEW q \in Player
      PROVE  /\ attacked[q] \in Seen
             /\ attacked[q].isGameOver = counted[q].isGameOver /\ attacked[q].clearedRows = counted[q].clearedRows
             /\ attacked[q].data = counted[q].data
  <2>1. attacked[q] = IF q \in hit THEN [counted[q] EXCEPT !.externalRows = @ + 2] ELSE counted[q]
    OBVIOUS
  <2> HIDE DEF attacked
  <2> QED BY <1>5, <2>1 DEF Seen
<1>7. attacked \in View
  <2>1. attacked = [q \in Player |-> attacked[q]]
    OBVIOUS
  <2> HIDE DEF attacked
  <2> QED BY <1>6, <2>1 DEF View
<1> HIDE DEF attacked
<1>8. faster \in View /\ \A q \in Player :
        /\ faster[q].isGameOver = attacked[q].isGameOver /\ faster[q].clearedRows = attacked[q].clearedRows
        /\ faster[q].data = attacked[q].data
  <2>1. base[p].data.opponentRows \in Nat
    BY <1>2 DEF View, Seen, Data
  <2> QED BY <1>7, <2>1 DEF View, Seen
<1> HIDE DEF faster
<1>9. seen \in View /\ \A q \in Player :
        /\ seen[q].isGameOver = faster[q].isGameOver /\ seen[q].data = faster[q].data
        /\ seen[q].clearedRows = faster[q].clearedRows + (IF q = p THEN n ELSE 0)
  BY <1>8 DEF View, Seen
<1> HIDE DEF seen
<1>10. \A q \in Player : Counts(c, i, p, n, q, seen)
  <2>1. ASSUME NEW q \in Player PROVE Counts(c, i, p, n, q, seen)
    <3>1. /\ seen[q].isGameOver = i[q].isGameOver
          /\ seen[q].data.position = i[q].data.position
          /\ seen[q].clearedRows = i[q].clearedRows + (IF q = p THEN n ELSE 0)
      BY <1>2, <1>5, <1>6, <1>8, <1>9
    <3>2. seen[q].data.opponentRows = i[q].data.opponentRows + (IF q # p /\ Owner[q] = c THEN n ELSE 0)
      BY <1>2, <1>3, <1>5, <1>6, <1>8, <1>9
    <3> QED BY <3>1, <3>2 DEF Counts
  <2> QED BY <2>1
<1>11. targets \in Seq(Player \cap hit)
  BY RulesAssumption, SelectInParts
<1>12. \A k \in DOMAIN targets : targets[k] \in Player /\ Owner[targets[k]] = c
  <2>1. \A k \in DOMAIN targets : targets[k] \in Player \cap hit
    BY <1>11
  <2> QED BY <1>3, <1>4, <2>1
<1>13. sent \in Seq(Message) /\ \A k \in DOMAIN sent : sent[k].type = "external" /\ Owner[sent[k].player] = c
  <2> DEFINE l == Len(targets)
  <2>1. DOMAIN targets = 1 .. l /\ l \in Nat
    BY <1>11, LenProperties
  <2> HIDE DEF targets, l
  <2>2. \A k \in DOMAIN targets :
          /\ External(targets[k]) \in Message
          /\ External(targets[k]).type = "external" /\ External(targets[k]).player = targets[k]
    BY <1>12 DEF External, Message
  <2>3. sent \in [1 .. l -> Message] /\ DOMAIN sent = DOMAIN targets
    BY <2>1, <2>2
  <2>4. sent \in Seq(Message)
    BY <2>1, <2>3
  <2> QED BY <1>12, <2>2, <2>3, <2>4
<1> HIDE DEF sent
<1> QED BY <1>1, <1>9, <1>10, <1>13

LEMMA RowsParts ==
  ASSUME NEW c \in Client, NEW i \in View, NEW p \in Player, NEW n \in {1, 4},
         plan.rules \in {"Default", "Survival"}
  PROVE  LET after == RowsRemoved(c, i, p, n) IN
           /\ after.info \in View
           /\ Playing(after.info) = Playing(i)
           /\ \A q \in Player : Counts(c, i, p, n, q, after.info)
           /\ after.sent \in Seq(Message)
           /\ \A k \in DOMAIN after.sent : after.sent[k].type = "external" /\ Owner[after.sent[k].player] = c
<1> DEFINE seen == RowsRemoved(c, i, p, n).info
           sent == RowsRemoved(c, i, p, n).sent
<1>1. /\ seen \in View
      /\ \A q \in Player : Counts(c, i, p, n, q, seen)
      /\ sent \in Seq(Message)
      /\ \A k \in DOMAIN sent : sent[k].type = "external" /\ Owner[sent[k].player] = c
  <2>1. CASE plan.rules = "Default"
    <3>1. seen \in View /\ (\A q \in Player : Counts(c, i, p, n, q, seen)) /\ sent = << >>
      BY <2>1, DefaultRows
    <3> QED BY <3>1
  <2>2. CASE plan.rules = "Survival"
    BY <2>2, SurvivalRows
  <2> QED BY <2>1, <2>2
<1> HIDE DEF seen, sent
<1>2. Playing(seen) = Playing(i)
  BY <1>1 DEF Counts, Playing
<1> QED BY <1>1, <1>2 DEF seen, sent

LEMMA RestartParts ==
  ASSUME NEW i \in View, NEW e \in Client, plan.rules \in {"Default", "Survival"}
  PROVE  /\ restart(i, e) \in View
         /\ Playing(restart(i, e)) = Playing(i) \cup {q \in Player : Owner[q] = e}
         /\ \A q \in Player :
              /\ restart(i, e)[q].data = NewData
              /\ restart(i, e)[q].isGameOver <=> i[q].isGameOver /\ Owner[q] # e
              /\ restart(i, e)[q].clearedRows = IF Owner[q] = e THEN 0 ELSE i[q].clearedRows
              /\ plan.rules = "Default" => restart(i, e)[q].gravity = 1
<1>1. NewData \in Data
  <2>1. 0 \in 0 .. Cardinality(Player)
    BY PlayersAreFinite
  <2> QED BY <2>1 DEF NewData, Data
<1>2. ASSUME NEW q \in Player
      PROVE  /\ restart(i, e)[q] \in Seen
             /\ restart(i, e)[q].data = NewData
             /\ restart(i, e)[q].isGameOver <=> i[q].isGameOver /\ Owner[q] # e
             /\ restart(i, e)[q].clearedRows = IF Owner[q] = e THEN 0 ELSE i[q].clearedRows
             /\ plan.rules = "Default" => restart(i, e)[q].gravity = 1
  <2>1. GravityAfterRestart(i, q) \in Nat /\ (plan.rules = "Default" => GravityAfterRestart(i, q) = 1)
    BY DEF GravityAfterRestart, View, Seen
  <2> DEFINE g == GravityAfterRestart(i, q)
             x == restart(i, e)[q]
  <2>2. x = [isGameOver   |-> i[q].isGameOver /\ Owner[q] # e,
             clearedRows  |-> IF Owner[q] = e THEN 0 ELSE i[q].clearedRows,
             externalRows |-> IF Owner[q] = e THEN 0 ELSE i[q].externalRows,
             gravity      |-> g,
             data         |-> NewData]
    BY DEF restart
  <2> HIDE DEF g, x
  <2>3. i[q].isGameOver \in BOOLEAN /\ i[q].clearedRows \in Nat /\ i[q].externalRows \in Nat
    BY DEF View, Seen
  <2>4. g \in Nat /\ (plan.rules = "Default" => g = 1)
    BY <2>1 DEF g
  <2>5. x \in Seen
    BY <1>1, <2>2, <2>3, <2>4 DEF Seen
  <2>6. /\ x.data = NewData
        /\ x.isGameOver <=> i[q].isGameOver /\ Owner[q] # e
        /\ x.clearedRows = IF Owner[q] = e THEN 0 ELSE i[q].clearedRows
        /\ x.gravity = g
    <3>1. x.isGameOver = (i[q].isGameOver /\ Owner[q] # e)
      BY <2>2
    <3> QED BY <2>2, <3>1
  <2> QED BY <2>4, <2>5, <2>6 DEF x
<1>3. restart(i, e) \in View
  <2>1. restart(i, e) = [q \in Player |-> restart(i, e)[q]]
    BY DEF restart
  <2> QED BY <1>2, <2>1 DEF View
<1>4. Playing(restart(i, e)) = Playing(i) \cup {q \in Player : Owner[q] = e}
  BY <1>2 DEF Playing
<1> QED BY <1>2, <1>3, <1>4

-----------------------------------------------------------------------------
(* Steps of one client *)

NoMessage == [type |-> "none"]

\* Client c reads m, if it is a message, sees seen then and sends sent.
Step(c, m, seen, sent) ==
  /\ c \in Client \ gone
  /\ gone' = gone
  /\ seen \in View /\ sent \in Seq(Message)
  /\ info' = [info EXCEPT ![c] = seen]
  /\ inbox' \in [Client -> Seq(Message)]
  /\ \/ m = NoMessage /\ inbox'[c] = inbox[c]
     \/ m \in Message /\ inbox[c] # << >> /\ m = Head(inbox[c]) /\ inbox'[c] = Tail(inbox[c])
  /\ \A d \in Client : d # c => inbox'[d] = IF d \in gone THEN inbox[d] ELSE inbox[d] \o sent

\* What c makes of the message that it reads.
Reaction(c) ==
  LET m == Head(inbox[c]) IN
    IF Ignored(c, info[c], m) THEN [info |-> info[c], sent |-> << >>] ELSE Handled(c, info[c], m)

LEMMA TypeParts ==
  ASSUME TypeOK
  PROVE  /\ info \in [Client -> View]
         /\ plan.rules \in {"Default", "Survival"}
         /\ inbox \in [Client -> Seq(Message)] /\ gone \subseteq Client
         /\ \A p \in Player : Owner[p] \in Client
BY RulesAssumption DEF TypeOK, View, Seen

LEMMA MessageParts ==
  ASSUME NEW m \in Message
  PROVE  /\ m.type \in {"rows", "over", "external", "ask", "restart", "gone"}
         /\ m.type \in {"rows", "over", "external"} => m.player \in Player
         /\ m.type = "rows" => m.n \in {1, 4}
         /\ m.type \in {"restart", "gone"} => m.client \in Client
BY DEF Message

\* What is relayed has arrived at the other clients.
LEMMA RelayStep ==
  ASSUME TypeOK, NEW c \in Client \ gone, gone' = gone, NEW seen \in View, NEW sent \in Seq(Message), NEW m,
         info' = [info EXCEPT ![c] = seen],
         NEW boxes,
         \/ m = NoMessage /\ boxes = inbox
         \/ inbox[c] # << >> /\ m = Head(inbox[c]) /\ boxes = [inbox EXCEPT ![c] = Tail(@)],
         Relay(c, sent, boxes)
  PROVE  Step(c, m, seen, sent)
<1>1. inbox \in [Client -> Seq(Message)]
  BY TypeParts
<1>2. \A d \in Client : d # c => boxes[d] = inbox[d]
  BY <1>1
<1>3. inbox' = [d \in Client |-> IF d = c \/ d \in gone THEN boxes[d] ELSE boxes[d] \o sent]
  BY DEF Relay
<1>4. \/ m = NoMessage /\ inbox'[c] = inbox[c]
      \/ m \in Message /\ inbox[c] # << >> /\ m = Head(inbox[c]) /\ inbox'[c] = Tail(inbox[c])
  <2>1. inbox'[c] = boxes[c]
    BY <1>3
  <2>2. CASE m = NoMessage /\ boxes = inbox
    BY <2>1, <2>2
  <2>3. CASE inbox[c] # << >> /\ m = Head(inbox[c]) /\ boxes = [inbox EXCEPT ![c] = Tail(@)]
    <3>1. boxes[c] = Tail(inbox[c])
      BY <1>1, <2>3
    <3>2. inbox[c] \in Seq(Message)
      BY <1>1
    <3>3. m \in Message
      BY <2>3, <3>2, HeadTailProperties
    <3> QED BY <2>1, <2>3, <3>1, <3>3
  <2> QED BY <2>2, <2>3
<1>5. \A d \in Client : d # c => inbox'[d] = IF d \in gone THEN inbox[d] ELSE inbox[d] \o sent
  BY <1>2, <1>3
<1>6. inbox' \in [Client -> Seq(Message)]
  <2>1. ASSUME NEW d \in Client PROVE inbox'[d] \in Seq(Message)
    <3>1. inbox[d] \in Seq(Message)
      BY <1>1
    <3>2. CASE d = c
      <4>1. inbox[c] # << >> => Tail(inbox[c]) \in Seq(Message)
        BY <3>1, <3>2, HeadTailProperties
      <4> QED BY <1>4, <3>1, <3>2, <4>1
    <3>3. CASE d # c
      <4>1. inbox[d] \o sent \in Seq(Message)
        BY <3>1, ConcatProperties
      <4> QED BY <1>5, <3>1, <3>3, <4>1
    <3> QED BY <3>2, <3>3
  <2>2. inbox' = [d \in Client |-> inbox'[d]]
    BY <1>3
  <2> QED BY <2>1, <2>2
<1> QED BY <1>4, <1>5, <1>6 DEF Step

LEMMA RowsIsMessage ==
  ASSUME NEW p \in Player, NEW n \in {1, 4}
  PROVE  Rows(p, n) \in Message /\ Rows(p, n).type = "rows" /\ Rows(p, n).player = p
BY DEF Rows, Message

\* The first of a sequence, and the rest.
LEMMA FirstAndRest ==
  ASSUME NEW T, NEW x \in T, NEW s \in Seq(T)
  PROVE  /\ <<x>> \o s \in Seq(T)
         /\ 1 \in DOMAIN (<<x>> \o s) /\ (<<x>> \o s)[1] = x
         /\ \A k \in DOMAIN (<<x>> \o s) : k \in Nat /\ (((<<x>> \o s)[k] = x /\ k = 1) \/ \E j \in DOMAIN s : k = 1 + j /\ (<<x>> \o s)[k] = s[j])
         /\ \A j \in DOMAIN s : 1 + j \in DOMAIN (<<x>> \o s) /\ (<<x>> \o s)[1 + j] = s[j]
<1> DEFINE f == <<x>>
<1>1. f \in Seq(T) /\ Len(f) = 1 /\ DOMAIN f = {1} /\ f[1] = x
  OBVIOUS
<1> HIDE DEF f
<1>2. f \o s \in Seq(T)
  BY <1>1, ConcatProperties
<1>3. DOMAIN (f \o s) \subseteq Nat
  BY <1>2, LenProperties
<1>4. /\ 1 \in DOMAIN (f \o s) /\ (f \o s)[1] = x
      /\ \A j \in DOMAIN s : 1 + j \in DOMAIN (f \o s) /\ (f \o s)[1 + j] = s[j]
      /\ \A k \in DOMAIN (f \o s) :
           ((f \o s)[k] = x /\ k = 1) \/ \E j \in DOMAIN s : k = 1 + j /\ (f \o s)[k] = s[j]
  <2> DEFINE all == f \o s
             l == Len(s)
  <2>1. l \in Nat /\ DOMAIN s = 1 .. l
    BY LenProperties
  <2>2. Len(all) = 1 + l /\ \A i \in 1 .. 1 + l : all[i] = IF i <= 1 THEN f[i] ELSE s[i - 1]
    <3>1. /\ Len(f \o s) = Len(f) + Len(s)
          /\ \A i \in 1 .. Len(f) + Len(s) : (f \o s)[i] = IF i <= Len(f) THEN f[i] ELSE s[i - Len(f)]
      BY <1>1, ConcatProperties
    <3> HIDE DEF all, l
    <3>2. /\ Len(all) = Len(f) + l
          /\ \A i \in 1 .. Len(f) + l : all[i] = IF i <= Len(f) THEN f[i] ELSE s[i - Len(f)]
      BY <3>1 DEF all, l
    <3> QED BY <1>1, <3>2
  <2>3. DOMAIN all = 1 .. 1 + l
    BY <1>2, <2>2, LenProperties
  <2> HIDE DEF all, l
  <2>4. 1 \in DOMAIN all /\ all[1] = x
    BY <1>1, <2>1, <2>2, <2>3
  <2>5. ASSUME NEW j \in DOMAIN s PROVE 1 + j \in DOMAIN all /\ all[1 + j] = s[j]
    <3>1. j \in 1 .. l /\ 1 + j \in 1 .. 1 + l /\ ~(1 + j <= 1) /\ (1 + j) - 1 = j
      BY <2>1
    <3> QED BY <2>2, <2>3, <3>1
  <2>6. ASSUME NEW k \in DOMAIN all PROVE (all[k] = x /\ k = 1) \/ \E j \in DOMAIN s : k = 1 + j /\ all[k] = s[j]
    <3>1. CASE k = 1
      BY <2>4, <3>1
    <3>2. CASE k # 1
      <4>1. k - 1 \in 1 .. l /\ k = 1 + (k - 1) /\ k \in 1 .. 1 + l /\ ~(k <= 1)
        BY <2>1, <2>3, <3>2
      <4> QED BY <2>1, <2>2, <4>1
    <3> QED BY <3>1, <3>2
  <2> QED BY <2>4, <2>5, <2>6 DEF all
<1>5. \A k \in DOMAIN (f \o s) :
        k \in Nat /\ (((f \o s)[k] = x /\ k = 1) \/ \E j \in DOMAIN s : k = 1 + j /\ (f \o s)[k] = s[j])
  BY <1>3, <1>4
<1> QED BY <1>2, <1>4, <1>5 DEF f

LEMMA LocalRowsStep ==
  ASSUME TypeOK, NEW c \in Client, NEW p \in Player, NEW n \in {1, 4}, LocalRows(c, p, n)
  PROVE  LET after == RowsRemoved(c, info[c], p, n) IN
           Step(c, NoMessage, after.info, <<Rows(p, n)>> \o after.sent)
<1> DEFINE after == RowsRemoved(c, info[c], p, n)
           sent == <<Rows(p, n)>> \o after.sent
<1>1. info[c] \in View /\ plan.rules \in {"Default", "Survival"}
  BY TypeParts
<1>2. after.info \in View /\ after.sent \in Seq(Message)
  BY <1>1, RowsParts
<1>3. sent \in Seq(Message)
  BY <1>2, RowsIsMessage, FirstAndRest
<1>4. /\ c \in Client \ gone /\ gone' = gone
      /\ info' = [info EXCEPT ![c] = after.info]
      /\ Relay(c, sent, inbox)
  BY DEF LocalRows
<1> HIDE DEF after, sent
<1>5. Step(c, NoMessage, after.info, sent)
  BY <1>2, <1>3, <1>4, RelayStep
<1> QED BY <1>5 DEF after, sent

LEMMA LocalDeathStep ==
  ASSUME TypeOK, NEW c \in Client, NEW p \in Player, LocalDeath(c, p)
  PROVE  LET after == gameOver(c, info[c], p) IN
           Step(c, NoMessage, after.info, <<Over(p)>> \o after.sent)
<1> DEFINE after == gameOver(c, info[c], p)
           sent == <<Over(p)>> \o after.sent
<1>1. info[c] \in View
  BY TypeParts
<1>2. after.info \in View /\ after.sent \in Seq(Message)
  BY <1>1, GameOverParts DEF TellsOver
<1>3. sent \in Seq(Message)
  BY <1>2, OverIsMessage, FirstAndRest
<1>4. /\ c \in Client \ gone /\ gone' = gone
      /\ info' = [info EXCEPT ![c] = after.info]
      /\ Relay(c, sent, inbox)
  BY DEF LocalDeath
<1> HIDE DEF after, sent
<1>5. Step(c, NoMessage, after.info, sent)
  BY <1>2, <1>3, <1>4, RelayStep
<1> QED BY <1>5 DEF after, sent

LEMMA HandledTypes ==
  ASSUME TypeOK, NEW c \in Client, NEW m \in Message
  PROVE  Handled(c, info[c], m).info \in View /\ Handled(c, info[c], m).sent \in Seq(Message)
<1>1. info[c] \in View /\ plan.rules \in {"Default", "Survival"}
  BY TypeParts
<1>2. CASE m.type = "rows"
  <2>1. Handled(c, info[c], m) = RowsRemoved(c, info[c], m.player, m.n)
    BY <1>2 DEF Handled
  <2>2. m.player \in Player /\ m.n \in {1, 4}
    BY <1>2, MessageParts
  <2> QED BY <1>1, <2>1, <2>2, RowsParts
<1>3. CASE m.type = "over"
  <2>1. Handled(c, info[c], m) = End(c, info[c], m.player)
    BY <1>3 DEF Handled
  <2>2. m.player \in Player
    BY <1>3, MessageParts
  <2> QED BY <1>1, <2>1, <2>2, EndParts DEF TellsOver
<1>4. CASE m.type = "external"
  <2>1. Handled(c, info[c], m) = [info |-> [info[c] EXCEPT ![m.player].externalRows = @ + 2], sent |-> << >>]
    BY <1>4 DEF Handled
  <2>2. m.player \in Player
    BY <1>4, MessageParts
  <2>3. [info[c] EXCEPT ![m.player].externalRows = @ + 2] \in View
    BY <1>1, <2>2 DEF View, Seen
  <2> QED BY <2>1, <2>3
<1>5. CASE m.type = "ask"
  <2>1. Handled(c, info[c], m) = [info |-> restart(info[c], c), sent |-> <<[type |-> "restart", client |-> c]>>]
    BY <1>5 DEF Handled
  <2>2. restart(info[c], c) \in View
    BY <1>1, RestartParts
  <2>3. [type |-> "restart", client |-> c] \in Message
    BY DEF Message
  <2> QED BY <2>1, <2>2, <2>3
<1>6. CASE m.type = "restart"
  <2>1. Handled(c, info[c], m) = [info |-> restart(info[c], m.client), sent |-> << >>]
    BY <1>6 DEF Handled
  <2>2. m.client \in Client
    BY <1>6, MessageParts
  <2>3. restart(info[c], m.client) \in View
    BY <1>1, <2>2, RestartParts
  <2> QED BY <2>1, <2>3
<1>7. CASE m.type = "gone"
  <2>1. Handled(c, info[c], m) = EndAll(c, info[c])
    BY <1>7 DEF Handled
  <2> QED BY <1>1, <2>1, EndAllParts DEF TellsOver
<1> QED BY <1>2, <1>3, <1>4, <1>5, <1>6, <1>7, MessageParts

LEMMA ReceiveStep ==
  ASSUME TypeOK, Routed, NEW c \in Client, Receive(c)
  PROVE  Step(c, Head(inbox[c]), Reaction(c).info, Reaction(c).sent)
<1> DEFINE m == Head(inbox[c])
           after == Reaction(c)
<1>1. /\ inbox[c] # << >> /\ gone' = gone
      /\ info' = [info EXCEPT ![c] = after.info]
      /\ Relay(c, after.sent, [inbox EXCEPT ![c] = Tail(@)])
  BY DEF Receive, Reaction
<1>2. c \in Client \ gone
  BY <1>1 DEF Routed
<1>3. inbox[c] \in Seq(Message) /\ info[c] \in View
  BY TypeParts
<1>4. m \in Message
  BY <1>1, <1>3, HeadTailProperties
<1>5. after.info \in View /\ after.sent \in Seq(Message)
  BY <1>3, <1>4, HandledTypes DEF Reaction
<1> HIDE DEF after
<1>6. Step(c, m, after.info, after.sent)
  BY <1>1, <1>2, <1>5, RelayStep
<1> QED BY <1>6 DEF after

\* What c sends is about its own players, and a restart is the answer to a request.
OwnSent(c, m, x) ==
  \/ x.type \in {"rows", "over", "external"} /\ Owner[x.player] = c
  \/ IsRestart(x, c) /\ m.type = "ask"

\* What reading m makes of the players of others, and of its own.
CopiesPlay(c, m, seen) ==
  \A q \in Player :
    /\ Owner[q] # c /\ Owner[q] \notin gone =>
         (q \in Playing(seen) <=> Starts(m, q) \/ (q \in Playing(info[c]) /\ ~Ends(m, q)))
    /\ Owner[q] \in gone /\ q \notin Playing(info[c]) => q \notin Playing(seen)

OwnPlay(c, m, seen, sent) ==
  \A q \in Player : Owner[q] = c =>
    /\ q \in Playing(seen) => q \in Playing(info[c])
    /\ q \in Playing(info[c]) /\ q \notin Playing(seen) => \E k \in DOMAIN sent : IsOver(sent[k], q)
    /\ \A k \in DOMAIN sent : IsOver(sent[k], q) => q \notin Playing(seen)
    /\ Playing(seen) = {q} => Playing(info[c]) = {q}

Plays(c, m, seen, sent) ==
  /\ \A k \in DOMAIN sent : OwnSent(c, m, sent[k])
  /\ CopiesPlay(c, m, seen)
  /\ m.type = "gone" => Playing(seen) = {}
  /\ IF m.type = "ask"
       THEN /\ sent = <<[type |-> "restart", client |-> c]>>
            /\ \A q \in Player : Owner[q] = c => q \in Playing(seen)
       ELSE OwnPlay(c, m, seen, sent)

\* gameOver leaves no local player alone.
LEMMA NotLeftAlone ==
  ASSUME NEW c, NEW i, NEW p, NEW q \in Player, Owner[q] = c,
         (Playing(i) \ {p}) \ LastOne(c, i, p) = {q}
  PROVE  FALSE
<1> DEFINE rest == Playing(i) \ {p}
<1>1. IsFiniteSet(rest)
  <2>1. rest \in SUBSET Player
    BY DEF Playing
  <2> HIDE DEF rest
  <2> QED BY <2>1, PlayersAreFinite
<1>2. q \in rest
  OBVIOUS
<1>3. CASE Cardinality(rest) = 1
  <2>1. LastOne(c, i, p) = {r \in rest : Owner[r] = c}
    BY <1>3 DEF LastOne
  <2> QED BY <1>2, <2>1
<1>4. CASE Cardinality(rest) # 1
  <2>1. LastOne(c, i, p) = {}
    BY <1>4 DEF LastOne
  <2>2. rest = {q}
    BY <2>1
  <2> HIDE DEF rest
  <2> QED BY <1>4, <2>2, FS_Singleton
<1> QED BY <1>3, <1>4

LEMMA NoMessageTells ==
  /\ NoMessage.type = "none"
  /\ \A q : ~Starts(NoMessage, q) /\ ~Ends(NoMessage, q)
BY DEF NoMessage, Starts, Ends, IsRestart, IsOver

\* Nothing changes for anybody.
LEMMA StillPlays ==
  ASSUME NEW c \in Client, NEW m, NEW seen, NEW sent,
         Playing(seen) = Playing(info[c]),
         m.type \notin {"ask", "gone"},
         \A q \in Player : Owner[q] # c /\ Owner[q] \notin gone => ~Starts(m, q) /\ ~Ends(m, q),
         \A k \in DOMAIN sent : sent[k].type \in {"rows", "external"} /\ Owner[sent[k].player] = c
  PROVE  Plays(c, m, seen, sent)
<1>1. \A k \in DOMAIN sent : OwnSent(c, m, sent[k])
  BY DEF OwnSent
<1>2. CopiesPlay(c, m, seen)
  BY DEF CopiesPlay
<1>3. OwnPlay(c, m, seen, sent)
  BY DEF OwnPlay, IsOver
<1> QED BY <1>1, <1>2, <1>3 DEF Plays

LEMMA LocalRowsPlays ==
  ASSUME TypeOK, NEW c \in Client, NEW p \in Player, NEW n \in {1, 4}, LocalRows(c, p, n)
  PROVE  LET after == RowsRemoved(c, info[c], p, n) IN
           Plays(c, NoMessage, after.info, <<Rows(p, n)>> \o after.sent)
<1> DEFINE after == RowsRemoved(c, info[c], p, n)
           sent == <<Rows(p, n)>> \o after.sent
<1>1. info[c] \in View /\ plan.rules \in {"Default", "Survival"} /\ Owner[p] = c
  BY TypeParts DEF LocalRows, isLocal
<1>2. /\ Playing(after.info) = Playing(info[c]) /\ after.sent \in Seq(Message)
      /\ \A k \in DOMAIN after.sent : after.sent[k].type = "external" /\ Owner[after.sent[k].player] = c
  BY <1>1, RowsParts
<1>3. \A k \in DOMAIN sent : sent[k] = Rows(p, n) \/ \E j \in DOMAIN after.sent : sent[k] = after.sent[j]
  <2> DEFINE x == Rows(p, n)
             s == after.sent
  <2>1. x \in Message /\ s \in Seq(Message)
    BY <1>2, RowsIsMessage
  <2> HIDE DEF x, s
  <2>2. \A k \in DOMAIN (<<x>> \o s) : (<<x>> \o s)[k] = x \/ \E j \in DOMAIN s : (<<x>> \o s)[k] = s[j]
    BY <2>1, FirstAndRest
  <2> QED BY <2>2 DEF x, s
<1> HIDE DEF after, sent
<1>4. \A k \in DOMAIN sent : sent[k].type \in {"rows", "external"} /\ Owner[sent[k].player] = c
  BY <1>1, <1>2, <1>3, RowsIsMessage
<1>5. Plays(c, NoMessage, after.info, sent)
  BY <1>2, <1>4, NoMessageTells, StillPlays
<1> QED BY <1>5 DEF after, sent

LEMMA LocalDeathPlays ==
  ASSUME TypeOK, NEW c \in Client, NEW p \in Player, LocalDeath(c, p)
  PROVE  LET after == gameOver(c, info[c], p) IN
           Plays(c, NoMessage, after.info, <<Over(p)>> \o after.sent)
<1> DEFINE after == gameOver(c, info[c], p)
           last == LastOne(c, info[c], p)
           sent == <<Over(p)>> \o after.sent
<1>1. info[c] \in View /\ Owner[p] = c /\ p \in Playing(info[c])
  BY TypeParts DEF LocalDeath, isLocal
<1>2. /\ Playing(after.info) = (Playing(info[c]) \ {p}) \ last
      /\ TellsOver(after.sent, last)
  BY <1>1, GameOverParts
<1>3. /\ \A k \in DOMAIN sent : sent[k] = Over(p) \/ \E j \in DOMAIN after.sent : sent[k] = after.sent[j]
      /\ \E k \in DOMAIN sent : sent[k] = Over(p)
      /\ \A j \in DOMAIN after.sent : \E k \in DOMAIN sent : sent[k] = after.sent[j]
  <2> DEFINE x == Over(p)
             s == after.sent
  <2>1. x \in Message /\ s \in Seq(Message)
    BY <1>2, OverIsMessage DEF TellsOver
  <2> HIDE DEF x, s
  <2>2. \A k \in DOMAIN (<<x>> \o s) : (<<x>> \o s)[k] = x \/ \E j \in DOMAIN s : (<<x>> \o s)[k] = s[j]
    BY <2>1, FirstAndRest
  <2>3. 1 \in DOMAIN (<<x>> \o s) /\ (<<x>> \o s)[1] = x
    BY <2>1, FirstAndRest
  <2>4. \A j \in DOMAIN s : 1 + j \in DOMAIN (<<x>> \o s) /\ (<<x>> \o s)[1 + j] = s[j]
    BY <2>1, FirstAndRest
  <2> DEFINE all == <<x>> \o s
  <2>5. sent = all
    BY DEF x, s
  <2> HIDE DEF all, sent
  <2>6. /\ \A k \in DOMAIN sent : sent[k] = x \/ \E j \in DOMAIN s : sent[k] = s[j]
        /\ \E k \in DOMAIN sent : sent[k] = x
        /\ \A j \in DOMAIN s : \E k \in DOMAIN sent : sent[k] = s[j]
    BY <2>2, <2>3, <2>4, <2>5 DEF all
  <2> QED BY <2>6 DEF x, s
<1>4. \A q \in last : q \in Playing(info[c]) /\ Owner[q] = c
  BY DEF LastOne
<1> HIDE DEF after, last, sent
<1>5. /\ \A k \in DOMAIN sent : sent[k].type = "over" /\ sent[k].player \in {p} \cup last
      /\ \A q \in {p} \cup last : \E k \in DOMAIN sent : sent[k].type = "over" /\ sent[k].player = q
  <2> DEFINE s == after.sent
  <2>1. /\ \A k \in DOMAIN s : s[k].type = "over" /\ s[k].player \in last
        /\ \A q \in last : \E k \in DOMAIN s : s[k] = Over(q)
    BY <1>2 DEF TellsOver
  <2> HIDE DEF s
  <2>2. \A q \in {p} \cup last : Over(q).type = "over" /\ Over(q).player = q
    BY DEF Over
  <2>3. \A k \in DOMAIN sent : sent[k] = Over(p) \/ \E j \in DOMAIN s : sent[k] = s[j]
    BY <1>3 DEF s
  <2>4. \A k \in DOMAIN sent : sent[k].type = "over" /\ sent[k].player \in {p} \cup last
    BY <2>1, <2>2, <2>3
  <2>5. /\ \E k \in DOMAIN sent : sent[k] = Over(p)
        /\ \A j \in DOMAIN s : \E k \in DOMAIN sent : sent[k] = s[j]
    BY <1>3 DEF s
  <2>6. \A q \in {p} \cup last : \E k \in DOMAIN sent : sent[k] = Over(q)
    BY <2>1, <2>5
  <2> QED BY <2>2, <2>4, <2>6
<1>6. \A k \in DOMAIN sent : OwnSent(c, NoMessage, sent[k])
  BY <1>1, <1>4, <1>5 DEF OwnSent
<1>7. CopiesPlay(c, NoMessage, after.info)
  BY <1>1, <1>2, <1>4, NoMessageTells DEF CopiesPlay
<1>8. \A q \in Player : Owner[q] = c => Playing(after.info) # {q}
  BY <1>2, NotLeftAlone DEF last
<1>9. OwnPlay(c, NoMessage, after.info, sent)
  BY <1>1, <1>2, <1>5, <1>8 DEF OwnPlay, IsOver
<1>10. Plays(c, NoMessage, after.info, sent)
  BY <1>6, <1>7, <1>9, NoMessageTells DEF Plays
<1> QED BY <1>10 DEF after, sent

LEMMA ReceivePlays ==
  ASSUME TypeOK, Routed, NEW c \in Client \ gone, inbox[c] # << >>
  PROVE  Plays(c, Head(inbox[c]), Reaction(c).info, Reaction(c).sent)
<1> DEFINE i == info[c]
           m == Head(inbox[c])
           seen == Reaction(c).info
           sent == Reaction(c).sent
<1>1. i \in View /\ plan.rules \in {"Default", "Survival"} /\ m \in Message
  BY TypeParts, HeadTailProperties
<1>2. FromOther(gone, c, m)
  <2>1. inbox[c] \in Seq(Message)
    BY TypeParts
  <2>2. 1 \in DOMAIN inbox[c] /\ inbox[c][1] = m
    BY <2>1, Read
  <2> QED BY <2>2 DEF Routed
<1>3. Reaction(c) = IF Ignored(c, i, m) THEN [info |-> i, sent |-> << >>] ELSE Handled(c, i, m)
  BY DEF Reaction
<1> HIDE DEF i, m
<1>4. CASE Ignored(c, i, m)
  <2>1. seen = i /\ sent = << >>
    BY <1>3, <1>4
  <2>2. m.type \notin {"ask", "gone"}
    BY <1>4 DEF Ignored
  <2>3. \A q \in Player : Owner[q] # c /\ Owner[q] \notin gone => ~Starts(m, q) /\ ~Ends(m, q)
    BY <1>4 DEF Ignored, Starts, Ends, IsRestart, IsOver
  <2>4. Playing(seen) = Playing(info[c])
    BY <2>1 DEF i
  <2> HIDE DEF seen, sent
  <2>5. Plays(c, m, seen, sent)
    BY <2>1, <2>2, <2>3, <2>4, StillPlays
  <2> QED BY <2>5 DEF seen, sent, m
<1>5. CASE ~Ignored(c, i, m)
  <2>1. seen = Handled(c, i, m).info /\ sent = Handled(c, i, m).sent
    BY <1>3, <1>5
  <2> HIDE DEF seen, sent
  <2>2. CASE m.type = "rows"
    <3>1. m.player \in Player /\ m.n \in {1, 4}
      BY <1>1, <2>2, MessageParts
    <3>2. Handled(c, i, m) = RowsRemoved(c, i, m.player, m.n)
      BY <2>2 DEF Handled
    <3>3. /\ Playing(seen) = Playing(info[c])
          /\ \A k \in DOMAIN sent : sent[k].type = "external" /\ Owner[sent[k].player] = c
      BY <1>1, <2>1, <3>1, <3>2, RowsParts DEF i
    <3>4. \A q \in Player : ~Starts(m, q) /\ ~Ends(m, q)
      BY <2>2 DEF Starts, Ends, IsRestart, IsOver
    <3>5. Plays(c, m, seen, sent)
      BY <2>2, <3>3, <3>4, StillPlays
    <3> QED BY <3>5 DEF m, seen, sent
  <2>3. CASE m.type = "external"
    <3>1. m.player \in Player
      BY <1>1, <2>3, MessageParts
    <3>2. Handled(c, i, m) = [info |-> [i EXCEPT ![m.player].externalRows = @ + 2], sent |-> << >>]
      BY <2>3 DEF Handled
    <3>3. Playing(seen) = Playing(info[c]) /\ sent = << >>
      BY <1>1, <2>1, <3>1, <3>2 DEF i, Playing, View, Seen
    <3>4. \A q \in Player : ~Starts(m, q) /\ ~Ends(m, q)
      BY <2>3 DEF Starts, Ends, IsRestart, IsOver
    <3>5. Plays(c, m, seen, sent)
      BY <2>3, <3>3, <3>4, StillPlays
    <3> QED BY <3>5 DEF m, seen, sent
  <2>4. CASE m.type = "over"
    <3> DEFINE p == m.player
               last == IF i[p].isGameOver THEN {} ELSE LastOne(c, i, p)
    <3>1. p \in Player /\ Owner[p] # c
      BY <1>1, <1>2, <2>4, MessageParts DEF FromOther
    <3>2. Handled(c, i, m) = End(c, i, p)
      BY <2>4 DEF Handled
    <3>3. Playing(seen) = Playing(i) \ ({p} \cup last) /\ TellsOver(sent, last)
      BY <1>1, <2>1, <3>1, <3>2, EndParts
    <3>4. \A q \in last : q \in Playing(i) /\ Owner[q] = c
      BY DEF LastOne
    <3>5. \A q : Starts(m, q) = FALSE /\ (Ends(m, q) <=> q = p)
      BY <2>4 DEF Starts, Ends, IsRestart, IsOver
    <3>6. ASSUME NEW q \in Player, Owner[q] = c, Playing(seen) = {q} PROVE Playing(i) = {q}
      <4>1. CASE i[p].isGameOver
        <5>1. last = {} /\ p \notin Playing(i)
          BY <4>1 DEF Playing
        <5> QED BY <3>3, <3>6, <5>1
      <4>2. CASE ~i[p].isGameOver
        <5>1. last = LastOne(c, i, p)
          BY <4>2
        <5> HIDE DEF last, p
        <5>2. (Playing(i) \ {p}) \ LastOne(c, i, p) = {q}
          BY <3>3, <3>6, <5>1
        <5> QED BY <3>6, <5>2, NotLeftAlone
      <4> QED BY <4>1, <4>2
    <3> HIDE DEF p, last
    <3>7. CopiesPlay(c, m, seen)
      BY <3>3, <3>4, <3>5 DEF CopiesPlay, i
    <3>8. \A k \in DOMAIN sent : OwnSent(c, m, sent[k])
      BY <3>3, <3>4 DEF TellsOver, OwnSent
    <3>9. OwnPlay(c, m, seen, sent)
      <4>1. \A q \in last : \E k \in DOMAIN sent : IsOver(sent[k], q)
        BY <3>3 DEF TellsOver, IsOver, Over
      <4>2. \A k \in DOMAIN sent : \A q : IsOver(sent[k], q) => q \in last
        BY <3>3 DEF TellsOver, IsOver
      <4> QED BY <3>1, <3>3, <3>6, <4>1, <4>2 DEF OwnPlay, i
    <3> QED BY <2>4, <3>7, <3>8, <3>9 DEF Plays, m, seen, sent
  <2>5. CASE m.type = "ask"
    <3>1. Handled(c, i, m) = [info |-> restart(i, c), sent |-> <<[type |-> "restart", client |-> c]>>]
      BY <2>5 DEF Handled
    <3>2. Playing(seen) = Playing(i) \cup {q \in Player : Owner[q] = c}
      BY <1>1, <2>1, <3>1, RestartParts
    <3>3. sent = <<[type |-> "restart", client |-> c]>>
      BY <2>1, <3>1
    <3>4. \A k \in DOMAIN sent : OwnSent(c, m, sent[k])
      BY <2>5, <3>3 DEF OwnSent, IsRestart
    <3>5. \A q : ~Starts(m, q) /\ ~Ends(m, q)
      BY <2>5 DEF Starts, Ends, IsRestart, IsOver
    <3>6. CopiesPlay(c, m, seen)
      BY <3>2, <3>5 DEF CopiesPlay, i
    <3> QED BY <2>5, <3>2, <3>3, <3>4, <3>6 DEF Plays, m, seen, sent
  <2>6. CASE m.type = "restart"
    <3> DEFINE e == m.client
    <3>1. e \in Client /\ e # c /\ e \notin gone
      BY <1>1, <1>2, <1>5, <2>6, MessageParts DEF FromOther, Ignored
    <3>2. Handled(c, i, m) = [info |-> restart(i, e), sent |-> << >>]
      BY <2>6 DEF Handled
    <3>3. Playing(seen) = Playing(i) \cup {q \in Player : Owner[q] = e} /\ sent = << >>
      BY <1>1, <2>1, <3>1, <3>2, RestartParts
    <3>4. \A q : (Starts(m, q) <=> Owner[q] = e) /\ ~Ends(m, q)
      BY <2>6 DEF Starts, Ends, IsRestart, IsOver
    <3> HIDE DEF e
    <3>5. CopiesPlay(c, m, seen)
      BY <3>1, <3>3, <3>4 DEF CopiesPlay, i
    <3>6. OwnPlay(c, m, seen, sent)
      <4>1. ASSUME NEW q \in Player, Owner[q] = c, Playing(seen) = {q} PROVE Playing(i) = {q}
        <5>1. \A r \in Player : Owner[r] = e => r = q
          BY <3>3, <4>1
        <5>2. \A r \in Player : Owner[r] # e
          BY <3>1, <4>1, <5>1
        <5> QED BY <3>3, <4>1, <5>2
      <4> QED BY <3>1, <3>3, <4>1 DEF OwnPlay, i
    <3> QED BY <2>6, <3>3, <3>5, <3>6 DEF Plays, m, seen, sent
  <2>7. CASE m.type = "gone"
    <3>1. Handled(c, i, m) = EndAll(c, i)
      BY <2>7 DEF Handled
    <3>2. Playing(seen) = {} /\ TellsOver(sent, {q \in Playing(i) : Owner[q] = c})
      BY <1>1, <2>1, <3>1, EndAllParts
    <3>3. \A q : Starts(m, q) = FALSE /\ Ends(m, q)
      BY <2>7 DEF Starts, Ends, IsRestart, IsOver
    <3>4. CopiesPlay(c, m, seen)
      BY <3>2, <3>3 DEF CopiesPlay, i
    <3>5. \A k \in DOMAIN sent : OwnSent(c, m, sent[k])
      BY <3>2 DEF TellsOver, OwnSent
    <3>6. OwnPlay(c, m, seen, sent)
      <4>1. \A q \in Playing(i) : Owner[q] = c => \E k \in DOMAIN sent : IsOver(sent[k], q)
        BY <3>2 DEF TellsOver, IsOver, Over
      <4> QED BY <3>2, <4>1 DEF OwnPlay, i
    <3> QED BY <2>7, <3>2, <3>4, <3>5, <3>6 DEF Plays, m, seen, sent
  <2> QED BY <1>1, <2>2, <2>3, <2>4, <2>5, <2>6, <2>7, MessageParts
<1> QED BY <1>4, <1>5

-----------------------------------------------------------------------------
(* Types, and where messages come from *)

Budget == [rules : {"Default", "Survival"}, removals : Nat, deaths : Nat, restarts : Nat, vanish : Nat]

LEMMA SpendParts ==
  ASSUME plan \in Budget, NEW what \in {"removals", "deaths", "restarts", "vanish"}, Spend(what)
  PROVE  plan' \in Budget /\ plan'.rules = plan.rules
BY DEF Budget, Spend

AskMessage == [type |-> "ask"]
GoneMessage(c) == [type |-> "gone", client |-> c]

LEMMA AskStep ==
  ASSUME TypeOK, AskRestart
  PROVE  /\ info' = info /\ gone' = gone
         /\ inbox' \in [Client -> Seq(Message)]
         /\ AskMessage \in Message
         /\ \A d \in Client : inbox'[d] = IF d \in gone THEN inbox[d] ELSE inbox[d] \o <<AskMessage>>
<1>1. inbox \in [Client -> Seq(Message)]
  BY TypeParts
<1>2. AskMessage \in Message
  BY DEF AskMessage, Message
<1>3. /\ info' = info /\ gone' = gone
      /\ inbox' = [d \in Client |-> IF d \in gone THEN inbox[d] ELSE Append(inbox[d], AskMessage)]
  BY DEF AskRestart, AskMessage
<1>4. ASSUME NEW d \in Client
      PROVE  /\ inbox'[d] = IF d \in gone THEN inbox[d] ELSE inbox[d] \o <<AskMessage>>
             /\ inbox'[d] \in Seq(Message)
  <2>1. inbox[d] \in Seq(Message)
    BY <1>1
  <2>2. Append(inbox[d], AskMessage) = inbox[d] \o <<AskMessage>> /\ Append(inbox[d], AskMessage) \in Seq(Message)
    BY <1>2, <2>1, AppendIsConcat, AppendProperties
  <2> QED BY <1>3, <2>1, <2>2
<1>5. inbox' \in [Client -> Seq(Message)]
  <2>1. inbox' = [d \in Client |-> inbox'[d]]
    BY <1>3
  <2> QED BY <1>4, <2>1
<1> QED BY <1>2, <1>3, <1>4, <1>5

LEMMA VanishStep ==
  ASSUME TypeOK, NEW c \in Client, Vanish(c)
  PROVE  /\ c \notin gone /\ info' = info /\ gone' = gone \cup {c}
         /\ inbox' \in [Client -> Seq(Message)]
         /\ GoneMessage(c) \in Message
         /\ inbox'[c] = << >>
         /\ \A d \in Client : d # c =>
              inbox'[d] = IF d \in gone THEN inbox[d] ELSE inbox[d] \o <<GoneMessage(c)>>
<1>1. inbox \in [Client -> Seq(Message)]
  BY TypeParts
<1>2. GoneMessage(c) \in Message
  BY DEF GoneMessage, Message
<1>3. /\ c \notin gone /\ info' = info /\ gone' = gone \cup {c}
      /\ inbox' = [d \in Client |-> IF d = c THEN << >> ELSE IF d \in gone THEN inbox[d]
                                    ELSE Append(inbox[d], GoneMessage(c))]
  BY DEF Vanish, GoneMessage
<1>4. ASSUME NEW d \in Client
      PROVE  /\ d # c => inbox'[d] = IF d \in gone THEN inbox[d] ELSE inbox[d] \o <<GoneMessage(c)>>
             /\ inbox'[d] \in Seq(Message)
  <2> DEFINE m == GoneMessage(c)
  <2>1. inbox[d] \in Seq(Message) /\ m \in Message
    BY <1>1, <1>2
  <2> HIDE DEF m
  <2>2. Append(inbox[d], m) = inbox[d] \o <<m>> /\ Append(inbox[d], m) \in Seq(Message)
    BY <2>1, AppendIsConcat, AppendProperties
  <2>3. << >> \in Seq(Message)
    OBVIOUS
  <2> QED BY <1>3, <2>1, <2>2, <2>3 DEF m
<1>5. inbox' \in [Client -> Seq(Message)]
  <2>1. inbox' = [d \in Client |-> inbox'[d]]
    BY <1>3
  <2> QED BY <1>4, <2>1
<1> QED BY <1>2, <1>3, <1>4, <1>5

\* What a client did in a step.
ClientSteps(c) ==
  \E m, seen, sent : Step(c, m, seen, sent) /\ Plays(c, m, seen, sent)

LEMMA EveryStep ==
  ASSUME TypeOK, Routed, Next
  PROVE  (\E c \in Client : ClientSteps(c) \/ Vanish(c)) \/ AskRestart
<1>1. ASSUME NEW c \in Client, NEW p \in Player, NEW n \in {1, 4}, LocalRows(c, p, n) PROVE ClientSteps(c)
  BY <1>1, LocalRowsStep, LocalRowsPlays DEF ClientSteps
<1>2. ASSUME NEW c \in Client, NEW p \in Player, LocalDeath(c, p) PROVE ClientSteps(c)
  BY <1>2, LocalDeathStep, LocalDeathPlays DEF ClientSteps
<1>3. ASSUME NEW c \in Client, Receive(c) PROVE ClientSteps(c)
  <2>1. inbox[c] # << >>
    BY <1>3 DEF Receive
  <2>2. c \in Client \ gone
    BY <2>1 DEF Routed
  <2> QED BY <1>3, <2>1, <2>2, ReceiveStep, ReceivePlays DEF ClientSteps
<1> QED BY <1>1, <1>2, <1>3 DEF Next

LEMMA PlanKept ==
  ASSUME TypeOK, Next
  PROVE  plan' \in Budget /\ plan'.rules = plan.rules
         /\ causes \subseteq causes' /\ causes' \subseteq {"deaths crossed", "restart crossed", "client vanished"}
<1>1. plan \in Budget /\ causes \subseteq {"deaths crossed", "restart crossed", "client vanished"}
  BY DEF TypeOK, Budget
<1>2. ASSUME NEW c \in Client, NEW p \in Player, NEW n \in {1, 4}, LocalRows(c, p, n)
      PROVE  plan' \in Budget /\ plan'.rules = plan.rules
             /\ causes \subseteq causes' /\ causes' \subseteq {"deaths crossed", "restart crossed", "client vanished"}
  <2>1. Spend("removals") /\ causes' \in {causes, causes \cup {"restart crossed"}}
    BY <1>2 DEF LocalRows
  <2> QED BY <1>1, <2>1, SpendParts
<1>3. ASSUME NEW c \in Client, NEW p \in Player, LocalDeath(c, p)
      PROVE  plan' \in Budget /\ plan'.rules = plan.rules
             /\ causes \subseteq causes' /\ causes' \subseteq {"deaths crossed", "restart crossed", "client vanished"}
  <2>1. Spend("deaths")
        /\ causes' = causes \cup (IF Pending(c, {"over"}) THEN {"deaths crossed"} ELSE {})
                            \cup (IF Restarting THEN {"restart crossed"} ELSE {})
    BY <1>3 DEF LocalDeath
  <2> QED BY <1>1, <2>1, SpendParts
<1>4. ASSUME NEW c \in Client, Receive(c)
      PROVE  plan' \in Budget /\ plan'.rules = plan.rules
             /\ causes \subseteq causes' /\ causes' \subseteq {"deaths crossed", "restart crossed", "client vanished"}
  BY <1>1, <1>4 DEF Receive
<1>5. ASSUME NEW c \in Client, Vanish(c)
      PROVE  plan' \in Budget /\ plan'.rules = plan.rules
             /\ causes \subseteq causes' /\ causes' \subseteq {"deaths crossed", "restart crossed", "client vanished"}
  <2>1. Spend("vanish") /\ causes' = causes \cup {"client vanished"}
    BY <1>5 DEF Vanish
  <2> QED BY <1>1, <2>1, SpendParts
<1>6. ASSUME AskRestart
      PROVE  plan' \in Budget /\ plan'.rules = plan.rules
             /\ causes \subseteq causes' /\ causes' \subseteq {"deaths crossed", "restart crossed", "client vanished"}
  <2>1. Spend("restarts") /\ causes' \in {causes, causes \cup {"restart crossed"}}
    BY <1>6 DEF AskRestart
  <2> QED BY <1>1, <2>1, SpendParts
<1> QED BY <1>2, <1>3, <1>4, <1>5, <1>6 DEF Next

LEMMA TypeKept ==
  ASSUME TypeOK, Routed, Next
  PROVE  TypeOK'
<1>1. plan' \in Budget /\ causes' \subseteq {"deaths crossed", "restart crossed", "client vanished"}
  BY PlanKept
<1>2. info \in [Client -> View] /\ gone \subseteq Client
  BY TypeParts
<1>3. info' \in [Client -> View] /\ inbox' \in [Client -> Seq(Message)] /\ gone' \subseteq Client
  <2>1. ASSUME NEW c \in Client, ClientSteps(c)
        PROVE  info' \in [Client -> View] /\ inbox' \in [Client -> Seq(Message)] /\ gone' \subseteq Client
    BY <1>2, <2>1 DEF ClientSteps, Step
  <2>2. ASSUME NEW c \in Client, Vanish(c)
        PROVE  info' \in [Client -> View] /\ inbox' \in [Client -> Seq(Message)] /\ gone' \subseteq Client
    BY <1>2, <2>2, VanishStep
  <2>3. ASSUME AskRestart
        PROVE  info' \in [Client -> View] /\ inbox' \in [Client -> Seq(Message)] /\ gone' \subseteq Client
    BY <1>2, <2>3, AskStep
  <2> QED BY <2>1, <2>2, <2>3, EveryStep
<1> QED BY <1>1, <1>3 DEF TypeOK, Budget, View, Seen
\* What was in the box and what was added to it is about others.
LEMMA RoutedAdded ==
  ASSUME NEW g, NEW d, NEW box \in Seq(Message), NEW sent \in Seq(Message),
         \A k \in DOMAIN box : FromOther(g, d, box[k]),
         \A k \in DOMAIN sent : FromOther(g, d, sent[k])
  PROVE  \A k \in DOMAIN (box \o sent) : FromOther(g, d, (box \o sent)[k])
<1>1. \A k \in DOMAIN (box \o sent) :
        \/ k \in DOMAIN box /\ (box \o sent)[k] = box[k]
        \/ \E j \in DOMAIN sent : (box \o sent)[k] = sent[j]
  BY Added
<1> QED BY <1>1

LEMMA RoutedOne ==
  ASSUME NEW g, NEW d, NEW box \in Seq(Message), NEW m \in Message,
         \A k \in DOMAIN box : FromOther(g, d, box[k]),
         FromOther(g, d, m)
  PROVE  \A k \in DOMAIN (box \o <<m>>) : FromOther(g, d, (box \o <<m>>)[k])
<1> DEFINE sent == <<m>>
<1>1. sent \in Seq(Message) /\ \A k \in DOMAIN sent : sent[k] = m
  OBVIOUS
<1> HIDE DEF sent
<1>2. \A k \in DOMAIN (box \o sent) : FromOther(g, d, (box \o sent)[k])
  BY <1>1, RoutedAdded
<1> QED BY <1>2 DEF sent

\* The same for a vanished client more.
LEMMA RoutedMore ==
  ASSUME NEW g, NEW h, NEW d, NEW m, FromOther(g, d, m), g \subseteq h
  PROVE  FromOther(h, d, m)
BY DEF FromOther

LEMMA RoutedKept ==
  ASSUME TypeOK, Routed, Next
  PROVE  Routed'
<1>1. inbox \in [Client -> Seq(Message)] /\ gone \subseteq Client
  BY TypeParts
<1>2. /\ \A d \in Client : \A k \in DOMAIN inbox[d] : FromOther(gone, d, inbox[d][k])
      /\ \A d \in gone : inbox[d] = << >>
      /\ gone # {} => "client vanished" \in causes
  BY DEF Routed
<1>3. causes \subseteq causes'
  BY PlanKept
<1>4. ASSUME NEW c \in Client, NEW m, NEW seen, NEW sent, Step(c, m, seen, sent), Plays(c, m, seen, sent)
      PROVE  Routed'
  <2>1. /\ c \in Client \ gone /\ gone' = gone /\ sent \in Seq(Message)
        /\ \/ m = NoMessage /\ inbox'[c] = inbox[c]
           \/ m \in Message /\ inbox[c] # << >> /\ m = Head(inbox[c]) /\ inbox'[c] = Tail(inbox[c])
        /\ \A d \in Client : d # c => inbox'[d] = IF d \in gone THEN inbox[d] ELSE inbox[d] \o sent
    BY <1>4 DEF Step
  <2>2. ASSUME NEW d \in Client, d # c PROVE \A k \in DOMAIN sent : FromOther(gone, d, sent[k])
    <3>1. \A k \in DOMAIN sent : OwnSent(c, m, sent[k])
      BY <1>4 DEF Plays
    <3>2. ASSUME NEW k \in DOMAIN sent PROVE FromOther(gone, d, sent[k])
      <4> DEFINE x == sent[k]
      <4>1. OwnSent(c, m, x)
        BY <3>1
      <4> HIDE DEF x
      <4>2. FromOther(gone, d, x)
        BY <2>2, <4>1 DEF OwnSent, FromOther, IsRestart
      <4> QED BY <4>2 DEF x
    <3> QED BY <3>2
  <2>3. ASSUME NEW d \in Client PROVE \A k \in DOMAIN inbox'[d] : FromOther(gone, d, inbox'[d][k])
    <3>1. inbox[d] \in Seq(Message) /\ \A k \in DOMAIN inbox[d] : FromOther(gone, d, inbox[d][k])
      BY <1>1, <1>2
    <3>2. CASE d # c
      <4>1. \A k \in DOMAIN (inbox[d] \o sent) : FromOther(gone, d, (inbox[d] \o sent)[k])
        BY <2>1, <2>2, <3>1, <3>2, RoutedAdded
      <4> QED BY <2>1, <3>1, <3>2, <4>1
    <3>3. CASE d = c /\ inbox'[c] = inbox[c]
      BY <3>1, <3>3
    <3>4. CASE d = c /\ inbox[c] # << >> /\ inbox'[c] = Tail(inbox[c])
      <4>1. \A k \in DOMAIN Tail(inbox[c]) : k + 1 \in DOMAIN inbox[c] /\ Tail(inbox[c])[k] = inbox[c][k + 1]
        BY <3>1, <3>4, Read
      <4>2. \A k \in DOMAIN Tail(inbox[c]) : FromOther(gone, d, Tail(inbox[c])[k])
        BY <3>1, <3>4, <4>1
      <4> QED BY <3>4, <4>2
    <3> QED BY <2>1, <3>2, <3>3, <3>4
  <2>4. \A d \in gone : inbox'[d] = << >>
    BY <1>1, <1>2, <2>1
  <2> QED BY <1>2, <1>3, <2>1, <2>3, <2>4 DEF Routed
<1>5. ASSUME NEW c \in Client, Vanish(c) PROVE Routed'
  <2> DEFINE m == GoneMessage(c)
             h == gone \cup {c}
  <2>1. /\ gone' = h
        /\ m \in Message
        /\ inbox'[c] = << >>
        /\ \A d \in Client : d # c => inbox'[d] = IF d \in gone THEN inbox[d] ELSE inbox[d] \o <<m>>
    BY <1>5, VanishStep
  <2>2. \A d \in Client : d # c => FromOther(h, d, m)
    BY DEF FromOther, GoneMessage
  <2>3. \A d \in Client : \A k \in DOMAIN inbox[d] : FromOther(h, d, inbox[d][k])
    BY <1>2, RoutedMore
  <2> HIDE DEF m, h
  <2>4. ASSUME NEW d \in Client PROVE \A k \in DOMAIN inbox'[d] : FromOther(h, d, inbox'[d][k])
    <3>1. inbox[d] \in Seq(Message)
      BY <1>1
    <3>2. CASE d = c
      <4>1. DOMAIN inbox'[d] = {}
        BY <2>1, <3>2
      <4> QED BY <4>1
    <3>3. CASE d # c
      <4>1. \A k \in DOMAIN (inbox[d] \o <<m>>) : FromOther(h, d, (inbox[d] \o <<m>>)[k])
        BY <2>1, <2>2, <2>3, <3>1, <3>3, RoutedOne
      <4> QED BY <2>1, <2>3, <3>3, <4>1
    <3> QED BY <3>2, <3>3
  <2>5. \A d \in h : inbox'[d] = << >>
    BY <1>1, <1>2, <2>1 DEF h
  <2>6. "client vanished" \in causes'
    BY <1>5 DEF Vanish
  <2> QED BY <2>1, <2>4, <2>5, <2>6 DEF Routed
<1>6. ASSUME AskRestart PROVE Routed'
  <2> DEFINE m == AskMessage
  <2>1. /\ gone' = gone
        /\ m \in Message
        /\ \A d \in Client : inbox'[d] = IF d \in gone THEN inbox[d] ELSE inbox[d] \o <<m>>
    BY <1>6, AskStep
  <2>2. \A d \in Client : FromOther(gone, d, m)
    BY DEF FromOther, AskMessage
  <2> HIDE DEF m
  <2>4. ASSUME NEW d \in Client PROVE \A k \in DOMAIN inbox'[d] : FromOther(gone, d, inbox'[d][k])
    <3>1. inbox[d] \in Seq(Message)
      BY <1>1
    <3>2. \A k \in DOMAIN (inbox[d] \o <<m>>) : FromOther(gone, d, (inbox[d] \o <<m>>)[k])
      BY <1>2, <2>1, <2>2, <3>1, RoutedOne
    <3> QED BY <1>2, <2>1, <3>2
  <2>5. \A d \in gone : inbox'[d] = << >>
    BY <1>1, <1>2, <2>1
  <2> QED BY <1>2, <1>3, <2>1, <2>4, <2>5 DEF Routed
<1> QED BY <1>4, <1>5, <1>6, EveryStep DEF ClientSteps

-----------------------------------------------------------------------------
(* Nobody plays alone: steps of one client *)

LEMMA StartOrEnd ==
  ASSUME NEW m, NEW q
  PROVE  ~(Starts(m, q) /\ Ends(m, q))
BY DEF Starts, Ends, IsRestart, IsOver

\* A client that reads sees what it was about to see.
LEMMA ReaderWillPlay ==
  ASSUME TypeOK, NEW c \in Client, NEW m, NEW seen, NEW sent, Step(c, m, seen, sent), Plays(c, m, seen, sent),
         NEW q \in Player, Owner[q] # c, Owner[q] \notin gone
  PROVE  WillPlay(inbox'[c], seen, q) <=> WillPlay(inbox[c], info[c], q)
<1> DEFINE i == info[c]
           box == inbox[c]
<1>1. i \in View /\ seen \in View /\ box \in Seq(Message)
  BY TypeParts DEF Step
<1>2. q \in Playing(seen) <=> Starts(m, q) \/ (q \in Playing(i) /\ ~Ends(m, q))
  BY DEF Plays, CopiesPlay
<1>3. i[q].isGameOver \in BOOLEAN /\ seen[q].isGameOver \in BOOLEAN
  BY <1>1 DEF View, Seen
<1>4. seen[q].isGameOver <=> ~Starts(m, q) /\ (i[q].isGameOver \/ Ends(m, q))
  <2>1. (q \in Playing(seen) <=> ~seen[q].isGameOver) /\ (q \in Playing(i) <=> ~i[q].isGameOver)
    BY DEF Playing
  <2> HIDE DEF i
  <2> QED BY <1>2, <1>3, <2>1, StartOrEnd
<1>5. \/ m = NoMessage /\ inbox'[c] = box
      \/ box # << >> /\ m = Head(box) /\ inbox'[c] = Tail(box)
  BY DEF Step
<1> HIDE DEF i, box
<1>6. CASE m = NoMessage /\ inbox'[c] = box
  <2>1. seen[q].isGameOver <=> i[q].isGameOver
    BY <1>4, <1>6, NoMessageTells
  <2>2. WillPlay(box, seen, q) <=> WillPlay(box, i, q)
    BY <2>1 DEF WillPlay
  <2> QED BY <1>6, <2>2 DEF i, box
<1>7. CASE box # << >> /\ m = Head(box) /\ inbox'[c] = Tail(box)
  <2>1. WillPlay(Tail(box), seen, q) <=> WillPlay(box, i, q)
    BY <1>1, <1>3, <1>4, <1>7, StartOrEnd, WillPlayRead
  <2> QED BY <1>7, <2>1 DEF i, box
<1> QED BY <1>5, <1>6, <1>7

\* What is sent has none of the types that others act on in this way.
LEMMA SentTypes ==
  ASSUME NEW c, NEW m, NEW seen, NEW sent, Plays(c, m, seen, sent)
  PROVE  /\ ~Has(sent, {"gone"}) /\ ~Has(sent, {"ask"})
         /\ \A k \in DOMAIN sent : \A q : Owner[q] # c => ~Starts(sent[k], q) /\ ~Ends(sent[k], q)
<1>1. \A k \in DOMAIN sent : OwnSent(c, m, sent[k])
  BY DEF Plays
<1>2. ASSUME NEW k \in DOMAIN sent
      PROVE  /\ sent[k].type \notin {"gone", "ask"}
             /\ \A q : Owner[q] # c => ~Starts(sent[k], q) /\ ~Ends(sent[k], q)
  <2> DEFINE x == sent[k]
  <2>1. OwnSent(c, m, x)
    BY <1>1
  <2> HIDE DEF x
  <2>2. x.type \notin {"gone", "ask"} /\ \A q : Owner[q] # c => ~Starts(x, q) /\ ~Ends(x, q)
    BY <2>1 DEF OwnSent, Starts, Ends, IsRestart, IsOver
  <2> QED BY <2>2 DEF x
<1> QED BY <1>2 DEF Has

\* Whether a message of the type is in the box of d after the step.
LEMMA BoxAfter ==
  ASSUME TypeOK, NEW c \in Client, NEW m, NEW seen, NEW sent, Step(c, m, seen, sent),
         NEW d \in Client \ gone, d # c
  PROVE  /\ inbox'[d] = inbox[d] \o sent /\ inbox[d] \in Seq(Message) /\ sent \in Seq(Message)
         /\ info'[d] = info[d]
         /\ \A types : Has(inbox[d], types) => Has(inbox'[d], types)
         /\ \A types : Has(inbox'[d], types) => Has(inbox[d], types) \/ Has(sent, types)
<1>1. /\ inbox'[d] = inbox[d] \o sent /\ inbox[d] \in Seq(Message) /\ sent \in Seq(Message)
      /\ info'[d] = info[d]
  <2>1. info' = [info EXCEPT ![c] = seen] /\ info \in [Client -> View]
    BY TypeParts DEF Step
  <2> QED BY <2>1, TypeParts DEF Step
<1>2. \A types : Has(inbox[d], types) => Has(inbox[d] \o sent, types)
  BY <1>1, HasAdded
<1>3. \A types : Has(inbox[d] \o sent, types) => Has(inbox[d], types) \/ Has(sent, types)
  BY <1>1, HasAdded
<1> QED BY <1>1, <1>2, <1>3

LEMMA ReaderBox ==
  ASSUME TypeOK, NEW c \in Client, NEW m, NEW seen, NEW sent, Step(c, m, seen, sent)
  PROVE  /\ info'[c] = seen
         /\ \A types : Has(inbox[c], types) => m.type \in types \/ Has(inbox'[c], types)
         /\ \A types : Has(inbox'[c], types) => Has(inbox[c], types)
<1>1. info'[c] = seen /\ inbox[c] \in Seq(Message)
  <2>1. info' = [info EXCEPT ![c] = seen] /\ info \in [Client -> View]
    BY TypeParts DEF Step
  <2> QED BY <2>1, TypeParts
<1>2. \/ m = NoMessage /\ inbox'[c] = inbox[c]
      \/ inbox[c] # << >> /\ m = Head(inbox[c]) /\ inbox'[c] = Tail(inbox[c])
  BY DEF Step
<1>3. inbox[c] # << >> =>
        \A types : Has(inbox[c], types) <=> Head(inbox[c]).type \in types \/ Has(Tail(inbox[c]), types)
  BY <1>1, HasRead
<1> QED BY <1>1, <1>2, <1>3

LEMMA ViewsMeetStep ==
  ASSUME TypeOK, NEW a \in Client, NEW m, NEW seen, NEW sent, Step(a, m, seen, sent), Plays(a, m, seen, sent),
         NEW c \in Here, NEW d \in Here, c # d, ViewsMeet(c, d)
  PROVE  ViewsMeet(c, d)'
<1>1. /\ c \in Client \ gone /\ d \in Client \ gone /\ a \in Client \ gone
      /\ info \in [Client -> View] /\ seen \in View /\ sent \in Seq(Message)
  BY TypeParts DEF Here, Step
<1>2. SUFFICES ASSUME NEW q \in Player, Owner[q] = d
               PROVE  /\ q \notin Playing(info'[d]) => ~WillPlay(inbox'[c], info'[c], q)
                      /\ q \in Playing(info'[d]) /\ ~Has(inbox'[d], {"gone"}) => WillPlay(inbox'[c], info'[c], q)
  BY DEF ViewsMeet
<1>3. /\ q \notin Playing(info[d]) => ~WillPlay(inbox[c], info[c], q)
      /\ q \in Playing(info[d]) /\ ~Has(inbox[d], {"gone"}) => WillPlay(inbox[c], info[c], q)
  BY <1>2 DEF ViewsMeet
<1>4. CASE a = c
  <2>1. info'[c] = seen /\ (WillPlay(inbox'[c], seen, q) <=> WillPlay(inbox[c], info[c], q))
    BY <1>1, <1>2, <1>4, ReaderBox, ReaderWillPlay
  <2>2. info'[d] = info[d] /\ (Has(inbox[d], {"gone"}) => Has(inbox'[d], {"gone"}))
    BY <1>1, <1>4, BoxAfter
  <2> QED BY <1>3, <2>1, <2>2
<1>5. CASE a # c /\ a # d
  <2>1. /\ inbox'[c] = inbox[c] \o sent /\ inbox[c] \in Seq(Message) /\ sent \in Seq(Message)
        /\ info'[c] = info[c]
    BY <1>1, <1>5, BoxAfter
  <2>2. info'[d] = info[d] /\ (Has(inbox[d], {"gone"}) => Has(inbox'[d], {"gone"}))
    BY <1>1, <1>5, BoxAfter
  <2>3. \A k \in DOMAIN sent : ~Starts(sent[k], q) /\ ~Ends(sent[k], q)
    BY <1>2, <1>5, SentTypes
  <2>4. WillPlay(inbox[c] \o sent, info[c], q) <=> WillPlay(inbox[c], info[c], q)
    BY <2>1, <2>3, WillPlayAdded
  <2> QED BY <1>3, <2>1, <2>2, <2>4
<1>6. CASE a = d
  <2>1. /\ inbox'[c] = inbox[c] \o sent /\ inbox[c] \in Seq(Message) /\ sent \in Seq(Message)
        /\ info'[c] = info[c]
    BY <1>1, <1>6, BoxAfter
  <2>2. info'[d] = seen /\ (Has(inbox[d], {"gone"}) => m.type \in {"gone"} \/ Has(inbox'[d], {"gone"}))
    BY <1>1, <1>6, ReaderBox
  <2>3. m.type = "gone" => Playing(seen) = {}
    BY DEF Plays
  <2>4. CASE m.type = "ask"
    <3> DEFINE x == [type |-> "restart", client |-> a]
    <3>1. sent = <<x>> /\ q \in Playing(seen)
      BY <1>2, <1>6, <2>4 DEF Plays
    <3>2. Starts(x, q)
      BY <1>2, <1>6 DEF Starts, IsRestart
    <3>3. x \in Message
      BY DEF Message
    <3> HIDE DEF x
    <3>4. WillPlay(inbox[c] \o <<x>>, info[c], q)
      BY <2>1, <3>2, <3>3, WillStartAdded
    <3> QED BY <2>1, <2>2, <3>1, <3>4
  <2>5. CASE m.type # "ask"
    <3>1. /\ q \in Playing(seen) => q \in Playing(info[d])
          /\ q \in Playing(info[d]) /\ q \notin Playing(seen) => \E k \in DOMAIN sent : IsOver(sent[k], q)
          /\ \A k \in DOMAIN sent : IsOver(sent[k], q) => q \notin Playing(seen)
      BY <1>2, <1>6, <2>5 DEF Plays, OwnPlay
    <3>2. \A k \in DOMAIN sent : ~Starts(sent[k], q) /\ (Ends(sent[k], q) <=> IsOver(sent[k], q))
      <4>1. \A k \in DOMAIN sent : OwnSent(a, m, sent[k])
        BY DEF Plays
      <4>2. ASSUME NEW k \in DOMAIN sent PROVE ~Starts(sent[k], q) /\ (Ends(sent[k], q) <=> IsOver(sent[k], q))
        <5> DEFINE x == sent[k]
        <5>1. OwnSent(a, m, x)
          BY <4>1
        <5> HIDE DEF x
        <5>2. ~Starts(x, q) /\ (Ends(x, q) <=> IsOver(x, q))
          BY <2>5, <5>1 DEF OwnSent, Starts, Ends, IsRestart, IsOver
        <5> QED BY <5>2 DEF x
      <4> QED BY <4>2
    <3>3. CASE \E k \in DOMAIN sent : IsOver(sent[k], q)
      <4>1. ~WillPlay(inbox[c] \o sent, info[c], q)
        BY <2>1, <3>2, <3>3, WillEndAdded
      <4> QED BY <2>1, <2>2, <3>1, <3>3, <4>1
    <3>4. CASE \A k \in DOMAIN sent : ~IsOver(sent[k], q)
      <4>1. WillPlay(inbox[c] \o sent, info[c], q) <=> WillPlay(inbox[c], info[c], q)
        BY <2>1, <3>2, <3>4, WillPlayAdded
      <4>2. q \in Playing(seen) <=> q \in Playing(info[d])
        BY <3>1, <3>4
      <4>3. q \in Playing(seen) /\ ~Has(inbox'[d], {"gone"}) => ~Has(inbox[d], {"gone"})
        BY <2>2, <2>3
      <4> QED BY <1>3, <2>1, <2>2, <4>1, <4>2, <4>3
    <3> QED BY <3>3, <3>4
  <2> QED BY <2>4, <2>5
<1> QED BY <1>4, <1>5, <1>6

\* A restart of e is in the box, behind k.
RestartBehind(box, k, e) == \E j \in DOMAIN box : j > k /\ IsRestart(box[j], e)

\* A restart of e in the box of d stays there until it is read.
LEMMA RestartStays ==
  ASSUME TypeOK, NEW a \in Client, NEW m, NEW seen, NEW sent, Step(a, m, seen, sent),
         NEW d \in Client \ gone, NEW k \in Int, NEW e, RestartBehind(inbox[d], k, e)
  PROVE  IF a = d /\ m # NoMessage
           THEN (k < 1 /\ IsRestart(m, e)) \/ RestartBehind(inbox'[d], k - 1, e)
           ELSE RestartBehind(inbox'[d], k, e)
<1>1. PICK j \in DOMAIN inbox[d] : j > k /\ IsRestart(inbox[d][j], e)
  BY DEF RestartBehind
<1>2. inbox[d] \in Seq(Message) /\ d \in Client
  BY TypeParts
<1>3. CASE a # d
  <2>1. inbox'[d] = inbox[d] \o sent /\ sent \in Seq(Message)
    BY <1>3, BoxAfter
  <2>2. j \in DOMAIN (inbox[d] \o sent) /\ (inbox[d] \o sent)[j] = inbox[d][j]
    BY <1>2, <2>1, Added
  <2> QED BY <1>1, <1>3, <2>1, <2>2 DEF RestartBehind
<1>4. CASE a = d /\ m = NoMessage
  <2>1. inbox'[d] = inbox[d]
    BY <1>4, MessageParts DEF Step, NoMessage
  <2> QED BY <1>1, <1>4, <2>1 DEF RestartBehind
<1>5. CASE a = d /\ m # NoMessage
  <2>1. inbox[d] # << >> /\ m = Head(inbox[d]) /\ inbox'[d] = Tail(inbox[d])
    BY <1>5 DEF Step
  <2>2. /\ inbox[d][1] = m
        /\ j \in Nat /\ (j = 1 \/ (j - 1 \in DOMAIN Tail(inbox[d]) /\ Tail(inbox[d])[j - 1] = inbox[d][j]))
    BY <1>2, <2>1, Read
  <2>3. CASE j = 1
    BY <1>1, <1>5, <2>2, <2>3
  <2>4. CASE j # 1
    <3>1. j - 1 \in DOMAIN inbox'[d] /\ IsRestart(inbox'[d][j - 1], e) /\ j - 1 > k - 1
      BY <1>1, <2>1, <2>2, <2>4
    <3> QED BY <1>5, <3>1 DEF RestartBehind
  <2> QED BY <2>3, <2>4
<1> QED BY <1>3, <1>4, <1>5

\* The answer of a client to a request is on its way to all others.
LEMMA AnswerSent ==
  ASSUME TypeOK, NEW a \in Client, NEW m, NEW seen, NEW sent, Step(a, m, seen, sent), Plays(a, m, seen, sent),
         m.type = "ask", NEW d \in Client \ gone, d # a
  PROVE  \E j \in DOMAIN inbox'[d] : IsRestart(inbox'[d][j], a) /\ \A k \in DOMAIN inbox[d] : j > k
<1> DEFINE x == [type |-> "restart", client |-> a]
<1>1. sent = <<x>>
  BY DEF Plays
<1>2. IsRestart(x, a)
  BY DEF IsRestart
<1>3. inbox'[d] = inbox[d] \o sent /\ inbox[d] \in Seq(Message) /\ sent \in Seq(Message)
  BY BoxAfter
<1> HIDE DEF x
<1>4. 1 \in DOMAIN sent /\ sent[1] = x
  BY <1>1
<1>5. /\ Len(inbox[d]) + 1 \in DOMAIN (inbox[d] \o sent)
      /\ (inbox[d] \o sent)[Len(inbox[d]) + 1] = sent[1]
  BY <1>3, <1>4, Added
<1>6. \A k \in DOMAIN inbox[d] : Len(inbox[d]) + 1 > k
  <2> DEFINE b == Len(inbox[d])
  <2>1. b \in Nat /\ DOMAIN inbox[d] = 1 .. b
    BY <1>3, LenProperties
  <2> HIDE DEF b
  <2>2. \A k \in DOMAIN inbox[d] : b + 1 > k
    BY <2>1
  <2> QED BY <2>2 DEF b
<1> QED BY <1>2, <1>3, <1>4, <1>5, <1>6

LEMMA AsksAnsweredStep ==
  ASSUME TypeOK, NEW a \in Client, NEW m, NEW seen, NEW sent, Step(a, m, seen, sent), Plays(a, m, seen, sent),
         NEW c \in Here, NEW d \in Here, c # d, AsksAnswered(c, d)
  PROVE  AsksAnswered(c, d)'
<1>1. /\ c \in Client \ gone /\ d \in Client \ gone
      /\ inbox[d] \in Seq(Message) /\ DOMAIN inbox[d] \subseteq Nat
  BY TypeParts, LenProperties DEF Here
<1>2. SUFFICES ASSUME NEW k \in DOMAIN inbox'[d], inbox'[d][k].type = "ask"
               PROVE  \/ Has(inbox'[c], {"ask"})
                      \/ \E j \in DOMAIN inbox'[d] : j > k /\ IsRestart(inbox'[d][j], c)
  BY DEF AsksAnswered, Answers
<1> DEFINE reads == a = d /\ m # NoMessage
<1>3. \E n \in DOMAIN inbox[d] : inbox[d][n].type = "ask" /\ n = IF reads THEN k + 1 ELSE k
  <2>1. CASE reads
    <3>1. inbox[d] # << >> /\ inbox'[d] = Tail(inbox[d])
      BY <2>1 DEF Step
    <3>2. k + 1 \in DOMAIN inbox[d] /\ inbox'[d][k] = inbox[d][k + 1]
      BY <1>1, <1>2, <3>1, Read
    <3> QED BY <1>2, <2>1, <3>2
  <2>2. CASE a = d /\ m = NoMessage
    <3>1. inbox'[d] = inbox[d]
      BY <2>2, MessageParts DEF Step, NoMessage
    <3> QED BY <1>2, <2>2, <3>1
  <2>3. CASE a # d
    <3>1. inbox'[d] = inbox[d] \o sent /\ sent \in Seq(Message)
      BY <1>1, <2>3, BoxAfter
    <3>2. \/ k \in DOMAIN inbox[d] /\ inbox'[d][k] = inbox[d][k]
          \/ \E j \in DOMAIN sent : inbox'[d][k] = sent[j]
      BY <1>1, <1>2, <3>1, Added
    <3>3. \A j \in DOMAIN sent : sent[j].type # "ask"
      BY SentTypes DEF Has
    <3> QED BY <1>2, <2>3, <3>2, <3>3
  <2> QED BY <2>1, <2>2, <2>3
<1>4. PICK n \in DOMAIN inbox[d] : inbox[d][n].type = "ask" /\ n = IF reads THEN k + 1 ELSE k
  BY <1>3
<1>5. k \in Nat /\ n \in Nat
  <2>1. inbox'[d] \in Seq(Message)
    BY <1>1 DEF Step
  <2>2. DOMAIN inbox'[d] \subseteq Nat
    BY <2>1, LenProperties
  <2> QED BY <1>1, <1>2, <2>2
<1>6. Answers(c, d, n)
  BY <1>4 DEF AsksAnswered
<1>7. CASE Has(inbox[c], {"ask"})
  <2>1. CASE a # c
    BY <1>1, <1>7, <2>1, BoxAfter
  <2>2. CASE a = c
    <3>1. m.type = "ask" \/ Has(inbox'[c], {"ask"})
      BY <1>7, <2>2, ReaderBox
    <3>2. CASE m.type = "ask"
      <4>1. \E j \in DOMAIN inbox'[d] : IsRestart(inbox'[d][j], c) /\ \A l \in DOMAIN inbox[d] : j > l
        BY <1>1, <2>2, <3>2, AnswerSent
      <4>2. n = k
        BY <1>4, <2>2
      <4> QED BY <1>4, <4>1, <4>2
    <3> QED BY <3>1, <3>2
  <2> QED BY <2>1, <2>2
<1>8. CASE \E j \in DOMAIN inbox[d] : j > n /\ IsRestart(inbox[d][j], c)
  <2>1. IF reads
          THEN (n < 1 /\ IsRestart(m, c)) \/ RestartBehind(inbox'[d], n - 1, c)
          ELSE RestartBehind(inbox'[d], n, c)
    <3>1. RestartBehind(inbox[d], n, c)
      BY <1>8 DEF RestartBehind
    <3>2. n \in Int
      BY <1>5
    <3> QED BY <1>1, <3>1, <3>2, RestartStays
  <2>2. IF reads THEN ~(n < 1) /\ n - 1 = k ELSE n = k
    BY <1>4, <1>5
  <2> HIDE DEF reads
  <2>3. RestartBehind(inbox'[d], k, c)
    BY <2>1, <2>2
  <2> QED BY <2>3 DEF RestartBehind
<1> QED BY <1>6, <1>7, <1>8 DEF Answers

\* What is expected at d stays expected until d reads it.
LEMMA ExpectedStep ==
  ASSUME TypeOK, NEW a \in Client, NEW m, NEW seen, NEW sent, Step(a, m, seen, sent), Plays(a, m, seen, sent),
         NEW d \in Here, NEW e \in Here, e # d, Expected(d, e)
  PROVE  Expected(d, e)' \/ (a = d /\ IsRestart(m, e))
<1>1. d \in Client \ gone /\ e \in Client \ gone
  BY DEF Here
<1>2. CASE Has(inbox[e], {"ask"})
  <2>1. CASE a # e
    <3>1. Has(inbox'[e], {"ask"})
      BY <1>1, <1>2, <2>1, BoxAfter
    <3> QED BY <3>1 DEF Expected
  <2>2. CASE a = e
    <3>1. m.type = "ask" \/ Has(inbox'[e], {"ask"})
      BY <1>2, <2>2, ReaderBox
    <3>2. m.type = "ask" => \E j \in DOMAIN inbox'[d] : IsRestart(inbox'[d][j], e)
      BY <1>1, <2>2, AnswerSent
    <3> QED BY <3>1, <3>2 DEF Expected
  <2> QED BY <2>1, <2>2
<1>3. CASE \E j \in DOMAIN inbox[d] : IsRestart(inbox[d][j], e)
  <2>1. RestartBehind(inbox[d], 0, e)
    <3>1. inbox[d] \in Seq(Message)
      BY TypeParts, <1>1
    <3>2. DOMAIN inbox[d] = 1 .. Len(inbox[d])
      BY <3>1, LenProperties
    <3> QED BY <1>3, <3>2 DEF RestartBehind
  <2>2. IF a = d /\ m # NoMessage
          THEN (0 < 1 /\ IsRestart(m, e)) \/ RestartBehind(inbox'[d], 0 - 1, e)
          ELSE RestartBehind(inbox'[d], 0, e)
    BY <1>1, <2>1, RestartStays
  <2>3. (a = d /\ IsRestart(m, e)) \/ \E n \in Int : RestartBehind(inbox'[d], n, e)
    BY <2>2
  <2> QED BY <2>3 DEF Expected, RestartBehind
<1> QED BY <1>2, <1>3 DEF Expected

LEMMA AloneWaitsStep ==
  ASSUME TypeOK, NEW a \in Client, NEW m, NEW seen, NEW sent, Step(a, m, seen, sent), Plays(a, m, seen, sent),
         NEW d \in Here, AloneWaits(d), \A c \in Here : c # d => AsksAnswered(c, d)
  PROVE  AloneWaits(d)'
<1>1. d \in Client \ gone /\ Here' = Here /\ gone' = gone
  BY DEF Here, Step
<1>2. SUFFICES ASSUME NEW q \in Player, Owner[q] = d, Playing(info'[d]) = {q}
               PROVE  \/ Has(inbox'[d], {"gone"})
                      \/ \A p \in Player : Owner[p] \in Here => p = q
                      \/ \E p \in Player : Owner[p] \in Here \ {d} /\ Expected(d, Owner[p])'
  BY <1>1 DEF AloneWaits, NobodyElse, Playing
<1>3. CASE a = d /\ m.type = "ask"
  <2>1. SUFFICES ASSUME NEW p \in Player, Owner[p] \in Here, p # q
                 PROVE  \E r \in Player : Owner[r] \in Here \ {d} /\ Expected(d, Owner[r])'
    OBVIOUS
  <2>2. info'[d] = seen
    BY <1>3, ReaderBox
  <2>3. Owner[p] # d
    BY <1>2, <1>3, <2>1, <2>2 DEF Plays
  <2>4. AsksAnswered(Owner[p], d)
    BY <2>1, <2>3
  <2>5. inbox[d] # << >> /\ m = Head(inbox[d]) /\ inbox[d] \in Seq(Message)
    BY <1>1, <1>3, NoMessageTells, TypeParts DEF Step
  <2>6. 1 \in DOMAIN inbox[d] /\ inbox[d][1].type = "ask"
    BY <1>3, <2>5, Read
  <2>7. Answers(Owner[p], d, 1)
    BY <2>4, <2>6 DEF AsksAnswered
  <2>8. Expected(d, Owner[p])
    BY <2>3, <2>7 DEF Answers, Expected
  <2>9. ~IsRestart(m, Owner[p])
    BY <1>3 DEF IsRestart
  <2>10. Expected(d, Owner[p])'
    BY <2>1, <2>3, <2>8, <2>9, ExpectedStep
  <2> QED BY <2>1, <2>3, <2>10
<1>4. CASE ~(a = d /\ m.type = "ask")
  <2>1. Playing(info[d]) = {q}
    <3>1. CASE a = d
      <4>1. info'[d] = seen
        BY <3>1, ReaderBox
      <4> QED BY <1>2, <1>4, <3>1, <4>1 DEF Plays, OwnPlay
    <3>2. CASE a # d
      <4>1. info'[d] = info[d]
        BY <1>1, <3>2, BoxAfter
      <4> QED BY <1>2, <4>1
    <3> QED BY <3>1, <3>2
  <2>2. \/ Has(inbox[d], {"gone"})
        \/ NobodyElse(q)
        \/ \E p \in Player : Owner[p] \in Here \ {d} /\ Expected(d, Owner[p])
    BY <1>2, <2>1 DEF AloneWaits
  <2>3. CASE Has(inbox[d], {"gone"})
    <3>1. CASE a = d
      <4>1. info'[d] = seen /\ (m.type = "gone" \/ Has(inbox'[d], {"gone"}))
        BY <2>3, <3>1, ReaderBox
      <4>2. m.type = "gone" => Playing(seen) = {}
        BY DEF Plays
      <4> QED BY <1>2, <4>1, <4>2
    <3>2. CASE a # d
      BY <1>1, <2>3, <3>2, BoxAfter
    <3> QED BY <3>1, <3>2
  <2>4. CASE NobodyElse(q)
    BY <2>4 DEF NobodyElse
  <2>5. CASE \E p \in Player : Owner[p] \in Here \ {d} /\ Expected(d, Owner[p])
    <3>1. PICK p \in Player : Owner[p] \in Here \ {d} /\ Expected(d, Owner[p])
      BY <2>5
    <3>2. Expected(d, Owner[p])' \/ (a = d /\ IsRestart(m, Owner[p]))
      BY <3>1, ExpectedStep
    <3>3. ~(a = d /\ IsRestart(m, Owner[p]))
      <4>1. SUFFICES ASSUME a = d, IsRestart(m, Owner[p]) PROVE FALSE
        OBVIOUS
      <4>2. p \in Playing(seen)
        BY <3>1, <4>1 DEF Plays, CopiesPlay, Starts, Here
      <4>3. info'[d] = seen
        BY <4>1, ReaderBox
      <4> QED BY <1>2, <3>1, <4>2, <4>3
    <3> QED BY <3>1, <3>2, <3>3
  <2> QED BY <2>2, <2>3, <2>4, <2>5
<1> QED BY <1>3, <1>4

LEMMA GoneAreOutStep ==
  ASSUME TypeOK, NEW a \in Client, NEW m, NEW seen, NEW sent, Step(a, m, seen, sent), Plays(a, m, seen, sent),
         NEW c \in Here, GoneAreOut(c)
  PROVE  GoneAreOut(c)'
<1>1. c \in Client \ gone /\ gone' = gone
  BY DEF Here, Step
<1>2. SUFFICES ASSUME NEW p \in Player, Owner[p] \in gone
               PROVE  p \notin Playing(info'[c]) \/ Has(inbox'[c], {"gone"})
  BY <1>1 DEF GoneAreOut, Playing
<1>3. p \notin Playing(info[c]) \/ Has(inbox[c], {"gone"})
  BY <1>2 DEF GoneAreOut
<1>4. CASE a = c
  <2>1. info'[c] = seen /\ (Has(inbox[c], {"gone"}) => m.type = "gone" \/ Has(inbox'[c], {"gone"}))
    BY <1>4, ReaderBox
  <2>2. m.type = "gone" => Playing(seen) = {}
    BY DEF Plays
  <2>3. p \notin Playing(info[c]) => p \notin Playing(seen)
    BY <1>2, <1>4 DEF Plays, CopiesPlay
  <2> QED BY <1>3, <2>1, <2>2, <2>3
<1>5. CASE a # c
  <2>1. info'[c] = info[c] /\ (Has(inbox[c], {"gone"}) => Has(inbox'[c], {"gone"}))
    BY <1>1, <1>5, BoxAfter
  <2> QED BY <1>3, <2>1
<1> QED BY <1>4, <1>5

-----------------------------------------------------------------------------
(* Nobody plays alone: all steps *)

\* A message that is put into a box.
LEMMA OneAdded ==
  ASSUME NEW T, NEW box \in Seq(T), NEW m \in T
  PROVE  /\ box \o <<m>> \in Seq(T)
         /\ Has(box \o <<m>>, {m.type})
         /\ \A types : Has(box, types) => Has(box \o <<m>>, types)
         /\ \A types : Has(box \o <<m>>, types) => Has(box, types) \/ m.type \in types
         /\ \A k \in DOMAIN box : k \in DOMAIN (box \o <<m>>) /\ (box \o <<m>>)[k] = box[k]
         /\ \A k \in DOMAIN (box \o <<m>>) : (k \in DOMAIN box /\ (box \o <<m>>)[k] = box[k]) \/ (box \o <<m>>)[k] = m
<1> DEFINE sent == <<m>>
<1>1. sent \in Seq(T) /\ DOMAIN sent = {1} /\ sent[1] = m
  OBVIOUS
<1> HIDE DEF sent
<1>2. Has(sent, {m.type}) /\ \A types : Has(sent, types) => m.type \in types
  BY <1>1 DEF Has
<1>3. /\ \A types : Has(box, types) => Has(box \o sent, types)
      /\ \A types : Has(box \o sent, types) => Has(box, types) \/ Has(sent, types)
  BY <1>1, HasAdded
<1>4. /\ box \o sent \in Seq(T)
      /\ \A k \in DOMAIN box : k \in DOMAIN (box \o sent) /\ (box \o sent)[k] = box[k]
      /\ \A k \in DOMAIN (box \o sent) :
           \/ k \in DOMAIN box /\ (box \o sent)[k] = box[k]
           \/ \E j \in DOMAIN sent : (box \o sent)[k] = sent[j]
  BY <1>1, Added
<1>5. Len(box) + 1 \in DOMAIN (box \o sent) /\ (box \o sent)[Len(box) + 1] = m
  BY <1>1, Added
<1>6. Has(box \o sent, {m.type})
  BY <1>5 DEF Has
<1>7. \A types : Has(box \o sent, types) => Has(box, types) \/ m.type \in types
  BY <1>2, <1>3
<1>8. \A k \in DOMAIN (box \o sent) : (k \in DOMAIN box /\ (box \o sent)[k] = box[k]) \/ (box \o sent)[k] = m
  BY <1>1, <1>4
<1> QED BY <1>3, <1>4, <1>6, <1>7, <1>8 DEF sent

LEMMA AnswersAdded ==
  ASSUME TypeOK, NEW c \in Client, NEW d \in Client, NEW m \in Message, NEW k \in DOMAIN inbox[d], Answers(c, d, k)
  PROVE  \/ Has(inbox[c] \o <<m>>, {"ask"})
         \/ \E j \in DOMAIN (inbox[d] \o <<m>>) : j > k /\ IsRestart((inbox[d] \o <<m>>)[j], c)
<1>1. inbox[c] \in Seq(Message) /\ inbox[d] \in Seq(Message)
  BY TypeParts
<1>2. Has(inbox[c], {"ask"}) => Has(inbox[c] \o <<m>>, {"ask"})
  BY <1>1, OneAdded
<1>3. \A j \in DOMAIN inbox[d] : j \in DOMAIN (inbox[d] \o <<m>>) /\ (inbox[d] \o <<m>>)[j] = inbox[d][j]
  BY <1>1, OneAdded
<1> QED BY <1>2, <1>3 DEF Answers

LEMMA VanishKeepsPlay ==
  ASSUME PlayInv, NEW a \in Client, Vanish(a)
  PROVE  /\ \A c, d \in Here' : c # d => ViewsMeet(c, d)' /\ AsksAnswered(c, d)'
         /\ \A d \in Here' : AloneWaits(d)' /\ GoneAreOut(d)'
<1> DEFINE m == GoneMessage(a)
<1>0. TypeOK
  BY DEF PlayInv
<1>1. /\ info' = info /\ gone' = gone \cup {a} /\ m \in Message
      /\ \A d \in Here' : d \in Here /\ d \in Client /\ inbox'[d] = inbox[d] \o <<m>> /\ inbox[d] \in Seq(Message)
  BY <1>0, VanishStep, TypeParts DEF Here
<1>2. m.type = "gone" /\ \A q : ~Starts(m, q) /\ Ends(m, q)
  BY DEF GoneMessage, Starts, Ends, IsRestart
<1> HIDE DEF m
<1>3. \A d \in Here' : Has(inbox'[d], {"gone"})
  <2>1. ASSUME NEW d \in Here' PROVE Has(inbox'[d], {"gone"})
    <3>1. inbox'[d] = inbox[d] \o <<m>> /\ inbox[d] \in Seq(Message)
      BY <1>1, <2>1
    <3>2. Has(inbox[d] \o <<m>>, {m.type})
      BY <1>1, <3>1, OneAdded
    <3> QED BY <1>2, <3>1, <3>2
  <2> QED BY <2>1
<1>4. ASSUME NEW d \in Here' PROVE AloneWaits(d)' /\ GoneAreOut(d)'
  <2>1. Has(inbox'[d], {"gone"})
    BY <1>3, <1>4
  <2> QED BY <2>1 DEF AloneWaits, GoneAreOut
<1>5. ASSUME NEW c \in Here', NEW d \in Here', c # d PROVE ViewsMeet(c, d)'
  <2>1. Has(inbox'[d], {"gone"})
    BY <1>3, <1>5
  <2>2. \A q \in Player : ~WillPlay(inbox[c] \o <<m>>, info[c], q)
    <3> DEFINE sent == <<m>>
    <3>1. sent \in Seq(Message) /\ DOMAIN sent = {1} /\ sent[1] = m
      BY <1>1
    <3> HIDE DEF sent
    <3>2. inbox[c] \in Seq(Message)
      BY <1>1, <1>5
    <3>3. ASSUME NEW q \in Player PROVE ~WillPlay(inbox[c] \o sent, info[c], q)
      <4>1. (\A k \in DOMAIN sent : ~Starts(sent[k], q)) /\ (\E k \in DOMAIN sent : Ends(sent[k], q))
        BY <1>2, <3>1
      <4> QED BY <3>1, <3>2, <4>1, WillEndAdded
    <3> QED BY <3>3 DEF sent
  <2>3. inbox'[c] = inbox[c] \o <<m>> /\ info' = info
    BY <1>1, <1>5
  <2> QED BY <2>1, <2>2, <2>3 DEF ViewsMeet
<1>6. ASSUME NEW c \in Here', NEW d \in Here', c # d PROVE AsksAnswered(c, d)'
  <2>1. /\ c \in Client /\ d \in Client /\ AsksAnswered(c, d)
        /\ inbox'[c] = inbox[c] \o <<m>> /\ inbox'[d] = inbox[d] \o <<m>>
        /\ inbox[d] \in Seq(Message)
    BY <1>1, <1>6 DEF PlayInv
  <2>2. ASSUME NEW k \in DOMAIN inbox'[d], inbox'[d][k].type = "ask" PROVE Answers(c, d, k)'
    <3>1. k \in DOMAIN inbox[d] /\ inbox[d][k].type = "ask"
      <4>1. (k \in DOMAIN inbox[d] /\ (inbox[d] \o <<m>>)[k] = inbox[d][k]) \/ (inbox[d] \o <<m>>)[k] = m
        BY <1>1, <2>1, <2>2, OneAdded
      <4> QED BY <1>2, <2>1, <2>2, <4>1
    <3>2. Answers(c, d, k)
      BY <2>1, <3>1 DEF AsksAnswered
    <3>3. \/ Has(inbox[c] \o <<m>>, {"ask"})
          \/ \E j \in DOMAIN (inbox[d] \o <<m>>) : j > k /\ IsRestart((inbox[d] \o <<m>>)[j], c)
      BY <1>0, <1>1, <2>1, <3>1, <3>2, AnswersAdded
    <3> QED BY <2>1, <3>3 DEF Answers
  <2> QED BY <2>2 DEF AsksAnswered
<1> QED BY <1>4, <1>5, <1>6

LEMMA AskKeepsPlay ==
  ASSUME PlayInv, AskRestart
  PROVE  /\ \A c, d \in Here' : c # d => ViewsMeet(c, d)' /\ AsksAnswered(c, d)'
         /\ \A d \in Here' : AloneWaits(d)' /\ GoneAreOut(d)'
<1> DEFINE m == AskMessage
<1>0. TypeOK
  BY DEF PlayInv
<1>1. /\ info' = info /\ gone' = gone /\ Here' = Here /\ m \in Message
      /\ \A d \in Here : d \in Client /\ inbox'[d] = inbox[d] \o <<m>> /\ inbox[d] \in Seq(Message)
  BY <1>0, AskStep, TypeParts DEF Here
<1>2. m.type = "ask" /\ \A q : ~Starts(m, q) /\ ~Ends(m, q)
  BY DEF AskMessage, Starts, Ends, IsRestart, IsOver
<1> HIDE DEF m
<1>3. ASSUME NEW d \in Here
      PROVE  /\ Has(inbox'[d], {"ask"})
             /\ Has(inbox'[d], {"gone"}) <=> Has(inbox[d], {"gone"})
             /\ \A k \in DOMAIN inbox[d] : k \in DOMAIN inbox'[d] /\ inbox'[d][k] = inbox[d][k]
  <2>1. inbox'[d] = inbox[d] \o <<m>> /\ inbox[d] \in Seq(Message)
    BY <1>1, <1>3
  <2>2. Has(inbox[d] \o <<m>>, {m.type})
    BY <1>1, <2>1, OneAdded
  <2>3. Has(inbox[d] \o <<m>>, {"gone"}) <=> Has(inbox[d], {"gone"})
    <3>1. /\ Has(inbox[d], {"gone"}) => Has(inbox[d] \o <<m>>, {"gone"})
          /\ Has(inbox[d] \o <<m>>, {"gone"}) => Has(inbox[d], {"gone"}) \/ m.type \in {"gone"}
      BY <1>1, <2>1, OneAdded
    <3> QED BY <1>2, <3>1
  <2>4. \A k \in DOMAIN inbox[d] : k \in DOMAIN (inbox[d] \o <<m>>) /\ (inbox[d] \o <<m>>)[k] = inbox[d][k]
    BY <1>1, <2>1, OneAdded
  <2> QED BY <1>2, <2>1, <2>2, <2>3, <2>4
<1>4. ASSUME NEW d \in Here, NEW q \in Player, NobodyElse(q) PROVE NobodyElse(q)'
  BY <1>1, <1>4 DEF NobodyElse
<1>5. ASSUME NEW d \in Here PROVE AloneWaits(d)'
  <2>1. AloneWaits(d)
    BY <1>5 DEF PlayInv
  <2>2. ASSUME NEW q \in Player, Owner[q] = d, Playing(info'[d]) = {q}
        PROVE  \/ Has(inbox'[d], {"gone"})
               \/ NobodyElse(q)'
               \/ \E p \in Player : Owner[p] \in Here \ {d} /\ Expected(d, Owner[p])'
    <3>1. \/ Has(inbox[d], {"gone"})
          \/ NobodyElse(q)
          \/ \E p \in Player : Owner[p] \in Here \ {d} /\ Expected(d, Owner[p])
      BY <1>1, <2>1, <2>2 DEF AloneWaits
    <3>2. \A p \in Player : Owner[p] \in Here \ {d} => Expected(d, Owner[p])'
      BY <1>3 DEF Expected
    <3> QED BY <1>3, <1>4, <1>5, <3>1, <3>2
  <2> QED BY <1>1, <2>2 DEF AloneWaits, Playing
<1>6. ASSUME NEW d \in Here PROVE GoneAreOut(d)'
  BY <1>1, <1>3, <1>6 DEF PlayInv, GoneAreOut, Playing
<1>7. ASSUME NEW c \in Here, NEW d \in Here, c # d PROVE ViewsMeet(c, d)'
  <2>1. ViewsMeet(c, d) /\ inbox'[c] = inbox[c] \o <<m>> /\ inbox[c] \in Seq(Message)
    BY <1>1, <1>7 DEF PlayInv
  <2>2. \A q \in Player : WillPlay(inbox[c] \o <<m>>, info[c], q) <=> WillPlay(inbox[c], info[c], q)
    <3> DEFINE sent == <<m>>
    <3>1. sent \in Seq(Message) /\ DOMAIN sent = {1} /\ sent[1] = m
      BY <1>1
    <3> HIDE DEF sent
    <3>2. ASSUME NEW q \in Player PROVE WillPlay(inbox[c] \o sent, info[c], q) <=> WillPlay(inbox[c], info[c], q)
      <4>1. \A k \in DOMAIN sent : ~Starts(sent[k], q) /\ ~Ends(sent[k], q)
        BY <1>2, <3>1
      <4> QED BY <2>1, <3>1, <4>1, WillPlayAdded
    <3> QED BY <3>2 DEF sent
  <2>3. Has(inbox'[d], {"gone"}) <=> Has(inbox[d], {"gone"})
    BY <1>3, <1>7
  <2> QED BY <1>1, <2>1, <2>2, <2>3 DEF ViewsMeet, Playing
<1>8. ASSUME NEW c \in Here, NEW d \in Here, c # d PROVE AsksAnswered(c, d)'
  BY <1>3, <1>8 DEF AsksAnswered, Answers
<1> QED BY <1>1, <1>5, <1>6, <1>7, <1>8

LEMMA PlayKept ==
  ASSUME PlayInv, Next
  PROVE  PlayInv'
<1>1. TypeOK /\ Routed
  BY DEF PlayInv
<1>2. TypeOK' /\ Routed'
  BY <1>1, TypeKept, RoutedKept
<1>3. /\ \A c, d \in Here' : c # d => ViewsMeet(c, d)' /\ AsksAnswered(c, d)'
      /\ \A d \in Here' : AloneWaits(d)' /\ GoneAreOut(d)'
  <2>1. ASSUME NEW a \in Client, NEW m, NEW seen, NEW sent, Step(a, m, seen, sent), Plays(a, m, seen, sent)
        PROVE  /\ \A c, d \in Here' : c # d => ViewsMeet(c, d)' /\ AsksAnswered(c, d)'
               /\ \A d \in Here' : AloneWaits(d)' /\ GoneAreOut(d)'
    <3>1. Here' = Here
      BY <2>1 DEF Step, Here
    <3>2. ASSUME NEW c \in Here, NEW d \in Here, c # d PROVE ViewsMeet(c, d)' /\ AsksAnswered(c, d)'
      <4>1. ViewsMeet(c, d) /\ AsksAnswered(c, d)
        BY <3>2 DEF PlayInv
      <4> QED BY <1>1, <2>1, <3>2, <4>1, ViewsMeetStep, AsksAnsweredStep
    <3>3. ASSUME NEW d \in Here PROVE AloneWaits(d)' /\ GoneAreOut(d)'
      <4>1. AloneWaits(d) /\ GoneAreOut(d) /\ \A c \in Here : c # d => AsksAnswered(c, d)
        BY <3>3 DEF PlayInv
      <4> QED BY <1>1, <2>1, <3>3, <4>1, AloneWaitsStep, GoneAreOutStep
    <3> QED BY <3>1, <3>2, <3>3
  <2> QED BY <1>1, <2>1, EveryStep, VanishKeepsPlay, AskKeepsPlay DEF ClientSteps
<1> QED BY <1>2, <1>3 DEF PlayInv

LEMMA PlayStarts == Init => PlayInv
<1> SUFFICES ASSUME Init PROVE PlayInv
  OBVIOUS
<1>1. plan \in Plans /\ gone = {} /\ causes = {}
      /\ info = [c \in Client |-> [p \in Player |-> NewInfo]]
      /\ inbox = [c \in Client |-> << >>]
  BY DEF Init
<1>2. NewData \in Data
  <2>1. 0 \in 0 .. Cardinality(Player)
    BY PlayersAreFinite
  <2> QED BY <2>1 DEF NewData, Data
<1>3. NewInfo \in Seen /\ ~NewInfo.isGameOver
  BY <1>2 DEF NewInfo, Seen
<1>4. TypeOK
  <2>1. info \in [Client -> View]
    BY <1>1, <1>3 DEF View
  <2>2. inbox \in [Client -> Seq(Message)]
    BY <1>1
  <2> QED BY <1>1, <2>1, <2>2, RulesAssumption DEF TypeOK, View, Seen
<1>5. \A d \in Client : inbox[d] = << >> /\ DOMAIN inbox[d] = {} /\ \A types : ~Has(inbox[d], types)
  BY <1>1 DEF Has
<1>6. Routed
  BY <1>1, <1>5 DEF Routed
<1>7. \A d \in Client : Playing(info[d]) = Player /\ \A q \in Player : ~info[d][q].isGameOver
  BY <1>1, <1>3 DEF Playing
<1>8. ASSUME NEW c \in Here, NEW d \in Here PROVE ViewsMeet(c, d) /\ AsksAnswered(c, d)
  BY <1>5, <1>7 DEF ViewsMeet, AsksAnswered, WillPlay, Here
<1>9. ASSUME NEW d \in Here PROVE AloneWaits(d) /\ GoneAreOut(d)
  BY <1>1, <1>7 DEF AloneWaits, GoneAreOut, NobodyElse, Here
<1> QED BY <1>4, <1>6, <1>8, <1>9 DEF PlayInv

LEMMA PlayStays ==
  ASSUME PlayInv, UNCHANGED vars
  PROVE  PlayInv'
<1>1. plan' = plan /\ info' = info /\ inbox' = inbox /\ gone' = gone /\ causes' = causes
  BY DEF vars
<1>2. TypeOK' /\ Routed' /\ Here' = Here
  BY <1>1 DEF PlayInv, TypeOK, Routed, Here
<1>3. ASSUME NEW c \in Here, NEW d \in Here, c # d PROVE ViewsMeet(c, d)' /\ AsksAnswered(c, d)'
  BY <1>1, <1>3 DEF PlayInv, ViewsMeet, AsksAnswered, Answers, Playing
<1>4. ASSUME NEW d \in Here PROVE AloneWaits(d)' /\ GoneAreOut(d)'
  BY <1>1, <1>2, <1>4 DEF PlayInv, AloneWaits, GoneAreOut, Expected, NobodyElse, Playing
<1> QED BY <1>2, <1>3, <1>4 DEF PlayInv

LEMMA AlwaysPlayInv == Spec => []PlayInv
<1>1. PlayInv /\ [Next]_vars => PlayInv'
  BY PlayKept, PlayStays
<1> QED BY <1>1, PlayStarts, PTL DEF Spec

\* All that clients see, count and send has its type: in every reachable state of the rules of any
\* number of players and clients, a place is one of 0 .. the number of players.
THEOREM AlwaysTypeOK == Spec => []TypeOK
<1>1. PlayInv => TypeOK
  BY DEF PlayInv
<1> QED BY <1>1, AlwaysPlayInv, PTL

\* In a quiet state what a client will see is what it sees.
LEMMA QuietPlay ==
  ASSUME PlayInv, Quiet, NEW c \in Here, NEW q \in Player, Owner[q] \in Here
  PROVE  q \in Playing(info[c]) <=> q \in Playing(info[Owner[q]])
<1>1. \A d \in Here : inbox[d] = << >> /\ DOMAIN inbox[d] = {}
  BY DEF Quiet, Here
<1>2. CASE Owner[q] # c
  <2>1. ViewsMeet(c, Owner[q])
    BY <1>2 DEF PlayInv
  <2>2. WillPlay(inbox[c], info[c], q) <=> q \in Playing(info[c])
    BY <1>1 DEF WillPlay, Playing
  <2>3. ~Has(inbox[Owner[q]], {"gone"})
    BY <1>1 DEF Has
  <2> QED BY <2>1, <2>2, <2>3 DEF ViewsMeet
<1> QED BY <1>2

\* When all has arrived nobody plays alone at any client that is there, however deaths, restarts and
\* clients that vanish have crossed (gameOver ends the last one; handleRemoveClient ends all).
THEOREM NobodyIsLeftAlone == Spec => []NobodyPlaysAlone
<1>1. PlayInv => NobodyPlaysAlone
  <2> SUFFICES ASSUME PlayInv, Quiet, Cardinality({p \in Player : Owner[p] \in Here}) > 1,
                      NEW c \in Here, Cardinality(Playing(info[c])) = 1
               PROVE  FALSE
    BY DEF NobodyPlaysAlone
  <2>1. \A d \in Here : inbox[d] = << >> /\ DOMAIN inbox[d] = {} /\ \A types : ~Has(inbox[d], types)
    BY DEF Quiet, Here, Has
  <2>2. PICK q : Playing(info[c]) = {q}
    <3> DEFINE S == Playing(info[c])
    <3>1. IsFiniteSet(S) /\ Cardinality(S) = 1
      <4>1. S \in SUBSET Player
        BY DEF Playing
      <4> QED BY <4>1, PlayersAreFinite
    <3> HIDE DEF S
    <3>2. \E x : S = {x}
      BY <3>1, FS_Singleton
    <3> QED BY <3>2 DEF S
  <2>3. q \in Player /\ Owner[q] \in Client
    BY <2>2, TypeParts DEF Playing, PlayInv
  <2>4. Owner[q] \in Here
    BY <2>1, <2>2, <2>3 DEF PlayInv, GoneAreOut, Here
  <2> DEFINE d == Owner[q]
  <2>5. Playing(info[d]) = {q}
    <3>1. ASSUME NEW p \in Player PROVE p \in Playing(info[d]) <=> p \in Playing(info[c])
      <4>1. CASE Owner[p] \in Here
        BY <2>4, <4>1, QuietPlay
      <4>2. CASE Owner[p] \notin Here
        <5>1. Owner[p] \in gone
          BY <3>1, <4>2, TypeParts DEF PlayInv, Here
        <5> QED BY <2>1, <2>4, <5>1 DEF PlayInv, GoneAreOut
      <4> QED BY <4>1, <4>2
    <3> QED BY <2>2, <3>1 DEF Playing
  <2>6. \/ NobodyElse(q)
        \/ \E p \in Player : Owner[p] \in Here \ {d} /\ Expected(d, Owner[p])
    BY <2>1, <2>3, <2>4, <2>5 DEF PlayInv, AloneWaits
  <2>7. NobodyElse(q)
    BY <2>1, <2>4, <2>6 DEF Expected
  <2>8. {p \in Player : Owner[p] \in Here} = {q}
    BY <2>3, <2>4, <2>7 DEF NobodyElse
  <2>9. Cardinality({q}) = 1
    BY FS_Singleton
  <2> QED BY <2>8, <2>9
<1> QED BY <1>1, AlwaysPlayInv, PTL

-----------------------------------------------------------------------------
(* Rows that are counted *)

LEMMA DivChar ==
  ASSUME NEW a \in Nat, NEW l \in Nat, l > 0
  PROVE  l * (a \div l) <= a /\ a < l * (a \div l) + l /\ a \div l \in Nat
OBVIOUS

LEMMA DivUnique ==
  ASSUME NEW a \in Nat, NEW l \in Nat, l > 0, NEW q \in Nat, l * q <= a, a < l * q + l
  PROVE  a \div l = q
OBVIOUS

\* A block that lands makes one level more at most.
LEMMA DivNext ==
  ASSUME NEW a \in Nat, NEW l \in Nat, l >= 4, NEW n \in {1, 4}
  PROVE  (a + n) \div l \in {a \div l, a \div l + 1}
<1> DEFINE q == a \div l
           lq == l * q
<1>1. q \in Nat /\ lq <= a /\ a < lq + l /\ lq \in Nat
  BY DivChar
<1>2. l * (q + 1) = lq + l /\ q + 1 \in Nat
  BY <1>1
<1> HIDE DEF q, lq
<1>3. CASE a + n < lq + l
  <2>1. lq <= a + n /\ a + n \in Nat
    BY <1>1
  <2>2. (a + n) \div l = q
    BY <1>1, <1>3, <2>1, DivUnique DEF lq
  <2> QED BY <2>2 DEF q
<1>4. CASE ~(a + n < lq + l)
  <2>1. lq + l <= a + n /\ a + n < (lq + l) + l /\ a + n \in Nat
    BY <1>1, <1>4
  <2>2. (a + n) \div l = q + 1
    BY <1>1, <1>2, <2>1, DivUnique
  <2> QED BY <2>2 DEF q
<1> QED BY <1>3, <1>4

LEMMA RowsOfFinite ==
  ASSUME NEW i \in View, NEW S \in SUBSET Player
  PROVE  IsFiniteSet(RowsOf(S, i)) /\ Cardinality(RowsOf(S, i)) \in Nat
<1> DEFINE part(p) == {p} \X (1 .. i[p].clearedRows)
           parts == {part(p) : p \in S}
           f == [p \in S |-> part(p)]
<1>1. \A p \in S : IsFiniteSet(part(p))
  <2>1. ASSUME NEW p \in S PROVE IsFiniteSet(part(p))
    <3>1. i[p].clearedRows \in Nat
      BY DEF View, Seen
    <3> DEFINE r == 1 .. i[p].clearedRows
    <3>2. IsFiniteSet(r)
      BY <3>1, FS_Interval
    <3> HIDE DEF r
    <3>3. IsFiniteSet({p})
      BY FS_Singleton
    <3>4. IsFiniteSet({p} \X r)
      BY <3>2, <3>3, FS_Product
    <3> QED BY <3>4 DEF r
  <2> QED BY <2>1
<1> HIDE DEF part
<1>2. f \in Surjection(S, parts)
  BY DEF Surjection
<1>3. IsFiniteSet(S)
  BY PlayersAreFinite
<1>4. \A T \in parts : IsFiniteSet(T)
  BY <1>1
<1> HIDE DEF parts, f
<1>5. IsFiniteSet(parts)
  BY <1>2, <1>3, FS_Surjection
<1>6. IsFiniteSet(UNION parts)
  BY <1>4, <1>5, FS_UNION
<1>7. RowsOf(S, i) = UNION parts
  BY DEF RowsOf, parts, part
<1> QED BY <1>6, <1>7, FS_CardinalityType

LEMMA RowsOfMember ==
  ASSUME NEW i, NEW S, NEW x
  PROVE  x \in RowsOf(S, i) <=> \E p \in S : \E k \in 1 .. i[p].clearedRows : x = <<p, k>>
BY DEF RowsOf

LEMMA RowsOfSame ==
  ASSUME NEW i, NEW j, NEW S, \A p \in S : j[p].clearedRows = i[p].clearedRows
  PROVE  RowsOf(S, j) = RowsOf(S, i)
BY DEF RowsOf

LEMMA RowsOfNone ==
  ASSUME NEW i, NEW S, \A p \in S : i[p].clearedRows = 0
  PROVE  Cardinality(RowsOf(S, i)) = 0
<1>1. \A x : x \notin RowsOf(S, i)
  <2>1. \A p \in S : 1 .. i[p].clearedRows = {}
    OBVIOUS
  <2> QED BY <2>1, RowsOfMember
<1>2. RowsOf(S, i) = {}
  BY <1>1
<1> QED BY <1>2, FS_EmptySet

\* One has removed n rows more.
LEMMA RowsOfMore ==
  ASSUME NEW i \in View, NEW j \in View, NEW S \in SUBSET Player, NEW p \in S, NEW n \in Nat,
         j[p].clearedRows = i[p].clearedRows + n,
         \A q \in S : q # p => j[q].clearedRows = i[q].clearedRows
  PROVE  Cardinality(RowsOf(S, j)) = Cardinality(RowsOf(S, i)) + n
<1> DEFINE r == i[p].clearedRows
           new == {p} \X (r + 1 .. r + n)
           old == RowsOf(S, i)
<1>1. r \in Nat
  BY DEF View, Seen
<1>2. IsFiniteSet(new) /\ Cardinality(new) = n
  <2> DEFINE range == r + 1 .. r + n
  <2>1. r + 1 \in Int /\ r + n \in Int /\ (r + 1 > r + n <=> n = 0) /\ (r + n) - (r + 1) + 1 = n
    BY <1>1
  <2>2. IsFiniteSet(range) /\ Cardinality(range) = IF r + 1 > r + n THEN 0 ELSE (r + n) - (r + 1) + 1
    BY <2>1, FS_Interval
  <2> HIDE DEF r
  <2>3. Cardinality(range) = n
    BY <2>1, <2>2
  <2> HIDE DEF range
  <2>4. IsFiniteSet({p}) /\ Cardinality({p}) = 1
    BY FS_Singleton
  <2>5. IsFiniteSet({p} \X range) /\ Cardinality({p} \X range) = Cardinality({p}) * Cardinality(range)
    BY <2>2, <2>4, FS_Product
  <2>6. Cardinality({p} \X range) = n
    BY <2>3, <2>4, <2>5
  <2> QED BY <2>5, <2>6 DEF range
<1>3. IsFiniteSet(old) /\ Cardinality(old) \in Nat
  BY RowsOfFinite
<1>4. \A x : x \in new <=> \E k \in r + 1 .. r + n : x = <<p, k>>
  OBVIOUS
<1>5. \A x : x \in old <=> \E q \in S : \E k \in 1 .. i[q].clearedRows : x = <<q, k>>
  BY RowsOfMember
<1>6. \A x : x \in RowsOf(S, j) <=> \E q \in S : \E k \in 1 .. j[q].clearedRows : x = <<q, k>>
  BY RowsOfMember
<1> HIDE DEF new, old
<1>7. old \cap new = {}
  <2>1. ASSUME NEW x \in old, x \in new PROVE FALSE
    <3>0. PICK q \in S : \E k \in 1 .. i[q].clearedRows : x = <<q, k>>
      BY <1>5, <2>1
    <3>1. PICK k \in 1 .. i[q].clearedRows : x = <<q, k>>
      BY <3>0
    <3>2. PICK k2 \in r + 1 .. r + n : x = <<p, k2>>
      BY <1>4, <2>1
    <3>3. q = p /\ k = k2
      BY <3>1, <3>2
    <3> QED BY <1>1, <3>1, <3>2, <3>3
  <2> QED BY <2>1
<1>8. RowsOf(S, j) = old \cup new
  <2>1. ASSUME NEW x \in RowsOf(S, j) PROVE x \in old \cup new
    <3>0. PICK q \in S : \E k \in 1 .. j[q].clearedRows : x = <<q, k>>
      BY <1>6, <2>1
    <3>1. PICK k \in 1 .. j[q].clearedRows : x = <<q, k>>
      BY <3>0
    <3>2. CASE q = p
      <4>1. k \in 1 .. i[q].clearedRows \/ k \in r + 1 .. r + n
        BY <1>1, <3>1, <3>2
      <4> QED BY <1>4, <1>5, <3>1, <3>2, <4>1
    <3>3. CASE q # p
      BY <1>5, <3>1, <3>3
    <3> QED BY <3>2, <3>3
  <2>2. ASSUME NEW x \in old PROVE x \in RowsOf(S, j)
    <3>0. PICK q \in S : \E k \in 1 .. i[q].clearedRows : x = <<q, k>>
      BY <1>5, <2>2
    <3>1. PICK k \in 1 .. i[q].clearedRows : x = <<q, k>>
      BY <3>0
    <3>2. k \in 1 .. j[q].clearedRows
      <4>1. i[q].clearedRows \in Nat
        BY DEF View, Seen
      <4>2. CASE q = p
        <5>1. j[q].clearedRows = i[q].clearedRows + n
          BY <4>2
        <5> QED BY <3>1, <4>1, <5>1
      <4>3. CASE q # p
        BY <3>1, <4>3
      <4> QED BY <4>2, <4>3
    <3> QED BY <1>6, <3>1, <3>2
  <2>3. ASSUME NEW x \in new PROVE x \in RowsOf(S, j)
    <3>1. PICK k \in r + 1 .. r + n : x = <<p, k>>
      BY <1>4, <2>3
    <3>2. k \in 1 .. j[p].clearedRows
      BY <1>1, <3>1
    <3> QED BY <1>6, <3>1, <3>2
  <2> QED BY <2>1, <2>2, <2>3
<1>9. Cardinality(old \cup new) = Cardinality(old) + Cardinality(new) - Cardinality(old \cap new)
  BY <1>2, <1>3, FS_Union
<1>10. Cardinality(old \cap new) = 0
  BY <1>7, FS_EmptySet
<1> QED BY <1>2, <1>3, <1>8, <1>9, <1>10 DEF old

-----------------------------------------------------------------------------
(* Scores: what a step of one client makes of them *)

SameScore(i, seen) ==
  \A q \in Player :
    /\ seen[q].clearedRows = i[q].clearedRows
    /\ seen[q].gravity = i[q].gravity
    /\ seen[q].data.level = i[q].data.level
    /\ seen[q].data.points = i[q].data.points
    /\ seen[q].data.opponentRows = i[q].data.opponentRows

\* Client a counts rows of p, or restarts the players of a client, or does neither.
CountsRows(a, m, seen) ==
  \E p \in Player : \E n \in {1, 4} :
    /\ m.type = "rows" => Owner[p] # a
    /\ \A q \in Player : Counts(a, info[a], p, n, q, seen)

Marks(a, m, seen) ==
  \/ SameScore(info[a], seen) /\ m.type # "ask" /\ (m.type = "restart" => m.client \in gone)
  \/ CountsRows(a, m, seen) /\ m.type \in {"none", "rows"}
  \/ seen = restart(info[a], a) /\ m.type = "ask"
  \/ seen = restart(info[a], m.client) /\ m.type = "restart" /\ m.client \in Client \ gone

LEMMA OnlyPlacesScore ==
  ASSUME NEW i, NEW seen, OnlyPlaces(i, seen)
  PROVE  SameScore(i, seen)
BY DEF OnlyPlaces, SameScore

LEMMA LocalRowsMarks ==
  ASSUME TypeOK, NEW c \in Client, NEW p \in Player, NEW n \in {1, 4}
  PROVE  Marks(c, NoMessage, RowsRemoved(c, info[c], p, n).info)
<1>1. info[c] \in View /\ plan.rules \in {"Default", "Survival"}
  BY TypeParts
<1>2. \A q \in Player : Counts(c, info[c], p, n, q, RowsRemoved(c, info[c], p, n).info)
  BY <1>1, RowsParts
<1>3. CountsRows(c, NoMessage, RowsRemoved(c, info[c], p, n).info)
  BY <1>2, NoMessageTells DEF CountsRows
<1> QED BY <1>3, NoMessageTells DEF Marks

LEMMA LocalDeathMarks ==
  ASSUME TypeOK, NEW c \in Client, NEW p \in Player
  PROVE  Marks(c, NoMessage, gameOver(c, info[c], p).info)
<1>1. info[c] \in View
  BY TypeParts
<1>2. OnlyPlaces(info[c], gameOver(c, info[c], p).info)
  BY <1>1, GameOverParts
<1> QED BY <1>2, OnlyPlacesScore, NoMessageTells DEF Marks

LEMMA ReceiveMarks ==
  ASSUME TypeOK, Routed, NEW c \in Client \ gone, inbox[c] # << >>
  PROVE  Marks(c, Head(inbox[c]), Reaction(c).info)
<1> DEFINE i == info[c]
           m == Head(inbox[c])
           seen == Reaction(c).info
<1>1. i \in View /\ plan.rules \in {"Default", "Survival"} /\ m \in Message
  BY TypeParts, HeadTailProperties
<1>2. FromOther(gone, c, m)
  <2>1. inbox[c] \in Seq(Message)
    BY TypeParts
  <2>2. 1 \in DOMAIN inbox[c] /\ inbox[c][1] = m
    BY <2>1, Read
  <2> QED BY <2>2 DEF Routed
<1>3. Reaction(c) = IF Ignored(c, i, m) THEN [info |-> i, sent |-> << >>] ELSE Handled(c, i, m)
  BY DEF Reaction
<1> HIDE DEF i, m
<1>4. CASE Ignored(c, i, m)
  <2>1. seen = i
    BY <1>3, <1>4
  <2>2. m.type # "ask" /\ (m.type = "restart" => m.client \in gone)
    BY <1>4 DEF Ignored
  <2> HIDE DEF seen
  <2>3. SameScore(i, seen)
    BY <2>1 DEF SameScore
  <2>4. Marks(c, m, seen)
    BY <2>2, <2>3 DEF Marks, i
  <2> QED BY <2>4 DEF m, seen
<1>5. CASE ~Ignored(c, i, m)
  <2>1. seen = Handled(c, i, m).info
    BY <1>3, <1>5
  <2> HIDE DEF seen
  <2>2. CASE m.type = "rows"
    <3> DEFINE p == m.player
               n == m.n
    <3>1. p \in Player /\ n \in {1, 4} /\ Owner[p] # c
      BY <1>1, <1>2, <2>2, MessageParts DEF FromOther
    <3>2. Handled(c, i, m) = RowsRemoved(c, i, p, n)
      BY <2>2 DEF Handled
    <3> HIDE DEF p, n
    <3>3. \A q \in Player : Counts(c, i, p, n, q, seen)
      BY <1>1, <2>1, <3>1, <3>2, RowsParts
    <3>4. CountsRows(c, m, seen)
      BY <3>1, <3>3 DEF CountsRows, i
    <3> QED BY <2>2, <3>4 DEF Marks, m, seen
  <2>3. CASE m.type = "external"
    <3>1. m.player \in Player
      BY <1>1, <2>3, MessageParts
    <3>2. Handled(c, i, m) = [info |-> [i EXCEPT ![m.player].externalRows = @ + 2], sent |-> << >>]
      BY <2>3 DEF Handled
    <3>3. seen = [i EXCEPT ![m.player].externalRows = @ + 2]
      BY <2>1, <3>2
    <3>4. \A q \in Player : /\ seen[q].clearedRows = i[q].clearedRows
                            /\ seen[q].gravity = i[q].gravity
                            /\ seen[q].data = i[q].data
      BY <1>1, <3>1, <3>3 DEF View, Seen
    <3>5. SameScore(i, seen)
      BY <3>4 DEF SameScore
    <3> QED BY <2>3, <3>5 DEF Marks, m, seen, i
  <2>4. CASE m.type = "over"
    <3>1. m.player \in Player
      BY <1>1, <2>4, MessageParts
    <3>2. Handled(c, i, m) = End(c, i, m.player)
      BY <2>4 DEF Handled
    <3>3. OnlyPlaces(i, seen)
      BY <1>1, <2>1, <3>1, <3>2, EndParts
    <3> QED BY <2>4, <3>3, OnlyPlacesScore DEF Marks, m, seen, i
  <2>5. CASE m.type = "ask"
    <3>1. Handled(c, i, m) = [info |-> restart(i, c), sent |-> <<[type |-> "restart", client |-> c]>>]
      BY <2>5 DEF Handled
    <3>2. seen = restart(i, c)
      BY <2>1, <3>1
    <3> QED BY <2>5, <3>2 DEF Marks, m, seen, i
  <2>6. CASE m.type = "restart"
    <3>1. m.client \in Client \ gone
      BY <1>1, <1>5, <2>6, MessageParts DEF Ignored
    <3>2. Handled(c, i, m) = [info |-> restart(i, m.client), sent |-> << >>]
      BY <2>6 DEF Handled
    <3>3. seen = restart(i, m.client)
      BY <2>1, <3>2
    <3> QED BY <2>6, <3>1, <3>3 DEF Marks, m, seen, i
  <2>7. CASE m.type = "gone"
    <3>1. Handled(c, i, m) = EndAll(c, i)
      BY <2>7 DEF Handled
    <3>2. OnlyPlaces(i, seen)
      BY <1>1, <2>1, <3>1, EndAllParts
    <3> QED BY <2>7, <3>2, OnlyPlacesScore DEF Marks, m, seen, i
  <2> QED BY <1>1, <2>2, <2>3, <2>4, <2>5, <2>6, <2>7, MessageParts
<1> QED BY <1>4, <1>5

\* A step of a client: what it does on its own is no part of a restart that nothing crosses.
ScoreSteps(c) ==
  \E m, seen, sent :
    /\ Step(c, m, seen, sent) /\ Plays(c, m, seen, sent) /\ Marks(c, m, seen)
    /\ m = NoMessage /\ Restarting => "restart crossed" \in causes'
    /\ m.type = "restart" => sent = << >>

LEMMA EveryScore ==
  ASSUME TypeOK, Routed, Next
  PROVE  (\E c \in Client : ScoreSteps(c) \/ Vanish(c)) \/ AskRestart
<1>1. ASSUME NEW c \in Client, NEW p \in Player, NEW n \in {1, 4}, LocalRows(c, p, n) PROVE ScoreSteps(c)
  <2>1. Restarting => "restart crossed" \in causes'
    BY <1>1 DEF LocalRows
  <2> QED BY <1>1, <2>1, LocalRowsStep, LocalRowsPlays, LocalRowsMarks, NoMessageTells DEF ScoreSteps
<1>2. ASSUME NEW c \in Client, NEW p \in Player, LocalDeath(c, p) PROVE ScoreSteps(c)
  <2>1. Restarting => "restart crossed" \in causes'
    BY <1>2 DEF LocalDeath
  <2> QED BY <1>2, <2>1, LocalDeathStep, LocalDeathPlays, LocalDeathMarks, NoMessageTells DEF ScoreSteps
<1>3. ASSUME NEW c \in Client, Receive(c) PROVE ScoreSteps(c)
  <2>1. inbox[c] # << >>
    BY <1>3 DEF Receive
  <2>2. c \in Client \ gone
    BY <2>1 DEF Routed
  <2>3. Head(inbox[c]) # NoMessage
    <3>1. Head(inbox[c]) \in Message
      BY <2>1, TypeParts, HeadTailProperties
    <3> QED BY <3>1, MessageParts, NoMessageTells
  <2>4. Head(inbox[c]).type = "restart" => Reaction(c).sent = << >>
    BY DEF Reaction, Handled
  <2> QED BY <1>3, <2>1, <2>2, <2>3, <2>4, ReceiveStep, ReceivePlays, ReceiveMarks DEF ScoreSteps
<1> QED BY <1>1, <1>2, <1>3 DEF Next

LEMMA ScoredMore ==
  ASSUME NEW x \in Seen, NEW y \in Seen, NEW n \in {1, 4}, x.data.points >= x.clearedRows,
         y.clearedRows = x.clearedRows + n,
         y.data.level = x.clearedRows \div LevelUpNbr + 1,
         y.gravity = x.clearedRows \div LevelUpNbr + 1,
         y.data.points = x.data.points + (x.clearedRows \div LevelUpNbr + 1) * n * n
  PROVE  Scored(y)
<1> DEFINE r == x.clearedRows
           l == LevelUpNbr
           d == r \div l
           more == (d + 1) * n * n
           s == x.data.points
<1>1. r \in Nat /\ s \in Nat /\ l \in Nat /\ l >= 4
  BY RulesAssumption DEF Seen, Data
<1>2. /\ y.clearedRows = r + n /\ y.data.level = d + 1 /\ y.gravity = d + 1 /\ y.data.points = s + more /\ s >= r
  OBVIOUS
<1> HIDE DEF r, l, s
<1>3. d \in Nat
  BY <1>1, DivChar
<1>4. (r + n) \div l \in {d, d + 1}
  BY <1>1, DivNext
<1> HIDE DEF d
<1>5. more \in Nat /\ more >= n
  <2>1. CASE n = 1
    BY <1>3, <2>1
  <2>2. CASE n = 4
    BY <1>3, <2>2
  <2> QED BY <2>1, <2>2
<1> HIDE DEF more
<1>6. s + more >= r + n /\ s + more # 0 /\ r + n # 0
  BY <1>1, <1>2, <1>5
<1>7. (r + n) \div l + 1 \in {d + 1, d + 1 + 1}
  BY <1>3, <1>4
<1> QED BY <1>2, <1>6, <1>7 DEF Scored, l

LEMMA ScoredNew ==
  ASSUME NEW y, y.data = NewData, y.gravity = 1, y.clearedRows = 0
  PROVE  Scored(y)
<1> DEFINE l == LevelUpNbr
<1>1. l \in Nat /\ l >= 4
  BY RulesAssumption
<1> HIDE DEF l
<1>2. 0 \div l = 0
  <2>1. l * 0 = 0 /\ l > 0
    BY <1>1
  <2> QED BY <1>1, <2>1, DivUnique
<1>3. y.data.points = 0 /\ y.data.level = 1
  BY DEF NewData
<1>4. 0 \div LevelUpNbr + 1 = 1
  BY <1>2 DEF l
<1> QED BY <1>3, <1>4 DEF Scored

LEMMA ScoredStep ==
  ASSUME TypeOK, plan.rules = "Default", NEW a \in Client, NEW m, NEW seen \in View, Marks(a, m, seen),
         NEW q \in Player, Owner[q] = a, Scored(info[a][q]),
         m.type = "restart" /\ m.client \notin gone => info[a][q].clearedRows = 0
  PROVE  Scored(seen[q])
<1> DEFINE i == info[a]
<1>1. i \in View /\ i[q] \in Seen /\ seen[q] \in Seen
  BY TypeParts DEF View
<1> HIDE DEF i
<1>2. CASE SameScore(i, seen)
  <2>1. /\ seen[q].clearedRows = i[q].clearedRows
        /\ seen[q].gravity = i[q].gravity
        /\ seen[q].data.level = i[q].data.level
        /\ seen[q].data.points = i[q].data.points
    BY <1>2 DEF SameScore
  <2> QED BY <2>1 DEF Scored, i
<1>3. CASE CountsRows(a, m, seen)
  <2>1. PICK p \in Player, n \in {1, 4} : \A r \in Player : Counts(a, i, p, n, r, seen)
    BY <1>3 DEF CountsRows, i
  <2>2. Counts(a, i, p, n, q, seen)
    BY <2>1
  <2>3. CASE q = p
    <3>1. /\ seen[q].clearedRows = i[q].clearedRows + n
          /\ seen[q].data.level = i[q].clearedRows \div LevelUpNbr + 1
          /\ seen[q].gravity = i[q].clearedRows \div LevelUpNbr + 1
          /\ seen[q].data.points = i[q].data.points + (i[q].clearedRows \div LevelUpNbr + 1) * n * n
      BY <2>2, <2>3 DEF Counts
    <3>2. i[q].data.points >= i[q].clearedRows
      BY DEF Scored, i
    <3> QED BY <1>1, <3>1, <3>2, ScoredMore
  <2>4. CASE q # p
    <3>1. seen[q].data = i[q].data /\ seen[q].gravity = i[q].gravity /\ seen[q].clearedRows = i[q].clearedRows
      <4>1. i[q].clearedRows + 0 = i[q].clearedRows
        BY <1>1 DEF Seen
      <4> QED BY <2>2, <2>4, <4>1 DEF Counts
    <3> QED BY <3>1 DEF Scored, i
  <2> QED BY <2>3, <2>4
<1>4. CASE seen = restart(i, a) /\ m.type = "ask"
  <2>1. seen[q].data = NewData /\ seen[q].clearedRows = 0 /\ seen[q].gravity = 1
    BY <1>1, <1>4, RestartParts
  <2> QED BY <2>1, ScoredNew
<1>5. CASE seen = restart(i, m.client) /\ m.type = "restart" /\ m.client \in Client \ gone
  <2>1. i[q].clearedRows = 0
    BY <1>5 DEF i
  <2>2. seen[q].data = NewData /\ seen[q].clearedRows = 0 /\ seen[q].gravity = 1
    BY <1>1, <1>5, <2>1, RestartParts
  <2> QED BY <2>2, ScoredNew
<1> QED BY <1>2, <1>3, <1>4, <1>5 DEF Marks, i

\* Rows are counted by all opponents; nothing else counts.
LEMMA CountedStep ==
  ASSUME TypeOK, plan.rules = "Survival", NEW a \in Client, NEW m, NEW seen \in View, Marks(a, m, seen),
         m.type # "ask", m.type = "restart" => m.client \in gone,
         NEW q \in Player, Owner[q] = a, HasRowsOf(info[a], q)
  PROVE  HasRowsOf(seen, q)
<1> DEFINE i == info[a]
           S == Player \ {q}
<1>1. i \in View /\ i[q] \in Seen /\ seen[q] \in Seen
  BY TypeParts DEF View
<1>2. i[q].data.opponentRows = Cardinality(RowsOf(S, i)) /\ S \in SUBSET Player
  BY DEF HasRowsOf
<1> HIDE DEF i
<1>3. CASE SameScore(i, seen)
  <2>1. seen[q].data.opponentRows = i[q].data.opponentRows
    BY <1>3 DEF SameScore
  <2>2. \A p \in S : seen[p].clearedRows = i[p].clearedRows
    BY <1>3 DEF SameScore
  <2> HIDE DEF S
  <2>3. RowsOf(S, seen) = RowsOf(S, i)
    BY <2>2, RowsOfSame
  <2> QED BY <1>2, <2>1, <2>3 DEF HasRowsOf, S
<1>4. CASE CountsRows(a, m, seen)
  <2>1. PICK p \in Player, n \in {1, 4} : \A r \in Player : Counts(a, i, p, n, r, seen)
    BY <1>4 DEF CountsRows, i
  <2>2. Counts(a, i, p, n, q, seen)
    BY <2>1
  <2>3. \A r \in Player : i[r].clearedRows \in Nat
    BY <1>1 DEF View, Seen
  <2>4. seen[p].clearedRows = i[p].clearedRows + n /\ \A r \in Player : r # p => seen[r].clearedRows = i[r].clearedRows
    <3>1. ASSUME NEW r \in Player PROVE seen[r].clearedRows = i[r].clearedRows + (IF r = p THEN n ELSE 0)
      BY <2>1 DEF Counts
    <3> QED BY <2>3, <3>1
  <2>5. seen[q].data.opponentRows = i[q].data.opponentRows + (IF q # p THEN n ELSE 0)
    BY <2>2 DEF Counts
  <2>6. CASE q = p
    <3>1. RowsOf(S, seen) = RowsOf(S, i)
      <4>1. \A r \in S : seen[r].clearedRows = i[r].clearedRows
        BY <2>4, <2>6
      <4> HIDE DEF S
      <4> QED BY <4>1, RowsOfSame
    <3>2. seen[q].data.opponentRows = i[q].data.opponentRows
      <4>1. i[q].data.opponentRows \in Nat
        BY <1>1 DEF Seen, Data
      <4> QED BY <2>5, <2>6, <4>1
    <3> QED BY <1>2, <3>1, <3>2 DEF HasRowsOf, S
  <2>7. CASE q # p
    <3>1. p \in S /\ \A r \in S : r # p => seen[r].clearedRows = i[r].clearedRows
      BY <2>4, <2>7
    <3> HIDE DEF S
    <3>2. n \in Nat
      OBVIOUS
    <3>3. Cardinality(RowsOf(S, seen)) = Cardinality(RowsOf(S, i)) + n
      BY <1>1, <1>2, <2>4, <3>1, <3>2, RowsOfMore
    <3>4. seen[q].data.opponentRows = i[q].data.opponentRows + n
      BY <2>5, <2>7
    <3> QED BY <1>2, <3>3, <3>4 DEF HasRowsOf, S
  <2> QED BY <2>6, <2>7
<1> QED BY <1>3, <1>4 DEF Marks, i

-----------------------------------------------------------------------------
(* Scores: restarts *)

LEMMA PendingHas ==
  ASSUME NEW c, NEW types
  PROVE  Pending(c, types) <=> Has(inbox[c], types)
BY DEF Pending, Has

LEMMA AsksFirstStep ==
  ASSUME TypeOK, NEW a \in Client, NEW m, NEW seen, NEW sent, Step(a, m, seen, sent), Plays(a, m, seen, sent),
         \A c \in Here : AsksFirst(c)
  PROVE  /\ \A c \in Here : AsksFirst(c)'
         /\ m # NoMessage => ~Has(inbox'[a], {"ask"}) /\ (Has(inbox[a], {"ask"}) => m.type = "ask")
<1>1. a \in Here /\ inbox[a] \in Seq(Message)
  BY TypeParts DEF Step, Here
<1>2. ASSUME m # NoMessage
      PROVE  ~Has(inbox'[a], {"ask"}) /\ (Has(inbox[a], {"ask"}) => m.type = "ask")
  <2>1. inbox[a] # << >> /\ m = Head(inbox[a]) /\ inbox'[a] = Tail(inbox[a])
    BY <1>2 DEF Step
  <2>2. \A k \in DOMAIN Tail(inbox[a]) : k \in Nat /\ k + 1 \in DOMAIN inbox[a] /\ Tail(inbox[a])[k] = inbox[a][k + 1]
    BY <1>1, <2>1, Read
  <2>3. ASSUME NEW k \in DOMAIN Tail(inbox[a]), Tail(inbox[a])[k].type = "ask" PROVE FALSE
    <3>1. k + 1 = 1
      BY <1>1, <2>2, <2>3 DEF AsksFirst
    <3>2. Tail(inbox[a]) \in Seq(Message)
      BY <1>1, <2>1, HeadTailProperties
    <3>3. k >= 1
      BY <3>2, LenProperties
    <3> QED BY <2>2, <2>3, <3>1, <3>3
  <2>4. ~Has(inbox'[a], {"ask"})
    BY <2>1, <2>3 DEF Has
  <2>5. Has(inbox[a], {"ask"}) => m.type = "ask"
    <3>1. Has(inbox[a], {"ask"}) => m.type \in {"ask"} \/ Has(inbox'[a], {"ask"})
      BY ReaderBox
    <3> QED BY <2>4, <3>1
  <2> QED BY <2>4, <2>5
<1>3. ASSUME NEW c \in Here PROVE AsksFirst(c)'
  <2>1. CASE c = a /\ m # NoMessage
    BY <1>2, <2>1 DEF AsksFirst, Has
  <2>2. CASE c = a /\ m = NoMessage
    <3>1. inbox'[c] = inbox[c]
      BY <2>2, MessageParts DEF Step, NoMessage
    <3> QED BY <1>3, <3>1 DEF AsksFirst
  <2>3. CASE c # a
    <3>1. inbox'[c] = inbox[c] \o sent /\ inbox[c] \in Seq(Message) /\ sent \in Seq(Message)
      BY <1>3, <2>3, BoxAfter DEF Here
    <3>2. \A k \in DOMAIN (inbox[c] \o sent) :
            \/ k \in DOMAIN inbox[c] /\ (inbox[c] \o sent)[k] = inbox[c][k]
            \/ \E j \in DOMAIN sent : (inbox[c] \o sent)[k] = sent[j]
      BY <3>1, Added
    <3>3. \A j \in DOMAIN sent : sent[j].type # "ask"
      BY SentTypes DEF Has
    <3> QED BY <1>3, <3>1, <3>2, <3>3 DEF AsksFirst
  <2> QED BY <2>1, <2>2, <2>3
<1> QED BY <1>2, <1>3

\* Only the answer to a request is part of a restart, and only reading takes one away.
LEMMA RestartingStep ==
  ASSUME TypeOK, NEW a \in Client, NEW m, NEW seen, NEW sent, Step(a, m, seen, sent), Plays(a, m, seen, sent)
  PROVE  /\ Restarting' => Restarting
         /\ Restarting /\ m.type \notin {"ask", "restart"} => Restarting'
<1> DEFINE types == {"ask", "restart"}
<1>1. Restarting <=> \E c \in Client : Has(inbox[c], types)
  BY PendingHas DEF Restarting
<1>2. Restarting' <=> \E c \in Client : Has(inbox'[c], types)
  BY DEF Restarting, Pending, Has
<1>3. a \in Client \ gone
  BY DEF Step
<1>4. Has(sent, types) => m.type = "ask"
  <2>1. \A k \in DOMAIN sent : OwnSent(a, m, sent[k])
    BY DEF Plays
  <2>2. ASSUME NEW k \in DOMAIN sent, sent[k].type \in types PROVE m.type = "ask"
    <3> DEFINE x == sent[k]
    <3>1. OwnSent(a, m, x) /\ x.type \in types
      BY <2>1, <2>2
    <3> HIDE DEF x
    <3> QED BY <3>1 DEF OwnSent
  <2> QED BY <2>2 DEF Has
<1>5. m.type = "ask" => Has(inbox[a], types)
  <2>1. m.type = "ask" => inbox[a] # << >> /\ m = Head(inbox[a]) /\ inbox[a] \in Seq(Message)
    BY NoMessageTells, TypeParts DEF Step
  <2>2. inbox[a] # << >> => 1 \in DOMAIN inbox[a] /\ inbox[a][1] = Head(inbox[a])
    <3>1. inbox[a] \in Seq(Message)
      BY TypeParts
    <3> QED BY <3>1, Read
  <2> QED BY <2>1, <2>2 DEF Has
<1> HIDE DEF types
<1>6. ASSUME NEW c \in Client, Has(inbox'[c], types) PROVE Restarting
  <2>1. CASE c = a
    <3>1. Has(inbox[c], types)
      BY <1>6, <2>1, ReaderBox
    <3> QED BY <1>1, <3>1
  <2>2. CASE c # a /\ c \in gone
    <3>1. inbox'[c] = inbox[c]
      BY <2>2 DEF Step
    <3> QED BY <1>1, <1>6, <3>1
  <2>3. CASE c # a /\ c \notin gone
    <3>1. Has(inbox[c], types) \/ Has(sent, types)
      BY <1>6, <2>3, BoxAfter
    <3> QED BY <1>1, <1>4, <1>5, <3>1
  <2> QED BY <2>1, <2>2, <2>3
<1>7. ASSUME NEW c \in Client, Has(inbox[c], types), m.type \notin types PROVE Has(inbox'[c], types)
  <2>1. CASE c = a
    BY <1>7, <2>1, ReaderBox
  <2>2. CASE c # a /\ c \in gone
    <3>1. inbox'[c] = inbox[c]
      BY <2>2 DEF Step
    <3> QED BY <1>7, <3>1
  <2>3. CASE c # a /\ c \notin gone
    BY <1>7, <2>3, BoxAfter
  <2> QED BY <2>1, <2>2, <2>3
<1> QED BY <1>1, <1>2, <1>6, <1>7 DEF types

\* Nobody counts rows of its own players when it reads.
LEMMA NoRowsRead ==
  ASSUME TypeOK, NEW a \in Client, NEW m \in Message, NEW seen \in View, Marks(a, m, seen),
         NEW q \in Player, Owner[q] = a
  PROVE  /\ m.type = "ask" => seen[q].clearedRows = 0
         /\ info[a][q].clearedRows = 0 => seen[q].clearedRows = 0
<1> DEFINE i == info[a]
<1>1. i \in View /\ plan.rules \in {"Default", "Survival"}
  BY TypeParts
<1> HIDE DEF i
<1>2. CASE SameScore(i, seen) /\ m.type # "ask"
  BY <1>2 DEF SameScore, i
<1>3. CASE CountsRows(a, m, seen) /\ m.type \in {"none", "rows"}
  <2>0. m.type = "rows"
    BY <1>3, MessageParts
  <2>1. PICK p \in Player, n \in {1, 4} : Owner[p] # a /\ \A r \in Player : Counts(a, i, p, n, r, seen)
    BY <1>3, <2>0 DEF CountsRows, i
  <2>2. seen[q].clearedRows = i[q].clearedRows + (IF q = p THEN n ELSE 0) /\ q # p
    BY <2>1 DEF Counts
  <2>3. i[q].clearedRows \in Nat
    BY <1>1 DEF View, Seen
  <2> QED BY <2>0, <2>2, <2>3 DEF i
<1>4. CASE seen = restart(i, a) /\ m.type = "ask"
  <2>1. seen[q].clearedRows = 0
    BY <1>1, <1>4, RestartParts
  <2> QED BY <2>1
<1>5. CASE seen = restart(i, m.client) /\ m.type = "restart" /\ m.client \in Client \ gone
  <2>1. seen[q].clearedRows = IF Owner[q] = m.client THEN 0 ELSE i[q].clearedRows
    BY <1>1, <1>5, RestartParts
  <2> QED BY <1>5, <2>1 DEF i
<1> QED BY <1>2, <1>3, <1>4, <1>5 DEF Marks, i

LEMMA NoRowsStep ==
  ASSUME TypeOK, NEW a \in Client, NEW m, NEW seen, NEW sent, Step(a, m, seen, sent), Plays(a, m, seen, sent),
         Marks(a, m, seen), m # NoMessage, \A c \in Here : AsksFirst(c), NoRows
  PROVE  NoRows'
<1>1. Here' = Here /\ m \in Message /\ seen \in View
  BY DEF Step, Here
<1>2. SUFFICES ASSUME NEW p \in Player, Owner[p] \in Here
               PROVE  Has(inbox'[Owner[p]], {"ask"}) \/ info'[Owner[p]][p].clearedRows = 0
  BY <1>1 DEF NoRows
<1> DEFINE c == Owner[p]
<1>3. Has(inbox[c], {"ask"}) \/ info[c][p].clearedRows = 0
  BY <1>2 DEF NoRows
<1>4. CASE c # a
  <2>1. info'[c] = info[c] /\ (Has(inbox[c], {"ask"}) => Has(inbox'[c], {"ask"}))
    BY <1>2, <1>4, BoxAfter DEF Here
  <2> QED BY <1>3, <2>1
<1>5. CASE c = a
  <2>1. info'[c] = seen /\ (Has(inbox[c], {"ask"}) => m.type = "ask")
    BY <1>5, ReaderBox, AsksFirstStep
  <2>2. /\ m.type = "ask" => seen[p].clearedRows = 0
        /\ info[a][p].clearedRows = 0 => seen[p].clearedRows = 0
    BY <1>1, <1>5, NoRowsRead
  <2> QED BY <1>3, <1>5, <2>1, <2>2
<1> QED BY <1>4, <1>5

LEMMA CleanStep ==
  ASSUME PlayInv, NEW a \in Client, NEW m, NEW seen, NEW sent, Step(a, m, seen, sent), Plays(a, m, seen, sent),
         Marks(a, m, seen), m # NoMessage, m.type = "restart" => sent = << >>,
         gone = {}, \A c \in Here : AsksFirst(c), NoRows, Clean
  PROVE  Clean'
<1>0. TypeOK /\ Routed
  BY DEF PlayInv
<1>1. /\ Here = Client /\ seen \in View /\ info[a] \in View /\ plan.rules \in {"Default", "Survival"}
      /\ inbox[a] \in Seq(Message) /\ inbox[a] # << >> /\ m = Head(inbox[a]) /\ inbox'[a] = Tail(inbox[a])
      /\ m \in Message
  BY <1>0, TypeParts DEF Step, Here
<1>2. 1 \in DOMAIN inbox[a] /\ inbox[a][1] = m
  BY <1>1, Read
<1>3. m.type \in {"ask", "restart"}
  BY <1>2 DEF Clean
<1>4. \A k \in DOMAIN sent : sent[k].type \in {"ask", "restart"}
  <2>1. CASE m.type = "ask"
    <3> DEFINE x == [type |-> "restart", client |-> a]
    <3>1. sent = <<x>> /\ x.type = "restart"
      BY <2>1 DEF Plays
    <3> HIDE DEF x
    <3> QED BY <3>1
  <2>2. CASE m.type = "restart"
    BY <2>2
  <2> QED BY <1>3, <2>1, <2>2
<1>5. ASSUME NEW c \in Client PROVE \A k \in DOMAIN inbox'[c] : inbox'[c][k].type \in {"ask", "restart"}
  <2>1. \A k \in DOMAIN inbox[c] : inbox[c][k].type \in {"ask", "restart"}
    BY DEF Clean
  <2>2. CASE c = a
    <3>1. \A k \in DOMAIN Tail(inbox[a]) : k + 1 \in DOMAIN inbox[a] /\ Tail(inbox[a])[k] = inbox[a][k + 1]
      BY <1>1, Read
    <3> QED BY <1>1, <2>1, <2>2, <3>1
  <2>3. CASE c # a
    <3>1. inbox'[c] = inbox[c] \o sent /\ inbox[c] \in Seq(Message) /\ sent \in Seq(Message)
      BY <1>0, <2>3, BoxAfter
    <3>2. \A k \in DOMAIN (inbox[c] \o sent) :
            \/ k \in DOMAIN inbox[c] /\ (inbox[c] \o sent)[k] = inbox[c][k]
            \/ \E j \in DOMAIN sent : (inbox[c] \o sent)[k] = sent[j]
      BY <3>1, Added
    <3> QED BY <1>4, <2>1, <3>1, <3>2
  <2> QED BY <2>2, <2>3
<1>6. \A c \in Client : ~Expected(c, c)
  BY <1>0 DEF Expected, Routed, FromOther, IsRestart
<1>7. ASSUME NEW c \in Client, c # a PROVE Has(inbox'[c], {"ask"}) \/ Renewed(c)'
  <2>1. info'[c] = info[c] /\ (Has(inbox[c], {"ask"}) => Has(inbox'[c], {"ask"}))
    BY <1>0, <1>7, BoxAfter
  <2>2. ASSUME Renewed(c) PROVE Renewed(c)'
    <3>1. ASSUME NEW p \in Player PROVE Fresh(info[c][p]) \/ Expected(c, Owner[p])'
      <4>1. Fresh(info[c][p]) \/ Expected(c, Owner[p])
        BY <2>2 DEF Renewed
      <4>2. Owner[p] \in Client
        BY <1>0, TypeParts
      <4>3. CASE Expected(c, Owner[p])
        <5>1. Owner[p] # c
          BY <1>6, <4>3
        <5>2. Expected(c, Owner[p])' \/ (a = c /\ IsRestart(m, Owner[p]))
          BY <1>0, <1>1, <4>2, <4>3, <5>1, ExpectedStep
        <5> QED BY <1>7, <5>2
      <4> QED BY <4>1, <4>3
    <3> QED BY <2>1, <2>2, <3>1 DEF Renewed, Fresh
  <2> QED BY <2>1, <2>2 DEF Clean
<1>8. Renewed(a)'
  <2>1. info'[a] = seen
    BY <1>0, ReaderBox
  <2>2. CASE m.type = "ask"
    <3>1. seen = restart(info[a], a)
      BY <2>2 DEF Marks
    <3>2. ASSUME NEW p \in Player PROVE seen[p].data = NewData /\ (Fresh(seen[p]) \/ Expected(a, Owner[p])')
      <4>1. /\ seen[p].data = NewData
            /\ Owner[p] = a => ~seen[p].isGameOver /\ seen[p].clearedRows = 0
        <5>1. /\ seen[p].data = NewData
              /\ seen[p].isGameOver <=> info[a][p].isGameOver /\ Owner[p] # a
              /\ seen[p].clearedRows = IF Owner[p] = a THEN 0 ELSE info[a][p].clearedRows
          BY <1>1, <3>1, RestartParts
        <5> QED BY <5>1
      <4>2. ASSUME Owner[p] # a PROVE Expected(a, Owner[p])'
        <5>1. Owner[p] \in Here /\ a \in Here
          BY <1>0, <1>1, TypeParts
        <5>2. Answers(Owner[p], a, 1)
          BY <1>2, <2>2, <4>2, <5>1 DEF PlayInv, AsksAnswered
        <5>3. Expected(a, Owner[p])
          BY <4>2, <5>2 DEF Answers, Expected
        <5>4. ~IsRestart(m, Owner[p])
          BY <2>2 DEF IsRestart
        <5> QED BY <1>0, <4>2, <5>1, <5>3, <5>4, ExpectedStep
      <4> QED BY <4>1, <4>2 DEF Fresh
    <3> QED BY <2>1, <3>2 DEF Renewed, Fresh
  <2>3. CASE m.type = "restart"
    <3>1. Renewed(a)
      <4>1. ~Has(inbox[a], {"ask"})
        BY <1>0, <2>3, AsksFirstStep
      <4> QED BY <4>1 DEF Clean
    <3>2. m.client \in Client
      BY <1>1, <2>3, MessageParts
    <3>3. seen = restart(info[a], m.client)
      BY <2>3, <3>2 DEF Marks
    <3>4. ASSUME NEW p \in Player PROVE seen[p].data = NewData /\ (Fresh(seen[p]) \/ Expected(a, Owner[p])')
      <4>1. /\ seen[p].data = NewData
            /\ seen[p].isGameOver <=> info[a][p].isGameOver /\ Owner[p] # m.client
            /\ seen[p].clearedRows = IF Owner[p] = m.client THEN 0 ELSE info[a][p].clearedRows
        BY <1>1, <3>2, <3>3, RestartParts
      <4>2. Fresh(info[a][p]) \/ Expected(a, Owner[p])
        BY <3>1 DEF Renewed
      <4>3. CASE Owner[p] = m.client
        BY <4>1, <4>3 DEF Fresh
      <4>4. CASE Owner[p] # m.client /\ Fresh(info[a][p])
        BY <4>1, <4>4 DEF Fresh
      <4>5. CASE Owner[p] # m.client /\ Expected(a, Owner[p])
        <5>1. Owner[p] \in Here /\ a \in Here /\ Owner[p] # a
          BY <1>0, <1>1, <1>6, <4>5, TypeParts
        <5>2. ~IsRestart(m, Owner[p])
          BY <4>5 DEF IsRestart
        <5>3. Expected(a, Owner[p])'
          BY <1>0, <4>5, <5>1, <5>2, ExpectedStep
        <5> QED BY <4>1, <5>3
      <4> QED BY <4>2, <4>3, <4>4, <4>5
    <3> QED BY <2>1, <3>4 DEF Renewed, Fresh
  <2> QED BY <1>3, <2>2, <2>3
<1> QED BY <1>5, <1>7, <1>8 DEF Clean

LEMMA ReadsRestart ==
  ASSUME TypeOK, NEW a \in Client, NEW m, NEW seen, NEW sent, Step(a, m, seen, sent), m.type \in {"ask", "restart"}
  PROVE  Restarting
<1>1. m # NoMessage
  BY NoMessageTells
<1>2. inbox[a] # << >> /\ m = Head(inbox[a]) /\ inbox[a] \in Seq(Message)
  BY <1>1, TypeParts DEF Step
<1>3. 1 \in DOMAIN inbox[a] /\ inbox[a][1] = m
  BY <1>2, Read
<1> QED BY <1>3 DEF Restarting, Pending

\* When a restart is over at all clients, all is new.
LEMMA CleanCounted == TypeOK /\ Clean /\ ~Restarting => \A p \in Player : HasRowsOf(info[Owner[p]], p)
<1> SUFFICES ASSUME TypeOK, Clean, ~Restarting, NEW p \in Player
             PROVE  HasRowsOf(info[Owner[p]], p)
  OBVIOUS
<1> DEFINE c == Owner[p]
<1>1. c \in Client
  BY TypeParts
<1>2. /\ \A d \in Client : ~Has(inbox[d], {"ask"})
      /\ \A d \in Client : \A k \in DOMAIN inbox[d] : inbox[d][k].type # "restart"
  BY DEF Restarting, Pending, Has
<1>3. \A q \in Player : ~Expected(c, Owner[q])
  <2>1. \A q \in Player : Owner[q] \in Client
    BY TypeParts
  <2> QED BY <1>1, <1>2, <2>1 DEF Expected, IsRestart
<1>4. Renewed(c)
  BY <1>1, <1>2 DEF Clean
<1>5. \A q \in Player : info[c][q].data = NewData /\ info[c][q].clearedRows = 0
  BY <1>3, <1>4 DEF Renewed, Fresh
<1>6. info[c][p].data.opponentRows = 0
  BY <1>5 DEF NewData
<1>7. Cardinality(RowsOf(Player \ {p}, info[c])) = 0
  <2> DEFINE S == Player \ {p}
  <2>1. \A q \in S : info[c][q].clearedRows = 0
    BY <1>5
  <2> HIDE DEF S, c
  <2>2. Cardinality(RowsOf(S, info[c])) = 0
    BY <2>1, RowsOfNone
  <2> QED BY <2>2 DEF S
<1> QED BY <1>6, <1>7 DEF HasRowsOf

LEMMA CleanCountedNext == (TypeOK /\ Clean /\ ~Restarting => \A p \in Player : HasRowsOf(info[Owner[p]], p))'
BY CleanCounted, PTL

LEMMA ScoreStepKept ==
  ASSUME PlayInv, ScoreInv, TypeOK', Uncrossed, Uncrossed', plan.rules' = plan.rules,
         NEW a \in Client, NEW m, NEW seen, NEW sent, Step(a, m, seen, sent), Plays(a, m, seen, sent),
         Marks(a, m, seen), m = NoMessage /\ Restarting => "restart crossed" \in causes',
         m.type = "restart" => sent = << >>
  PROVE  ScoreInv'
<1>1. /\ TypeOK /\ a \in Here /\ Here' = Here /\ gone' = gone /\ seen \in View /\ info[a] \in View
      /\ m \in Message \cup {NoMessage}
      /\ m = NoMessage => ~Restarting
  BY TypeParts DEF PlayInv, Step, Here, Uncrossed
<1>2. \A c \in Here : AsksFirst(c)
  BY DEF ScoreInv, RestartsFirst
<1>3. Restarting => NoRows
  BY DEF ScoreInv, RestartsFirst
<1>4. Restarting' => Restarting
  BY <1>1, RestartingStep
<1>5. RestartsFirst'
  <2>1. \A c \in Here : AsksFirst(c)'
    BY <1>1, <1>2, AsksFirstStep
  <2>2. Restarting' => NoRows'
    BY <1>1, <1>2, <1>3, <1>4, NoRowsStep
  <2> QED BY <1>1, <2>1, <2>2 DEF RestartsFirst
<1>6. ASSUME NEW p \in Player, Owner[p] \in Here, Owner[p] # a PROVE info'[Owner[p]] = info[Owner[p]]
  BY <1>1, <1>6, BoxAfter DEF Here
<1>7. info'[a] = seen
  BY <1>1, ReaderBox
<1>8. DefaultScored'
  <2>1. SUFFICES ASSUME plan.rules = "Default", NEW p \in Player, Owner[p] \in Here
                 PROVE  Scored(info'[Owner[p]][p])
    BY <1>1 DEF DefaultScored, Scored
  <2>2. Scored(info[Owner[p]][p])
    BY <2>1 DEF ScoreInv, DefaultScored
  <2>3. CASE Owner[p] # a
    BY <1>6, <2>1, <2>2, <2>3
  <2>4. CASE Owner[p] = a
    <3>1. m.type = "restart" /\ m.client \notin gone => info[a][p].clearedRows = 0
      <4>1. SUFFICES ASSUME m.type = "restart" PROVE info[a][p].clearedRows = 0
        OBVIOUS
      <4>2. NoRows
        BY <1>1, <1>3, <4>1, ReadsRestart
      <4>3. ~Has(inbox[a], {"ask"})
        BY <1>1, <1>2, <4>1, NoMessageTells, AsksFirstStep
      <4> QED BY <2>1, <2>4, <4>2, <4>3 DEF NoRows
    <3> QED BY <1>1, <1>7, <2>1, <2>2, <2>4, <3>1, ScoredStep
  <2> QED BY <2>3, <2>4
<1>9. ASSUME gone = {}, Restarting PROVE Clean'
  <2>1. Clean
    BY <1>9 DEF ScoreInv, RestartsClean
  <2>2. m # NoMessage
    BY <1>1, <1>9
  <2> QED BY <1>2, <1>3, <1>9, <2>1, <2>2, CleanStep
<1>10. RestartsClean'
  BY <1>1, <1>4, <1>9 DEF RestartsClean
<1>11. SurvivalCounted'
  <2>1. SUFFICES ASSUME plan.rules = "Survival", gone = {}, ~Restarting', NEW p \in Player
                 PROVE  HasRowsOf(info'[Owner[p]], p)
    BY <1>1 DEF SurvivalCounted, HasRowsOf, RowsOf
  <2>2. CASE Restarting
    <3>1. Clean'
      BY <1>9, <2>1, <2>2
    <3> QED BY <2>1, <3>1, CleanCountedNext DEF HasRowsOf, RowsOf
  <2>3. CASE ~Restarting
    <3>1. HasRowsOf(info[Owner[p]], p)
      BY <2>1, <2>3 DEF ScoreInv, SurvivalCounted
    <3>2. Owner[p] \in Here
      BY <1>1, <2>1, TypeParts DEF Here
    <3>3. CASE Owner[p] # a
      BY <1>6, <3>1, <3>2, <3>3
    <3>4. CASE Owner[p] = a
      <4>1. m.type \notin {"ask", "restart"}
        BY <1>1, <2>3, ReadsRestart
      <4> QED BY <1>1, <1>7, <2>1, <3>1, <3>4, <4>1, CountedStep
    <3> QED BY <3>3, <3>4
  <2> QED BY <2>2, <2>3
<1> QED BY <1>5, <1>8, <1>10, <1>11 DEF ScoreInv

-----------------------------------------------------------------------------
(* Scores: all steps *)

LEMMA VanishKeepsScore ==
  ASSUME PlayInv, ScoreInv, Uncrossed, Uncrossed', plan.rules' = plan.rules, NEW a \in Client, Vanish(a)
  PROVE  ScoreInv'
<1> DEFINE m == GoneMessage(a)
<1>0. TypeOK
  BY DEF PlayInv
<1>1. /\ info' = info /\ gone' = gone \cup {a} /\ m \in Message /\ inbox'[a] = << >>
      /\ \A d \in Client : d # a => inbox'[d] = IF d \in gone THEN inbox[d] ELSE inbox[d] \o <<m>>
      /\ \A d \in Client : inbox[d] \in Seq(Message)
      /\ \A d \in Here' : d \in Here /\ d \in Client /\ inbox'[d] = inbox[d] \o <<m>>
  BY <1>0, VanishStep, TypeParts DEF Here
<1>2. m.type = "gone"
  BY DEF GoneMessage
<1> HIDE DEF m
<1>3. Restarting' => Restarting
  <2>1. ASSUME NEW d \in Client, Has(inbox'[d], {"ask", "restart"}) PROVE Has(inbox[d], {"ask", "restart"})
    <3>1. CASE d = a
      <4>1. DOMAIN inbox'[d] = {}
        BY <1>1, <3>1
      <4> QED BY <2>1, <4>1 DEF Has
    <3>2. CASE d # a /\ d \in gone
      BY <1>1, <2>1, <3>2
    <3>3. CASE d # a /\ d \notin gone
      <4>1. inbox'[d] = inbox[d] \o <<m>>
        BY <1>1, <3>3
      <4>2. Has(inbox[d] \o <<m>>, {"ask", "restart"}) => Has(inbox[d], {"ask", "restart"}) \/ m.type \in {"ask", "restart"}
        BY <1>1, OneAdded
      <4> QED BY <1>2, <2>1, <4>1, <4>2
    <3> QED BY <3>1, <3>2, <3>3
  <2>2. Restarting' <=> \E d \in Client : Has(inbox'[d], {"ask", "restart"})
    BY DEF Restarting, Pending, Has
  <2>3. Restarting <=> \E d \in Client : Has(inbox[d], {"ask", "restart"})
    BY DEF Restarting, Pending, Has
  <2> QED BY <2>1, <2>2, <2>3
<1>4. ASSUME NEW c \in Here' PROVE AsksFirst(c)'
  <2>1. \A k \in DOMAIN (inbox[c] \o <<m>>) :
          (k \in DOMAIN inbox[c] /\ (inbox[c] \o <<m>>)[k] = inbox[c][k]) \/ (inbox[c] \o <<m>>)[k] = m
    BY <1>1, <1>4, OneAdded
  <2>2. AsksFirst(c)
    BY <1>1, <1>4 DEF ScoreInv, RestartsFirst
  <2> QED BY <1>1, <1>2, <1>4, <2>1, <2>2 DEF AsksFirst
<1>5. ASSUME Restarting' PROVE NoRows'
  <2>1. NoRows
    BY <1>3, <1>5 DEF ScoreInv, RestartsFirst
  <2>2. ASSUME NEW p \in Player, Owner[p] \in Here'
        PROVE  Has(inbox'[Owner[p]], {"ask"}) \/ info'[Owner[p]][p].clearedRows = 0
    <3>1. Has(inbox[Owner[p]], {"ask"}) => Has(inbox[Owner[p]] \o <<m>>, {"ask"})
      BY <1>1, <2>2, OneAdded
    <3> QED BY <1>1, <2>1, <2>2, <3>1 DEF NoRows
  <2> QED BY <2>2 DEF NoRows
<1>6. RestartsFirst'
  BY <1>4, <1>5 DEF RestartsFirst
<1>7. DefaultScored'
  BY <1>1 DEF ScoreInv, DefaultScored, Scored, Here
<1>8. gone' # {}
  BY <1>1
<1>9. RestartsClean' /\ SurvivalCounted'
  BY <1>8 DEF RestartsClean, SurvivalCounted
<1> QED BY <1>6, <1>7, <1>9 DEF ScoreInv

LEMMA AskKeepsScore ==
  ASSUME PlayInv, ScoreInv, Uncrossed, Uncrossed', plan.rules' = plan.rules, AskRestart
  PROVE  ScoreInv'
<1> DEFINE m == AskMessage
<1>0. TypeOK
  BY DEF PlayInv
<1>1. /\ info' = info /\ gone' = gone /\ Here' = Here /\ m \in Message
      /\ \A d \in Client : inbox'[d] = IF d \in gone THEN inbox[d] ELSE inbox[d] \o <<m>>
  BY <1>0, AskStep DEF Here
<1>2. \A d \in Client : inbox[d] = << >>
  BY DEF AskRestart, Uncrossed
<1>3. m.type = "ask"
  BY DEF AskMessage
<1> HIDE DEF m
<1>4. ASSUME NEW d \in Here
      PROVE  DOMAIN inbox'[d] = {1} /\ inbox'[d][1] = m /\ Has(inbox'[d], {"ask"})
  <2>1. inbox'[d] = << >> \o <<m>>
    BY <1>1, <1>2, <1>4 DEF Here
  <2>2. << >> \o <<m>> = <<m>>
    OBVIOUS
  <2>3. DOMAIN inbox'[d] = {1} /\ inbox'[d][1] = m
    BY <2>1, <2>2
  <2> QED BY <1>3, <2>3 DEF Has
<1>5. RestartsFirst'
  <2>1. \A d \in Here : AsksFirst(d)'
    BY <1>4 DEF AsksFirst
  <2>2. NoRows'
    BY <1>1, <1>4 DEF NoRows
  <2> QED BY <1>1, <2>1, <2>2 DEF RestartsFirst
<1>6. DefaultScored'
  BY <1>1 DEF ScoreInv, DefaultScored, Scored
<1>7. ASSUME gone = {} PROVE Clean'
  <2>1. Here = Client
    BY <1>7 DEF Here
  <2>2. \A c \in Client : \A k \in DOMAIN inbox'[c] : inbox'[c][k].type \in {"ask", "restart"}
    BY <1>3, <1>4, <2>1
  <2>3. \A c \in Client : Has(inbox'[c], {"ask"})
    BY <1>4, <2>1
  <2> QED BY <2>2, <2>3 DEF Clean
<1>8. RestartsClean'
  BY <1>1, <1>7 DEF RestartsClean
<1>9. SurvivalCounted'
  <2>1. SUFFICES ASSUME gone = {}, ~Restarting', NEW p \in Player PROVE FALSE
    BY <1>1 DEF SurvivalCounted
  <2>2. Owner[p] \in Client /\ Owner[p] \in Here
    BY <1>0, <2>1, TypeParts DEF Here
  <2>3. Has(inbox'[Owner[p]], {"ask"})
    BY <1>4, <2>2
  <2> QED BY <2>1, <2>2, <2>3 DEF Restarting, Pending, Has
<1> QED BY <1>5, <1>6, <1>8, <1>9 DEF ScoreInv

LEMMA ScoreKept ==
  ASSUME PlayInv, ScoreInv, Next
  PROVE  ScoreInv'
<1>1. TypeOK /\ Routed /\ TypeOK' /\ plan.rules' = plan.rules /\ causes \subseteq causes'
  BY TypeKept, PlanKept DEF PlayInv
<1>2. CASE ~Uncrossed'
  BY <1>2 DEF ScoreInv, RestartsFirst, DefaultScored, RestartsClean, SurvivalCounted
<1>3. CASE Uncrossed'
  <2>1. Uncrossed
    BY <1>1, <1>3 DEF Uncrossed
  <2>2. ASSUME NEW a \in Client, ScoreSteps(a) PROVE ScoreInv'
    <3>1. PICK m, seen, sent :
            /\ Step(a, m, seen, sent) /\ Plays(a, m, seen, sent) /\ Marks(a, m, seen)
            /\ m = NoMessage /\ Restarting => "restart crossed" \in causes'
            /\ m.type = "restart" => sent = << >>
      BY <2>2 DEF ScoreSteps
    <3> QED BY <1>1, <1>3, <2>1, <3>1, ScoreStepKept
  <2> QED BY <1>1, <1>3, <2>1, <2>2, EveryScore, VanishKeepsScore, AskKeepsScore
<1> QED BY <1>2, <1>3

LEMMA ScoreStarts == Init => ScoreInv
<1> SUFFICES ASSUME Init PROVE ScoreInv
  OBVIOUS
<1>1. /\ info = [c \in Client |-> [p \in Player |-> NewInfo]]
      /\ \A c \in Client : inbox[c] = << >> /\ DOMAIN inbox[c] = {}
      /\ \A p \in Player : Owner[p] \in Client
  BY RulesAssumption DEF Init
<1>2. ~Restarting
  BY <1>1 DEF Restarting, Pending
<1>3. RestartsFirst /\ RestartsClean
  BY <1>1, <1>2 DEF RestartsFirst, RestartsClean, AsksFirst, Here
<1>4. \A c \in Client, p \in Player : info[c][p] = NewInfo
  BY <1>1
<1>5. NewInfo.data = NewData /\ NewInfo.gravity = 1 /\ NewInfo.clearedRows = 0
  BY DEF NewInfo
<1>6. DefaultScored
  <2>1. Scored(NewInfo)
    BY <1>5, ScoredNew
  <2> QED BY <1>1, <1>4, <2>1 DEF DefaultScored
<1>7. SurvivalCounted
  <2>1. ASSUME NEW p \in Player PROVE HasRowsOf(info[Owner[p]], p)
    <3> DEFINE i == info[Owner[p]]
               S == Player \ {p}
    <3>1. \A q \in Player : i[q].clearedRows = 0 /\ i[q].data = NewData
      BY <1>1, <1>4, <1>5
    <3>2. i[p].data.opponentRows = 0
      BY <3>1 DEF NewData
    <3>3. \A q \in S : i[q].clearedRows = 0
      BY <3>1
    <3> HIDE DEF i, S
    <3>4. Cardinality(RowsOf(S, i)) = 0
      BY <3>3, RowsOfNone
    <3>5. HasRowsOf(i, p)
      BY <3>2, <3>4 DEF HasRowsOf, S
    <3> QED BY <3>5 DEF i
  <2> QED BY <2>1 DEF SurvivalCounted
<1> QED BY <1>3, <1>6, <1>7 DEF ScoreInv

LEMMA ScoreStays ==
  ASSUME ScoreInv, UNCHANGED vars
  PROVE  ScoreInv'
<1>1. plan' = plan /\ info' = info /\ inbox' = inbox /\ gone' = gone /\ causes' = causes
  BY DEF vars
<1>2. Restarting' = Restarting /\ Uncrossed' = Uncrossed /\ Here' = Here /\ NoRows' = NoRows
  BY <1>1 DEF Restarting, Pending, Uncrossed, Here, NoRows
<1>3. RestartsFirst'
  BY <1>1, <1>2 DEF ScoreInv, RestartsFirst, AsksFirst
<1>4. DefaultScored'
  BY <1>1, <1>2 DEF ScoreInv, DefaultScored, Scored
<1>5. RestartsClean'
  BY <1>1, <1>2 DEF ScoreInv, RestartsClean, Clean, Renewed, Expected
<1>6. SurvivalCounted'
  BY <1>1, <1>2 DEF ScoreInv, SurvivalCounted, HasRowsOf, RowsOf
<1> QED BY <1>3, <1>4, <1>5, <1>6 DEF ScoreInv

LEMMA AlwaysScoreInv == Spec => []ScoreInv
<1>1. PlayInv /\ ScoreInv /\ [Next]_vars => ScoreInv'
  BY ScoreKept, ScoreStays
<1> QED BY <1>1, ScoreStarts, AlwaysPlayInv, PTL DEF Spec

\* Where nothing crossed with a restart: points are given for rows, the level is at most one behind
\* them, the gravity is that of the level, and with the rules of survival a player has had each row
\* that an opponent removed once (rowsRemove and restart of both rules).
THEOREM ScoresFollowRows == Spec => []ScoreFollowsRows
<1>1. PlayInv /\ ScoreInv => ScoreFollowsRows
  <2> SUFFICES ASSUME PlayInv, ScoreInv PROVE ScoreFollowsRows
    OBVIOUS
  <2>1. TypeOK
    BY DEF PlayInv
  <2>2. ASSUME Quiet, Uncrossed, NEW p \in Player, Owner[p] \in Here
        PROVE  LET i == info[Owner[p]]
                   d == i[p].data
               IN  /\ plan.rules = "Default" =>
                        /\ d.points >= i[p].clearedRows
                        /\ d.points = 0 <=> i[p].clearedRows = 0
                        /\ i[p].clearedRows \div LevelUpNbr + 1 \in {d.level, d.level + 1}
                        /\ i[p].gravity = d.level
                   /\ plan.rules = "Survival" /\ gone = {} => d.opponentRows = Cardinality(RowsOf(Player \ {p}, i))
    <3>1. ~Restarting
      BY <2>2 DEF Quiet, Restarting, Pending
    <3>2. plan.rules = "Default" => Scored(info[Owner[p]][p])
      BY <2>2 DEF ScoreInv, DefaultScored
    <3>3. plan.rules = "Survival" /\ gone = {} => HasRowsOf(info[Owner[p]], p)
      BY <2>2, <3>1 DEF ScoreInv, SurvivalCounted
    <3> QED BY <3>2, <3>3 DEF Scored, HasRowsOf
  <2> QED BY <2>1, <2>2 DEF ScoreFollowsRows, Uncrossed
<1> QED BY <1>1, AlwaysPlayInv, AlwaysScoreInv, PTL

-----------------------------------------------------------------------------
(* Places: one more is out *)

\* Places that are taken are the last ones.
LEMMA TakenBounds ==
  ASSUME NEW O \in SUBSET Player, NEW pl \in [Player -> Nat], Taken(O, pl), NEW q \in O
  PROVE  pl[q] > Cardinality(Player) - Cardinality(O) /\ pl[q] <= Cardinality(Player)
<1> DEFINE N == Cardinality(Player)
           ahead == {r \in O : pl[r] > pl[q]}
<1>1. pl[q] = N - Cardinality(ahead)
  BY DEF Taken
<1>2. IsFiniteSet(O) /\ Cardinality(O) \in Nat /\ N \in Nat
  BY PlayersAreFinite
<1>3. ahead \subseteq O /\ q \notin ahead
  OBVIOUS
<1> HIDE DEF ahead, N
<1>4. IsFiniteSet(ahead) /\ Cardinality(ahead) <= Cardinality(O) /\ (Cardinality(O) = Cardinality(ahead) => O = ahead)
  BY <1>2, <1>3, FS_Subset
<1>5. Cardinality(ahead) \in Nat /\ Cardinality(ahead) # Cardinality(O)
  BY <1>3, <1>4, FS_CardinalityType
<1> QED BY <1>1, <1>2, <1>4, <1>5 DEF N

\* The next one that is out has the next place.
LEMMA TakenMore ==
  ASSUME NEW O \in SUBSET Player, NEW pl \in [Player -> Nat], Taken(O, pl), NEW p \in Player \ O,
         NEW pl2, pl2 = [pl EXCEPT ![p] = Cardinality(Player) - Cardinality(O)]
  PROVE  /\ Taken(O \cup {p}, pl2)
         /\ \A q \in O : pl[q] > Cardinality(Player) - Cardinality(O)
         /\ pl2 \in [Player -> Nat]
<1> DEFINE N == Cardinality(Player)
           n == N - Cardinality(O)
<1>1. IsFiniteSet(O) /\ Cardinality(O) \in 0 .. N /\ N \in Nat
  BY PlayersAreFinite
<1>2. n \in Nat
  BY <1>1
<1>3. \A q \in O : pl[q] > n
  BY TakenBounds
<1>4. pl2 = [pl EXCEPT ![p] = n]
  OBVIOUS
<1> HIDE DEF n
<1>5. pl2 \in [Player -> Nat] /\ pl2[p] = n /\ \A q \in O : pl2[q] = pl[q] /\ q # p
  BY <1>2, <1>4
<1>6. ASSUME NEW r \in O \cup {p}
      PROVE  /\ pl2[r] = N - Cardinality({q \in O \cup {p} : pl2[q] > pl2[r]})
             /\ \A q \in O \cup {p} : pl2[q] = pl2[r] => q = r
  <2>1. CASE r = p
    <3>1. {q \in O \cup {p} : pl2[q] > pl2[r]} = O
      BY <1>2, <1>3, <1>5, <2>1
    <3>2. n = N - Cardinality(O)
      BY DEF n
    <3>3. \A q \in O : pl2[q] # n
      BY <1>2, <1>3, <1>5
    <3> QED BY <1>5, <2>1, <3>1, <3>2, <3>3
  <2>2. CASE r \in O
    <3>1. {q \in O \cup {p} : pl2[q] > pl2[r]} = {q \in O : pl[q] > pl[r]}
      <4>1. ~(pl2[p] > pl2[r]) /\ pl2[p] # pl2[r]
        BY <1>2, <1>3, <1>5, <2>2
      <4> QED BY <1>5, <2>2, <4>1
    <3>2. pl[r] = N - Cardinality({q \in O : pl[q] > pl[r]}) /\ \A q \in O : pl[q] = pl[r] => q = r
      BY <2>2 DEF Taken
    <3>3. pl2[p] # pl2[r]
      BY <1>2, <1>3, <1>5, <2>2
    <3> QED BY <1>5, <2>2, <3>1, <3>2, <3>3
  <2> QED BY <2>1, <2>2
<1>7. Taken(O \cup {p}, pl2)
  BY <1>6 DEF Taken, N
<1> QED BY <1>3, <1>5, <1>7 DEF n

\* What others read of it.
LEMMA SeesMore ==
  ASSUME NEW O \in SUBSET Player, NEW pl \in [Player -> Nat], NEW X, NEW pos, NEW box \in Seq(Message),
         Sees(O, pl, X, pos, box), NEW p \in Player \ O, NEW n \in Nat, \A q \in O : pl[q] > n,
         NEW pl2, pl2 = [pl EXCEPT ![p] = n]
  PROVE  Sees(O \cup {p}, pl2, X, pos, box \o <<Over(p)>>)
<1> DEFINE m == Over(p)
           all == box \o <<m>>
           O2 == O \cup {p}
<1>1. m \in Message /\ m.type = "over" /\ m.player = p
  BY OverIsMessage
<1>2. pl2[p] = n /\ \A q \in O : pl2[q] = pl[q] /\ q # p
  OBVIOUS
<1> HIDE DEF m
<1>3. /\ Len(box) + 1 \in DOMAIN all /\ all[Len(box) + 1] = m
      /\ \A j \in DOMAIN box : j < Len(box) + 1
      /\ \A k \in DOMAIN box : k \in DOMAIN all /\ all[k] = box[k]
      /\ \A k \in DOMAIN all : (k \in DOMAIN box /\ all[k] = box[k]) \/ (k = Len(box) + 1 /\ all[k] = m)
  <2> DEFINE sent == <<m>>
  <2>1. sent \in Seq(Message) /\ DOMAIN sent = {1} /\ sent[1] = m
    BY <1>1
  <2> HIDE DEF sent
  <2>2. /\ \A k \in DOMAIN box : k \in DOMAIN (box \o sent) /\ (box \o sent)[k] = box[k]
        /\ \A k \in DOMAIN sent :
             /\ Len(box) + k \in DOMAIN (box \o sent)
             /\ (box \o sent)[Len(box) + k] = sent[k]
             /\ \A j \in DOMAIN box : j < Len(box) + k
        /\ \A k \in DOMAIN (box \o sent) :
             \/ k \in DOMAIN box /\ (box \o sent)[k] = box[k]
             \/ \E j \in DOMAIN sent : k = Len(box) + j /\ (box \o sent)[k] = sent[j]
    BY <2>1, Added
  <2> QED BY <2>1, <2>2 DEF sent
<1> HIDE DEF all
<1>4. /\ X \subseteq O
      /\ \A q \in Player : pos[q] = IF q \in X THEN pl[q] ELSE 0
      /\ \A r \in X, q \in O \ X : pl[r] > pl[q]
      /\ \A q \in O \ X : \E k \in DOMAIN box : IsOver(box[k], q)
      /\ \A k \in DOMAIN box : box[k].type = "over" => box[k].player \in O \ X
      /\ \A j, k \in DOMAIN box :
           box[j].type = "over" /\ box[k].type = "over" /\ j < k => pl[box[j].player] > pl[box[k].player]
  BY DEF Sees
<1>5. X \subseteq O2 /\ p \notin X
  BY <1>4
<1>6. \A q \in Player : pos[q] = IF q \in X THEN pl2[q] ELSE 0
  BY <1>2, <1>4
<1>7. \A r \in X, q \in O2 \ X : pl2[r] > pl2[q]
  BY <1>2, <1>4
<1>8. \A q \in O2 \ X : \E k \in DOMAIN all : IsOver(all[k], q)
  <2>1. IsOver(all[Len(box) + 1], p)
    BY <1>1, <1>3 DEF IsOver
  <2>2. \A q \in O \ X : \E k \in DOMAIN all : IsOver(all[k], q)
    BY <1>3, <1>4
  <2> QED BY <1>3, <2>1, <2>2
<1>9. \A k \in DOMAIN all : all[k].type = "over" => all[k].player \in O2 \ X
  BY <1>1, <1>3, <1>4, <1>5
<1>10. ASSUME NEW j \in DOMAIN all, NEW k \in DOMAIN all, all[j].type = "over", all[k].type = "over", j < k
       PROVE  pl2[all[j].player] > pl2[all[k].player]
  <2>1. j \in DOMAIN box /\ all[j] = box[j]
    <3> DEFINE b == Len(box)
    <3>1. b \in Nat /\ DOMAIN box = 1 .. b
      BY LenProperties
    <3>2. ~(b + 1 < k)
      <4>1. k \in 1 .. b \/ k = b + 1
        BY <1>3, <3>1
      <4> HIDE DEF b
      <4> QED BY <3>1, <4>1
    <3> QED BY <1>3, <1>10, <3>2
  <2>2. box[j].player \in O
    BY <1>4, <1>10, <2>1
  <2>3. CASE k \in DOMAIN box /\ all[k] = box[k]
    <3>1. box[k].player \in O
      BY <1>4, <1>10, <2>3
    <3> QED BY <1>2, <1>4, <1>10, <2>1, <2>2, <2>3, <3>1
  <2>4. CASE all[k] = m
    BY <1>1, <1>2, <2>1, <2>2, <2>4
  <2> QED BY <1>3, <2>3, <2>4
<1> HIDE DEF O2
<1>11. Sees(O2, pl2, X, pos, all)
  BY <1>5, <1>6, <1>7, <1>8, <1>9, <1>10 DEF Sees
<1> QED BY <1>11 DEF O2, all, m

\* What the client of the one that is out sees; it has seen all others.
LEMMA SeesOwn ==
  ASSUME NEW O \in SUBSET Player, NEW pl \in [Player -> Nat], NEW pos \in [Player -> Nat], NEW box \in Seq(Message),
         Sees(O, pl, O, pos, box), NEW p \in Player \ O, NEW n \in Nat,
         NEW pl2, pl2 = [pl EXCEPT ![p] = n],
         NEW pos2, pos2 = [pos EXCEPT ![p] = n]
  PROVE  Sees(O \cup {p}, pl2, O \cup {p}, pos2, box)
<1> DEFINE O2 == O \cup {p}
<1>1. pl2[p] = n /\ pos2[p] = n /\ \A q \in Player : q # p => pl2[q] = pl[q] /\ pos2[q] = pos[q]
  OBVIOUS
<1>2. /\ \A q \in Player : pos[q] = IF q \in O THEN pl[q] ELSE 0
      /\ \A k \in DOMAIN box : box[k].type # "over"
  BY DEF Sees
<1>3. \A q \in Player : pos2[q] = IF q \in O2 THEN pl2[q] ELSE 0
  BY <1>1, <1>2
<1>4. O2 \ O2 = {} /\ O2 \subseteq O2
  OBVIOUS
<1> HIDE DEF O2
<1>5. Sees(O2, pl2, O2, pos2, box)
  BY <1>2, <1>3, <1>4 DEF Sees
<1> QED BY <1>5 DEF O2

\* Other messages tell nothing about places.
LEMMA SeesOther ==
  ASSUME NEW O, NEW pl, NEW X, NEW pos, NEW box \in Seq(Message), NEW sent \in Seq(Message),
         Sees(O, pl, X, pos, box), \A k \in DOMAIN sent : sent[k].type # "over"
  PROVE  Sees(O, pl, X, pos, box \o sent)
<1> DEFINE all == box \o sent
<1>1. /\ \A k \in DOMAIN box : k \in DOMAIN all /\ all[k] = box[k]
      /\ \A k \in DOMAIN all : all[k].type = "over" => k \in DOMAIN box /\ all[k] = box[k]
  <2>1. /\ \A k \in DOMAIN box : k \in DOMAIN (box \o sent) /\ (box \o sent)[k] = box[k]
        /\ \A k \in DOMAIN (box \o sent) :
             \/ k \in DOMAIN box /\ (box \o sent)[k] = box[k]
             \/ \E j \in DOMAIN sent : k = Len(box) + j /\ (box \o sent)[k] = sent[j]
    BY Added
  <2> QED BY <2>1
<1> HIDE DEF all
<1>2. /\ X \subseteq O
      /\ \A q \in Player : pos[q] = IF q \in X THEN pl[q] ELSE 0
      /\ \A r \in X, q \in O \ X : pl[r] > pl[q]
      /\ \A q \in O \ X : \E k \in DOMAIN box : IsOver(box[k], q)
      /\ \A k \in DOMAIN box : box[k].type = "over" => box[k].player \in O \ X
      /\ \A j, k \in DOMAIN box :
           box[j].type = "over" /\ box[k].type = "over" /\ j < k => pl[box[j].player] > pl[box[k].player]
  BY DEF Sees
<1>3. \A q \in O \ X : \E k \in DOMAIN all : IsOver(all[k], q)
  BY <1>1, <1>2
<1>4. \A k \in DOMAIN all : all[k].type = "over" => all[k].player \in O \ X
  BY <1>1, <1>2
<1>5. \A j, k \in DOMAIN all :
        all[j].type = "over" /\ all[k].type = "over" /\ j < k => pl[all[j].player] > pl[all[k].player]
  BY <1>1, <1>2
<1>6. Sees(O, pl, X, pos, all)
  BY <1>2, <1>3, <1>4, <1>5 DEF Sees
<1> QED BY <1>6 DEF all

LEMMA SeesRead ==
  ASSUME NEW O, NEW pl, NEW X, NEW pos, NEW box \in Seq(Message), box # << >>,
         Sees(O, pl, X, pos, box), Head(box).type # "over"
  PROVE  Sees(O, pl, X, pos, Tail(box))
<1> DEFINE rest == Tail(box)
           m == Head(box)
<1>1. /\ box[1] = m /\ m.type # "over"
      /\ \A k \in DOMAIN rest : k \in Nat /\ k + 1 \in DOMAIN box /\ rest[k] = box[k + 1]
      /\ \A k \in DOMAIN box : k \in Nat /\ (k = 1 \/ (k - 1 \in DOMAIN rest /\ rest[k - 1] = box[k]))
  BY Read
<1> HIDE DEF rest, m
<1>2. /\ X \subseteq O
      /\ \A q \in Player : pos[q] = IF q \in X THEN pl[q] ELSE 0
      /\ \A r \in X, q \in O \ X : pl[r] > pl[q]
      /\ \A q \in O \ X : \E k \in DOMAIN box : IsOver(box[k], q)
      /\ \A k \in DOMAIN box : box[k].type = "over" => box[k].player \in O \ X
      /\ \A j, k \in DOMAIN box :
           box[j].type = "over" /\ box[k].type = "over" /\ j < k => pl[box[j].player] > pl[box[k].player]
  BY DEF Sees
<1>3. \A q \in O \ X : \E k \in DOMAIN rest : IsOver(rest[k], q)
  <2>1. ASSUME NEW q \in O \ X PROVE \E k \in DOMAIN rest : IsOver(rest[k], q)
    <3>1. PICK k \in DOMAIN box : IsOver(box[k], q)
      BY <1>2
    <3>2. k # 1
      BY <1>1, <3>1 DEF IsOver
    <3> QED BY <1>1, <3>1, <3>2
  <2> QED BY <2>1
<1>4. \A k \in DOMAIN rest : rest[k].type = "over" => rest[k].player \in O \ X
  BY <1>1, <1>2
<1>5. ASSUME NEW j \in DOMAIN rest, NEW k \in DOMAIN rest, rest[j].type = "over", rest[k].type = "over", j < k
      PROVE  pl[rest[j].player] > pl[rest[k].player]
  <2>1. j + 1 < k + 1 /\ j + 1 \in DOMAIN box /\ k + 1 \in DOMAIN box
    BY <1>1, <1>5
  <2> QED BY <1>1, <1>2, <1>5, <2>1
<1>6. Sees(O, pl, X, pos, rest)
  BY <1>2, <1>3, <1>4, <1>5 DEF Sees
<1> QED BY <1>6 DEF rest

\* The next one that is read of has the place of the next one that is seen out.
ReadsOver(p, X, pos, pos2, box) ==
  /\ box # << >> /\ IsOver(Head(box), p)
  /\ pos2 = [pos EXCEPT ![p] = Cardinality(Player) - Cardinality(X)]

LEMMA SeesOver ==
  ASSUME NEW O \in SUBSET Player, NEW pl \in [Player -> Nat], Taken(O, pl), NEW X, NEW pos \in [Player -> Nat],
         NEW box \in Seq(Message), Sees(O, pl, X, pos, box),
         NEW p \in Player, NEW pos2, ReadsOver(p, X, pos, pos2, box)
  PROVE  /\ p \in O \ X
         /\ Sees(O, pl, X \cup {p}, pos2, Tail(box))
<1>0. /\ box # << >> /\ IsOver(Head(box), p)
      /\ pos2 = [pos EXCEPT ![p] = Cardinality(Player) - Cardinality(X)]
  BY DEF ReadsOver
<1> DEFINE rest == Tail(box)
           m == Head(box)
           X2 == X \cup {p}
<1>1. /\ 1 \in DOMAIN box /\ box[1] = m /\ m.type = "over" /\ m.player = p
      /\ \A k \in DOMAIN rest : k \in Nat /\ k + 1 \in DOMAIN box /\ rest[k] = box[k + 1] /\ k + 1 > 1
      /\ \A k \in DOMAIN box : k \in Nat /\ (k = 1 \/ (k > 1 /\ k - 1 \in DOMAIN rest /\ rest[k - 1] = box[k]))
  <2>1. /\ 1 \in DOMAIN box /\ box[1] = Head(box)
        /\ Tail(box) \in Seq(Message)
        /\ \A k \in DOMAIN Tail(box) : k \in Nat /\ k + 1 \in DOMAIN box /\ Tail(box)[k] = box[k + 1]
        /\ \A k \in DOMAIN box : k \in Nat /\ (k = 1 \/ (k - 1 \in DOMAIN Tail(box) /\ Tail(box)[k - 1] = box[k]))
    BY <1>0, Read
  <2>2. \A k \in DOMAIN Tail(box) : k >= 1
    BY <2>1, LenProperties
  <2> HIDE DEF rest, m
  <2>3. \A k \in DOMAIN rest : k \in Nat /\ k + 1 > 1
    BY <2>1, <2>2 DEF rest
  <2>4. \A k \in DOMAIN box : k = 1 \/ k > 1
    <3>1. DOMAIN box = 1 .. Len(box)
      BY LenProperties
    <3>2. \A k \in 1 .. Len(box) : k = 1 \/ k > 1
      BY LenProperties
    <3> QED BY <3>1, <3>2
  <2> QED BY <1>0, <2>1, <2>3, <2>4 DEF rest, m, IsOver
<1> HIDE DEF rest, m
<1>2. /\ X \subseteq O
      /\ \A q \in Player : pos[q] = IF q \in X THEN pl[q] ELSE 0
      /\ \A r \in X, q \in O \ X : pl[r] > pl[q]
      /\ \A q \in O \ X : \E k \in DOMAIN box : IsOver(box[k], q)
      /\ \A k \in DOMAIN box : box[k].type = "over" => box[k].player \in O \ X
      /\ \A j, k \in DOMAIN box :
           box[j].type = "over" /\ box[k].type = "over" /\ j < k => pl[box[j].player] > pl[box[k].player]
  BY DEF Sees
<1>3. p \in O \ X
  BY <1>1, <1>2
<1>4. ASSUME NEW q \in O \ X2
      PROVE  pl[p] > pl[q] /\ \E k \in DOMAIN rest : IsOver(rest[k], q)
  <2>1. PICK k \in DOMAIN box : IsOver(box[k], q)
    BY <1>2, <1>4
  <2>2. k # 1
    BY <1>1, <1>4, <2>1 DEF IsOver
  <2>3. 1 < k /\ k - 1 \in DOMAIN rest /\ rest[k - 1] = box[k]
    BY <1>1, <2>2
  <2>4. pl[box[1].player] > pl[box[k].player]
    BY <1>1, <1>2, <2>1, <2>3 DEF IsOver
  <2> QED BY <1>1, <2>1, <2>3, <2>4 DEF IsOver
<1>5. {q \in O : pl[q] > pl[p]} = X
  <2>1. ASSUME NEW q \in X PROVE q \in O /\ pl[q] > pl[p]
    BY <1>2, <1>3, <2>1
  <2>2. ASSUME NEW q \in O, pl[q] > pl[p] PROVE q \in X
    <3>1. pl[q] \in Nat /\ pl[p] \in Nat
      BY <1>3
    <3> QED BY <1>4, <2>2, <3>1
  <2> QED BY <2>1, <2>2
<1>6. pl[p] = Cardinality(Player) - Cardinality(X)
  BY <1>3, <1>5 DEF Taken
<1>7. \A q \in Player : pos2[q] = IF q \in X2 THEN pl[q] ELSE 0
  BY <1>0, <1>2, <1>6
<1>8. X2 \subseteq O
  BY <1>2, <1>3
<1>9. \A r \in X2, q \in O \ X2 : pl[r] > pl[q]
  BY <1>2, <1>4
<1>10. ASSUME NEW k \in DOMAIN rest, rest[k].type = "over" PROVE rest[k].player \in O \ X2
  <2>1. box[k + 1].player \in O \ X
    BY <1>1, <1>2, <1>10
  <2>2. pl[p] > pl[box[k + 1].player]
    BY <1>1, <1>2, <1>10
  <2>3. box[k + 1].player # p
    <3>1. pl[p] \in Nat
      OBVIOUS
    <3>2. ~(pl[p] > pl[p])
      BY <3>1
    <3> QED BY <2>2, <3>2
  <2> QED BY <1>1, <2>1, <2>3
<1>11. ASSUME NEW j \in DOMAIN rest, NEW k \in DOMAIN rest, rest[j].type = "over", rest[k].type = "over", j < k
       PROVE  pl[rest[j].player] > pl[rest[k].player]
  <2>1. j + 1 < k + 1 /\ j + 1 \in DOMAIN box /\ k + 1 \in DOMAIN box
    BY <1>1, <1>11
  <2>2. rest[j] = box[j + 1] /\ rest[k] = box[k + 1]
    BY <1>1
  <2>3. box[j + 1].type = "over" /\ box[k + 1].type = "over"
    BY <1>11, <2>2
  <2>4. pl[box[j + 1].player] > pl[box[k + 1].player]
    BY <1>2, <2>1, <2>3
  <2> QED BY <2>2, <2>4
<1> HIDE DEF X2
<1>12. Sees(O, pl, X2, pos2, rest)
  BY <1>4, <1>7, <1>8, <1>9, <1>10, <1>11 DEF Sees
<1> QED BY <1>3, <1>12 DEF X2, rest

SeesTyped(V, P, B) ==
  V \in [Client -> SUBSET Player] /\ P \in [Client -> [Player -> Nat]] /\ B \in [Client -> Seq(Message)]

\* Client a sees p out at n, and the others will read so.
FallsAt(a, p, n, V, P, B, V2, P2, B2) ==
  /\ V2[a] = V[a] \cup {p} /\ P2[a] = [P[a] EXCEPT ![p] = n] /\ B2[a] = B[a]
  /\ \A d \in Client : d # a => V2[d] = V[d] /\ P2[d] = P[d] /\ B2[d] = B[d] \o <<Over(p)>>

\* At client a, which has seen all that are out, one more is.
LEMMA OneFalls ==
  ASSUME NEW O \in SUBSET Player, NEW pl \in [Player -> Nat], NEW V, NEW P, NEW B, SeesTyped(V, P, B),
         AllSee(O, pl, V, P, B), NEW a \in Client, V[a] = O, NEW p \in Player \ O,
         NEW n, n = Cardinality(Player) - Cardinality(O),
         NEW V2, NEW P2, NEW B2, FallsAt(a, p, n, V, P, B, V2, P2, B2)
  PROVE  AllSee(O \cup {p}, [pl EXCEPT ![p] = n], V2, P2, B2)
<1>0. /\ V2[a] = O \cup {p} /\ P2[a] = [P[a] EXCEPT ![p] = n] /\ B2[a] = B[a]
      /\ \A d \in Client : d # a => V2[d] = V[d] /\ P2[d] = P[d] /\ B2[d] = B[d] \o <<Over(p)>>
  BY DEF FallsAt
<1> DEFINE O2 == O \cup {p}
           pl2 == [pl EXCEPT ![p] = n]
           m == Over(p)
<1>1. Taken(O, pl) /\ \A d \in Client : Sees(O, pl, V[d], P[d], B[d])
  BY DEF AllSee
<1>2. Taken(O2, pl2) /\ (\A q \in O : pl[q] > n) /\ n \in Nat
  <2>1. pl2 = [pl EXCEPT ![p] = Cardinality(Player) - Cardinality(O)]
    OBVIOUS
  <2> HIDE DEF pl2
  <2>2. Taken(O2, pl2) /\ (\A q \in O : pl[q] > Cardinality(Player) - Cardinality(O)) /\ pl2 \in [Player -> Nat]
    BY <1>1, <2>1, TakenMore
  <2>3. Cardinality(O) \in 0 .. Cardinality(Player) /\ Cardinality(Player) \in Nat
    BY PlayersAreFinite
  <2>4. n \in Nat
    BY <2>3
  <2> QED BY <2>2, <2>4
<1>3. m \in Message /\ IsOver(m, p)
  BY OverIsMessage DEF IsOver
<1>4. \A d \in Client : V[d] \in SUBSET Player /\ P[d] \in [Player -> Nat] /\ B[d] \in Seq(Message)
  BY DEF SeesTyped
<1> HIDE DEF m
<1>5. Sees(O2, pl2, V2[a], P2[a], B2[a])
  <2>1. Sees(O, pl, O, P[a], B[a]) /\ P[a] \in [Player -> Nat] /\ B[a] \in Seq(Message)
    BY <1>1, <1>4
  <2> DEFINE pos == P[a]
             pos2 == P2[a]
             box == B[a]
  <2>2. V2[a] = O2 /\ pos2 = [pos EXCEPT ![p] = n] /\ B2[a] = box /\ pl2 = [pl EXCEPT ![p] = n]
    BY <1>0
  <2>3. Sees(O, pl, O, pos, box) /\ pos \in [Player -> Nat] /\ box \in Seq(Message)
    BY <2>1
  <2> HIDE DEF pl2, pos, pos2, box, O2
  <2>4. n \in Nat
    BY <1>2
  <2>5. Sees(O \cup {p}, pl2, O \cup {p}, pos2, box)
    BY <2>2, <2>3, <2>4, SeesOwn
  <2> QED BY <2>2, <2>5 DEF pos2, O2
<1>6. ASSUME NEW d \in Client, d # a PROVE Sees(O2, pl2, V2[d], P2[d], B2[d])
  <2>1. Sees(O, pl, V[d], P[d], B[d]) /\ P[d] \in [Player -> Nat] /\ B[d] \in Seq(Message)
    BY <1>1, <1>4
  <2>2. pl2 = [pl EXCEPT ![p] = n] /\ V2[d] = V[d] /\ P2[d] = P[d] /\ B2[d] = B[d] \o <<Over(p)>>
    BY <1>0, <1>6
  <2> HIDE DEF pl2, O2
  <2>3. Sees(O \cup {p}, pl2, V[d], P[d], B[d] \o <<Over(p)>>)
    BY <1>2, <2>1, <2>2, SeesMore
  <2> QED BY <2>2, <2>3 DEF O2
<1> QED BY <1>2, <1>5, <1>6 DEF AllSee

\* Who is out after gameOver, and what it sends: p, or p and the last one.
FallsOne(i, p, seen, sent) ==
  /\ OutOf(seen) = OutOf(i) \cup {p}
  /\ Positions(seen) = [Positions(i) EXCEPT ![p] = Cardinality(Player) - Cardinality(OutOf(i))]
  /\ sent = << >>

FallsLast(c, i, p, q, seen, sent) ==
  /\ q \notin OutOf(i) \cup {p} /\ Owner[q] = c /\ Player = (OutOf(i) \cup {p}) \cup {q}
  /\ OutOf(seen) = (OutOf(i) \cup {p}) \cup {q}
  /\ Positions(seen) = [[Positions(i) EXCEPT ![p] = Cardinality(Player) - Cardinality(OutOf(i))]
                          EXCEPT ![q] = Cardinality(Player) - Cardinality(OutOf(i) \cup {p})]
  /\ sent = <<Over(q)>>

LEMMA OutsOfView ==
  ASSUME NEW i \in View
  PROVE  /\ OutOf(i) \in SUBSET Player /\ Positions(i) \in [Player -> Nat]
         /\ Playing(i) = Player \ OutOf(i)
         /\ \A q \in Player : Positions(i)[q] = i[q].data.position /\ (q \in OutOf(i) <=> i[q].isGameOver)
<1>1. ASSUME NEW q \in Player PROVE i[q].data.position \in Nat
  <2>1. i[q].data \in Data
    BY DEF View, Seen
  <2>2. Cardinality(Player) \in Nat
    BY PlayersAreFinite
  <2> QED BY <2>1, <2>2 DEF Data
<1> QED BY <1>1 DEF OutOf, Positions, Playing

LEMMA NothingToSend == SetToSeq({}) = << >>
<1>1. IsFiniteSet({}) /\ Cardinality({}) = 0
  BY FS_EmptySet
<1>2. SetToSeq({}) \in [1 .. 0 -> {}]
  BY <1>1, SetToSeqParts
<1> QED BY <1>2

LEMMA OneToSend ==
  ASSUME NEW x
  PROVE  SetToSeq({x}) = <<x>>
<1>1. IsFiniteSet({x}) /\ Cardinality({x}) = 1
  BY FS_Singleton
<1>2. SetToSeq({x}) \in [1 .. 1 -> {x}]
  BY <1>1, SetToSeqParts
<1> DEFINE f == SetToSeq({x})
<1>3. f \in [1 .. 1 -> {x}]
  BY <1>2
<1> HIDE DEF f
<1>4. f = [k \in 1 .. 1 |-> x]
  BY <1>3
<1>5. <<x>> = [k \in 1 .. 1 |-> x]
  OBVIOUS
<1> QED BY <1>4, <1>5 DEF f

LEMMA GameOverPlaces ==
  ASSUME NEW c \in Client, NEW i \in View, NEW p \in Playing(i), Cardinality(Player) > 1
  PROVE  LET after == gameOver(c, i, p) IN
           \/ FallsOne(i, p, after.info, after.sent)
           \/ \E q \in Player : FallsLast(c, i, p, q, after.info, after.sent)
<1> DEFINE X == OutOf(i)
           N == Cardinality(Player)
           pos == Positions(i)
           rest == Playing(i) \ {p}
           last == LastOne(c, i, p)
           seen == gameOver(c, i, p).info
           sent == gameOver(c, i, p).sent
<1>1. /\ X \in SUBSET Player /\ pos \in [Player -> Nat] /\ Playing(i) = Player \ X
      /\ \A q \in Player : pos[q] = i[q].data.position
      /\ N \in Nat /\ IsFiniteSet(Player)
  BY OutsOfView, PlayersAreFinite
<1>2. p \in Player \ X /\ rest = Player \ (X \cup {p})
  BY <1>1
<1>3. /\ seen \in View
      /\ Playing(seen) = rest \ last
      /\ N # 1 => \A q \in Player : seen[q].data.position =
           IF q \in last THEN 1 ELSE IF q = p THEN Cardinality(rest) + 1 ELSE i[q].data.position
  <2>1. p \in Player
    BY <1>2
  <2> HIDE DEF pos, X, N
  <2>2. seen \in View
    BY <2>1, GameOverParts
  <2>3. Playing(seen) = rest \ last
    BY <2>1, GameOverParts
  <2>4. Cardinality(Player) # 1 => PlacedOver(c, i, p, gameOver(c, i, p).info)
    BY <2>1, GameOverParts
  <2> QED BY <2>2, <2>3, <2>4 DEF N, PlacedOver
<1>4. sent = SetToSeq({Over(q) : q \in last})
  <2> DEFINE over == [i EXCEPT ![p].isGameOver = TRUE]
             ends == IF Cardinality(Playing(over)) = 1 THEN {q \in Playing(over) : isLocal(c, q)} ELSE {}
  <2>1. sent = SetToSeq({Over(q) : q \in ends})
    BY DEF gameOver
  <2>2. over \in [Player -> Seen] /\ \A q \in Player : over[q].isGameOver <=> (i[q].isGameOver \/ q = p)
    BY <1>2 DEF View, Seen
  <2>3. Playing(over) = rest
    BY <2>2, <1>2 DEF Playing
  <2>4. ends = last
    BY <2>3 DEF LastOne, isLocal
  <2> HIDE DEF ends, last
  <2> QED BY <2>1, <2>4
<1>5. seen \in View => /\ Playing(seen) = Player \ OutOf(seen) /\ OutOf(seen) \in SUBSET Player
                       /\ Positions(seen) = [q \in Player |-> seen[q].data.position]
  BY OutsOfView DEF Positions
<1>6. N # 1
  BY <1>1
<1>7. Cardinality(X) \in Nat /\ Cardinality(X \cup {p}) = Cardinality(X) + 1
      /\ Cardinality(rest) = N - Cardinality(X \cup {p}) /\ Cardinality(rest) + 1 = N - Cardinality(X)
  <2>1. IsFiniteSet(X) /\ Cardinality(X) \in 0 .. N
    BY <1>1, PlayersAreFinite
  <2>2. Cardinality(X \cup {p}) = Cardinality(X) + 1
    BY <1>2, <2>1, FS_AddElement
  <2>3. Cardinality(Player \ (X \cup {p})) = N - Cardinality(Player \cap (X \cup {p}))
    BY <1>1, FS_Difference
  <2>4. Player \cap (X \cup {p}) = X \cup {p}
    BY <1>1, <1>2
  <2> DEFINE x == Cardinality(X)
             x1 == Cardinality(X \cup {p})
             r == Cardinality(rest)
  <2>5. x \in Nat /\ x1 = x + 1 /\ r = N - x1
    <3>1. x \in Nat /\ x1 = x + 1
      BY <2>1, <2>2
    <3>2. r = N - x1
      <4> HIDE DEF X, N
      <4>1. r = Cardinality(Player \ (X \cup {p}))
        BY <1>2
      <4> HIDE DEF r
      <4> QED BY <2>3, <2>4, <4>1
    <3> HIDE DEF x, x1, r
    <3> QED BY <3>1, <3>2
  <2> HIDE DEF x, x1, r
  <2>6. r + 1 = N - x
    BY <1>1, <2>5
  <2> QED BY <2>5, <2>6 DEF x, x1, r
<1> HIDE DEF X, N, pos, rest, last, seen, sent
<1>8. CASE last = {}
  <2>1. sent = << >>
    <3>1. {Over(q) : q \in last} = {}
      BY <1>8
    <3> QED BY <1>4, <3>1, NothingToSend
  <2>2. OutOf(seen) = X \cup {p}
    BY <1>1, <1>2, <1>3, <1>5, <1>8
  <2>3. \A q \in Player : seen[q].data.position = IF q = p THEN N - Cardinality(X) ELSE pos[q]
    BY <1>1, <1>3, <1>6, <1>7, <1>8
  <2>4. Positions(seen) = [pos EXCEPT ![p] = N - Cardinality(X)]
    BY <1>1, <1>2, <1>3, <1>5, <2>3
  <2>5. FallsOne(i, p, seen, sent)
    BY <2>1, <2>2, <2>4 DEF FallsOne, X, N, pos
  <2> QED BY <2>5 DEF seen, sent
<1>9. CASE last # {}
  <2>1. Cardinality(rest) = 1 /\ last = {q \in rest : Owner[q] = c}
    BY <1>9 DEF LastOne, last, rest
  <2>2. PICK q \in rest : last = {q} /\ rest = {q} /\ Owner[q] = c
    <3>1. IsFiniteSet(rest)
      BY <1>2, PlayersAreFinite
    <3>2. PICK q : rest = {q}
      BY <2>1, <3>1, FS_Singleton
    <3> QED BY <1>9, <2>1, <3>2
  <2>3. q \in Player /\ q \notin X \cup {p} /\ Player = (X \cup {p}) \cup {q}
    BY <1>1, <1>2, <2>2
  <2>4. sent = <<Over(q)>>
    <3>1. {Over(r) : r \in last} = {Over(q)}
      BY <2>2
    <3> QED BY <1>4, <3>1, OneToSend
  <2>5. OutOf(seen) = (X \cup {p}) \cup {q}
    BY <1>3, <1>5, <2>2, <2>3
  <2>6. N - Cardinality(X \cup {p}) = 1
    BY <1>7, <2>1
  <2>7. Positions(seen) = [[pos EXCEPT ![p] = N - Cardinality(X)] EXCEPT ![q] = N - Cardinality(X \cup {p})]
    <3>1. \A r \in Player : seen[r].data.position = IF r = q THEN 1 ELSE IF r = p THEN N - Cardinality(X) ELSE pos[r]
      BY <1>1, <1>3, <1>6, <1>7, <2>2
    <3> DEFINE n1 == N - Cardinality(X)
               n2 == N - Cardinality(X \cup {p})
               pos1 == [pos EXCEPT ![p] = n1]
    <3>2. n2 = 1
      BY <2>6
    <3> HIDE DEF n1, n2
    <3>3. \A r \in Player : pos1[r] = IF r = p THEN n1 ELSE pos[r]
      BY <1>1, <1>2
    <3>4. pos1 \in [Player -> Nat \cup {n1}]
      BY <1>1, <1>2
    <3> HIDE DEF pos1
    <3>5. \A r \in Player : seen[r].data.position = [pos1 EXCEPT ![q] = n2][r]
      BY <2>3, <3>1, <3>2, <3>3, <3>4 DEF n1
    <3>6. Positions(seen) = [pos1 EXCEPT ![q] = n2]
      BY <1>3, <1>5, <3>4, <3>5
    <3> QED BY <3>6 DEF n1, n2, pos1
  <2>8. FallsLast(c, i, p, q, seen, sent)
    BY <2>2, <2>3, <2>4, <2>5, <2>7 DEF FallsLast, X, N, pos
  <2> QED BY <2>3, <2>8 DEF seen, sent
<1> QED BY <1>8, <1>9

-----------------------------------------------------------------------------
(* Places: steps of one client *)

LEMMA OutsTypes ==
  TypeOK =>
    /\ Out \in SUBSET Player /\ Places \in [Player -> Nat]
    /\ Outs \in [Client -> SUBSET Player] /\ Standings \in [Client -> [Player -> Nat]]
    /\ \A p \in Player : (p \in Out <=> p \in Outs[Owner[p]]) /\ Places[p] = Standings[Owner[p]][p]
<1> SUFFICES ASSUME TypeOK
             PROVE  /\ Out \in SUBSET Player /\ Places \in [Player -> Nat]
                    /\ Outs \in [Client -> SUBSET Player] /\ Standings \in [Client -> [Player -> Nat]]
                    /\ \A p \in Player :
                         (p \in Out <=> p \in Outs[Owner[p]]) /\ Places[p] = Standings[Owner[p]][p]
  OBVIOUS
<1>1. \A d \in Client : info[d] \in View
  BY TypeParts
<1>2. \A d \in Client : Outs[d] = OutOf(info[d]) /\ Standings[d] = Positions(info[d])
  BY DEF Outs, Standings
<1>3. \A d \in Client : Outs[d] \in SUBSET Player /\ Standings[d] \in [Player -> Nat]
  BY <1>1, <1>2, OutsOfView
<1>4. Outs \in [Client -> SUBSET Player] /\ Standings \in [Client -> [Player -> Nat]]
  BY <1>3 DEF Outs, Standings
<1>5. \A p \in Player : Owner[p] \in Client
  BY TypeParts
<1>6. ASSUME NEW p \in Player
      PROVE  /\ p \in Out <=> p \in Outs[Owner[p]]
             /\ Places[p] = Standings[Owner[p]][p]
             /\ Places[p] \in Nat
  <2>1. /\ p \in OutOf(info[Owner[p]]) <=> info[Owner[p]][p].isGameOver
        /\ Positions(info[Owner[p]])[p] = info[Owner[p]][p].data.position
    BY <1>1, <1>5, OutsOfView
  <2>2. (p \in Out <=> info[Owner[p]][p].isGameOver) /\ Places[p] = info[Owner[p]][p].data.position
    BY DEF Out, Places
  <2>3. Standings[Owner[p]][p] \in Nat
    BY <1>3, <1>5
  <2> QED BY <1>2, <1>5, <2>1, <2>2, <2>3
<1>7. Out \in SUBSET Player
  BY DEF Out
<1>8. Places \in [Player -> Nat]
  BY <1>6 DEF Places
<1> QED BY <1>4, <1>6, <1>7, <1>8

LEMMA OutsTypesNext ==
  (TypeOK =>
     /\ Out \in SUBSET Player /\ Places \in [Player -> Nat]
     /\ Outs \in [Client -> SUBSET Player] /\ Standings \in [Client -> [Player -> Nat]]
     /\ \A p \in Player : (p \in Out <=> p \in Outs[Owner[p]]) /\ Places[p] = Standings[Owner[p]][p])'
BY OutsTypes, PTL

\* The step is about the client's own players, and about what it sees.
LEMMA OutsStep ==
  ASSUME TypeOK, TypeOK', NEW a \in Client, NEW m, NEW seen, NEW sent, Step(a, m, seen, sent)
  PROVE  /\ Outs'[a] = OutOf(seen) /\ Standings'[a] = Positions(seen)
         /\ \A d \in Client : d # a => Outs'[d] = Outs[d] /\ Standings'[d] = Standings[d]
         /\ Out' \in SUBSET Player /\ Places' \in [Player -> Nat]
         /\ \A p \in Player :
              IF Owner[p] = a
                THEN (p \in Out' <=> p \in OutOf(seen)) /\ Places'[p] = Positions(seen)[p]
                ELSE (p \in Out' <=> p \in Out) /\ Places'[p] = Places[p]
<1>1. info \in [Client -> View] /\ info' = [info EXCEPT ![a] = seen]
  BY TypeParts DEF Step
<1>2. info'[a] = seen /\ \A d \in Client : d # a => info'[d] = info[d]
  BY <1>1
<1>3. \A d \in Client : /\ Outs[d] = OutOf(info[d]) /\ Outs'[d] = OutOf(info'[d])
                        /\ Standings[d] = Positions(info[d]) /\ Standings'[d] = Positions(info'[d])
  BY DEF Outs, Standings
<1>4. /\ Outs'[a] = OutOf(seen) /\ Standings'[a] = Positions(seen)
      /\ \A d \in Client : d # a => Outs'[d] = Outs[d] /\ Standings'[d] = Standings[d]
  BY <1>2, <1>3
<1>5. /\ Out' \in SUBSET Player /\ Places' \in [Player -> Nat]
      /\ \A p \in Player : (p \in Out' <=> p \in Outs'[Owner[p]]) /\ Places'[p] = Standings'[Owner[p]][p]
  BY OutsTypesNext
<1>6. \A p \in Player : (p \in Out <=> p \in Outs[Owner[p]]) /\ Places[p] = Standings[Owner[p]][p]
  BY OutsTypes
<1>7. \A p \in Player : Owner[p] \in Client
  BY TypeParts
<1> QED BY <1>4, <1>5, <1>6, <1>7

LEMMA SamePlaces ==
  ASSUME TypeOK, TypeOK', PlacesHold, gone = {}, NEW a \in Client, NEW m, NEW seen, NEW sent, Step(a, m, seen, sent),
         OutOf(seen) = OutOf(info[a]), Positions(seen) = Positions(info[a]),
         m.type # "over", \A k \in DOMAIN sent : sent[k].type # "over"
  PROVE  PlacesHold'
<1>1. Taken(Out, Places) /\ \A d \in Client : Sees(Out, Places, Outs[d], Standings[d], inbox[d])
  BY DEF PlacesHold, AllSee
<1>2. /\ Outs[a] = OutOf(info[a]) /\ Standings[a] = Positions(info[a])
      /\ \A d \in Client : inbox[d] \in Seq(Message) /\ sent \in Seq(Message)
  BY TypeParts DEF Outs, Standings, Step
<1>3. \A d \in Client : Outs'[d] = Outs[d] /\ Standings'[d] = Standings[d]
  BY <1>2, OutsStep
<1>4. Out' = Out /\ Places' = Places
  <2>1. /\ Out' \in SUBSET Player /\ Places' \in [Player -> Nat]
        /\ Out \in SUBSET Player /\ Places \in [Player -> Nat]
    BY OutsTypes, OutsStep
  <2>2. ASSUME NEW p \in Player PROVE (p \in Out' <=> p \in Out) /\ Places'[p] = Places[p]
    <3>1. IF Owner[p] = a
            THEN (p \in Out' <=> p \in OutOf(seen)) /\ Places'[p] = Positions(seen)[p]
            ELSE (p \in Out' <=> p \in Out) /\ Places'[p] = Places[p]
      BY OutsStep
    <3>2. (p \in Out <=> p \in Outs[Owner[p]]) /\ Places[p] = Standings[Owner[p]][p]
      BY OutsTypes
    <3> QED BY <1>2, <3>1, <3>2
  <2> QED BY <2>1, <2>2
<1>5. Sees(Out, Places, Outs[a], Standings[a], inbox'[a])
  <2>1. CASE inbox'[a] = inbox[a]
    BY <1>1, <2>1
  <2>2. CASE inbox[a] # << >> /\ m = Head(inbox[a]) /\ inbox'[a] = Tail(inbox[a])
    BY <1>1, <1>2, <2>2, SeesRead
  <2> QED BY <2>1, <2>2 DEF Step
<1>6. ASSUME NEW d \in Client, d # a PROVE Sees(Out, Places, Outs[d], Standings[d], inbox'[d])
  <2>1. inbox'[d] = inbox[d] \o sent
    BY <1>6 DEF Step
  <2> QED BY <1>1, <1>2, <2>1, SeesOther
<1>7. \A d \in Client : Sees(Out', Places', Outs'[d], Standings'[d], inbox'[d])
  BY <1>3, <1>4, <1>5, <1>6
<1> QED BY <1>1, <1>4, <1>7 DEF PlacesHold, AllSee

\* A board of a client that has seen all others' ends is over, and perhaps that ends the last one.
LEMMA DeathPlaces ==
  ASSUME TypeOK, TypeOK', PlacesHold, gone = {}, Cardinality(Player) > 1,
         NEW a \in Client, NEW p \in Player, LocalDeath(a, p), ~Has(inbox[a], {"over"})
  PROVE  PlacesHold'
<1> DEFINE after == gameOver(a, info[a], p)
           seen == after.info
           more == after.sent
           sent == <<Over(p)>> \o more
           n == Cardinality(Player) - Cardinality(Out)
           O1 == Out \cup {p}
           pl1 == [Places EXCEPT ![p] = n]
           m == NoMessage
<1>1. Step(a, m, seen, sent) /\ p \in Playing(info[a]) /\ Owner[p] = a
  BY LocalDeathStep DEF LocalDeath, isLocal
<1>2. /\ info[a] \in View /\ inbox \in [Client -> Seq(Message)] /\ Out \in SUBSET Player /\ Places \in [Player -> Nat]
      /\ Outs \in [Client -> SUBSET Player] /\ Standings \in [Client -> [Player -> Nat]]
      /\ Outs[a] = OutOf(info[a]) /\ Standings[a] = Positions(info[a])
  BY OutsTypes, TypeParts DEF Outs, Standings
<1>3. AllSee(Out, Places, Outs, Standings, inbox)
  BY DEF PlacesHold
<1>4. Outs[a] = Out
  BY <1>3 DEF AllSee, Sees, Has, IsOver
<1>5. p \in Player \ Out
  BY <1>1, <1>2, <1>4, OutsOfView
<1>6. \/ FallsOne(info[a], p, seen, more)
      \/ \E q \in Player : FallsLast(a, info[a], p, q, seen, more)
  <2>1. p \in Playing(info[a])
    BY <1>1
  <2> QED BY <1>2, <2>1, GameOverPlaces
<1> HIDE DEF after, sent, m
<1>7. /\ Outs'[a] = OutOf(seen) /\ Standings'[a] = Positions(seen)
      /\ \A d \in Client : d # a => Outs'[d] = Outs[d] /\ Standings'[d] = Standings[d]
      /\ Out' \in SUBSET Player /\ Places' \in [Player -> Nat]
      /\ \A r \in Player :
           IF Owner[r] = a
             THEN (r \in Out' <=> r \in OutOf(seen)) /\ Places'[r] = Positions(seen)[r]
             ELSE (r \in Out' <=> r \in Out) /\ Places'[r] = Places[r]
  BY <1>1, OutsStep
<1>8. \A r \in Player : Owner[r] = a => Places[r] = Standings[a][r]
  BY OutsTypes
<1>9. inbox'[a] = inbox[a] /\ \A d \in Client : d # a => inbox'[d] = inbox[d] \o sent
  BY <1>1, NoMessageTells, MessageParts DEF Step, m
<1>10. n \in Nat
  <2>1. Cardinality(Out) \in 0 .. Cardinality(Player) /\ Cardinality(Player) \in Nat
    BY <1>2, PlayersAreFinite
  <2> QED BY <2>1
<1> HIDE DEF n
<1>11. CASE FallsOne(info[a], p, seen, more)
  <2>1. more = << >> /\ OutOf(seen) = O1 /\ Positions(seen) = [Standings[a] EXCEPT ![p] = n]
    BY <1>2, <1>4, <1>11 DEF FallsOne, n
  <2>2. sent = <<Over(p)>>
    <3>1. <<Over(p)>> \o << >> = <<Over(p)>>
      OBVIOUS
    <3> QED BY <2>1, <3>1 DEF sent
  <2>3. AllSee(O1, pl1, Outs', Standings', inbox')
    <3>1. Outs'[a] = Out \cup {p} /\ Standings'[a] = [Standings[a] EXCEPT ![p] = n]
      BY <1>7, <2>1
    <3>2. \A d \in Client : d # a => inbox'[d] = inbox[d] \o <<Over(p)>>
      BY <1>9, <2>2
    <3>3. n = Cardinality(Player) - Cardinality(Out)
      BY DEF n
    <3>4. FallsAt(a, p, n, Outs, Standings, inbox, Outs', Standings', inbox')
      BY <1>4, <1>7, <1>9, <3>1, <3>2 DEF FallsAt
    <3>5. SeesTyped(Outs, Standings, inbox)
      BY <1>2 DEF SeesTyped
    <3> QED BY <1>2, <1>3, <1>4, <1>5, <3>3, <3>4, <3>5, OneFalls
  <2>4. Out' = O1
    BY <1>1, <1>2, <1>4, <1>7, <2>1, OutsTypes
  <2>5. Places' = pl1
    <3>1. \A r \in Player : pl1[r] = IF r = p THEN n ELSE Places[r]
      BY <1>2
    <3>2. \A r \in Player : Positions(seen)[r] = IF r = p THEN n ELSE Standings[a][r]
      BY <1>2, <2>1
    <3>3. pl1 \in [Player -> Nat]
      BY <1>2, <1>10
    <3> HIDE DEF pl1
    <3>4. \A r \in Player : Places'[r] = pl1[r]
      BY <1>1, <1>7, <1>8, <3>1, <3>2
    <3> QED BY <1>7, <3>3, <3>4
  <2> QED BY <2>3, <2>4, <2>5 DEF PlacesHold
<1>12. ASSUME NEW q \in Player, FallsLast(a, info[a], p, q, seen, more) PROVE PlacesHold'
  <2> DEFINE n2 == Cardinality(Player) - Cardinality(O1)
             O2 == O1 \cup {q}
             pl2 == [pl1 EXCEPT ![q] = n2]
             V == [Outs EXCEPT ![a] = O1]
             P1 == [Standings[a] EXCEPT ![p] = n]
             P == [Standings EXCEPT ![a] = P1]
             B == [d \in Client |-> IF d = a THEN inbox[d] ELSE inbox[d] \o <<Over(p)>>]
  <2>1. /\ q \notin O1 /\ Owner[q] = a /\ more = <<Over(q)>> /\ OutOf(seen) = O2
        /\ Positions(seen) = [P1 EXCEPT ![q] = n2]
    <3>1. /\ q \notin O1 /\ Owner[q] = a /\ more = <<Over(q)>> /\ OutOf(seen) = O2
      BY <1>2, <1>4, <1>12 DEF FallsLast
    <3>2. Positions(seen) = [P1 EXCEPT ![q] = n2]
      BY <1>2, <1>4, <1>12 DEF FallsLast, n
    <3> QED BY <3>1, <3>2
  <2>2. O1 \in SUBSET Player /\ pl1 \in [Player -> Nat] /\ P1 \in [Player -> Nat]
    BY <1>2, <1>10
  <2>3. Over(p) \in Message /\ Over(q) \in Message
    BY OverIsMessage
  <2>4. /\ V \in [Client -> SUBSET Player] /\ P \in [Client -> [Player -> Nat]]
        /\ V[a] = O1 /\ P[a] = P1
        /\ \A d \in Client : d # a => V[d] = Outs[d] /\ P[d] = Standings[d]
    <3> HIDE DEF O1, P1
    <3> QED BY <1>2, <2>2
  <2>5. B \in [Client -> Seq(Message)] /\ B[a] = inbox[a] /\ \A d \in Client : d # a => B[d] = inbox[d] \o <<Over(p)>>
    <3>1. \A d \in Client : inbox[d] \in Seq(Message)
      BY <1>2
    <3>2. \A d \in Client : inbox[d] \o <<Over(p)>> \in Seq(Message)
      BY <2>3, <3>1, ConcatProperties
    <3> QED BY <3>1, <3>2
  <2> HIDE DEF V, P, B, P1
  <2>6. AllSee(O1, pl1, V, P, B)
    <3>1. n = Cardinality(Player) - Cardinality(Out) /\ P[a] = [Standings[a] EXCEPT ![p] = n]
      BY <2>4 DEF n, P1
    <3>2. FallsAt(a, p, n, Outs, Standings, inbox, V, P, B)
      BY <1>4, <2>4, <2>5, <3>1 DEF FallsAt
    <3>3. SeesTyped(Outs, Standings, inbox)
      BY <1>2 DEF SeesTyped
    <3> QED BY <1>2, <1>3, <1>4, <1>5, <3>1, <3>2, <3>3, OneFalls
  <2>7. n2 \in Nat
    <3>1. Cardinality(O1) \in 0 .. Cardinality(Player) /\ Cardinality(Player) \in Nat
      BY <2>2, PlayersAreFinite
    <3> QED BY <3>1
  <2>8. \A d \in Client : d # a => inbox'[d] = B[d] \o <<Over(q)>>
    <3>1. ASSUME NEW d \in Client, d # a PROVE inbox'[d] = B[d] \o <<Over(q)>>
      <4>1. inbox'[d] = inbox[d] \o (<<Over(p)>> \o <<Over(q)>>)
        BY <1>9, <2>1, <3>1 DEF sent
      <4>2. inbox[d] \in Seq(Message) /\ <<Over(p)>> \in Seq(Message) /\ <<Over(q)>> \in Seq(Message)
        BY <1>2, <2>3
      <4>3. (inbox[d] \o <<Over(p)>>) \o <<Over(q)>> = inbox[d] \o (<<Over(p)>> \o <<Over(q)>>)
        BY <4>2, ConcatAssociative
      <4> QED BY <2>5, <3>1, <4>1, <4>3
    <3> QED BY <3>1
  <2> HIDE DEF n2, pl1, O1
  <2>9. AllSee(O1 \cup {q}, [pl1 EXCEPT ![q] = n2], Outs', Standings', inbox')
    <3>1. n2 = Cardinality(Player) - Cardinality(O1)
      BY DEF n2
    <3>2. q \in Player \ O1 /\ Outs'[a] = O1 \cup {q} /\ Standings'[a] = [P[a] EXCEPT ![q] = n2] /\ inbox'[a] = B[a]
      BY <1>7, <1>9, <2>1, <2>4, <2>5
    <3>3. \A d \in Client : d # a => Outs'[d] = V[d] /\ Standings'[d] = P[d]
      BY <1>7, <2>4
    <3>4. FallsAt(a, q, n2, V, P, B, Outs', Standings', inbox')
      BY <2>4, <2>8, <3>2, <3>3 DEF FallsAt
    <3>5. SeesTyped(V, P, B)
      BY <2>4, <2>5 DEF SeesTyped
    <3>6. V[a] = O1 /\ q \in Player \ O1 /\ O1 \in SUBSET Player /\ pl1 \in [Player -> Nat]
      BY <2>2, <2>4, <3>2
    <3> QED BY <2>6, <3>1, <3>4, <3>5, <3>6, OneFalls
  <2>10. Out' = O2
    BY <1>1, <1>2, <1>4, <1>7, <2>1, OutsTypes DEF O1
  <2>11. Places' = pl2
    <3>1. \A r \in Player : pl1[r] = IF r = p THEN n ELSE Places[r]
      BY <1>2 DEF pl1
    <3>2. \A r \in Player : P1[r] = IF r = p THEN n ELSE Standings[a][r]
      BY <1>2 DEF P1
    <3>3. \A r \in Player : Positions(seen)[r] = IF r = q THEN n2 ELSE P1[r]
      BY <2>1, <2>2
    <3>4. \A r \in Player : pl2[r] = IF r = q THEN n2 ELSE pl1[r]
      BY <2>2
    <3>5. pl2 \in [Player -> Nat]
      BY <2>2, <2>7
    <3> HIDE DEF pl2
    <3>6. \A r \in Player : Places'[r] = pl2[r]
      BY <1>1, <1>7, <1>8, <2>1, <3>1, <3>2, <3>3, <3>4
    <3> QED BY <1>7, <3>5, <3>6
  <2> QED BY <2>9, <2>10, <2>11 DEF PlacesHold
<1> QED BY <1>6, <1>11, <1>12

\* A client reads that p is over, and perhaps that ends its last one.
LEMMA OverPlaces ==
  ASSUME TypeOK, TypeOK', Routed, PlacesHold, gone = {}, Cardinality(Player) > 1, NEW a \in Client,
         inbox[a] # << >>, Step(a, Head(inbox[a]), Reaction(a).info, Reaction(a).sent), NEW p \in Player,
         IsOver(Head(inbox[a]), p)
  PROVE  PlacesHold'
<1> DEFINE i == info[a]
           X == OutOf(i)
           X1 == X \cup {p}
           n == Cardinality(Player) - Cardinality(X)
           P1 == [Positions(i) EXCEPT ![p] = n]
           rest == Tail(inbox[a])
           after == gameOver(a, i, p)
           seen == after.info
           sent == after.sent
           V == [Outs EXCEPT ![a] = X1]
           P == [Standings EXCEPT ![a] = P1]
           B == [inbox EXCEPT ![a] = rest]
           m == Head(inbox[a])
<1>1. /\ i \in View /\ inbox \in [Client -> Seq(Message)] /\ Out \in SUBSET Player /\ Places \in [Player -> Nat]
      /\ Outs \in [Client -> SUBSET Player] /\ Standings \in [Client -> [Player -> Nat]]
      /\ Outs[a] = X /\ Standings[a] = Positions(i)
      /\ rest \in Seq(Message)
  <2>1. /\ i \in View /\ inbox \in [Client -> Seq(Message)] /\ Out \in SUBSET Player /\ Places \in [Player -> Nat]
        /\ Outs \in [Client -> SUBSET Player] /\ Standings \in [Client -> [Player -> Nat]]
        /\ Outs[a] = X /\ Standings[a] = Positions(i)
    BY OutsTypes, TypeParts DEF Outs, Standings
  <2>2. inbox[a] \in Seq(Message)
    BY <2>1
  <2>3. rest \in Seq(Message)
    BY <2>2, HeadTailProperties
  <2> QED BY <2>1, <2>3
<1>2. AllSee(Out, Places, Outs, Standings, inbox)
  BY DEF PlacesHold
<1>3. Owner[p] # a
  <2>1. inbox[a] \in Seq(Message)
    BY <1>1
  <2>2. 1 \in DOMAIN inbox[a] /\ inbox[a][1] = m
    BY <2>1, Read
  <2> QED BY <2>2 DEF Routed, FromOther, IsOver
<1>4. p \in Out \ X /\ Sees(Out, Places, X1, P1, rest)
  <2> DEFINE box == inbox[a]
             pos == Standings[a]
  <2>1. Taken(Out, Places) /\ Sees(Out, Places, X, pos, box) /\ pos \in [Player -> Nat] /\ box \in Seq(Message)
    BY <1>1, <1>2 DEF AllSee
  <2>2. ReadsOver(p, X, pos, P1, box) /\ rest = Tail(box)
    BY <1>1 DEF ReadsOver
  <2> HIDE DEF P1, pos, box, X, rest
  <2>3. Out \in SUBSET Player /\ Places \in [Player -> Nat]
    BY <1>1
  <2>4. p \in Out \ X /\ Sees(Out, Places, X \cup {p}, P1, Tail(box))
    BY <2>1, <2>2, <2>3, SeesOver
  <2> QED BY <2>2, <2>4
<1>5. p \in Playing(i)
  BY <1>1, <1>4, OutsOfView
<1>6. Reaction(a) = after
  <2>1. m.type = "over" /\ m.player = p
    BY DEF IsOver
  <2>2. ~Ignored(a, i, m)
    BY <2>1 DEF Ignored
  <2>3. Handled(a, i, m) = End(a, i, p)
    BY <2>1 DEF Handled
  <2>4. ~i[p].isGameOver
    BY <1>5 DEF Playing
  <2> QED BY <2>2, <2>3, <2>4 DEF Reaction, End
<1>7. \/ FallsOne(i, p, seen, sent)
      \/ \E q \in Player : FallsLast(a, i, p, q, seen, sent)
  <2>1. i \in View /\ p \in Playing(i)
    BY <1>1, <1>5
  <2> QED BY <2>1, GameOverPlaces
<1>8. Step(a, m, seen, sent)
  BY <1>6
<1> HIDE DEF after, m
<1>9. /\ Outs'[a] = OutOf(seen) /\ Standings'[a] = Positions(seen)
      /\ \A d \in Client : d # a => Outs'[d] = Outs[d] /\ Standings'[d] = Standings[d]
      /\ Out' \in SUBSET Player /\ Places' \in [Player -> Nat]
      /\ \A r \in Player :
           IF Owner[r] = a
             THEN (r \in Out' <=> r \in OutOf(seen)) /\ Places'[r] = Positions(seen)[r]
             ELSE (r \in Out' <=> r \in Out) /\ Places'[r] = Places[r]
  BY <1>8, OutsStep
<1>10. \A r \in Player : Owner[r] = a => Places[r] = Standings[a][r] /\ (r \in Out <=> r \in X)
  BY <1>1, OutsTypes
<1>11. inbox'[a] = rest /\ \A d \in Client : d # a => inbox'[d] = inbox[d] \o sent
  <2>1. m # NoMessage
    BY NoMessageTells DEF IsOver, m
  <2> QED BY <1>8, <2>1 DEF Step
<1>12. X1 \in SUBSET Player /\ n \in Nat /\ P1 \in [Player -> Nat]
  <2>1. X \in SUBSET Player /\ Positions(i) \in [Player -> Nat]
    BY <1>1
  <2> HIDE DEF X
  <2>2. Cardinality(X) \in 0 .. Cardinality(Player) /\ Cardinality(Player) \in Nat
    BY <2>1, PlayersAreFinite
  <2>3. n \in Nat
    BY <2>2
  <2> QED BY <1>4, <2>1, <2>3
<1> HIDE DEF n
<1>13. /\ V[a] = X1 /\ P[a] = P1 /\ B[a] = rest
       /\ \A d \in Client : d # a => V[d] = Outs[d] /\ P[d] = Standings[d] /\ B[d] = inbox[d]
       /\ SeesTyped(V, P, B)
  <2> HIDE DEF X1, P1, rest
  <2> QED BY <1>1, <1>12 DEF SeesTyped
<1> HIDE DEF i, X, P1, rest, V, P, B
<1>14. AllSee(Out, Places, V, P, B)
  BY <1>2, <1>4, <1>13 DEF AllSee
<1>15. CASE FallsOne(i, p, seen, sent)
  <2>1. OutOf(seen) = X1 /\ Positions(seen) = P1 /\ sent = << >>
    BY <1>15 DEF FallsOne, X, P1, n
  <2>2. ASSUME NEW d \in Client
        PROVE  Outs'[d] = V[d] /\ Standings'[d] = P[d] /\ inbox'[d] = B[d]
    <3>1. CASE d = a
      BY <1>9, <1>11, <1>13, <2>1, <3>1
    <3>2. CASE d # a
      <4>1. inbox[d] \in Seq(Message)
        BY <1>1
      <4>2. inbox[d] \o << >> = inbox[d]
        BY <4>1, ConcatEmptySeq
      <4> QED BY <1>9, <1>11, <1>13, <2>1, <3>2, <4>2
    <3> QED BY <3>1, <3>2
  <2>3. Out' = Out
    BY <1>1, <1>3, <1>9, <1>10, <2>1
  <2>4. Places' = Places
    <3>1. \A r \in Player : r # p => P1[r] = Standings[a][r]
      BY <1>1 DEF P1
    <3>2. \A r \in Player : Places'[r] = Places[r]
      BY <1>3, <1>9, <1>10, <2>1, <3>1
    <3> QED BY <1>1, <1>9, <3>2
  <2> QED BY <1>14, <2>2, <2>3, <2>4 DEF PlacesHold, AllSee
<1>16. ASSUME NEW q \in Player, FallsLast(a, i, p, q, seen, sent) PROVE PlacesHold'
  <2> DEFINE n2 == Cardinality(Player) - Cardinality(X1)
  <2>1. /\ q \notin X1 /\ Owner[q] = a /\ Player = X1 \cup {q} /\ sent = <<Over(q)>>
        /\ OutOf(seen) = X1 \cup {q}
    BY <1>16 DEF FallsLast, X
  <2>2. Positions(seen) = [P1 EXCEPT ![q] = n2]
    BY <1>16 DEF FallsLast, X, P1, n
  <2>3. X1 \subseteq Out
    BY <1>2, <1>1, <1>4 DEF AllSee, Sees
  <2>4. q \notin Out
    BY <1>10, <2>1
  <2>5. Out = X1
    <3> HIDE DEF X1
    <3> QED BY <1>1, <2>1, <2>3, <2>4
  <2>6. n2 = Cardinality(Player) - Cardinality(Out)
    BY <2>5
  <2> HIDE DEF n2, X1
  <2>7. FallsAt(a, q, n2, V, P, B, Outs', Standings', inbox')
    BY <1>9, <1>11, <1>13, <2>1, <2>2 DEF FallsAt
  <2>8. V[a] = Out /\ q \in Player \ Out
    BY <1>13, <2>4, <2>5
  <2>9. AllSee(Out \cup {q}, [Places EXCEPT ![q] = n2], Outs', Standings', inbox')
    <3>1. SeesTyped(V, P, B) /\ Out \in SUBSET Player /\ Places \in [Player -> Nat]
      BY <1>1, <1>13
    <3> QED BY <1>14, <2>6, <2>7, <2>8, <3>1, OneFalls
  <2>10. Out' = Out \cup {q}
    BY <1>1, <1>9, <1>10, <2>1, <2>5
  <2>11. n2 \in Nat
    <3>1. Cardinality(Out) \in 0 .. Cardinality(Player) /\ Cardinality(Player) \in Nat
      BY <1>1, PlayersAreFinite
    <3> QED BY <2>6, <3>1
  <2>12. Places' = [Places EXCEPT ![q] = n2]
    <3> DEFINE pl2 == [Places EXCEPT ![q] = n2]
    <3>1. \A r \in Player : r # p => P1[r] = Standings[a][r]
      BY <1>1 DEF P1
    <3>2. \A r \in Player : Positions(seen)[r] = IF r = q THEN n2 ELSE P1[r]
      BY <1>12, <2>2
    <3>3. (\A r \in Player : pl2[r] = IF r = q THEN n2 ELSE Places[r]) /\ pl2 \in [Player -> Nat]
      BY <1>1, <2>11
    <3> HIDE DEF pl2
    <3>4. \A r \in Player : Places'[r] = pl2[r]
      BY <1>3, <1>9, <1>10, <2>1, <3>1, <3>2, <3>3
    <3>5. Places' = pl2
      BY <1>9, <3>3, <3>4
    <3> QED BY <3>5 DEF pl2
  <2> QED BY <2>9, <2>10, <2>12 DEF PlacesHold
<1> QED BY <1>7, <1>15, <1>16

LEMMA SameView ==
  ASSUME NEW i, NEW seen,
         \A q \in Player : seen[q].isGameOver = i[q].isGameOver /\ seen[q].data.position = i[q].data.position
  PROVE  OutOf(seen) = OutOf(i) /\ Positions(seen) = Positions(i)
BY DEF OutOf, Positions

\* Rows end no board.
LEMMA RowsPlaces ==
  ASSUME TypeOK, TypeOK', PlacesHold, gone = {}, NEW a \in Client, NEW p \in Player, NEW n \in {1, 4}, LocalRows(a, p, n)
  PROVE  PlacesHold'
<1> DEFINE after == RowsRemoved(a, info[a], p, n)
           seen == after.info
           more == after.sent
           sent == <<Rows(p, n)>> \o more
<1>1. Step(a, NoMessage, seen, sent)
  BY LocalRowsStep
<1>2. info[a] \in View /\ plan.rules \in {"Default", "Survival"}
  BY TypeParts
<1>3. /\ \A q \in Player : Counts(a, info[a], p, n, q, seen)
      /\ more \in Seq(Message)
      /\ \A k \in DOMAIN more : more[k].type = "external"
  BY <1>2, RowsParts
<1> HIDE DEF after
<1>4. OutOf(seen) = OutOf(info[a]) /\ Positions(seen) = Positions(info[a])
  BY <1>3, SameView DEF Counts
<1>5. \A k \in DOMAIN sent : sent[k].type # "over"
  <2> DEFINE x == Rows(p, n)
  <2>1. x \in Message /\ x.type = "rows"
    BY RowsIsMessage
  <2> HIDE DEF x
  <2>2. \A k \in DOMAIN (<<x>> \o more) : (<<x>> \o more)[k] = x \/ \E j \in DOMAIN more : (<<x>> \o more)[k] = more[j]
    BY <1>3, <2>1, FirstAndRest
  <2> QED BY <1>3, <2>1, <2>2 DEF x
<1> HIDE DEF sent
<1> QED BY <1>1, <1>4, <1>5, NoMessageTells, SamePlaces

LEMMA ReceivePlaces ==
  ASSUME TypeOK, TypeOK', Routed, PlacesHold, gone = {}, ~Restarting, Cardinality(Player) > 1,
         NEW a \in Client, Receive(a)
  PROVE  PlacesHold'
<1> DEFINE m == Head(inbox[a])
           i == info[a]
           seen == Reaction(a).info
           sent == Reaction(a).sent
<1>1. inbox[a] # << >> /\ Step(a, m, seen, sent)
  BY ReceiveStep DEF Receive
<1>2. i \in View /\ plan.rules \in {"Default", "Survival"} /\ inbox[a] \in Seq(Message)
  BY TypeParts
<1>3. m \in Message /\ 1 \in DOMAIN inbox[a] /\ inbox[a][1] = m
  BY <1>1, <1>2, Read, HeadTailProperties
<1>4. FromOther({}, a, m)
  BY <1>3 DEF Routed
<1>5. m.type \in {"rows", "over", "external"}
  <2>1. m.type \notin {"ask", "restart"}
    BY <1>3 DEF Restarting, Pending
  <2>2. m.type # "gone"
    BY <1>4 DEF FromOther
  <2> QED BY <1>3, <2>1, <2>2, MessageParts
<1>6. m.player \in Player
  BY <1>3, <1>5, MessageParts
<1>7. CASE m.type = "over"
  <2>1. IsOver(m, m.player)
    BY <1>7 DEF IsOver
  <2> QED BY <1>1, <1>6, <2>1, OverPlaces
<1>8. CASE m.type # "over"
  <2>1. /\ \A q \in Player : seen[q].isGameOver = i[q].isGameOver /\ seen[q].data.position = i[q].data.position
        /\ \A k \in DOMAIN sent : sent[k].type # "over"
    <3>1. Reaction(a) = IF Ignored(a, i, m) THEN [info |-> i, sent |-> << >>] ELSE Handled(a, i, m)
      BY DEF Reaction
    <3> HIDE DEF i, m
    <3>2. CASE Ignored(a, i, m)
      <4>1. seen = i /\ sent = << >>
        BY <3>1, <3>2
      <4> QED BY <4>1
    <3>3. CASE ~Ignored(a, i, m) /\ m.type = "rows"
      <4> DEFINE p == m.player
                 n == m.n
      <4>1. p \in Player /\ n \in {1, 4}
        BY <1>3, <3>3, MessageParts
      <4>2. Reaction(a) = RowsRemoved(a, i, p, n)
        BY <3>1, <3>3 DEF Handled
      <4> HIDE DEF p, n, seen, sent
      <4>3. (\A q \in Player : Counts(a, i, p, n, q, seen)) /\ \A k \in DOMAIN sent : sent[k].type = "external"
        BY <1>2, <4>1, <4>2, RowsParts DEF seen, sent
      <4> QED BY <4>3 DEF Counts
    <3>4. CASE ~Ignored(a, i, m) /\ m.type = "external"
      <4>1. Reaction(a) = [info |-> [i EXCEPT ![m.player].externalRows = @ + 2], sent |-> << >>]
        BY <3>1, <3>4 DEF Handled
      <4>2. seen = [i EXCEPT ![m.player].externalRows = @ + 2] /\ sent = << >>
        BY <4>1
      <4> HIDE DEF seen, sent
      <4>3. \A q \in Player : seen[q].isGameOver = i[q].isGameOver /\ seen[q].data = i[q].data
        BY <1>2, <1>6, <4>2 DEF View, Seen
      <4> QED BY <4>2, <4>3
    <3> QED BY <1>5, <1>8, <3>2, <3>3, <3>4 DEF m
  <2> HIDE DEF m, seen, sent
  <2>2. OutOf(seen) = OutOf(i) /\ Positions(seen) = Positions(i)
    BY <2>1, SameView
  <2> QED BY <1>1, <1>8, <2>1, <2>2, SamePlaces
<1> QED BY <1>7, <1>8

-----------------------------------------------------------------------------
(* Places: all steps *)

\* When a restart that nothing crossed is over at all clients, nobody is out.
LEMMA CleanPlaces == TypeOK /\ Clean /\ ~Restarting => PlacesHold
<1> SUFFICES ASSUME TypeOK, Clean, ~Restarting
             PROVE  PlacesHold
  OBVIOUS
<1>1. /\ \A d \in Client : ~Has(inbox[d], {"ask"})
      /\ \A d \in Client : DOMAIN inbox[d] = {}
  BY DEF Restarting, Pending, Has, Clean
<1>2. ASSUME NEW d \in Client, NEW q \in Player PROVE ~info[d][q].isGameOver /\ info[d][q].data.position = 0
  <2>1. Owner[q] \in Client
    BY TypeParts
  <2>2. ~Expected(d, Owner[q])
    BY <1>1, <2>1 DEF Expected
  <2>3. Renewed(d)
    BY <1>1 DEF Clean
  <2> QED BY <2>2, <2>3 DEF Renewed, Fresh, NewData
<1>3. \A q \in Player : Owner[q] \in Client
  BY TypeParts
<1>4. Out = {}
  BY <1>2, <1>3 DEF Out
<1>5. \A d \in Client : Outs[d] = {} /\ \A q \in Player : Standings[d][q] = 0
  BY <1>2 DEF Outs, Standings, OutOf, Positions
<1> QED BY <1>1, <1>4, <1>5 DEF PlacesHold, AllSee, Taken, Sees

LEMMA CleanPlacesNext == (TypeOK /\ Clean /\ ~Restarting => PlacesHold)'
BY CleanPlaces, PTL

LEMMA AskRestarts ==
  ASSUME TypeOK, gone = {}, AskRestart, Player # {}
  PROVE  Restarting'
<1>1. PICK p \in Player : TRUE
  OBVIOUS
<1> DEFINE c == Owner[p]
           m == AskMessage
<1>2. c \in Client /\ inbox[c] \in Seq(Message)
  BY TypeParts
<1>3. m \in Message /\ inbox'[c] = inbox[c] \o <<m>> /\ m.type = "ask"
  BY <1>2, AskStep DEF AskMessage
<1> HIDE DEF m
<1>4. Has(inbox[c] \o <<m>>, {"ask"})
  BY <1>2, <1>3, OneAdded
<1> QED BY <1>2, <1>3, <1>4 DEF Restarting, Pending, Has

LEMMA PlaceKept ==
  ASSUME PlayInv, ScoreInv, PlaceInv, Next
  PROVE  PlaceInv'
<1>1. TypeOK /\ Routed /\ TypeOK' /\ causes \subseteq causes'
  BY TypeKept, PlanKept DEF PlayInv
<1>2. SUFFICES ASSUME causes' = {}, ~Restarting', Cardinality(Player) > 1
               PROVE  PlacesHold'
  BY DEF PlaceInv
<1>3. causes = {} /\ gone = {} /\ Uncrossed
  BY <1>1, <1>2 DEF Routed, Uncrossed
<1>4. \A c \in Client : ~Vanish(c)
  BY <1>2 DEF Vanish
<1>5. ~AskRestart
  <2>1. Player # {}
    BY <1>2, FS_EmptySet
  <2> QED BY <1>1, <1>2, <1>3, <2>1, AskRestarts
<1>6. CASE Restarting
  <2>1. PICK a \in Client : ScoreSteps(a)
    BY <1>1, <1>4, <1>5, EveryScore
  <2>2. PICK m, seen, sent :
          /\ Step(a, m, seen, sent) /\ Plays(a, m, seen, sent) /\ Marks(a, m, seen)
          /\ m = NoMessage /\ Restarting => "restart crossed" \in causes'
          /\ m.type = "restart" => sent = << >>
    BY <2>1 DEF ScoreSteps
  <2>3. m # NoMessage
    BY <1>2, <1>6, <2>2
  <2>4. Clean /\ NoRows /\ \A c \in Here : AsksFirst(c)
    BY <1>3, <1>6 DEF ScoreInv, RestartsClean, RestartsFirst
  <2>5. Clean'
    BY <1>3, <2>2, <2>3, <2>4, CleanStep
  <2> QED BY <1>1, <1>2, <2>5, CleanPlacesNext
<1>7. CASE ~Restarting
  <2>1. PlacesHold
    BY <1>2, <1>3, <1>7 DEF PlaceInv
  <2>2. ASSUME NEW a \in Client, NEW p \in Player, NEW n \in {1, 4}, LocalRows(a, p, n) PROVE PlacesHold'
    BY <1>1, <1>3, <2>1, <2>2, RowsPlaces
  <2>3. ASSUME NEW a \in Client, NEW p \in Player, LocalDeath(a, p) PROVE PlacesHold'
    <3>1. ~Has(inbox[a], {"over"})
      BY <1>2, <2>3, PendingHas DEF LocalDeath
    <3> QED BY <1>1, <1>2, <1>3, <2>1, <2>3, <3>1, DeathPlaces
  <2>4. ASSUME NEW a \in Client, Receive(a) PROVE PlacesHold'
    BY <1>1, <1>2, <1>3, <1>7, <2>1, <2>4, ReceivePlaces
  <2> QED BY <1>4, <1>5, <2>2, <2>3, <2>4 DEF Next
<1> QED BY <1>6, <1>7

LEMMA PlaceStarts == Init => PlaceInv
<1> SUFFICES ASSUME Init PROVE PlacesHold
  BY DEF PlaceInv
<1>1. \A c \in Client : inbox[c] = << >> /\ \A p \in Player : info[c][p] = NewInfo
  BY DEF Init
<1>2. ~Restarting /\ \A c \in Client : DOMAIN inbox[c] = {}
  BY <1>1 DEF Restarting, Pending
<1>3. Clean
  BY <1>1, <1>2 DEF Clean, Renewed, Fresh, NewInfo
<1>4. TypeOK
  BY PlayStarts DEF PlayInv
<1> QED BY <1>2, <1>3, <1>4, CleanPlaces

LEMMA PlaceStays ==
  ASSUME PlaceInv, UNCHANGED vars
  PROVE  PlaceInv'
<1>1. info' = info /\ inbox' = inbox /\ causes' = causes
  BY DEF vars
<1>2. Restarting' = Restarting /\ Out' = Out /\ Places' = Places /\ Outs' = Outs /\ Standings' = Standings
  BY <1>1 DEF Restarting, Pending, Out, Places, Outs, Standings
<1> QED BY <1>1, <1>2 DEF PlaceInv, PlacesHold, AllSee

LEMMA AlwaysPlaceInv == Spec => []PlaceInv
<1>1. PlayInv /\ ScoreInv /\ PlaceInv /\ [Next]_vars => PlaceInv'
  BY PlaceKept, PlaceStays
<1> QED BY <1>1, PlaceStarts, AlwaysPlayInv, AlwaysScoreInv, PTL DEF Spec

\* Who is out has the last places, all of them.
LEMMA PlacesTaken ==
  ASSUME NEW O \in SUBSET Player, NEW pl \in [Player -> Nat], Taken(O, pl)
  PROVE  {pl[p] : p \in O} = Cardinality(Player) - Cardinality(O) + 1 .. Cardinality(Player)
<1> DEFINE N == Cardinality(Player)
           low == N - Cardinality(O) + 1
           places == {pl[p] : p \in O}
           f == [p \in O |-> pl[p]]
<1>1. IsFiniteSet(O) /\ Cardinality(O) \in 0 .. N /\ N \in Nat
  BY PlayersAreFinite
<1>2. low \in Int /\ Cardinality(low .. N) = Cardinality(O) /\ IsFiniteSet(low .. N)
  <2> DEFINE n == Cardinality(O)
  <2>1. n \in 0 .. N /\ low = N - n + 1 /\ low \in Int
    BY <1>1
  <2> HIDE DEF n, N, low
  <2>2. IsFiniteSet(low .. N)
    BY <1>1, <2>1, FS_Interval
  <2>3. Cardinality(low .. N) = IF low > N THEN 0 ELSE N - low + 1
    BY <1>1, <2>1, FS_Interval
  <2>4. Cardinality(low .. N) = n
    BY <1>1, <2>1, <2>3
  <2> QED BY <2>1, <2>2, <2>4 DEF n
<1>3. \A p \in O : pl[p] \in low .. N
  <2>1. ASSUME NEW p \in O PROVE pl[p] \in low .. N
    <3>1. pl[p] > Cardinality(Player) - Cardinality(O) /\ pl[p] <= Cardinality(Player)
      BY TakenBounds
    <3>2. pl[p] \in Nat
      OBVIOUS
    <3> QED BY <1>1, <3>1, <3>2
  <2> QED BY <2>1
<1>4. \A p, q \in O : pl[p] = pl[q] => p = q
  BY DEF Taken
<1> DEFINE T == low .. N
<1>5. IsFiniteSet(T) /\ Cardinality(T) = Cardinality(O) /\ \A p \in O : pl[p] \in T
  BY <1>2, <1>3
<1> HIDE DEF T
<1>6. f \in Injection(O, T)
  BY <1>4, <1>5 DEF Injection, IsInjective
<1>7. f \in Surjection(O, T)
  BY <1>1, <1>5, <1>6, FS_Injection
<1>8. \A t \in T : \E p \in O : f[p] = t
  BY <1>7 DEF Surjection
<1>9. places = T
  BY <1>5, <1>8
<1> QED BY <1>9 DEF T

\* In a game of several in which nothing crossed, all clients have everybody at the same place when all
\* has arrived, and those that are out have the last places, each its own (gameOver of both rules).
THEOREM AllAgreeOnPlaces == Spec => []PlacesAgree
<1>1. PlayInv /\ PlaceInv => PlacesAgree
  <2> SUFFICES ASSUME PlayInv, PlaceInv, Cardinality(Player) > 1, Quiet, causes = {}, NEW c \in Client, NEW d \in Client
               PROVE  /\ \A p \in Player : info[c][p].data.position = info[d][p].data.position
                      /\ LET out == Player \ Playing(info[c]) IN
                           {info[c][p].data.position : p \in out}
                             = Cardinality(Player) - Cardinality(out) + 1 .. Cardinality(Player)
    BY DEF PlacesAgree, Here
  <2>1. TypeOK /\ ~Restarting /\ \A b \in Client : DOMAIN inbox[b] = {}
    BY DEF PlayInv, Quiet, Restarting, Pending
  <2>2. AllSee(Out, Places, Outs, Standings, inbox)
    BY <2>1 DEF PlaceInv, PlacesHold
  <2>3. Out \in SUBSET Player /\ Places \in [Player -> Nat] /\ Taken(Out, Places)
    BY <2>1, <2>2, OutsTypes DEF AllSee
  <2>4. ASSUME NEW b \in Client
        PROVE  /\ Out = Player \ Playing(info[b])
               /\ \A p \in Player : info[b][p].data.position = IF p \in Out THEN Places[p] ELSE 0
    <3>1. Sees(Out, Places, Outs[b], Standings[b], inbox[b])
      BY <2>2 DEF AllSee
    <3>2. Outs[b] = OutOf(info[b]) /\ Standings[b] = Positions(info[b]) /\ info[b] \in View
      BY <2>1, TypeParts DEF Outs, Standings
    <3>3. Outs[b] = Out
      BY <2>1, <3>1 DEF Sees
    <3>4. Playing(info[b]) = Player \ Out /\ \A p \in Player : Standings[b][p] = info[b][p].data.position
      <4> DEFINE i == info[b]
      <4>1. i \in View /\ Out = OutOf(i) /\ Standings[b] = Positions(i)
        BY <3>2, <3>3
      <4> HIDE DEF i
      <4>2. Playing(i) = Player \ OutOf(i) /\ \A p \in Player : Positions(i)[p] = i[p].data.position
        BY <4>1, OutsOfView
      <4> QED BY <4>1, <4>2 DEF i
    <3>5. \A p \in Player : Standings[b][p] = IF p \in Out THEN Places[p] ELSE 0
      BY <3>1, <3>3 DEF Sees
    <3> QED BY <2>3, <3>4, <3>5
  <2>5. {info[c][p].data.position : p \in Out} = {Places[p] : p \in Out}
    BY <2>3, <2>4
  <2>6. {Places[p] : p \in Out} = Cardinality(Player) - Cardinality(Out) + 1 .. Cardinality(Player)
    BY <2>3, PlacesTaken
  <2>7. \A p \in Player : info[c][p].data.position = info[d][p].data.position
    BY <2>4
  <2> QED BY <2>4, <2>5, <2>6, <2>7
<1> QED BY <1>1, AlwaysPlayInv, AlwaysPlaceInv, PTL
=============================================================================
