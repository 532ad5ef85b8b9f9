-------------------------- MODULE LocalPlayer_proofs --------------------------
(***************************************************************************)
(* Proofs about LocalPlayer, a human at the keyboard, for boards of every   *)
(* size, every length of the waits, every number of keys and of steps in a  *)
(* frame: keys do what they are pressed for, once and no more often than    *)
(* they are held for.                                                       *)
(***************************************************************************)
EXTENDS LocalPlayer, SequenceTheorems, FiniteSetTheorems, TLAPS

-----------------------------------------------------------------------------
(* A step under way *)

HeldKey == {"left", "right"}
PressedKey == {"rotate", "downGround"}

\* What is known of a step: its controller, and its moves.
IsStep(s) ==
  /\ DOMAIN s = {"ctl", "board", "next", "moves", "events"}
  /\ s.ctl \in Controller
  /\ s.moves \in Seq(Move)

\* No block has landed in it.
Silent(s) == \E S : s.events \in Seq(S) /\ \A told \in S : told.event # "BlockCollision"

\* How often a move was made.
Times(moves, m) == Cardinality({i \in DOMAIN moves : moves[i] = m})

LEMMA TimesOfAppended ==
  ASSUME NEW moves \in Seq(Move), NEW m \in Move, NEW n \in Move
  PROVE  /\ Append(moves, n) \in Seq(Move)
         /\ Times(moves, m) \in Nat
         /\ Times(Append(moves, n), m) = Times(moves, m) + (IF n = m THEN 1 ELSE 0)
<1> DEFINE L == Len(moves)
           after == Append(moves, n)
           At(s) == {i \in DOMAIN s : s[i] = m}
<1>1. L \in Nat /\ DOMAIN moves = 1 .. L
  OBVIOUS
<1>2. after \in Seq(Move) /\ Len(after) = L + 1 /\ DOMAIN after = 1 .. L + 1
  OBVIOUS
<1>3. after[L + 1] = n /\ \A i \in 1 .. L : after[i] = moves[i]
  OBVIOUS
<1> HIDE DEF L, after
<1>4. IsFiniteSet(At(moves)) /\ Cardinality(At(moves)) \in Nat
  <2>1. IsFiniteSet(1 .. L)
    BY <1>1, FS_Interval
  <2>2. At(moves) \subseteq 1 .. L
    BY <1>1
  <2> QED BY <2>1, <2>2, FS_Subset, FS_CardinalityType
<1>5. CASE n = m
  <2>1. At(after) = At(moves) \cup {L + 1} /\ L + 1 \notin At(moves)
    BY <1>1, <1>2, <1>3, <1>5
  <2>2. Cardinality(At(after)) = Cardinality(At(moves)) + 1
    BY <1>4, <2>1, FS_AddElement
  <2> QED BY <1>2, <1>4, <1>5, <2>2 DEF Times, after
<1>6. CASE n # m
  <2>1. At(after) = At(moves)
    BY <1>1, <1>2, <1>3, <1>6
  <2> HIDE DEF At
  <2>2. Cardinality(At(after)) = Cardinality(At(moves)) + 0
    BY <1>4, <2>1
  <2> QED BY <1>2, <1>4, <1>6, <2>2 DEF Times, after, At
<1> QED BY <1>5, <1>6

LEMMA TimesOfNone ==
  ASSUME NEW m \in Move
  PROVE  Times(<< >>, m) = 0
<1>1. {i \in DOMAIN << >> : << >>[i] = m} = {}
  OBVIOUS
<1> QED BY <1>1, FS_EmptySet DEF Times

LEMMA NothingIsSilent ==
  ASSUME NEW s, s.events = << >>
  PROVE  Silent(s)
<1>1. \A S : << >> \in Seq(S)
  OBVIOUS
<1> DEFINE S == {}
<1>2. s.events \in Seq(S) /\ \A told \in S : told.event # "BlockCollision"
  BY <1>1
<1> HIDE DEF S
<1> QED BY <1>2 DEF Silent

LEMMA SilentAfter ==
  ASSUME NEW s, NEW t, NEW told, Silent(s), told.event # "BlockCollision", t.events = Append(s.events, told)
  PROVE  Silent(t)
<1>1. PICK S : s.events \in Seq(S) /\ \A x \in S : x.event # "BlockCollision"
  BY DEF Silent
<1> DEFINE T == S \cup {told}
<1>2. s.events \in Seq(T)
  <2>1. S \subseteq T
    OBVIOUS
  <2> QED BY <1>1, <2>1
<1>3. Append(s.events, told) \in Seq(T)
  BY <1>2, AppendProperties
<1>4. \A x \in T : x.event # "BlockCollision"
  BY <1>1
<1> QED BY <1>3, <1>4 DEF Silent

\* A move that does not land leaves the controller alone.
LEMMA moveKeeps ==
  ASSUME NEW s, IsStep(s), NEW m \in Move, ~Lands(s.board, m)
  PROVE  LET t == move(s, m) IN
           /\ IsStep(t) /\ t.ctl = s.ctl /\ t.moves = Append(s.moves, m)
           /\ Silent(s) => Silent(t)
<1> DEFINE t == move(s, m)
           told == Told(IF update(s.board, m).isGameOver THEN "GameOver" ELSE "BlockMoved", update(s.board, m))
           moved == [s EXCEPT !.moves = Append(s.moves, m)]
<1>1. DOMAIN s = {"ctl", "board", "next", "moves", "events"} /\ s.ctl \in Controller /\ s.moves \in Seq(Move)
  BY DEF IsStep
<1>2. Append(s.moves, m) \in Seq(Move)
  BY <1>1, TimesOfAppended
<1>3. /\ DOMAIN moved = DOMAIN s /\ moved.ctl = s.ctl /\ moved.moves = Append(s.moves, m)
      /\ moved.events = s.events
  BY <1>1
<1>4. \/ t = moved
      \/ t = [moved EXCEPT !.board = update(s.board, m), !.events = Append(moved.events, told)]
  BY DEF move
<1>5. told.event # "BlockCollision"
  BY DEF Told
<1> HIDE DEF t, told, moved
<1>6. /\ DOMAIN t = DOMAIN s /\ t.ctl = s.ctl /\ t.moves = Append(s.moves, m)
      /\ t.events = s.events \/ t.events = Append(s.events, told)
  BY <1>1, <1>3, <1>4
<1>7. Silent(s) => Silent(t)
  <2>1. CASE t.events = s.events
    BY <2>1 DEF Silent
  <2>2. CASE t.events = Append(s.events, told)
    BY <1>5, <2>2, SilentAfter
  <2> QED BY <1>6, <2>1, <2>2
<1>8. IsStep(t)
  BY <1>1, <1>2, <1>6 DEF IsStep
<1> QED BY <1>6, <1>7, <1>8 DEF t

-----------------------------------------------------------------------------
(* The handlers of an update *)

Watched == HeldKey \cup PressedKey

\* The handler of a key (or of gravity) has taken step s to t: it has the value v now, and has made the
\* move of its key, or not; the other keys are as they were.
Handles(s, t, handler, v, acts) ==
  /\ IsStep(t) /\ Silent(t)
  /\ \A k \in Watched : t.ctl[k] = IF k = handler THEN v ELSE s.ctl[k]
  /\ \A k \in Watched :
       Times(t.moves, MoveOf[k]) = Times(s.moves, MoveOf[k]) + (IF k = handler /\ acts THEN 1 ELSE 0)

Handler == {"gravity", "left", "right", "down", "rotate", "downGround"}

MoveFor(handler) == IF handler = "gravity" THEN "DownGravity" ELSE MoveOf[handler]

LEMMA MovesDiffer ==
  /\ \A h \in Handler : MoveFor(h) \in Move
  /\ \A k \in Watched : MoveOf[k] \in Move /\ k \in Handler
  /\ \A k \in Watched : \A h \in Handler : MoveFor(h) = MoveOf[k] => h = k
  /\ \A k \in Watched : MoveFor(k) = MoveOf[k]
BY DEF MoveFor, MoveOf, Move, Handler, Watched, HeldKey, PressedKey

LEMMA HandledBy ==
  ASSUME NEW s, IsStep(s), Silent(s), NEW handler \in Handler, NEW u, DOMAIN u = DOMAIN s, u.ctl \in Controller,
         \A k \in Watched : k # handler => u.ctl[k] = s.ctl[k],
         u.moves = s.moves, u.events = s.events, NEW acts \in BOOLEAN,
         acts => ~Lands(u.board, MoveFor(handler)),
         NEW t, t = IF acts THEN move(u, MoveFor(handler)) ELSE u
  PROVE  Handles(s, t, handler, u.ctl[handler], acts)
<1>1. IsStep(u) /\ Silent(u) /\ s.moves \in Seq(Move)
  BY DEF IsStep, Silent
<1>2. \A k \in Watched : u.ctl[k] = IF k = handler THEN u.ctl[handler] ELSE s.ctl[k]
  OBVIOUS
<1>3. \A k \in Watched : Times(s.moves, MoveOf[k]) \in Nat
  BY <1>1, TimesOfAppended, MovesDiffer
<1>4. CASE acts
  <2>1. MoveFor(handler) \in Move /\ t = move(u, MoveFor(handler))
    BY <1>4, MovesDiffer
  <2>2. IsStep(t) /\ t.ctl = u.ctl /\ t.moves = Append(s.moves, MoveFor(handler)) /\ Silent(t)
    BY <1>1, <1>4, <2>1, moveKeeps
  <2>3. ASSUME NEW k \in Watched
        PROVE  Times(t.moves, MoveOf[k]) = Times(s.moves, MoveOf[k]) + (IF k = handler /\ acts THEN 1 ELSE 0)
    <3>1. Times(t.moves, MoveOf[k]) = Times(s.moves, MoveOf[k]) + (IF MoveFor(handler) = MoveOf[k] THEN 1 ELSE 0)
      <4> DEFINE m == MoveOf[k]
                 n == MoveFor(handler)
      <4>1. m \in Move /\ n \in Move /\ t.moves = Append(s.moves, n)
        BY <2>1, <2>2, MovesDiffer
      <4> HIDE DEF m, n
      <4>2. Times(Append(s.moves, n), m) = Times(s.moves, m) + (IF n = m THEN 1 ELSE 0)
        BY <1>1, <4>1, TimesOfAppended
      <4> QED BY <4>1, <4>2 DEF m, n
    <3>2. MoveFor(handler) = MoveOf[k] <=> k = handler
      BY MovesDiffer
    <3> QED BY <1>4, <3>1, <3>2
  <2> QED BY <1>2, <2>2, <2>3 DEF Handles
<1>5. CASE ~acts
  BY <1>1, <1>2, <1>3, <1>5 DEF Handles
<1> QED BY <1>4, <1>5

LEMMA ControllerParts ==
  ASSUME NEW c \in Controller
  PROVE  /\ \A h \in DasArr : [c EXCEPT !["left"] = h] \in Controller /\ [c EXCEPT !["right"] = h] \in Controller
         /\ \A e \in 0 .. DownWait : [c EXCEPT !["down"] = e] \in Controller
         /\ \A e \in 0 .. Gravity : [c EXCEPT !["gravity"] = e] \in Controller
         /\ \A e \in BOOLEAN : [c EXCEPT !["rotate"] = e] \in Controller /\ [c EXCEPT !["downGround"] = e] \in Controller
         /\ \A e \in BOOLEAN : [c EXCEPT !["areActive"] = e] \in Controller
         /\ \A e \in 0 .. AREDuration : [c EXCEPT !["areTimer"] = e] \in Controller
BY DEF Controller

LEMMA PassedBounds ==
  ASSUME NEW wait \in Nat, NEW elapsed \in 0 .. wait
  PROVE  Passed(elapsed, wait) \in 0 .. wait /\ Passed(elapsed, wait) = IF elapsed < wait THEN elapsed + 1 ELSE elapsed
BY DEF Passed

LEMMA dasArrTyped ==
  ASSUME NEW h \in DasArr, NEW key \in KeyState
  PROVE  dasArr(h, key).handler \in DasArr /\ dasArr(h, key).action \in BOOLEAN
<1>1. DAS \in Nat /\ h.elapsed \in 0 .. DAS
  BY WaitAssumption DEF DasArr
<1>2. Passed(h.elapsed, DAS) \in 0 .. DAS
  BY <1>1, PassedBounds
<1>3. key.held \in BOOLEAN /\ key.pressed \in BOOLEAN /\ key.released \in BOOLEAN /\ h.inDelayPhase \in BOOLEAN /\ h.previouslyHeld \in BOOLEAN
  BY DEF KeyState, DasArr
<1> QED BY <1>1, <1>2, <1>3 DEF dasArr, DasArr

LEMMA gravityHandles ==
  ASSUME NEW s, IsStep(s), Silent(s)
  PROVE  \E v, acts : Handles(s, gravity(s), "gravity", v, acts)
<1> DEFINE elapsed == Passed(s.ctl.gravity, Gravity)
           Set(e) == [s EXCEPT !.ctl.gravity = e]
           down == [s EXCEPT !.ctl.gravity = 0, !.ctl.areActive = TRUE]
           t == gravity(s)
<1>1. s.ctl \in Controller /\ DOMAIN s = {"ctl", "board", "next", "moves", "events"}
  BY DEF IsStep
<1>2. elapsed \in 0 .. Gravity /\ 0 \in 0 .. Gravity
  BY <1>1, WaitAssumption, PassedBounds DEF Controller
<1>3. "gravity" \in Handler /\ "gravity" \notin Watched /\ MoveFor("gravity") = "DownGravity"
  BY DEF Handler, Watched, HeldKey, PressedKey, MoveFor
<1>4. ASSUME NEW e \in 0 .. Gravity
      PROVE  /\ DOMAIN Set(e) = DOMAIN s /\ Set(e).ctl = [s.ctl EXCEPT !["gravity"] = e] /\ Set(e).moves = s.moves
             /\ Set(e).events = s.events /\ Set(e).board = s.board
             /\ Set(e).ctl \in Controller
             /\ \A k \in Watched : k # "gravity" => Set(e).ctl[k] = s.ctl[k]
  <2>1. /\ DOMAIN Set(e) = DOMAIN s /\ Set(e).ctl = [s.ctl EXCEPT !["gravity"] = e] /\ Set(e).moves = s.moves
        /\ Set(e).events = s.events /\ Set(e).board = s.board
    BY <1>1
  <2> HIDE DEF Set
  <2>2. [s.ctl EXCEPT !["gravity"] = e] \in Controller
    BY <1>1, ControllerParts
  <2>3. \A k \in Watched : k # "gravity" => [s.ctl EXCEPT !["gravity"] = e][k] = s.ctl[k]
    BY <1>1 DEF Controller, Watched, HeldKey, PressedKey
  <2> QED BY <2>1, <2>2, <2>3
<1>5. CASE elapsed < Gravity
  <2>1. t = Set(elapsed)
    <3>1. ~(elapsed >= Gravity)
      BY <1>2, <1>5, WaitAssumption
    <3> QED BY <1>5, <3>1 DEF gravity
  <2> HIDE DEF t, Set, elapsed
  <2>2. Handles(s, t, "gravity", t.ctl["gravity"], FALSE)
    BY <1>2, <1>3, <1>4, <2>1, HandledBy
  <2> QED BY <2>2 DEF t
<1>6. CASE elapsed >= Gravity /\ isBlockDown(s.board)
  <2>1. t = down
    <3>1. ~(elapsed < Gravity)
      BY <1>2, <1>6, WaitAssumption
    <3> QED BY <1>6, <3>1 DEF gravity
  <2>2. /\ DOMAIN down = DOMAIN s /\ down.moves = s.moves /\ down.events = s.events /\ down.board = s.board
        /\ down.ctl = [[s.ctl EXCEPT !["gravity"] = 0] EXCEPT !["areActive"] = TRUE]
    BY <1>1
  <2> HIDE DEF down, t
  <2>3. down.ctl \in Controller
    <3>1. [s.ctl EXCEPT !["gravity"] = 0] \in Controller
      BY <1>1, <1>2, ControllerParts
    <3> QED BY <2>2, <3>1, ControllerParts
  <2>4. \A k \in Watched : k # "gravity" => down.ctl[k] = s.ctl[k]
    BY <1>1, <2>2 DEF Controller, Watched, HeldKey, PressedKey
  <2>5. Handles(s, t, "gravity", t.ctl["gravity"], FALSE)
    BY <1>3, <2>1, <2>2, <2>3, <2>4, HandledBy
  <2> QED BY <2>5 DEF t
<1>7. CASE elapsed >= Gravity /\ ~isBlockDown(s.board)
  <2>1. t = move(Set(0), "DownGravity")
    <3>1. ~(elapsed < Gravity)
      BY <1>2, <1>7, WaitAssumption
    <3> QED BY <1>7, <3>1 DEF gravity
  <2>2. ~Lands(Set(0).board, "DownGravity")
    <3>1. Set(0).board = s.board
      BY <1>2, <1>4
    <3> HIDE DEF Set
    <3> QED BY <1>7, <3>1 DEF Lands, isBlockDown
  <2> HIDE DEF t, Set
  <2>3. Handles(s, t, "gravity", Set(0).ctl["gravity"], TRUE)
    BY <1>2, <1>3, <1>4, <2>1, <2>2, HandledBy
  <2> QED BY <2>3 DEF t
<1> QED BY <1>2, <1>5, <1>6, <1>7, WaitAssumption

LEMMA KeysDoNotLand ==
  ASSUME NEW key \in Handler \ {"gravity"}, NEW b
  PROVE  ~Lands(b, MoveFor(key)) /\ MoveFor(key) = MoveOf[key]
<1>1. MoveFor(key) = MoveOf[key] /\ MoveOf[key] # "DownGravity"
  BY DEF Handler, MoveFor, MoveOf
<1> QED BY <1>1 DEF Lands

\* What a handler has kept of the time or of the key.
LEMMA KeptHandles ==
  ASSUME NEW s, IsStep(s), Silent(s), NEW key \in Handler \ {"gravity"}, NEW v,
         [s.ctl EXCEPT ![key] = v] \in Controller, NEW acts \in BOOLEAN,
         NEW looked, looked = [s EXCEPT !.ctl = [s.ctl EXCEPT ![key] = v]]
  PROVE  Handles(s, IF acts THEN move(looked, MoveOf[key]) ELSE looked, key, v, acts)
<1> DEFINE t == IF acts THEN move(looked, MoveOf[key]) ELSE looked
<1>1. s.ctl \in Controller /\ DOMAIN s = {"ctl", "board", "next", "moves", "events"}
  BY DEF IsStep
<1>2. /\ DOMAIN looked = DOMAIN s /\ looked.ctl = [s.ctl EXCEPT ![key] = v] /\ looked.moves = s.moves
      /\ looked.events = s.events
  BY <1>1
<1>3. DOMAIN s.ctl = {"left", "right", "down", "gravity", "rotate", "downGround", "areActive", "areTimer"}
  BY <1>1 DEF Controller
<1>4. looked.ctl[key] = v /\ \A k \in Watched : k # key => looked.ctl[k] = s.ctl[k]
  BY <1>2, <1>3 DEF Handler, Watched, HeldKey, PressedKey
<1>5. acts => ~Lands(looked.board, MoveFor(key))
  BY KeysDoNotLand
<1>6. t = IF acts THEN move(looked, MoveFor(key)) ELSE looked
  BY KeysDoNotLand
<1>7. key \in Handler /\ looked.ctl \in Controller
  BY <1>2
<1> HIDE DEF t
<1>8. Handles(s, t, key, looked.ctl[key], acts)
  <2>1. DOMAIN looked = DOMAIN s /\ looked.moves = s.moves /\ looked.events = s.events
    BY <1>2
  <2>2. \A k \in Watched : k # key => looked.ctl[k] = s.ctl[k]
    BY <1>4
  <2>3. CASE acts
    <3>1. acts = TRUE /\ t = move(looked, MoveFor(key)) /\ ~Lands(looked.board, MoveFor(key))
      BY <1>5, <1>6, <2>3
    <3>2. Handles(s, t, key, looked.ctl[key], TRUE)
      BY <1>7, <2>1, <2>2, <3>1, HandledBy
    <3> QED BY <3>1, <3>2
  <2>4. CASE ~acts
    <3>1. acts = FALSE /\ t = looked
      BY <1>6, <2>4
    <3>2. Handles(s, t, key, looked.ctl[key], FALSE)
      BY <1>7, <2>1, <2>2, <3>1, HandledBy
    <3> QED BY <3>1, <3>2
  <2> QED BY <2>3, <2>4
<1> QED BY <1>4, <1>8 DEF t

Input == [Key -> KeyState]

LEMMA sidewaysHandles ==
  ASSUME NEW s, IsStep(s), Silent(s), NEW key \in HeldKey, NEW input \in Input
  PROVE  LET h == dasArr(s.ctl[key], input[key]) IN Handles(s, sideways(s, key, input), key, h.handler, h.action)
<1> DEFINE h == dasArr(s.ctl[key], input[key])
           looked == [s EXCEPT !.ctl = [s.ctl EXCEPT ![key] = h.handler]]
<1>1. s.ctl \in Controller
  BY DEF IsStep
<1>2. s.ctl[key] \in DasArr /\ input[key] \in KeyState
  BY <1>1 DEF Controller, HeldKey, Input, Key
<1>3. h.handler \in DasArr /\ h.action \in BOOLEAN
  BY <1>2, dasArrTyped
<1>4. sideways(s, key, input) = IF h.action THEN move(looked, MoveOf[key]) ELSE looked
  BY DEF sideways
<1>5. key \in Handler \ {"gravity"}
  BY DEF HeldKey, Handler
<1> HIDE DEF h
<1>6. [s.ctl EXCEPT ![key] = h.handler] \in Controller
  BY <1>1, <1>3, ControllerParts DEF HeldKey
<1>7. Handles(s, IF h.action THEN move(looked, MoveOf[key]) ELSE looked, key, h.handler, h.action)
  BY <1>3, <1>5, <1>6, KeptHandles
<1> QED BY <1>4, <1>7 DEF h

LEMMA softDownHandles ==
  ASSUME NEW s, IsStep(s), Silent(s), NEW input \in Input
  PROVE  \E v, acts : Handles(s, softDown(s, input), "down", v, acts)
<1> DEFINE elapsed == Passed(s.ctl.down, DownWait)
           acts == input.down.held /\ elapsed >= DownWait
           v == IF acts THEN 0 ELSE elapsed
           looked == [s EXCEPT !.ctl = [s.ctl EXCEPT !["down"] = v]]
<1>1. s.ctl \in Controller
  BY DEF IsStep
<1>2. elapsed \in 0 .. DownWait /\ 0 \in 0 .. DownWait
  BY <1>1, WaitAssumption, PassedBounds DEF Controller
<1>3. acts \in BOOLEAN
  BY DEF Input, Key, KeyState
<1>4. softDown(s, input) = IF acts THEN move(looked, MoveOf["down"]) ELSE looked
  <2>1. MoveOf["down"] = "Down"
    BY DEF MoveOf
  <2> QED BY <1>3, <2>1 DEF softDown
<1>5. "down" \in Handler \ {"gravity"}
  BY DEF Handler
<1>6. v \in 0 .. DownWait
  BY <1>2
<1> HIDE DEF acts, v
<1>7. [s.ctl EXCEPT !["down"] = v] \in Controller
  BY <1>1, <1>6, ControllerParts
<1>8. Handles(s, IF acts THEN move(looked, MoveOf["down"]) ELSE looked, "down", v, acts)
  BY <1>3, <1>5, <1>7, KeptHandles
<1> QED BY <1>4, <1>8

LEMMA onceHandles ==
  ASSUME NEW s, IsStep(s), Silent(s), NEW key \in PressedKey, NEW input \in Input
  PROVE  Handles(s, once(s, key, input), key, input[key].pressed, input[key].pressed /\ ~s.ctl[key])
<1> DEFINE v == input[key].pressed
           acts == v /\ ~s.ctl[key]
           looked == [s EXCEPT !.ctl = [s.ctl EXCEPT ![key] = v]]
<1>1. s.ctl \in Controller
  BY DEF IsStep
<1>2. v \in BOOLEAN /\ acts \in BOOLEAN
  BY <1>1 DEF Controller, PressedKey, Input, Key, KeyState
<1>3. once(s, key, input) = IF acts THEN move(looked, MoveOf[key]) ELSE looked
  BY DEF once
<1>4. key \in Handler \ {"gravity"}
  BY DEF PressedKey, Handler
<1> HIDE DEF v
<1>5. [s.ctl EXCEPT ![key] = v] \in Controller
  BY <1>1, <1>2, ControllerParts DEF PressedKey
<1> HIDE DEF acts
<1>6. Handles(s, IF acts THEN move(looked, MoveOf[key]) ELSE looked, key, v, acts)
  BY <1>2, <1>4, <1>5, KeptHandles
<1> QED BY <1>3, <1>6 DEF acts, v

-----------------------------------------------------------------------------
(* An update *)

LEMMA UpdatedInOrder ==
  ASSUME NEW c, ~c.areActive, NEW b, NEW input, NEW random
  PROVE  updated(c, b, input, random) =
           once(once(softDown(sideways(sideways(gravity(Step(c, b, random)), "left", input), "right", input), input),
                     "rotate", input), "downGround", input)
<1> DEFINE s0 == Step(c, b, random)
           s1 == gravity(s0)
           s2 == sideways(s1, "left", input)
           s3 == sideways(s2, "right", input)
           s4 == softDown(s3, input)
           s5 == once(s4, "rotate", input)
           s6 == once(s5, "downGround", input)
           After(f) == [k \in 0 .. Len(Handlers) |-> IF k = 0 THEN s0 ELSE doAction(f[k - 1], Handlers[k], input)]
           g == [k \in 0 .. Len(Handlers) |->
                   CASE k = 0 -> s0 [] k = 1 -> s1 [] k = 2 -> s2 [] k = 3 -> s3 [] k = 4 -> s4 [] k = 5 -> s5 [] OTHER -> s6]
           a == CHOOSE f : f = After(f)
<1>1. /\ Len(Handlers) = 6 /\ Handlers[1] = "gravity" /\ Handlers[2] = "left" /\ Handlers[3] = "right"
      /\ Handlers[4] = "down" /\ Handlers[5] = "rotate" /\ Handlers[6] = "downGround"
  BY DEF Handlers
<1>2. updated(c, b, input, random) = a[Len(Handlers)]
  BY DEF updated
<1>3. /\ doAction(s0, "gravity", input) = s1 /\ doAction(s1, "left", input) = s2
      /\ doAction(s2, "right", input) = s3 /\ doAction(s3, "down", input) = s4
      /\ doAction(s4, "rotate", input) = s5 /\ doAction(s5, "downGround", input) = s6
  <2> HIDE DEF s0
  <2>1. doAction(s0, "gravity", input) = s1
    BY DEF doAction
  <2> HIDE DEF s1
  <2>2. doAction(s1, "left", input) = s2
    BY DEF doAction
  <2> HIDE DEF s2
  <2>3. doAction(s2, "right", input) = s3
    BY DEF doAction
  <2> HIDE DEF s3
  <2>4. doAction(s3, "down", input) = s4
    BY DEF doAction
  <2> HIDE DEF s4
  <2>5. doAction(s4, "rotate", input) = s5
    BY DEF doAction
  <2> HIDE DEF s5
  <2>6. doAction(s5, "downGround", input) = s6
    BY DEF doAction
  <2> QED BY <2>1, <2>2, <2>3, <2>4, <2>5, <2>6
<1> HIDE DEF s0, s1, s2, s3, s4, s5, s6
<1>4. /\ DOMAIN g = 0 .. 6 /\ g[0] = s0 /\ g[1] = s1 /\ g[2] = s2 /\ g[3] = s3 /\ g[4] = s4 /\ g[5] = s5 /\ g[6] = s6
  BY <1>1
<1> HIDE DEF g
<1>5. g = After(g)
  <2>1. ASSUME NEW k \in 0 .. 6
        PROVE  g[k] = IF k = 0 THEN s0 ELSE doAction(g[k - 1], Handlers[k], input)
    <3>1. k = 0 \/ k = 1 \/ k = 2 \/ k = 3 \/ k = 4 \/ k = 5 \/ k = 6
      OBVIOUS
    <3> QED BY <1>1, <1>3, <1>4, <3>1
  <2>2. g = [k \in 0 .. 6 |-> g[k]]
    BY <1>4 DEF g
  <2> QED BY <1>1, <2>1, <2>2
<1>6. a = After(a)
  <2> HIDE DEF After
  <2> QED BY <1>5
<1>7. \A k \in 0 .. 6 : a[k] = IF k = 0 THEN s0 ELSE doAction(a[k - 1], Handlers[k], input)
  <2> HIDE DEF a
  <2> QED BY <1>1, <1>6
<1> HIDE DEF a, After
<1>8. a[0] = s0 /\ a[1] = s1 /\ a[2] = s2
  <2>1. a[0] = s0
    BY <1>7
  <2>2. a[1] = doAction(a[0], Handlers[1], input)
    BY <1>7
  <2>3. a[2] = doAction(a[1], Handlers[2], input)
    BY <1>7
  <2> QED BY <1>1, <1>3, <2>1, <2>2, <2>3
<1>9. a[3] = s3 /\ a[4] = s4
  <2>1. a[3] = doAction(a[2], Handlers[3], input)
    BY <1>7
  <2>2. a[4] = doAction(a[3], Handlers[4], input)
    BY <1>7
  <2> QED BY <1>1, <1>3, <1>8, <2>1, <2>2
<1>10. a[5] = s5 /\ a[6] = s6
  <2>1. a[5] = doAction(a[4], Handlers[5], input)
    BY <1>7
  <2>2. a[6] = doAction(a[5], Handlers[6], input)
    BY <1>7
  <2> QED BY <1>1, <1>3, <1>9, <2>1, <2>2
<1> QED BY <1>1, <1>2, <1>10 DEF s0, s1, s2, s3, s4, s5, s6

LEMMA SilentDoesNotLand ==
  ASSUME NEW t, Silent(t)
  PROVE  ~Landing(t)
<1>1. PICK S : t.events \in Seq(S) /\ \A told \in S : told.event # "BlockCollision"
  BY DEF Silent
<1>2. t.events # << >> => t.events[1] \in S
  BY <1>1
<1> QED BY <1>1, <1>2 DEF Landing

LEMMA StartIsStep ==
  ASSUME NEW c \in Controller, NEW b, NEW random
  PROVE  LET s == Step(c, b, random) IN
           IsStep(s) /\ Silent(s) /\ s.ctl = c /\ s.moves = << >> /\ s.events = << >> /\ s.board = b
<1> DEFINE s == Step(c, b, random)
<1>1. /\ DOMAIN s = {"ctl", "board", "next", "moves", "events"}
      /\ s.ctl = c /\ s.moves = << >> /\ s.events = << >> /\ s.board = b
  BY DEF Step
<1> HIDE DEF s
<1>2. IsStep(s)
  BY <1>1 DEF IsStep
<1>3. Silent(s)
  BY <1>1, NothingIsSilent
<1> QED BY <1>1, <1>2, <1>3 DEF s

\* An update of controller c has done what the handler of each key does, and no block has landed.
KeysDo(moved, c, input) ==
  /\ moved.ctl \in Controller /\ moved.moves \in Seq(Move) /\ ~Landing(moved)
  /\ \A k \in HeldKey : LET h == dasArr(c[k], input[k]) IN
       moved.ctl[k] = h.handler /\ Times(moved.moves, MoveOf[k]) = IF h.action THEN 1 ELSE 0
  /\ \A k \in PressedKey :
       /\ moved.ctl[k] = input[k].pressed
       /\ Times(moved.moves, MoveOf[k]) = IF input[k].pressed /\ ~c[k] THEN 1 ELSE 0

\* While no block is down each key does what its handler does, whatever the others do.
LEMMA UpdatedKeys ==
  ASSUME NEW c \in Controller, ~c.areActive, NEW b, NEW input \in Input, NEW random
  PROVE  KeysDo(updated(c, b, input, random), c, input)
<1> DEFINE s0 == Step(c, b, random)
           s1 == gravity(s0)
           s2 == sideways(s1, "left", input)
           s3 == sideways(s2, "right", input)
           s4 == softDown(s3, input)
           s5 == once(s4, "rotate", input)
           s6 == once(s5, "downGround", input)
           left0 == dasArr(c["left"], input["left"])
           right0 == dasArr(c["right"], input["right"])
           Count(s, k) == Times(s.moves, MoveOf[k])
<1>1. updated(c, b, input, random) = s6
  BY UpdatedInOrder
<1>2. /\ IsStep(s0) /\ Silent(s0) /\ s0.ctl = c /\ s0.moves = << >>
      /\ "left" \in HeldKey /\ "right" \in HeldKey /\ "rotate" \in PressedKey /\ "downGround" \in PressedKey
  BY StartIsStep DEF HeldKey, PressedKey
<1> HIDE DEF s0
<1>3. PICK v1, acts1 : Handles(s0, s1, "gravity", v1, acts1)
  BY <1>2, gravityHandles
<1>4. IsStep(s1) /\ Silent(s1)
  BY <1>3 DEF Handles
<1> HIDE DEF s1
<1>5. LET h == dasArr(s1.ctl["left"], input["left"]) IN Handles(s1, s2, "left", h.handler, h.action)
  BY <1>2, <1>4, sidewaysHandles
<1>6. IsStep(s2) /\ Silent(s2)
  BY <1>5 DEF Handles
<1> HIDE DEF s2
<1>7. LET h == dasArr(s2.ctl["right"], input["right"]) IN Handles(s2, s3, "right", h.handler, h.action)
  BY <1>2, <1>6, sidewaysHandles
<1>8. IsStep(s3) /\ Silent(s3)
  BY <1>7 DEF Handles
<1> HIDE DEF s3
<1>9. PICK v4, acts4 : Handles(s3, s4, "down", v4, acts4)
  BY <1>8, softDownHandles
<1>10. IsStep(s4) /\ Silent(s4)
  BY <1>9 DEF Handles
<1> HIDE DEF s4
<1>11. Handles(s4, s5, "rotate", input["rotate"].pressed, input["rotate"].pressed /\ ~s4.ctl["rotate"])
  BY <1>2, <1>10, onceHandles
<1>12. IsStep(s5) /\ Silent(s5)
  BY <1>11 DEF Handles
<1> HIDE DEF s5
<1>13. Handles(s5, s6, "downGround", input["downGround"].pressed, input["downGround"].pressed /\ ~s5.ctl["downGround"])
  BY <1>2, <1>12, onceHandles
<1>14. IsStep(s6) /\ Silent(s6)
  BY <1>13 DEF Handles
<1> HIDE DEF s6
<1>15. Watched = {"left", "right", "rotate", "downGround"} /\ HeldKey = {"left", "right"} /\ PressedKey = {"rotate", "downGround"}
  BY DEF Watched, HeldKey, PressedKey
<1>16. \A k \in Watched : Count(s0, k) = 0
  <2>1. \A k \in Watched : MoveOf[k] \in Move
    BY MovesDiffer
  <2> QED BY <1>2, <2>1, TimesOfNone
<1> HIDE DEF Count
<1>17. /\ \A k \in Watched : s1.ctl[k] = s0.ctl[k] /\ Count(s1, k) = Count(s0, k) + 0
  BY <1>3, <1>15 DEF Handles, Count
<1>18. /\ s2.ctl["left"] = dasArr(s1.ctl["left"], input["left"]).handler
       /\ Count(s2, "left") = Count(s1, "left") + IF dasArr(s1.ctl["left"], input["left"]).action THEN 1 ELSE 0
       /\ \A k \in {"right", "rotate", "downGround"} : s2.ctl[k] = s1.ctl[k] /\ Count(s2, k) = Count(s1, k) + 0
  BY <1>5, <1>15 DEF Handles, Count
<1>19. /\ s3.ctl["right"] = dasArr(s2.ctl["right"], input["right"]).handler
       /\ Count(s3, "right") = Count(s2, "right") + IF dasArr(s2.ctl["right"], input["right"]).action THEN 1 ELSE 0
       /\ \A k \in {"left", "rotate", "downGround"} : s3.ctl[k] = s2.ctl[k] /\ Count(s3, k) = Count(s2, k) + 0
  BY <1>7, <1>15 DEF Handles, Count
<1>20. \A k \in Watched : s4.ctl[k] = s3.ctl[k] /\ Count(s4, k) = Count(s3, k) + 0
  BY <1>9, <1>15 DEF Handles, Count
<1>21. /\ s5.ctl["rotate"] = input["rotate"].pressed
       /\ Count(s5, "rotate") = Count(s4, "rotate") + IF input["rotate"].pressed /\ ~s4.ctl["rotate"] THEN 1 ELSE 0
       /\ \A k \in {"left", "right", "downGround"} : s5.ctl[k] = s4.ctl[k] /\ Count(s5, k) = Count(s4, k) + 0
  BY <1>11, <1>15 DEF Handles, Count
<1>22. /\ s6.ctl["downGround"] = input["downGround"].pressed
       /\ Count(s6, "downGround") = Count(s5, "downGround")
            + IF input["downGround"].pressed /\ ~s5.ctl["downGround"] THEN 1 ELSE 0
       /\ \A k \in {"left", "right", "rotate"} : s6.ctl[k] = s5.ctl[k] /\ Count(s6, k) = Count(s5, k) + 0
  BY <1>13, <1>15 DEF Handles, Count
<1>23. s6.ctl["left"] = left0.handler /\ Count(s6, "left") = IF left0.action THEN 1 ELSE 0
  <2>1. s1.ctl["left"] = c["left"] /\ Count(s1, "left") = 0
    BY <1>2, <1>15, <1>16, <1>17
  <2>2. s2.ctl["left"] = left0.handler /\ Count(s2, "left") = IF left0.action THEN 1 ELSE 0
    BY <1>18, <2>1
  <2> HIDE DEF left0
  <2> QED BY <1>15, <1>19, <1>20, <1>21, <1>22, <2>2
<1>24. s6.ctl["right"] = right0.handler /\ Count(s6, "right") = IF right0.action THEN 1 ELSE 0
  <2>1. s2.ctl["right"] = c["right"] /\ Count(s2, "right") = 0
    BY <1>2, <1>15, <1>16, <1>17, <1>18
  <2>2. s3.ctl["right"] = right0.handler /\ Count(s3, "right") = IF right0.action THEN 1 ELSE 0
    BY <1>19, <2>1
  <2> HIDE DEF right0
  <2> QED BY <1>15, <1>20, <1>21, <1>22, <2>2
<1>25. /\ s6.ctl["rotate"] = input["rotate"].pressed
       /\ Count(s6, "rotate") = IF input["rotate"].pressed /\ ~c["rotate"] THEN 1 ELSE 0
  <2>1. s4.ctl["rotate"] = c["rotate"] /\ Count(s4, "rotate") = 0
    BY <1>2, <1>15, <1>16, <1>17, <1>18, <1>19, <1>20
  <2> QED BY <1>21, <1>22, <2>1
<1>26. /\ s6.ctl["downGround"] = input["downGround"].pressed
       /\ Count(s6, "downGround") = IF input["downGround"].pressed /\ ~c["downGround"] THEN 1 ELSE 0
  <2>1. s5.ctl["downGround"] = c["downGround"] /\ Count(s5, "downGround") = 0
    BY <1>2, <1>15, <1>16, <1>17, <1>18, <1>19, <1>20, <1>21
  <2> QED BY <1>22, <2>1
<1>27. s6.ctl \in Controller /\ s6.moves \in Seq(Move) /\ ~Landing(s6)
  BY <1>14, SilentDoesNotLand DEF IsStep
<1>28. /\ \A k \in HeldKey : LET h == dasArr(c[k], input[k]) IN
            s6.ctl[k] = h.handler /\ Count(s6, k) = IF h.action THEN 1 ELSE 0
       /\ \A k \in PressedKey :
            /\ s6.ctl[k] = input[k].pressed
            /\ Count(s6, k) = IF input[k].pressed /\ ~c[k] THEN 1 ELSE 0
  BY <1>15, <1>23, <1>24, <1>25, <1>26
<1>29. KeysDo(s6, c, input)
  BY <1>27, <1>28 DEF KeysDo, Count
<1> QED BY <1>1, <1>29 DEF s0, s1, s2, s3, s4, s5, s6

\* A block that lands makes left and right new, and nothing else of a watched key.
LEMMA landingKeys ==
  ASSUME NEW s, IsStep(s), s.events = << >>
  PROVE  LET t == landing(s) IN
           /\ t.ctl \in Controller /\ t.moves = s.moves /\ Landing(t)
           /\ \A k \in HeldKey : t.ctl[k] = NewDasArr
           /\ \A k \in PressedKey : t.ctl[k] = s.ctl[k]
<1> DEFINE after == [Landed(s.board, << >>).board EXCEPT !.next = s.next]
           told == <<Told("BlockCollision", s.board), Told("CurrentBlockUpdated", after)>>
           c == [[[s.ctl EXCEPT !["left"] = NewDasArr] EXCEPT !["right"] = NewDasArr] EXCEPT !["down"] = 0]
           t == landing(s)
<1>1. DOMAIN s = {"ctl", "board", "next", "moves", "events"} /\ s.ctl \in Controller
  BY DEF IsStep
<1>2. t.ctl = c /\ t.moves = s.moves /\ t.events = s.events \o told
  <2> HIDE DEF after
  <2> QED BY <1>1 DEF landing, after
<1>3. NewDasArr \in DasArr /\ 0 \in 0 .. DownWait
  BY WaitAssumption DEF NewDasArr, DasArr
<1>4. c \in Controller
  <2>1. [s.ctl EXCEPT !["left"] = NewDasArr] \in Controller
    BY <1>1, <1>3, ControllerParts
  <2>2. [[s.ctl EXCEPT !["left"] = NewDasArr] EXCEPT !["right"] = NewDasArr] \in Controller
    BY <1>3, <2>1, ControllerParts
  <2> QED BY <1>3, <2>2, ControllerParts
<1>5. /\ c["left"] = NewDasArr /\ c["right"] = NewDasArr
      /\ c["rotate"] = s.ctl["rotate"] /\ c["downGround"] = s.ctl["downGround"]
  BY <1>1 DEF Controller
<1>6. Landing(t)
  <2>1. told[1].event = "BlockCollision" /\ Len(told) = 2
    BY DEF Told
  <2> HIDE DEF told, t
  <2>2. t.events = << >> \o told
    BY <1>2
  <2>3. t.events = told
    <3>1. told = <<Told("BlockCollision", s.board), Told("CurrentBlockUpdated", after)>>
      BY DEF told
    <3> QED BY <2>2, <3>1
  <2> QED BY <2>1, <2>3 DEF Landing
<1> HIDE DEF c, t
<1> QED BY <1>2, <1>4, <1>5, <1>6 DEF HeldKey, PressedKey, t

\* While a block is down no key does anything.
LEMMA areKeys ==
  ASSUME NEW c \in Controller, c.areActive, NEW b, NEW input, NEW random
  PROVE  LET moved == updated(c, b, input, random) IN
           /\ moved.ctl \in Controller /\ moved.moves \in Seq(Move)
           /\ \A k \in HeldKey : moved.ctl[k] = IF Landing(moved) THEN NewDasArr ELSE c[k]
           /\ \A k \in PressedKey : moved.ctl[k] = c[k]
<1> DEFINE s == Step(c, b, random)
           over == [[s.ctl EXCEPT !["areActive"] = FALSE] EXCEPT !["areTimer"] = AREDuration]
           u == [[s EXCEPT !.ctl = [s.ctl EXCEPT !["areActive"] = FALSE]] EXCEPT !.ctl = over]
           t == are(s)
<1>1. updated(c, b, input, random) = t
  BY DEF updated
<1>2. IsStep(s) /\ Silent(s) /\ s.ctl = c /\ s.moves = << >> /\ s.events = << >> /\ s.board = b
  BY StartIsStep
<1>3. DOMAIN s = {"ctl", "board", "next", "moves", "events"} /\ AREDuration \in 0 .. AREDuration
  BY <1>2, WaitAssumption DEF IsStep
<1> HIDE DEF s
<1>4. CASE ~(s.ctl.areTimer <= 1)
  <2> DEFINE later == [s.ctl EXCEPT !["areTimer"] = s.ctl.areTimer - 1]
  <2>1. t = [s EXCEPT !.ctl = later]
    BY <1>4 DEF are
  <2>2. t.ctl = later /\ t.moves \in Seq(Move) /\ t.events = << >>
    <3> HIDE DEF later
    <3>1. t.ctl = later /\ t.moves = << >> /\ t.events = << >>
      BY <1>2, <1>3, <2>1
    <3> HIDE DEF t
    <3> QED BY <3>1
  <2>3. later \in Controller
    <3>1. s.ctl.areTimer \in 0 .. AREDuration
      BY <1>2 DEF Controller
    <3>2. s.ctl.areTimer - 1 \in 0 .. AREDuration
      BY <1>4, <3>1, WaitAssumption
    <3> QED BY <1>2, <3>2, ControllerParts
  <2>4. \A k \in HeldKey \cup PressedKey : later[k] = c[k]
    BY <1>2 DEF Controller, HeldKey, PressedKey
  <2>5. ~Landing(t)
    BY <2>2 DEF Landing
  <2> HIDE DEF later, t
  <2> QED BY <1>1, <2>2, <2>3, <2>4, <2>5
<1>5. CASE s.ctl.areTimer <= 1
  <2>1. t = move(u, "DownGravity")
    BY <1>3, <1>5 DEF are
  <2>2. /\ DOMAIN u = DOMAIN s /\ u.ctl = over /\ u.moves = << >> /\ u.events = << >> /\ u.board = b
    BY <1>2, <1>3
  <2>3. over \in Controller
    <3>1. [s.ctl EXCEPT !["areActive"] = FALSE] \in Controller
      BY <1>2, ControllerParts
    <3> QED BY <1>3, <3>1, ControllerParts
  <2>4. \A k \in HeldKey \cup PressedKey : over[k] = c[k]
    BY <1>2 DEF Controller, HeldKey, PressedKey
  <2> HIDE DEF u, over, t
  <2>5. "DownGravity" \in Move
    BY DEF Move
  <2>6. IsStep(u) /\ Silent(u)
    <3>1. u.moves \in Seq(Move)
      BY <2>2
    <3> QED BY <1>3, <2>2, <2>3, <3>1, NothingIsSilent DEF IsStep
  <2>7. CASE ~Lands(u.board, "DownGravity")
    <3>1. IsStep(t) /\ t.ctl = u.ctl /\ Silent(t)
      BY <2>1, <2>5, <2>6, <2>7, moveKeeps
    <3>2. ~Landing(t) /\ t.moves \in Seq(Move)
      BY <3>1, SilentDoesNotLand DEF IsStep
    <3> QED BY <1>1, <2>2, <2>3, <2>4, <3>1, <3>2
  <2>8. CASE Lands(u.board, "DownGravity")
    <3> DEFINE asks == [u EXCEPT !.moves = Append(u.moves, "DownGravity")]
    <3>1. t = landing(asks)
      BY <2>1, <2>8 DEF move
    <3>2. /\ DOMAIN asks = {"ctl", "board", "next", "moves", "events"}
          /\ asks.ctl = over /\ asks.events = << >> /\ asks.moves \in Seq(Move)
      <4>1. Append(u.moves, "DownGravity") \in Seq(Move)
        BY <2>5, <2>6 DEF IsStep
      <4> QED BY <1>3, <2>2, <4>1
    <3> HIDE DEF asks
    <3>3. IsStep(asks)
      BY <2>3, <3>2 DEF IsStep
    <3>4. /\ t.ctl \in Controller /\ t.moves = asks.moves /\ Landing(t)
          /\ \A k \in HeldKey : t.ctl[k] = NewDasArr
          /\ \A k \in PressedKey : t.ctl[k] = asks.ctl[k]
      BY <3>1, <3>2, <3>3, landingKeys
    <3> QED BY <1>1, <2>4, <3>2, <3>4
  <2> QED BY <2>7, <2>8
<1> QED BY <1>4, <1>5

-----------------------------------------------------------------------------
(* What is always so of a key: kb and dv are what keyboard and device know of it, a what is asked of it,    *)
(* h what its handler has kept.                                                                            *)

Again == "HeldForNextBlock"
InOneFrame == "DownAndUpInOneFrame"

\* The press is one that has to be taken rightly.
Clean(a) == a.missed \subseteq {Again}

\* The device knows of all the keyboard does.  What is pressed but not released is down, and the other way round.
Copies(kb, dv, a) ==
  /\ dv.held = kb.held
  /\ kb.pressed => dv.pressed
  /\ InOneFrame \notin a.missed => IF kb.held THEN ~kb.released /\ ~dv.released ELSE ~kb.pressed /\ ~dv.pressed

\* Of a press that is answered by a move at once b is 1, of one that was held before the block came it
\* may be 0.  Then the updates and the moves so far are those of the delay, or of the delay and m repeats.
InTime(a, h, b) ==
  \/ h.inDelayPhase /\ h.elapsed < DAS /\ a.since = b + h.elapsed /\ a.moves = b
  \/ /\ ~h.inDelayPhase /\ h.elapsed < ARR
     /\ \E m \in 0 .. 2 : a.since = b + DAS + m * ARR + h.elapsed /\ a.moves = b + 1 + m

MovesDue(since) == 1 + (IF since > DAS THEN 1 + (since - 1 - DAS) \div ARR ELSE 0)

HeldRight(kb, dv, a, h) ==
  /\ Copies(kb, dv, a)
  /\ a.upSeen /\ ~kb.held => ~h.previouslyHeld
  /\ kb.held /\ Clean(a) /\ a.since = 0 =>
       /\ a.moves = 0 /\ ~h.previouslyHeld
       /\ IF Again \in a.missed THEN h = NewDasArr ELSE dv.pressed
  /\ kb.held /\ Clean(a) /\ a.since > 0 /\ a.since < MaxSince =>
       h.previouslyHeld /\ (InTime(a, h, 1) \/ (Again \in a.missed /\ InTime(a, h, 0)))
  /\ kb.held /\ a.missed = {} /\ a.since > 0 => a.moves > 0
  /\ Clean(a) => a.moves <= MovesDue(a.since)

PressedRight(kb, dv, a, wasPressed) ==
  /\ Copies(kb, dv, a)
  /\ a.upSeen /\ ~kb.held => ~wasPressed /\ ~dv.pressed
  /\ kb.held /\ Clean(a) /\ a.since = 0 =>
       a.moves = 0 /\ (Again \in a.missed \/ (dv.pressed /\ ~wasPressed))
  /\ kb.held /\ Clean(a) /\ (a.since > 0 \/ Again \in a.missed) => (dv.pressed => wasPressed)
  /\ kb.held /\ a.missed = {} /\ a.since > 0 => a.moves > 0
  /\ Clean(a) => a.moves <= 1

\* An update has counted for a key: n moves of it, while a block was down or not, which landed or not.
CountedAs(kb, dv, a, b, n, active, lands) ==
  \/ /\ lands /\ a.since > 0 /\ kb.held
     /\ b.since = 0 /\ b.moves = 0 /\ b.upSeen = a.upSeen /\ b.missed = a.missed \cup {Again}
  \/ /\ ~(lands /\ a.since > 0 /\ kb.held)
     /\ active \/ a.since = MaxSince
     /\ b = a
  \/ /\ ~active /\ ~lands /\ a.since # MaxSince
     /\ b.since = (IF kb.held THEN a.since + 1 ELSE a.since)
     /\ b.moves = (IF a.moves + n > MaxMoves THEN MaxMoves ELSE a.moves + n)
     /\ b.upSeen = (a.upSeen \/ ~(kb.held \/ dv.pressed))
     /\ b.missed = a.missed

LEMMA DivAtLeast ==
  ASSUME NEW x \in Nat, NEW m \in 0 .. 3, NEW d \in Nat \ {0}, x >= m * d
  PROVE  x \div d \in Nat /\ x \div d >= m
<1>1. x \div d \in Int /\ x % d \in 0 .. (d - 1) /\ x = d * (x \div d) + (x % d)
  BY SMT
<1> DEFINE q == x \div d
           r == x % d
<1> HIDE DEF q, r
<1>2. q \in Int /\ r \in 0 .. (d - 1) /\ x = d * q + r
  BY <1>1 DEF q, r
<1>3. q >= m
  <2> SUFFICES ASSUME q <= m - 1 PROVE FALSE
    BY <1>2
  <2>1. d * q <= d * (m - 1)
    BY <1>2
  <2> QED BY <1>2, <2>1
<1> QED BY <1>2, <1>3 DEF q

-----------------------------------------------------------------------------
(* The events of a frame *)

LEMMA WaitsAreLong ==
  /\ DAS \in Nat /\ ARR \in Nat /\ DAS > 0 /\ ARR > 0 /\ ARR <= DAS
  /\ MaxSince \in Nat /\ MaxSince = DAS + 2 * ARR + 1
<1>1. DAS \in Nat \ {0} /\ ARR \in Nat \ {0} /\ ARR <= DAS
  BY WaitAssumption
<1> QED BY <1>1 DEF MaxSince

LEMMA MovesAtFirst ==
  ASSUME NEW since \in Nat, since <= DAS
  PROVE  MovesDue(since) = 1
<1> DEFINE more == 1 + (since - 1 - DAS) \div ARR
<1>1. ~(since > DAS)
  BY WaitsAreLong
<1>2. MovesDue(since) = 1 + (IF since > DAS THEN more ELSE 0)
  BY DEF MovesDue
<1> HIDE DEF more
<1> QED BY <1>1, <1>2

LEMMA MovesLater ==
  ASSUME NEW since \in Nat, NEW m \in 0 .. 3, since - 1 - DAS >= m * ARR
  PROVE  MovesDue(since) \in Nat /\ MovesDue(since) >= m + 2
<1> DEFINE x == since - 1 - DAS
<1>1. x \in Nat /\ since > DAS
  <2>1. m * ARR \in Nat
    BY WaitsAreLong
  <2> QED BY <2>1, WaitsAreLong
<1>2. MovesDue(since) = 1 + (IF since > DAS THEN 1 + (x \div ARR) ELSE 0)
  BY DEF MovesDue
<1>3. ARR \in Nat \ {0} /\ x >= m * ARR
  BY WaitsAreLong
<1> HIDE DEF x
<1>4. x \div ARR \in Nat /\ x \div ARR >= m
  BY <1>1, <1>3, DivAtLeast
<1> QED BY <1>1, <1>2, <1>4

LEMMA MovesAtLeastOne ==
  ASSUME NEW since \in Nat
  PROVE  MovesDue(since) \in Nat /\ MovesDue(since) >= 1
<1>1. CASE since <= DAS
  BY <1>1, MovesAtFirst
<1>2. CASE since > DAS
  <2>1. since - 1 - DAS >= 0 * ARR
    BY <1>2, WaitsAreLong
  <2>2. MovesDue(since) \in Nat /\ MovesDue(since) >= 0 + 2
    BY <2>1, MovesLater
  <2> QED BY <2>2
<1> QED BY <1>1, <1>2, WaitsAreLong

\* The moves of the delay and m repeats are due when their waits are over.
LEMMA InTimeIsDue ==
  ASSUME NEW since \in Nat, NEW first \in {0, 1}, NEW m \in 0 .. 3, NEW elapsed \in Nat,
         since = first + DAS + m * ARR + elapsed
  PROVE  MovesDue(since) \in Nat /\ first + 1 + m <= MovesDue(since)
<1>1. m * ARR \in Nat
  BY WaitsAreLong
<1>2. CASE first = 1
  <2>1. since - 1 - DAS >= m * ARR
    BY <1>1, <1>2, WaitsAreLong
  <2> QED BY <1>2, <2>1, MovesLater
<1>3. CASE first = 0 /\ m = 0
  BY <1>3, MovesAtLeastOne
<1>4. CASE first = 0 /\ m # 0
  <2>1. m - 1 \in 0 .. 3 /\ (m - 1) * ARR = m * ARR - ARR /\ (m - 1) * ARR \in Nat
    BY <1>4, WaitsAreLong
  <2>2. since - 1 - DAS >= (m - 1) * ARR
    BY <1>1, <1>4, <2>1, WaitsAreLong
  <2>3. MovesDue(since) \in Nat /\ MovesDue(since) >= (m - 1) + 2
    BY <2>1, <2>2, MovesLater
  <2> QED BY <1>4, <2>3
<1> QED BY <1>2, <1>3, <1>4

LEMMA GoesDown ==
  ASSUME NEW kb \in KeyState, NEW dv \in KeyState, NEW a \in Asked, NEW b \in Asked, Copies(kb, dv, a),
         ~kb.held, NEW kb2 \in KeyState, kb2.held, kb2.pressed, kb2.released = kb.released,
         b.since = 0, b.moves = 0, b.upSeen = a.upSeen, Again \notin b.missed,
         kb.released => InOneFrame \in b.missed, ~a.upSeen => "UpNotSeen" \in b.missed
  PROVE  /\ \A h \in DasArr : HeldRight(kb, dv, a, h) => HeldRight(kb2, kb2, b, h)
         /\ \A c \in BOOLEAN : PressedRight(kb, dv, a, c) => PressedRight(kb2, kb2, b, c)
<1>1. Copies(kb2, kb2, b)
  BY DEF Copies
<1>2. Clean(b) => a.upSeen
  <2>1. "UpNotSeen" # Again
    BY DEF Again
  <2> QED BY <2>1 DEF Clean
<1>3. MovesDue(0) = 1 /\ ~(b.since > 0) /\ b.moves <= 1
  <2>1. 0 \in Nat /\ 0 <= DAS
    BY WaitsAreLong
  <2>2. MovesDue(0) = 1
    BY <2>1, MovesAtFirst
  <2>3. b.since = 0 /\ b.moves = 0
    OBVIOUS
  <2> QED BY <2>2, <2>3
<1>4. ASSUME NEW h \in DasArr, HeldRight(kb, dv, a, h)
      PROVE  HeldRight(kb2, kb2, b, h)
  <2>1. a.upSeen => ~h.previouslyHeld
    BY <1>4 DEF HeldRight
  <2> QED BY <1>1, <1>2, <1>3, <2>1 DEF HeldRight
<1>5. ASSUME NEW c \in BOOLEAN, PressedRight(kb, dv, a, c)
      PROVE  PressedRight(kb2, kb2, b, c)
  <2>1. a.upSeen => ~c
    BY <1>5 DEF PressedRight
  <2> QED BY <1>1, <1>2, <1>3, <2>1 DEF PressedRight
<1> QED BY <1>4, <1>5

LEMMA GoesUp ==
  ASSUME NEW kb \in KeyState, NEW dv \in KeyState, NEW a \in Asked, NEW b \in Asked, Copies(kb, dv, a),
         kb.held, NEW kb2 \in KeyState, ~kb2.held, kb2.pressed = kb.pressed, kb2.released,
         b.moves = a.moves, b.since = a.since, ~b.upSeen, a.missed \subseteq b.missed,
         kb.pressed => InOneFrame \in b.missed
  PROVE  /\ \A h \in DasArr : HeldRight(kb, dv, a, h) => HeldRight(kb2, kb2, b, h)
         /\ \A c \in BOOLEAN : PressedRight(kb, dv, a, c) => PressedRight(kb2, kb2, b, c)
<1>1. Copies(kb2, kb2, b)
  BY DEF Copies
<1>2. Clean(b) => Clean(a)
  BY DEF Clean
<1>3. ASSUME NEW h \in DasArr, HeldRight(kb, dv, a, h)
      PROVE  HeldRight(kb2, kb2, b, h)
  <2>1. Clean(a) => a.moves <= MovesDue(a.since)
    BY <1>3 DEF HeldRight
  <2> QED BY <1>1, <1>2, <2>1 DEF HeldRight
<1>4. ASSUME NEW c \in BOOLEAN, PressedRight(kb, dv, a, c)
      PROVE  PressedRight(kb2, kb2, b, c)
  <2>1. Clean(a) => a.moves <= 1
    BY <1>4 DEF PressedRight
  <2> QED BY <1>1, <1>2, <2>1 DEF PressedRight
<1> QED BY <1>3, <1>4

\* Another key went down or up: the device has a new copy of this one.
LEMMA IsCopied ==
  ASSUME NEW kb \in KeyState, NEW dv \in KeyState, NEW a \in Asked, NEW b \in Asked, Copies(kb, dv, a),
         b.since = a.since, b.moves = a.moves, b.upSeen = a.upSeen,
         \/ kb.held /\ a.since = 0 /\ ~kb.pressed /\ b.missed = a.missed \cup {"CopiedTooLate"}
         \/ ~(kb.held /\ a.since = 0 /\ ~kb.pressed) /\ b.missed = a.missed
  PROVE  /\ \A h \in DasArr : HeldRight(kb, dv, a, h) => HeldRight(kb, kb, b, h)
         /\ \A c \in BOOLEAN : PressedRight(kb, dv, a, c) => PressedRight(kb, kb, b, c)
<1>1. CASE kb.held /\ a.since = 0 /\ ~kb.pressed /\ b.missed = a.missed \cup {"CopiedTooLate"}
  <2>1. ~Clean(b) /\ b.missed # {}
    <3>1. "CopiedTooLate" # Again /\ "CopiedTooLate" \in b.missed
      BY <1>1 DEF Again
    <3> QED BY <3>1 DEF Clean
  <2>2. Copies(kb, kb, b)
    BY <1>1 DEF Copies, InOneFrame
  <2>3. ASSUME NEW h \in DasArr, HeldRight(kb, dv, a, h)
        PROVE  HeldRight(kb, kb, b, h)
    BY <1>1, <2>1, <2>2 DEF HeldRight
  <2>4. ASSUME NEW c \in BOOLEAN, PressedRight(kb, dv, a, c)
        PROVE  PressedRight(kb, kb, b, c)
    BY <1>1, <2>1, <2>2 DEF PressedRight
  <2> QED BY <2>3, <2>4
<1>2. CASE ~(kb.held /\ a.since = 0 /\ ~kb.pressed) /\ b.missed = a.missed
  <2>1. Copies(kb, kb, b) /\ (kb.pressed => dv.pressed) /\ (Clean(b) <=> Clean(a))
    BY <1>2 DEF Copies, Clean
  <2>2. ASSUME NEW h \in DasArr, HeldRight(kb, dv, a, h)
        PROVE  HeldRight(kb, kb, b, h)
    BY <1>2, <2>1, <2>2 DEF HeldRight, InTime
  <2>3. ASSUME NEW c \in BOOLEAN, PressedRight(kb, dv, a, c)
        PROVE  PressedRight(kb, kb, b, c)
    BY <1>2, <2>1, <2>3 DEF PressedRight
  <2> QED BY <2>2, <2>3
<1> QED BY <1>1, <1>2

LEMMA FrameIsOver ==
  ASSUME NEW kb \in KeyState, NEW dv \in KeyState, NEW a \in Asked, Copies(kb, dv, a),
         NEW kb2 \in KeyState, kb2.held = kb.held, ~kb2.pressed, ~kb2.released
  PROVE  /\ \A h \in DasArr : HeldRight(kb, dv, a, h) => HeldRight(kb2, dv, a, h)
         /\ \A c \in BOOLEAN : PressedRight(kb, dv, a, c) => PressedRight(kb2, dv, a, c)
<1>1. Copies(kb2, dv, a)
  BY DEF Copies
<1> QED BY <1>1 DEF HeldRight, PressedRight

-----------------------------------------------------------------------------
(* An update, for left and right *)

LEMMA dasArrReleased ==
  ASSUME NEW h \in DasArr, NEW key \in KeyState, ~key.held
  PROVE  /\ ~dasArr(h, key).handler.previouslyHeld
         /\ ~key.pressed => ~dasArr(h, key).action
BY DEF dasArr

LEMMA dasArrPressed ==
  ASSUME NEW h \in DasArr, NEW key \in KeyState, key.held, ~key.released, key.pressed, ~h.previouslyHeld
  PROVE  LET d == dasArr(h, key) IN
           /\ d.action /\ d.handler.elapsed = 0 /\ d.handler.inDelayPhase /\ d.handler.previouslyHeld
BY DEF dasArr

LEMMA dasArrHeld ==
  ASSUME NEW h \in DasArr, NEW key \in KeyState, key.held, ~key.released, ~(key.pressed /\ ~h.previouslyHeld),
         NEW wait \in Nat, wait = IF h.inDelayPhase THEN DAS ELSE ARR, h.elapsed < wait
  PROVE  LET d == dasArr(h, key) IN
           /\ d.handler.previouslyHeld
           /\ h.elapsed + 1 = wait => d.action /\ d.handler.elapsed = 0 /\ ~d.handler.inDelayPhase
           /\ h.elapsed + 1 < wait =>
                ~d.action /\ d.handler.elapsed = h.elapsed + 1 /\ (d.handler.inDelayPhase <=> h.inDelayPhase)
<1> DEFINE elapsed == Passed(h.elapsed, DAS)
           d == dasArr(h, key)
<1>1. h.elapsed \in 0 .. DAS /\ DAS \in Nat /\ ARR \in Nat /\ ARR <= DAS /\ h.inDelayPhase \in BOOLEAN
  BY WaitsAreLong DEF DasArr
<1>2. wait <= DAS
  BY <1>1
<1>3. elapsed = h.elapsed + 1
  BY <1>1, <1>2, PassedBounds
<1> HIDE DEF elapsed
<1> DEFINE pressed == key.pressed /\ ~h.previouslyHeld
           repeated == ~pressed /\ key.held /\ elapsed >= (IF h.inDelayPhase THEN DAS ELSE ARR)
<1>4. /\ d.action = (pressed \/ repeated)
      /\ d.handler.elapsed = (IF pressed \/ repeated THEN 0 ELSE elapsed)
      /\ d.handler.inDelayPhase = (pressed \/ key.released \/ (h.inDelayPhase /\ ~repeated))
      /\ d.handler.previouslyHeld = (key.held /\ ~key.released)
  BY DEF dasArr, elapsed
<1>5. ~pressed /\ (repeated <=> elapsed >= wait)
  OBVIOUS
<1> HIDE DEF d, pressed, repeated
<1>6. d.handler.previouslyHeld
  BY <1>4
<1>7. CASE h.elapsed + 1 = wait
  <2>1. repeated /\ ~(h.elapsed + 1 < wait)
    BY <1>1, <1>3, <1>5, <1>7
  <2>2. d.action /\ d.handler.elapsed = 0 /\ ~d.handler.inDelayPhase
    BY <1>4, <1>5, <2>1
  <2> QED BY <1>6, <2>1, <2>2 DEF d
<1>8. CASE h.elapsed + 1 < wait
  <2>1. ~repeated /\ ~(h.elapsed + 1 = wait)
    BY <1>1, <1>3, <1>5, <1>8
  <2>2. ~d.action /\ d.handler.elapsed = h.elapsed + 1
    BY <1>3, <1>4, <1>5, <2>1
  <2>3. d.handler.inDelayPhase <=> h.inDelayPhase
    BY <1>1, <1>4, <1>5, <2>1
  <2> QED BY <1>6, <2>1, <2>2, <2>3 DEF d
<1>9. h.elapsed + 1 = wait \/ h.elapsed + 1 < wait
  BY <1>1
<1> QED BY <1>7, <1>8, <1>9

\* The first update of a press: a move, or for a key that was held before a part of the delay.
LEMMA InTimeAtFirst ==
  ASSUME NEW kb \in KeyState, NEW dv \in KeyState, NEW a \in Asked, NEW b \in Asked, NEW h \in DasArr, NEW h2 \in DasArr,
         HeldRight(kb, dv, a, h), kb.held, Clean(a), a.since = 0,
         h2 = dasArr(h, dv).handler, NEW n, n = IF dasArr(h, dv).action THEN 1 ELSE 0,
         b.since = 1, b.moves = a.moves + n, b.missed = a.missed
  PROVE  h2.previouslyHeld /\ (InTime(b, h2, 1) \/ (Again \in b.missed /\ InTime(b, h2, 0)))
<1>1. a.moves = 0 /\ ~h.previouslyHeld /\ (Again \notin a.missed => dv.pressed) /\ (Again \in a.missed => h = NewDasArr)
  BY DEF HeldRight
<1>2. dv.held /\ ~dv.released
  <2>1. InOneFrame \notin a.missed
    BY DEF Clean, Again, InOneFrame
  <2> QED BY <2>1 DEF HeldRight, Copies
<1> DEFINE d == dasArr(h, dv)
<1>3. CASE dv.pressed
  <2>1. d.action /\ d.handler.elapsed = 0 /\ d.handler.inDelayPhase /\ d.handler.previouslyHeld
    BY <1>1, <1>2, <1>3, dasArrPressed
  <2> HIDE DEF d
  <2>2. n = 1 /\ h2 = d.handler
    BY <2>1 DEF d
  <2>3. b.moves = 1
    BY <1>1, <2>2
  <2>4. InTime(b, h2, 1)
    BY <2>1, <2>2, <2>3, WaitsAreLong DEF InTime
  <2> QED BY <2>1, <2>2, <2>4
<1>4. CASE ~dv.pressed
  <2>1. h = NewDasArr /\ Again \in b.missed
    BY <1>1, <1>4
  <2>2. h.elapsed = 0 /\ h.inDelayPhase
    BY <2>1 DEF NewDasArr
  <2>3. /\ d.handler.previouslyHeld
        /\ h.elapsed + 1 = DAS => d.action /\ d.handler.elapsed = 0 /\ ~d.handler.inDelayPhase
        /\ h.elapsed + 1 < DAS =>
             ~d.action /\ d.handler.elapsed = h.elapsed + 1 /\ (d.handler.inDelayPhase <=> h.inDelayPhase)
    <3>1. DAS \in Nat /\ DAS = (IF h.inDelayPhase THEN DAS ELSE ARR) /\ h.elapsed < DAS
      BY <2>2, WaitsAreLong
    <3> QED BY <1>2, <1>4, <3>1, dasArrHeld
  <2> HIDE DEF d
  <2>4. h2 = d.handler /\ n = IF d.action THEN 1 ELSE 0
    BY DEF d
  <2>5. CASE DAS = 1
    <3>1. b.moves = 1 /\ h2.elapsed = 0 /\ ~h2.inDelayPhase
      BY <1>1, <2>2, <2>3, <2>4, <2>5
    <3>2. 0 \in 0 .. 2 /\ 0 * ARR = 0 /\ 0 < ARR
      BY WaitsAreLong
    <3>3. b.since = 0 + DAS + 0 * ARR + h2.elapsed /\ b.moves = 0 + 1 + 0
      BY <2>5, <3>1, <3>2
    <3>4. InTime(b, h2, 0)
      BY <3>1, <3>2, <3>3 DEF InTime
    <3> QED BY <2>1, <2>3, <2>4, <3>4
  <2>6. CASE DAS # 1
    <3>1. b.moves = 0 /\ h2.elapsed = 1 /\ h2.inDelayPhase /\ 1 < DAS
      BY <1>1, <2>2, <2>3, <2>4, <2>6, WaitsAreLong
    <3>2. InTime(b, h2, 0)
      BY <3>1 DEF InTime
    <3> QED BY <2>1, <2>3, <2>4, <3>2
  <2> QED BY <2>5, <2>6
<1> QED BY <1>3, <1>4

\* A later update of a press: the waits and the moves go on together.
LEMMA InTimeGoesOn ==
  ASSUME NEW kb \in KeyState, NEW dv \in KeyState, NEW a \in Asked, NEW b \in Asked, NEW h \in DasArr, NEW h2 \in DasArr,
         HeldRight(kb, dv, a, h), kb.held, Clean(a), a.since > 0, a.since < MaxSince,
         h2 = dasArr(h, dv).handler, NEW n \in {0, 1}, n = IF dasArr(h, dv).action THEN 1 ELSE 0,
         b.since = a.since + 1, b.moves = (IF a.moves + n > MaxMoves THEN MaxMoves ELSE a.moves + n), b.missed = a.missed,
         NEW first \in {0, 1}, InTime(a, h, first)
  PROVE  /\ h2.previouslyHeld
         /\ b.since < MaxSince => InTime(b, h2, first)
         /\ b.moves <= MovesDue(b.since)
         /\ b.moves >= a.moves
<1>1. h.previouslyHeld
  BY DEF HeldRight
<1>2. dv.held /\ ~dv.released
  <2>1. InOneFrame \notin a.missed
    BY DEF Clean, Again, InOneFrame
  <2> QED BY <2>1 DEF HeldRight, Copies
<1> DEFINE d == dasArr(h, dv)
           wait == IF h.inDelayPhase THEN DAS ELSE ARR
<1>3. /\ h.elapsed \in Nat /\ a.since \in Nat /\ a.moves \in 0 .. MaxMoves /\ h.inDelayPhase \in BOOLEAN
      /\ b.since \in Nat /\ b.moves \in 0 .. MaxMoves /\ MaxMoves = 5
  BY WaitsAreLong DEF DasArr, Asked, MaxMoves
<1>4. wait \in Nat /\ h.elapsed < wait
  BY WaitsAreLong DEF InTime
<1>5. /\ d.handler.previouslyHeld
      /\ h.elapsed + 1 = wait => d.action /\ d.handler.elapsed = 0 /\ ~d.handler.inDelayPhase
      /\ h.elapsed + 1 < wait =>
           ~d.action /\ d.handler.elapsed = h.elapsed + 1 /\ (d.handler.inDelayPhase <=> h.inDelayPhase)
  <2> DEFINE w == wait
  <2>1. w \in Nat /\ w = (IF h.inDelayPhase THEN DAS ELSE ARR) /\ h.elapsed < w
    BY <1>4
  <2> HIDE DEF w, d
  <2>2. /\ d.handler.previouslyHeld
        /\ h.elapsed + 1 = w => d.action /\ d.handler.elapsed = 0 /\ ~d.handler.inDelayPhase
        /\ h.elapsed + 1 < w =>
             ~d.action /\ d.handler.elapsed = h.elapsed + 1 /\ (d.handler.inDelayPhase <=> h.inDelayPhase)
    BY <1>1, <1>2, <2>1, dasArrHeld DEF d
  <2> QED BY <2>2 DEF w
<1> HIDE DEF d
<1>6. h2 = d.handler /\ n = IF d.action THEN 1 ELSE 0
  BY DEF d
<1>7. 0 \in 0 .. 2 /\ 0 * ARR = 0 /\ 1 * ARR = ARR /\ 2 * ARR = ARR + ARR /\ 3 * ARR = ARR + ARR + ARR
  BY WaitsAreLong
<1>8. CASE h.inDelayPhase /\ a.since = first + h.elapsed /\ a.moves = first
  <2>1. CASE h.elapsed + 1 < DAS
    <3>1. b.moves = first /\ h2.elapsed = h.elapsed + 1 /\ h2.inDelayPhase /\ h2.previouslyHeld
      BY <1>3, <1>5, <1>6, <1>8, <2>1
    <3>2. InTime(b, h2, first)
      BY <1>3, <1>8, <2>1, <3>1 DEF InTime
    <3> QED BY <1>3, <1>8, <3>1, <3>2, MovesAtLeastOne
  <2>2. CASE h.elapsed + 1 = DAS
    <3>1. b.moves = first + 1 /\ h2.elapsed = 0 /\ ~h2.inDelayPhase /\ h2.previouslyHeld
      BY <1>3, <1>5, <1>6, <1>8, <2>2
    <3>2. b.since = first + DAS + 0 * ARR + h2.elapsed /\ b.moves = first + 1 + 0
      BY <1>3, <1>7, <1>8, <2>2, <3>1, WaitsAreLong
    <3>3. InTime(b, h2, first)
      BY <1>7, <3>1, <3>2, WaitsAreLong DEF InTime
    <3>4. MovesDue(b.since) \in Nat /\ b.moves <= MovesDue(b.since)
      BY <1>3, <3>2, <3>1, InTimeIsDue, <1>7
    <3> QED BY <1>3, <1>8, <3>1, <3>3, <3>4
  <2> QED BY <1>3, <1>4, <1>8, <2>1, <2>2, WaitsAreLong
<1>9. ASSUME NEW m \in 0 .. 2, ~h.inDelayPhase, a.since = first + DAS + m * ARR + h.elapsed, a.moves = first + 1 + m
      PROVE  /\ h2.previouslyHeld
             /\ b.since < MaxSince => InTime(b, h2, first)
             /\ b.moves <= MovesDue(b.since)
             /\ b.moves >= a.moves
  <2>1. m * ARR \in Nat /\ (m + 1) * ARR = m * ARR + ARR /\ m + 1 \in 0 .. 3
    BY <1>7, WaitsAreLong
  <2>2. CASE h.elapsed + 1 < ARR
    <3>1. b.moves = first + 1 + m /\ h2.elapsed = h.elapsed + 1 /\ ~h2.inDelayPhase /\ h2.previouslyHeld
      BY <1>3, <1>5, <1>6, <1>9, <2>2
    <3>2. b.since = first + DAS + m * ARR + h2.elapsed
      BY <1>3, <1>9, <2>1, <3>1, WaitsAreLong
    <3>3. InTime(b, h2, first)
      BY <2>2, <3>1, <3>2, WaitsAreLong DEF InTime
    <3>4. MovesDue(b.since) \in Nat /\ b.moves <= MovesDue(b.since)
      BY <1>3, <3>1, <3>2, InTimeIsDue
    <3> QED BY <1>3, <1>9, <3>1, <3>3, <3>4
  <2>3. CASE h.elapsed + 1 = ARR
    <3>1. h2.elapsed = 0 /\ ~h2.inDelayPhase /\ h2.previouslyHeld /\ n = 1
      BY <1>5, <1>6, <1>9, <2>3
    <3>2. b.moves = first + 1 + (m + 1)
      BY <1>3, <1>9, <3>1, <1>7, <2>3, WaitsAreLong
    <3>3. b.since = first + DAS + (m + 1) * ARR + h2.elapsed
      BY <1>3, <1>9, <2>1, <2>3, <3>1, WaitsAreLong
    <3>4. b.since < MaxSince => m + 1 \in 0 .. 2
      BY <1>3, <1>7, <2>1, <3>1, <3>3, WaitsAreLong
    <3>5. b.since < MaxSince => InTime(b, h2, first)
      BY <3>1, <3>2, <3>3, <3>4, WaitsAreLong DEF InTime
    <3>6. MovesDue(b.since) \in Nat /\ b.moves <= MovesDue(b.since)
      BY <1>3, <2>1, <3>1, <3>2, <3>3, InTimeIsDue
    <3> QED BY <1>3, <1>9, <3>1, <3>2, <3>5, <3>6
  <2> QED BY <1>3, <1>4, <1>9, <2>2, <2>3, WaitsAreLong
<1> QED BY <1>8, <1>9 DEF InTime

LEMMA HeldIsCounted ==
  ASSUME NEW kb \in KeyState, NEW dv \in KeyState, NEW a \in Asked, NEW b \in Asked, NEW h \in DasArr, NEW h2 \in DasArr,
         HeldRight(kb, dv, a, h), NEW active \in BOOLEAN, NEW lands \in BOOLEAN, NEW n, CountedAs(kb, dv, a, b, n, active, lands),
         active => h2 = IF lands THEN NewDasArr ELSE h,
         ~active => ~lands /\ h2 = dasArr(h, dv).handler /\ n = IF dasArr(h, dv).action THEN 1 ELSE 0
  PROVE  HeldRight(kb, dv, b, h2)
<1>1. Copies(kb, dv, a) /\ dv.held = kb.held
  BY DEF HeldRight, Copies
<1>2. ~NewDasArr.previouslyHeld
  BY DEF NewDasArr
<1>3. CASE /\ lands /\ a.since > 0 /\ kb.held
           /\ b.since = 0 /\ b.moves = 0 /\ b.upSeen = a.upSeen /\ b.missed = a.missed \cup {Again}
  <2>1. h2 = NewDasArr
    BY <1>3
  <2>2. Copies(kb, dv, b)
    BY <1>1, <1>3 DEF Copies, Again, InOneFrame
  <2>3. b.moves <= MovesDue(b.since) /\ ~(b.since > 0)
    <3>1. 0 \in Nat
      OBVIOUS
    <3>2. MovesDue(0) \in Nat /\ MovesDue(0) >= 1
      BY <3>1, MovesAtLeastOne
    <3> QED BY <1>3, <3>2
  <2> QED BY <1>2, <1>3, <2>1, <2>2, <2>3 DEF HeldRight
<1>4. CASE /\ ~(lands /\ a.since > 0 /\ kb.held)
           /\ active \/ a.since = MaxSince
           /\ b = a
  <2>1. CASE active /\ ~lands
    BY <1>4, <2>1
  <2>2. CASE active /\ lands
    <3>1. h2 = NewDasArr /\ b = a /\ ~(a.since > 0 /\ kb.held)
      BY <1>4, <2>2
    <3>2. /\ a.upSeen /\ ~kb.held => ~h2.previouslyHeld
          /\ kb.held /\ Clean(a) /\ a.since = 0 =>
               /\ a.moves = 0 /\ ~h2.previouslyHeld
               /\ IF Again \in a.missed THEN h2 = NewDasArr ELSE dv.pressed
          /\ kb.held /\ a.missed = {} /\ a.since > 0 => a.moves > 0
          /\ Clean(a) => a.moves <= MovesDue(a.since)
      BY <1>2, <3>1 DEF HeldRight
    <3> QED BY <1>1, <3>1, <3>2 DEF HeldRight
  <2>3. CASE ~active
    <3>1. b = a /\ a.since = MaxSince /\ MaxSince > 0 /\ MaxSince \in Nat
      BY <1>4, <2>3, WaitsAreLong
    <3>2. ~kb.held => ~h2.previouslyHeld
      BY <1>1, <2>3, dasArrReleased
    <3>3. /\ kb.held /\ a.missed = {} /\ a.since > 0 => a.moves > 0
          /\ Clean(a) => a.moves <= MovesDue(a.since)
      BY DEF HeldRight
    <3>4. ~(a.since = 0) /\ ~(a.since < MaxSince)
      BY <3>1
    <3> QED BY <1>1, <3>1, <3>2, <3>3, <3>4 DEF HeldRight
  <2> QED BY <2>1, <2>2, <2>3
<1>5. CASE /\ ~active /\ ~lands /\ a.since # MaxSince
           /\ b.since = (IF kb.held THEN a.since + 1 ELSE a.since)
           /\ b.moves = (IF a.moves + n > MaxMoves THEN MaxMoves ELSE a.moves + n)
           /\ b.upSeen = (a.upSeen \/ ~(kb.held \/ dv.pressed))
           /\ b.missed = a.missed
  <2>1. h2 = dasArr(h, dv).handler /\ n = IF dasArr(h, dv).action THEN 1 ELSE 0
    BY <1>5
  <2>2. /\ Copies(kb, dv, b) /\ (Clean(b) <=> Clean(a)) /\ n \in {0, 1}
        /\ a.since \in Nat /\ a.since < MaxSince /\ a.moves \in 0 .. MaxMoves /\ MaxMoves = 5
    BY <1>1, <1>5, <2>1, WaitsAreLong DEF Copies, Clean, Asked, MaxMoves
  <2>3. CASE ~kb.held
    <3>1. ~h2.previouslyHeld
      BY <1>1, <2>1, <2>3, dasArrReleased
    <3>2. Clean(a) => n = 0
      <4>1. Clean(a) => ~dv.pressed
        BY <1>1, <2>3 DEF Copies, Clean, Again, InOneFrame
      <4> QED BY <1>1, <2>1, <2>3, <4>1, dasArrReleased
    <3>3. Clean(b) => b.moves <= MovesDue(b.since)
      <4>1. Clean(a) => a.moves <= MovesDue(a.since)
        BY DEF HeldRight
      <4> QED BY <1>5, <2>2, <2>3, <3>2, <4>1
    <3> QED BY <2>2, <2>3, <3>1, <3>3 DEF HeldRight
  <2>4. CASE kb.held /\ ~Clean(a)
    <3>1. b.missed # {}
      BY <1>5, <2>4 DEF Clean
    <3> QED BY <2>2, <2>4, <3>1 DEF HeldRight
  <2>5. CASE kb.held /\ Clean(a) /\ a.since = 0
    <3>1. b.since = 1 /\ b.moves = a.moves + n /\ a.moves = 0
      <4>1. a.moves = 0
        BY <2>5 DEF HeldRight
      <4> QED BY <1>5, <2>2, <2>5, <4>1
    <3>2. h2.previouslyHeld /\ (InTime(b, h2, 1) \/ (Again \in b.missed /\ InTime(b, h2, 0)))
      BY <1>5, <2>1, <2>5, <3>1, InTimeAtFirst
    <3>3. b.moves <= MovesDue(b.since)
      <4>1. 1 \in Nat
        OBVIOUS
      <4>2. MovesDue(1) \in Nat /\ MovesDue(1) >= 1
        BY <4>1, MovesAtLeastOne
      <4> QED BY <2>2, <3>1, <4>2
    <3>4. b.missed = {} => b.moves > 0
      <4>1. ASSUME InTime(b, h2, 1)
            PROVE  b.moves > 0
        BY <4>1 DEF InTime
      <4> QED BY <3>2, <4>1
    <3> QED BY <2>2, <2>5, <3>1, <3>2, <3>3, <3>4 DEF HeldRight
  <2>6. CASE kb.held /\ Clean(a) /\ a.since > 0
    <3>1. h.previouslyHeld /\ (InTime(a, h, 1) \/ (Again \in a.missed /\ InTime(a, h, 0)))
      BY <2>2, <2>6 DEF HeldRight
    <3>2. PICK first \in {0, 1} : InTime(a, h, first) /\ (first = 0 => Again \in a.missed)
      BY <3>1
    <3>3. b.since = a.since + 1
      BY <1>5, <2>6
    <3>4. /\ h2.previouslyHeld
          /\ b.since < MaxSince => InTime(b, h2, first)
          /\ b.moves <= MovesDue(b.since)
          /\ b.moves >= a.moves
      BY <1>5, <2>1, <2>2, <2>6, <3>2, <3>3, InTimeGoesOn
    <3>5. b.since < MaxSince => InTime(b, h2, 1) \/ (Again \in b.missed /\ InTime(b, h2, 0))
      BY <1>5, <3>2, <3>4
    <3>6. b.missed = {} => b.moves > 0
      <4>1. a.missed = {} => a.moves > 0
        BY <2>6 DEF HeldRight
      <4>2. b.moves \in 0 .. MaxMoves
        BY DEF Asked
      <4> QED BY <1>5, <2>2, <3>4, <4>1, <4>2
    <3>7. ~(b.since = 0)
      BY <2>2, <3>3
    <3> QED BY <2>2, <2>6, <3>4, <3>5, <3>6, <3>7 DEF HeldRight
  <2> QED BY <2>2, <2>3, <2>4, <2>5, <2>6
<1> QED BY <1>3, <1>4, <1>5 DEF CountedAs

-----------------------------------------------------------------------------
(* An update, for rotate and down to the ground *)

LEMMA PressedIsCounted ==
  ASSUME NEW kb \in KeyState, NEW dv \in KeyState, NEW a \in Asked, NEW b \in Asked, NEW c \in BOOLEAN, NEW c2 \in BOOLEAN,
         PressedRight(kb, dv, a, c), NEW active \in BOOLEAN, NEW lands \in BOOLEAN, NEW n,
         CountedAs(kb, dv, a, b, n, active, lands),
         active => c2 = c,
         ~active => ~lands /\ c2 = dv.pressed /\ n = IF dv.pressed /\ ~c THEN 1 ELSE 0
  PROVE  PressedRight(kb, dv, b, c2)
<1>1. Copies(kb, dv, a) /\ dv.held = kb.held
  BY DEF PressedRight, Copies
<1>2. CASE /\ lands /\ a.since > 0 /\ kb.held
           /\ b.since = 0 /\ b.moves = 0 /\ b.upSeen = a.upSeen /\ b.missed = a.missed \cup {Again}
  <2>1. c2 = c /\ Again \in b.missed /\ (Clean(b) => Clean(a)) /\ b.missed # {}
    BY <1>2 DEF Clean
  <2>2. Copies(kb, dv, b)
    BY <1>1, <1>2 DEF Copies, Again, InOneFrame
  <2>3. kb.held /\ Clean(a) => (dv.pressed => c)
    BY <1>2 DEF PressedRight
  <2>4. b.moves = 0 /\ b.moves <= 1
    BY <1>2
  <2> QED BY <1>2, <2>1, <2>2, <2>3, <2>4 DEF PressedRight
<1>3. CASE /\ ~(lands /\ a.since > 0 /\ kb.held)
           /\ active \/ a.since = MaxSince
           /\ b = a
  <2>1. CASE active
    BY <1>3, <2>1
  <2>2. CASE ~active
    <3>1. b = a /\ a.since = MaxSince /\ MaxSince > 0 /\ MaxSince \in Nat /\ c2 = dv.pressed
      BY <1>3, <2>2, WaitsAreLong
    <3>2. /\ a.upSeen /\ ~kb.held => ~dv.pressed
          /\ kb.held /\ a.missed = {} /\ a.since > 0 => a.moves > 0
          /\ Clean(a) => a.moves <= 1
      BY DEF PressedRight
    <3>3. ~(a.since = 0)
      BY <3>1
    <3> QED BY <1>1, <3>1, <3>2, <3>3 DEF PressedRight
  <2> QED BY <2>1, <2>2
<1>4. CASE /\ ~active /\ ~lands /\ a.since # MaxSince
           /\ b.since = (IF kb.held THEN a.since + 1 ELSE a.since)
           /\ b.moves = (IF a.moves + n > MaxMoves THEN MaxMoves ELSE a.moves + n)
           /\ b.upSeen = (a.upSeen \/ ~(kb.held \/ dv.pressed))
           /\ b.missed = a.missed
  <2>1. c2 = dv.pressed /\ n = IF dv.pressed /\ ~c THEN 1 ELSE 0
    BY <1>4
  <2>2. /\ Copies(kb, dv, b) /\ (Clean(b) <=> Clean(a)) /\ n \in {0, 1}
        /\ a.since \in Nat /\ a.moves \in 0 .. MaxMoves /\ MaxMoves = 5
    BY <1>1, <1>4, <2>1, WaitsAreLong DEF Copies, Clean, Asked, MaxMoves
  <2>3. CASE ~kb.held
    <3>1. b.upSeen => ~dv.pressed
      <4>1. a.upSeen => ~dv.pressed
        BY <2>3 DEF PressedRight
      <4> QED BY <1>4, <2>3, <4>1
    <3>2. Clean(a) => n = 0
      <4>1. Clean(a) => ~dv.pressed
        BY <1>1, <2>3 DEF Copies, Clean, Again, InOneFrame
      <4> QED BY <2>1, <4>1
    <3>3. Clean(b) => b.moves <= 1
      <4>1. Clean(a) => a.moves <= 1
        BY DEF PressedRight
      <4> QED BY <1>4, <2>2, <3>2, <4>1
    <3> QED BY <2>1, <2>2, <2>3, <3>1, <3>3 DEF PressedRight
  <2>4. CASE kb.held /\ ~Clean(a)
    <3>1. b.missed # {}
      BY <1>4, <2>4 DEF Clean
    <3> QED BY <2>2, <2>4, <3>1 DEF PressedRight
  <2>5. CASE kb.held /\ Clean(a)
    <3>1. b.since = a.since + 1 /\ ~(b.since = 0) /\ (dv.pressed => c2)
      BY <1>4, <2>1, <2>2, <2>5
    <3>2. CASE a.since = 0 /\ Again \notin a.missed
      <4>1. a.moves = 0 /\ dv.pressed /\ ~c
        BY <2>5, <3>2 DEF PressedRight
      <4>2. n = 1 /\ b.moves = 1
        BY <1>4, <2>1, <2>2, <4>1
      <4> QED BY <2>2, <2>5, <3>1, <4>2 DEF PressedRight
    <3>3. CASE a.since > 0 \/ Again \in a.missed
      <4>1. dv.pressed => c
        BY <2>5, <3>3 DEF PressedRight
      <4>2. n = 0 /\ b.moves = a.moves
        BY <1>4, <2>1, <2>2, <4>1
      <4>3. a.missed = {} => a.moves > 0
        <5>1. a.missed = {} => a.since > 0
          BY <3>3
        <5> QED BY <2>5, <5>1 DEF PressedRight
      <4>4. a.moves <= 1
        BY <2>5 DEF PressedRight
      <4> QED BY <1>4, <2>2, <2>5, <3>1, <4>2, <4>3, <4>4 DEF PressedRight
    <3> QED BY <2>2, <3>2, <3>3
  <2> QED BY <2>3, <2>4, <2>5
<1> QED BY <1>2, <1>3, <1>4 DEF CountedAs

-----------------------------------------------------------------------------
(* What is counted *)

LEMMA CountedRight ==
  ASSUME TypeOK, NEW k \in Key, NEW moved, Times(moved.moves, MoveOf[k]) \in Nat,
         ~ctl.areActive => ~Landing(moved)
  PROVE  /\ Counted(k, moved) \in Asked
         /\ CountedAs(keyboard[k], device[k], asked[k], Counted(k, moved), Times(moved.moves, MoveOf[k]), ctl.areActive,
                      Landing(moved))
<1> DEFINE a == asked[k]
           n == Times(moved.moves, MoveOf[k])
           kb == keyboard[k]
           dv == device[k]
           lands == Landing(moved)
           active == ctl.areActive
           again == lands /\ a.since > 0 /\ kb.held
           b == Counted(k, moved)
           updates == IF kb.held THEN a.since + 1 ELSE a.since
           moves == IF a.moves + n > MaxMoves THEN MaxMoves ELSE a.moves + n
           upSeen == a.upSeen \/ ~(kb.held \/ dv.pressed)
<1>1. kb \in KeyState /\ dv \in KeyState /\ a \in Asked
  BY DEF TypeOK
<1>2. /\ DOMAIN a = {"since", "moves", "upSeen", "missed"}
      /\ a.since \in 0 .. MaxSince /\ a.moves \in 0 .. MaxMoves /\ a.upSeen \in BOOLEAN /\ a.missed \in SUBSET Missed
  BY <1>1 DEF Asked
<1>3. n = Cardinality({i \in DOMAIN moved.moves : moved.moves[i] = MoveOf[k]}) /\ n \in Nat
  BY DEF Times
<1>4. b = CASE again -> [a EXCEPT !.since = 0, !.moves = 0, !.missed = a.missed \cup {"HeldForNextBlock"}]
            [] ~again /\ (active \/ a.since = MaxSince) -> a
            [] OTHER -> [a EXCEPT !.since = updates, !.moves = moves, !.upSeen = upSeen]
  BY DEF Counted, Times
<1> HIDE DEF b, n, kb, dv, lands, active, a
<1>5. CASE again
  <2>1. b = [a EXCEPT !.since = 0, !.moves = 0, !.missed = a.missed \cup {"HeldForNextBlock"}]
    BY <1>4, <1>5
  <2>2. /\ b.since = 0 /\ b.moves = 0 /\ b.upSeen = a.upSeen /\ b.missed = a.missed \cup {Again}
        /\ b = [since |-> b.since, moves |-> b.moves, upSeen |-> b.upSeen, missed |-> b.missed]
    BY <1>2, <2>1 DEF Again
  <2>3. a.missed \cup {Again} \in SUBSET Missed /\ 0 \in 0 .. MaxSince /\ 0 \in 0 .. MaxMoves
    BY <1>2, WaitsAreLong DEF Missed, Again, MaxMoves
  <2>4. b \in Asked
    BY <1>2, <2>2, <2>3 DEF Asked
  <2>5. CountedAs(kb, dv, a, b, n, active, lands)
    BY <1>5, <2>2 DEF CountedAs
  <2> QED BY <2>4, <2>5 DEF b, n, kb, dv, lands, active, a
<1>6. CASE ~again /\ (active \/ a.since = MaxSince)
  <2>1. b = a
    BY <1>4, <1>6
  <2>2. CountedAs(kb, dv, a, b, n, active, lands)
    BY <1>6, <2>1 DEF CountedAs
  <2> QED BY <1>1, <2>1, <2>2 DEF b, n, kb, dv, lands, active, a
<1>7. CASE ~again /\ ~(active \/ a.since = MaxSince)
  <2> HIDE DEF again
  <2>1. b = [a EXCEPT !.since = updates, !.moves = moves, !.upSeen = upSeen]
    BY <1>4, <1>7
  <2>2. updates \in 0 .. MaxSince /\ moves \in 0 .. MaxMoves /\ upSeen \in BOOLEAN
    <3>1. updates \in 0 .. MaxSince
      BY <1>2, <1>7, WaitsAreLong
    <3>2. moves \in 0 .. MaxMoves
      BY <1>2, <1>3 DEF MaxMoves
    <3> QED BY <3>1, <3>2
  <2>3. ~active /\ ~lands
    BY <1>7 DEF active, lands
  <2> HIDE DEF updates, moves, upSeen
  <2>4. /\ b.since = updates /\ b.moves = moves /\ b.upSeen = upSeen /\ b.missed = a.missed
        /\ b = [since |-> b.since, moves |-> b.moves, upSeen |-> b.upSeen, missed |-> b.missed]
    BY <1>2, <2>1
  <2>5. b \in Asked
    BY <1>2, <2>2, <2>4 DEF Asked
  <2>6. CountedAs(kb, dv, a, b, n, active, lands)
    BY <1>7, <2>3, <2>4 DEF CountedAs, updates, moves, upSeen
  <2> QED BY <2>5, <2>6 DEF b, n, kb, dv, lands, active, a
<1> QED BY <1>5, <1>6, <1>7

-----------------------------------------------------------------------------
(* The invariant of a human at the keyboard *)

HumanInv ==
  /\ TypeOK
  /\ \A k \in HeldKey : HeldRight(keyboard[k], device[k], asked[k], ctl[k])
  /\ \A k \in PressedKey : PressedRight(keyboard[k], device[k], asked[k], ctl[k])

LEMMA WatchedTypes ==
  ASSUME HumanInv
  PROVE  /\ \A k \in Key : keyboard[k] \in KeyState /\ device[k] \in KeyState /\ asked[k] \in Asked
         /\ \A k \in HeldKey : k \in Key /\ ctl[k] \in DasArr /\ Copies(keyboard[k], device[k], asked[k])
         /\ \A k \in PressedKey : k \in Key /\ ctl[k] \in BOOLEAN /\ Copies(keyboard[k], device[k], asked[k])
<1>1. TypeOK
  BY DEF HumanInv
<1>2. \A k \in HeldKey : Copies(keyboard[k], device[k], asked[k])
  BY DEF HumanInv, HeldRight
<1>3. \A k \in PressedKey : Copies(keyboard[k], device[k], asked[k])
  BY DEF HumanInv, PressedRight
<1>4. \A k \in HeldKey : k \in Key /\ ctl[k] \in DasArr
  BY <1>1 DEF TypeOK, Controller, HeldKey, Key
<1>5. \A k \in PressedKey : k \in Key /\ ctl[k] \in BOOLEAN
  BY <1>1 DEF TypeOK, Controller, PressedKey, Key
<1>6. \A k \in Key : keyboard[k] \in KeyState /\ device[k] \in KeyState /\ asked[k] \in Asked
  BY <1>1 DEF TypeOK
<1> QED BY <1>2, <1>3, <1>4, <1>5, <1>6

LEMMA NotedRight ==
  ASSUME TypeOK, NEW k \in Key
  PROVE  LET a == asked[k]
             b == Noted[k]
         IN  /\ b \in Asked /\ b.since = a.since /\ b.moves = a.moves /\ b.upSeen = a.upSeen
             /\ \/ keyboard[k].held /\ a.since = 0 /\ ~keyboard[k].pressed /\ b.missed = a.missed \cup {"CopiedTooLate"}
                \/ ~(keyboard[k].held /\ a.since = 0 /\ ~keyboard[k].pressed) /\ b.missed = a.missed
<1> DEFINE a == asked[k]
           b == Noted[k]
<1>1. /\ a \in Asked /\ DOMAIN a = {"since", "moves", "upSeen", "missed"}
      /\ a.since \in 0 .. MaxSince /\ a.moves \in 0 .. MaxMoves /\ a.upSeen \in BOOLEAN /\ a.missed \in SUBSET Missed
  <2>1. a \in Asked
    BY DEF TypeOK
  <2> HIDE DEF a
  <2> QED BY <2>1 DEF Asked
<1>2. b = IF Late(k) THEN [a EXCEPT !.missed = a.missed \cup {"CopiedTooLate"}] ELSE a
  BY DEF Noted
<1>3. Late(k) <=> (keyboard[k].held /\ a.since = 0 /\ ~keyboard[k].pressed)
  BY DEF Late
<1> HIDE DEF a, b
<1>4. CASE Late(k)
  <2>1. b = [a EXCEPT !.missed = a.missed \cup {"CopiedTooLate"}]
    BY <1>2, <1>4
  <2>2. /\ b.since = a.since /\ b.moves = a.moves /\ b.upSeen = a.upSeen /\ b.missed = a.missed \cup {"CopiedTooLate"}
        /\ b = [since |-> b.since, moves |-> b.moves, upSeen |-> b.upSeen, missed |-> b.missed]
    BY <1>1, <2>1
  <2>3. a.missed \cup {"CopiedTooLate"} \in SUBSET Missed
    BY <1>1 DEF Missed
  <2>4. b \in Asked
    BY <1>1, <2>2, <2>3 DEF Asked
  <2> QED BY <1>3, <1>4, <2>2, <2>4 DEF a, b
<1>5. CASE ~Late(k)
  BY <1>1, <1>2, <1>3, <1>5 DEF a, b
<1> QED BY <1>4, <1>5

\* Keys that did not go down or up themselves.
LEMMA OthersAreCopied ==
  ASSUME HumanInv, NEW K, Copied,
         \A k \in Key \ K : keyboard'[k] = keyboard[k] /\ asked'[k] = Noted[k]
  PROVE  /\ \A k \in HeldKey \ K : HeldRight(keyboard'[k], device'[k], asked'[k], ctl'[k])
         /\ \A k \in PressedKey \ K : PressedRight(keyboard'[k], device'[k], asked'[k], ctl'[k])
         /\ \A k \in Key \ K : asked'[k] \in Asked
<1>1. device' = keyboard' /\ ctl' = ctl
  BY DEF Copied
<1>2. TypeOK
  BY DEF HumanInv
<1>3. ASSUME NEW k \in HeldKey \ K
      PROVE  HeldRight(keyboard'[k], device'[k], asked'[k], ctl'[k])
  <2>1. /\ k \in Key /\ keyboard[k] \in KeyState /\ device[k] \in KeyState /\ asked[k] \in Asked /\ ctl[k] \in DasArr
        /\ Copies(keyboard[k], device[k], asked[k]) /\ HeldRight(keyboard[k], device[k], asked[k], ctl[k])
    BY <1>3, WatchedTypes DEF HumanInv
  <2>2. HeldRight(keyboard[k], keyboard[k], Noted[k], ctl[k])
    BY <1>2, <2>1, NotedRight, IsCopied
  <2> QED BY <1>1, <2>1, <2>2
<1>4. ASSUME NEW k \in PressedKey \ K
      PROVE  PressedRight(keyboard'[k], device'[k], asked'[k], ctl'[k])
  <2>1. /\ k \in Key /\ keyboard[k] \in KeyState /\ device[k] \in KeyState /\ asked[k] \in Asked /\ ctl[k] \in BOOLEAN
        /\ Copies(keyboard[k], device[k], asked[k]) /\ PressedRight(keyboard[k], device[k], asked[k], ctl[k])
    BY <1>4, WatchedTypes DEF HumanInv
  <2>2. PressedRight(keyboard[k], keyboard[k], Noted[k], ctl[k])
    BY <1>2, <2>1, NotedRight, IsCopied
  <2> QED BY <1>1, <2>1, <2>2
<1>5. \A k \in Key \ K : asked'[k] \in Asked
  BY <1>2, NotedRight
<1> QED BY <1>3, <1>4, <1>5

LEMMA OtherKeyRight ==
  ASSUME HumanInv, OtherKey
  PROVE  HumanInv'
<1>1. Copied /\ asked' = Noted /\ keyboard' = keyboard /\ device' = keyboard /\ ctl' = ctl /\ steps' = steps
  BY DEF OtherKey, Copied
<1>2. /\ \A k \in HeldKey : HeldRight(keyboard'[k], device'[k], asked'[k], ctl'[k])
      /\ \A k \in PressedKey : PressedRight(keyboard'[k], device'[k], asked'[k], ctl'[k])
      /\ \A k \in Key : asked'[k] \in Asked
  BY <1>1, OthersAreCopied
<1>3. TypeOK'
  <2>1. TypeOK
    BY DEF HumanInv
  <2>2. asked' = [k \in Key |-> asked'[k]]
    BY <1>1 DEF Noted
  <2>3. asked' \in [Key -> Asked]
    BY <1>2, <2>2
  <2> QED BY <1>1, <2>1, <2>3 DEF TypeOK
<1> QED BY <1>2, <1>3 DEF HumanInv

\* A key that goes down or up: this key, the others, and the types.
LEMMA KeyEventRight ==
  ASSUME HumanInv, NEW k \in Key, Copied,
         \A j \in Key \ {k} : keyboard'[j] = keyboard[j] /\ asked'[j] = Noted[j],
         keyboard' \in [Key -> KeyState], asked' = [j \in Key |-> asked'[j]], asked'[k] \in Asked,
         /\ \A h \in DasArr : HeldRight(keyboard[k], device[k], asked[k], h) =>
              HeldRight(keyboard'[k], keyboard'[k], asked'[k], h)
         /\ \A c \in BOOLEAN : PressedRight(keyboard[k], device[k], asked[k], c) =>
              PressedRight(keyboard'[k], keyboard'[k], asked'[k], c)
  PROVE  HumanInv'
<1>1. device' = keyboard' /\ ctl' = ctl /\ steps' = steps
  BY DEF Copied
<1>2. /\ \A j \in HeldKey \ {k} : HeldRight(keyboard'[j], device'[j], asked'[j], ctl'[j])
      /\ \A j \in PressedKey \ {k} : PressedRight(keyboard'[j], device'[j], asked'[j], ctl'[j])
      /\ \A j \in Key \ {k} : asked'[j] \in Asked
  BY OthersAreCopied
<1>3. k \in HeldKey => HeldRight(keyboard'[k], device'[k], asked'[k], ctl'[k])
  BY <1>1, WatchedTypes DEF HumanInv
<1>4. k \in PressedKey => PressedRight(keyboard'[k], device'[k], asked'[k], ctl'[k])
  BY <1>1, WatchedTypes DEF HumanInv
<1>5. \A j \in HeldKey : HeldRight(keyboard'[j], device'[j], asked'[j], ctl'[j])
  BY <1>2, <1>3
<1>6. \A j \in PressedKey : PressedRight(keyboard'[j], device'[j], asked'[j], ctl'[j])
  BY <1>2, <1>4
<1>7. TypeOK'
  <2>1. TypeOK
    BY DEF HumanInv
  <2>2. asked' \in [Key -> Asked]
    <3>1. \A j \in Key : asked'[j] \in Asked
      BY <1>2
    <3> QED BY <3>1
  <2> QED BY <1>1, <2>1, <2>2 DEF TypeOK
<1> QED BY <1>5, <1>6, <1>7 DEF HumanInv

LEMMA KeyDownRight ==
  ASSUME HumanInv, NEW k \in Key, KeyDown(k)
  PROVE  HumanInv'
<1> DEFINE kb == keyboard[k]
           a == asked[k]
           kb2 == handleKey(kb, TRUE)
           b == [since |-> 0, moves |-> 0, upSeen |-> a.upSeen,
                 missed |-> (IF kb.released THEN {"DownAndUpInOneFrame"} ELSE {})
                            \cup (IF a.upSeen THEN {} ELSE {"UpNotSeen"})]
<1>1. TypeOK /\ kb \in KeyState /\ device[k] \in KeyState /\ a \in Asked
  BY WatchedTypes DEF HumanInv
<1>2. /\ ~kb.held /\ Copied
      /\ keyboard' = [keyboard EXCEPT ![k] = kb2] /\ asked' = [Noted EXCEPT ![k] = b]
  BY DEF KeyDown
<1>3. DOMAIN kb = {"held", "pressed", "released"} /\ kb.released \in BOOLEAN /\ kb.pressed \in BOOLEAN
  BY <1>1 DEF KeyState
<1>4. kb2.held /\ kb2.pressed /\ kb2.released = kb.released /\ kb2 \in KeyState
  <2> HIDE DEF kb
  <2>1. kb2 = [[kb EXCEPT !.pressed = kb.pressed \/ ~kb.held] EXCEPT !.held = TRUE]
    BY <1>3 DEF handleKey
  <2>2. kb2.held = TRUE /\ kb2.pressed = (kb.pressed \/ ~kb.held) /\ kb2.released = kb.released
    BY <1>3, <2>1
  <2>3. kb2 = [held |-> kb2.held, pressed |-> kb2.pressed, released |-> kb2.released]
    BY <1>3, <2>1
  <2> HIDE DEF kb2
  <2>4. kb2.pressed = TRUE
    BY <1>2, <2>2 DEF kb
  <2> QED BY <1>3, <2>2, <2>3, <2>4 DEF KeyState
<1>5. a.upSeen \in BOOLEAN
  BY <1>1 DEF Asked
<1>6. /\ b.since = 0 /\ b.moves = 0 /\ b.upSeen = a.upSeen /\ b.missed \in SUBSET Missed /\ Again \notin b.missed
      /\ kb.released => InOneFrame \in b.missed
      /\ ~a.upSeen => "UpNotSeen" \in b.missed
  <2> HIDE DEF a, kb
  <2>1. /\ b.since = 0 /\ b.moves = 0 /\ b.upSeen = a.upSeen
        /\ b.missed = (IF kb.released THEN {"DownAndUpInOneFrame"} ELSE {})
                      \cup (IF a.upSeen THEN {} ELSE {"UpNotSeen"})
    OBVIOUS
  <2> HIDE DEF b
  <2>2. b.missed \in SUBSET Missed /\ Again \notin b.missed
    BY <2>1 DEF Missed, Again
  <2> QED BY <2>1, <2>2 DEF InOneFrame
<1>7. b \in Asked
  <2>1. 0 \in 0 .. MaxSince /\ 0 \in 0 .. MaxMoves
    BY WaitsAreLong DEF MaxMoves
  <2> QED BY <1>5, <1>6, <2>1 DEF Asked
<1>8. DOMAIN keyboard = Key /\ keyboard \in [Key -> KeyState] /\ DOMAIN Noted = Key
  BY <1>1 DEF TypeOK, Noted
<1> HIDE DEF kb2, b
<1>10. /\ keyboard'[k] = kb2 /\ asked'[k] = b
       /\ \A j \in Key \ {k} : keyboard'[j] = keyboard[j] /\ asked'[j] = Noted[j]
       /\ keyboard' \in [Key -> KeyState] /\ asked' = [j \in Key |-> asked'[j]]
  BY <1>2, <1>4, <1>8
<1> HIDE DEF kb, a
<1>11. CASE Copies(kb, device[k], a)
  <2>1. /\ \A h \in DasArr : HeldRight(kb, device[k], a, h) => HeldRight(kb2, kb2, b, h)
        /\ \A c \in BOOLEAN : PressedRight(kb, device[k], a, c) => PressedRight(kb2, kb2, b, c)
    BY <1>1, <1>2, <1>4, <1>6, <1>7, <1>11, GoesDown
  <2> QED BY <1>2, <1>7, <1>10, <2>1, KeyEventRight DEF kb, a
<1>12. CASE ~Copies(kb, device[k], a)
  <2>1. /\ \A h \in DasArr : HeldRight(kb, device[k], a, h) => HeldRight(kb2, kb2, b, h)
        /\ \A c \in BOOLEAN : PressedRight(kb, device[k], a, c) => PressedRight(kb2, kb2, b, c)
    BY <1>12 DEF HeldRight, PressedRight
  <2> QED BY <1>2, <1>7, <1>10, <2>1, KeyEventRight DEF kb, a
<1> QED BY <1>11, <1>12

LEMMA KeyUpRight ==
  ASSUME HumanInv, NEW k \in Key, KeyUpAgain(k)
  PROVE  HumanInv'
<1> DEFINE kb == keyboard[k]
           a == asked[k]
           kb2 == handleKey(kb, FALSE)
           noted == Noted[k]
           also == IF kb.pressed THEN {"DownAndUpInOneFrame"} ELSE {}
           b == asked'[k]
<1>1. TypeOK /\ kb \in KeyState /\ device[k] \in KeyState /\ a \in Asked
  BY WatchedTypes DEF HumanInv
<1>2. /\ kb.held /\ Copied
      /\ keyboard' = [keyboard EXCEPT ![k] = kb2]
      /\ asked' = [Noted EXCEPT ![k].upSeen = FALSE, ![k].missed = @ \cup also]
  BY DEF KeyUpAgain, EndOfPress
<1>3. DOMAIN kb = {"held", "pressed", "released"} /\ kb.released \in BOOLEAN /\ kb.pressed \in BOOLEAN
  BY <1>1 DEF KeyState
<1>4. ~kb2.held /\ kb2.released /\ kb2.pressed = kb.pressed /\ kb2 \in KeyState
  <2> HIDE DEF kb
  <2>1. kb2 = [[kb EXCEPT !.released = kb.released \/ kb.held] EXCEPT !.held = FALSE]
    BY <1>3 DEF handleKey
  <2>2. kb2.held = FALSE /\ kb2.released = (kb.released \/ kb.held) /\ kb2.pressed = kb.pressed
    BY <1>3, <2>1
  <2>3. kb2 = [held |-> kb2.held, pressed |-> kb2.pressed, released |-> kb2.released]
    BY <1>3, <2>1
  <2> HIDE DEF kb2
  <2>4. kb2.released = TRUE
    BY <1>2, <2>2 DEF kb
  <2> QED BY <1>3, <2>2, <2>3, <2>4 DEF KeyState
<1>5. /\ noted \in Asked /\ noted.since = a.since /\ noted.moves = a.moves /\ a.missed \subseteq noted.missed
      /\ DOMAIN noted = {"since", "moves", "upSeen", "missed"} /\ noted.missed \in SUBSET Missed
      /\ noted.since \in 0 .. MaxSince /\ noted.moves \in 0 .. MaxMoves
  <2>1. /\ noted \in Asked /\ noted.since = a.since /\ noted.moves = a.moves
        /\ noted.missed = a.missed \cup {"CopiedTooLate"} \/ noted.missed = a.missed
    BY <1>1, NotedRight
  <2> HIDE DEF noted
  <2> QED BY <2>1 DEF Asked
<1>6. DOMAIN keyboard = Key /\ keyboard \in [Key -> KeyState] /\ DOMAIN Noted = Key
  BY <1>1 DEF TypeOK, Noted
<1>7. /\ asked'[k] = [[noted EXCEPT !.upSeen = FALSE] EXCEPT !.missed = noted.missed \cup also]
      /\ \A j \in Key \ {k} : asked'[j] = Noted[j]
      /\ asked' = [j \in Key |-> asked'[j]]
  <2> DEFINE all == Noted
  <2> HIDE DEF all, also
  <2>1. noted = all[k] /\ DOMAIN all = Key /\ DOMAIN noted = {"since", "moves", "upSeen", "missed"}
    BY <1>5, <1>6 DEF all
  <2>2. asked' = [all EXCEPT ![k].upSeen = FALSE, ![k].missed = @ \cup also]
    BY <1>2 DEF all
  <2> HIDE DEF noted
  <2> QED BY <2>1, <2>2 DEF all
<1> HIDE DEF noted, kb2
<1>8. /\ keyboard'[k] = kb2 /\ keyboard' \in [Key -> KeyState]
      /\ \A j \in Key \ {k} : keyboard'[j] = keyboard[j]
  BY <1>2, <1>4, <1>6
<1>9. /\ b.since = a.since /\ b.moves = a.moves /\ b.upSeen = FALSE /\ b.missed = noted.missed \cup also
      /\ b = [since |-> b.since, moves |-> b.moves, upSeen |-> b.upSeen, missed |-> b.missed]
  <2> HIDE DEF also, a
  <2> QED BY <1>5, <1>7
<1>10. /\ ~b.upSeen /\ a.missed \subseteq b.missed /\ b.missed \in SUBSET Missed
       /\ kb.pressed => InOneFrame \in b.missed
  <2>1. also \in SUBSET Missed /\ (kb.pressed => InOneFrame \in also)
    BY DEF Missed, InOneFrame
  <2> HIDE DEF also, a
  <2> QED BY <1>5, <1>9, <2>1
<1> HIDE DEF also, b
<1>11. b \in Asked
  BY <1>5, <1>9, <1>10 DEF Asked
<1> HIDE DEF kb, a
<1>12. Copies(kb, device[k], a) =>
         /\ \A h \in DasArr : HeldRight(kb, device[k], a, h) => HeldRight(kb2, kb2, b, h)
         /\ \A c \in BOOLEAN : PressedRight(kb, device[k], a, c) => PressedRight(kb2, kb2, b, c)
  BY <1>1, <1>2, <1>4, <1>9, <1>10, <1>11, GoesUp
<1>13. /\ \A h \in DasArr : HeldRight(kb, device[k], a, h) => HeldRight(kb2, kb2, b, h)
       /\ \A c \in BOOLEAN : PressedRight(kb, device[k], a, c) => PressedRight(kb2, kb2, b, c)
  BY <1>12 DEF HeldRight, PressedRight
<1> QED BY <1>2, <1>7, <1>8, <1>11, <1>13, KeyEventRight DEF kb, a, b

LEMMA TickRight ==
  ASSUME HumanInv, Tick
  PROVE  HumanInv'
<1> DEFINE Cleared(k) == [keyboard[k] EXCEPT !.pressed = FALSE, !.released = FALSE]
<1>1. /\ device' = device /\ ctl' = ctl /\ asked' = asked /\ steps' = 0
      /\ keyboard' = [k \in Key |-> Cleared(k)]
  BY DEF Tick
<1>2. ASSUME NEW k \in Key
      PROVE  /\ Cleared(k) \in KeyState /\ Cleared(k).held = keyboard[k].held
             /\ ~Cleared(k).pressed /\ ~Cleared(k).released
  <2> DEFINE kb == keyboard[k]
             kb2 == [[kb EXCEPT !.pressed = FALSE] EXCEPT !.released = FALSE]
  <2>1. kb \in KeyState
    BY WatchedTypes
  <2> HIDE DEF kb
  <2>2. DOMAIN kb = {"held", "pressed", "released"} /\ kb.held \in BOOLEAN
    BY <2>1 DEF KeyState
  <2>3. /\ kb2.held = kb.held /\ kb2.pressed = FALSE /\ kb2.released = FALSE
        /\ kb2 = [held |-> kb2.held, pressed |-> kb2.pressed, released |-> kb2.released]
    <3> DEFINE kb1 == [kb EXCEPT !.pressed = FALSE]
    <3>1. kb2.held = kb.held /\ kb2.pressed = FALSE /\ kb2.released = FALSE
      <4>1. DOMAIN kb1 = {"held", "pressed", "released"} /\ kb1.held = kb.held /\ kb1.pressed = FALSE
        BY <2>2
      <4>2. kb2 = [kb1 EXCEPT !.released = FALSE]
        OBVIOUS
      <4> HIDE DEF kb1, kb2
      <4> QED BY <4>1, <4>2
    <3>2. kb2 = [held |-> kb2.held, pressed |-> kb2.pressed, released |-> kb2.released]
      <4>1. DOMAIN kb1 = {"held", "pressed", "released"}
        BY <2>2
      <4>2. kb2 = [kb1 EXCEPT !.released = FALSE]
        OBVIOUS
      <4> HIDE DEF kb1
      <4>3. DOMAIN kb2 = {"held", "pressed", "released"} /\ kb2 = [f \in DOMAIN kb2 |-> kb2[f]]
        BY <4>1, <4>2
      <4> HIDE DEF kb2
      <4> QED BY <4>3
    <3> QED BY <3>1, <3>2
  <2>4. Cleared(k) = kb2
    BY DEF kb
  <2> HIDE DEF kb2, Cleared
  <2>5. kb2 \in KeyState
    BY <2>2, <2>3 DEF KeyState
  <2> QED BY <2>3, <2>4, <2>5 DEF kb
<1> HIDE DEF Cleared
<1>3. \A k \in Key : keyboard'[k] = Cleared(k)
  BY <1>1
<1>4. ASSUME NEW k \in HeldKey
      PROVE  HeldRight(keyboard'[k], device'[k], asked'[k], ctl'[k])
  <2>1. /\ k \in Key /\ keyboard[k] \in KeyState /\ device[k] \in KeyState /\ asked[k] \in Asked /\ ctl[k] \in DasArr
        /\ Copies(keyboard[k], device[k], asked[k]) /\ HeldRight(keyboard[k], device[k], asked[k], ctl[k])
    BY WatchedTypes DEF HumanInv
  <2>2. HeldRight(Cleared(k), device[k], asked[k], ctl[k])
    BY <1>2, <2>1, FrameIsOver
  <2> QED BY <1>1, <1>3, <2>1, <2>2
<1>5. ASSUME NEW k \in PressedKey
      PROVE  PressedRight(keyboard'[k], device'[k], asked'[k], ctl'[k])
  <2>1. /\ k \in Key /\ keyboard[k] \in KeyState /\ device[k] \in KeyState /\ asked[k] \in Asked /\ ctl[k] \in BOOLEAN
        /\ Copies(keyboard[k], device[k], asked[k]) /\ PressedRight(keyboard[k], device[k], asked[k], ctl[k])
    BY WatchedTypes DEF HumanInv
  <2>2. PressedRight(Cleared(k), device[k], asked[k], ctl[k])
    BY <1>2, <2>1, FrameIsOver
  <2> QED BY <1>1, <1>3, <2>1, <2>2
<1>6. TypeOK'
  <2>1. TypeOK /\ 0 \in 0 .. MaxSteps
    BY PlanAssumption DEF HumanInv
  <2>2. keyboard' \in [Key -> KeyState]
    BY <1>1, <1>2
  <2> QED BY <1>1, <2>1, <2>2 DEF TypeOK
<1> QED BY <1>4, <1>5, <1>6 DEF HumanInv

\* What an update does to the keys, whether a block is down or not.
LEMMA UpdateRight ==
  ASSUME HumanInv, NEW random, NEW moved, moved = updated(ctl, board, device, random), ctl' = moved.ctl,
         asked' = [k \in Key |-> Counted(k, moved)], UNCHANGED <<keyboard, device>>, steps' \in 0 .. MaxSteps
  PROVE  HumanInv'
<1> DEFINE active == ctl.areActive
           lands == Landing(moved)
           Count(k) == Times(moved.moves, MoveOf[k])
<1>1. TypeOK /\ ctl \in Controller /\ device \in Input
  BY DEF HumanInv, TypeOK, Input
<1>2. active \in BOOLEAN
  BY <1>1 DEF Controller
<1>3. active =>
        /\ moved.ctl \in Controller /\ moved.moves \in Seq(Move)
        /\ \A k \in HeldKey : moved.ctl[k] = IF lands THEN NewDasArr ELSE ctl[k]
        /\ \A k \in PressedKey : moved.ctl[k] = ctl[k]
  BY <1>1, areKeys
<1>4. ~active =>
        /\ moved.ctl \in Controller /\ moved.moves \in Seq(Move) /\ ~lands
        /\ \A k \in HeldKey : LET h == dasArr(ctl[k], device[k]) IN
             moved.ctl[k] = h.handler /\ Count(k) = IF h.action THEN 1 ELSE 0
        /\ \A k \in PressedKey :
             /\ moved.ctl[k] = device[k].pressed
             /\ Count(k) = IF device[k].pressed /\ ~ctl[k] THEN 1 ELSE 0
  <2>1. ~active => KeysDo(moved, ctl, device)
    BY <1>1, UpdatedKeys
  <2> QED BY <2>1 DEF KeysDo
<1>5. moved.ctl \in Controller /\ \A k \in Key : Count(k) \in Nat
  <2>1. moved.ctl \in Controller /\ moved.moves \in Seq(Move)
    BY <1>2, <1>3, <1>4
  <2>2. \A k \in Key : MoveOf[k] \in Move
    BY DEF Key, MoveOf, Move
  <2> QED BY <2>1, <2>2, TimesOfAppended
<1>6. ASSUME NEW k \in Key
      PROVE  /\ asked'[k] \in Asked
             /\ CountedAs(keyboard[k], device[k], asked[k], asked'[k], Count(k), active, lands)
  <2>1. asked'[k] = Counted(k, moved)
    OBVIOUS
  <2>2. Count(k) \in Nat /\ (~active => ~lands)
    BY <1>4, <1>5
  <2> QED BY <1>1, <2>1, <2>2, CountedRight
<1>7. lands \in BOOLEAN
  BY DEF Landing
<1> HIDE DEF active, lands, Count
<1>8. ASSUME NEW k \in HeldKey
      PROVE  HeldRight(keyboard'[k], device'[k], asked'[k], ctl'[k])
  <2>1. /\ k \in Key /\ keyboard[k] \in KeyState /\ device[k] \in KeyState /\ asked[k] \in Asked /\ ctl[k] \in DasArr
        /\ HeldRight(keyboard[k], device[k], asked[k], ctl[k])
    BY WatchedTypes DEF HumanInv
  <2>2. moved.ctl[k] \in DasArr
    BY <1>5 DEF Controller, HeldKey
  <2>3. active => moved.ctl[k] = IF lands THEN NewDasArr ELSE ctl[k]
    BY <1>3
  <2>4. ~active => /\ ~lands /\ moved.ctl[k] = dasArr(ctl[k], device[k]).handler
                   /\ Count(k) = IF dasArr(ctl[k], device[k]).action THEN 1 ELSE 0
    BY <1>4
  <2>5. HeldRight(keyboard[k], device[k], asked'[k], moved.ctl[k])
    BY <1>2, <1>6, <1>7, <2>1, <2>2, <2>3, <2>4, HeldIsCounted
  <2> QED BY <2>5
<1>9. ASSUME NEW k \in PressedKey
      PROVE  PressedRight(keyboard'[k], device'[k], asked'[k], ctl'[k])
  <2>1. /\ k \in Key /\ keyboard[k] \in KeyState /\ device[k] \in KeyState /\ asked[k] \in Asked /\ ctl[k] \in BOOLEAN
        /\ PressedRight(keyboard[k], device[k], asked[k], ctl[k])
    BY WatchedTypes DEF HumanInv
  <2>2. moved.ctl[k] \in BOOLEAN
    BY <1>5 DEF Controller, PressedKey
  <2>3. active => moved.ctl[k] = ctl[k]
    BY <1>3
  <2>4. ~active => /\ ~lands /\ moved.ctl[k] = device[k].pressed
                   /\ Count(k) = IF device[k].pressed /\ ~ctl[k] THEN 1 ELSE 0
    BY <1>4
  <2>5. PressedRight(keyboard[k], device[k], asked'[k], moved.ctl[k])
    BY <1>2, <1>6, <1>7, <2>1, <2>2, <2>3, <2>4, PressedIsCounted
  <2> QED BY <2>5
<1>10. TypeOK'
  <2>1. asked' \in [Key -> Asked]
    <3>1. \A k \in Key : asked'[k] \in Asked
      BY <1>6
    <3>2. asked' = [k \in Key |-> asked'[k]]
      OBVIOUS
    <3> QED BY <3>1, <3>2
  <2>2. ctl' \in Controller
    BY <1>5
  <2> QED BY <1>1, <2>1, <2>2 DEF TypeOK
<1> QED BY <1>8, <1>9, <1>10 DEF HumanInv

LEMMA FixedStepRight ==
  ASSUME HumanInv, FixedStep
  PROVE  HumanInv'
<1>1. steps' \in 0 .. MaxSteps
  <2>1. steps \in 0 .. MaxSteps /\ MaxSteps \in Nat
    BY PlanAssumption DEF HumanInv, TypeOK
  <2> QED BY <2>1 DEF FixedStep, FrameGoesOn
<1>2. PICK random \in left.types : \E moved \in {updated(ctl, board, device, random)} :
        ctl' = moved.ctl /\ asked' = [k \in Key |-> Counted(k, moved)]
  BY DEF FixedStep
<1>3. PICK moved : /\ moved = updated(ctl, board, device, random)
                   /\ ctl' = moved.ctl /\ asked' = [k \in Key |-> Counted(k, moved)]
  BY <1>2
<1>4. UNCHANGED <<keyboard, device>>
  BY DEF FixedStep
<1> QED BY <1>1, <1>3, <1>4, UpdateRight

-----------------------------------------------------------------------------
(* The theorem *)

LEMMA InitRight ==
  ASSUME Init
  PROVE  HumanInv
<1>1. /\ keyboard = [k \in Key |-> KeyUp] /\ device = [k \in Key |-> KeyUp] /\ steps = 0
      /\ asked = [k \in Key |-> [since |-> 0, moves |-> 0, upSeen |-> TRUE, missed |-> {}]]
      /\ ctl = NewController
  BY DEF Init, IdleKeys
<1> DEFINE a == [since |-> 0, moves |-> 0, upSeen |-> TRUE, missed |-> {}]
<1>2. a \in Asked /\ KeyUp \in KeyState /\ 0 \in 0 .. MaxSteps
  <2>1. 0 \in 0 .. MaxSince /\ 0 \in 0 .. MaxMoves /\ {} \in SUBSET Missed /\ TRUE \in BOOLEAN
    BY WaitsAreLong DEF MaxMoves
  <2> QED BY <2>1, PlanAssumption DEF Asked, KeyUp, KeyState
<1>3. NewController \in Controller
  <2>1. /\ NewDasArr \in DasArr
        /\ 0 \in 0 .. DownWait /\ 0 \in 0 .. Gravity /\ 0 \in 0 .. AREDuration
    BY WaitAssumption DEF NewDasArr, DasArr
  <2> QED BY <2>1 DEF NewController, Controller
<1>4. TypeOK
  BY <1>1, <1>2, <1>3 DEF TypeOK
<1>5. a.since = 0 /\ a.moves = 0 /\ a.missed = {} /\ Clean(a) /\ a.upSeen
  BY DEF Clean
<1>6. ~KeyUp.held /\ ~KeyUp.pressed /\ ~KeyUp.released
  BY DEF KeyUp
<1> HIDE DEF a
<1>7. Copies(KeyUp, KeyUp, a)
  BY <1>6 DEF Copies
<1>8. a.moves <= MovesDue(a.since) /\ a.moves <= 1
  <2>1. 0 \in Nat
    OBVIOUS
  <2>2. MovesDue(0) \in Nat /\ MovesDue(0) >= 1
    BY <2>1, MovesAtLeastOne
  <2> QED BY <1>5, <2>2
<1>9. HeldRight(KeyUp, KeyUp, a, NewDasArr)
  <2>1. ~NewDasArr.previouslyHeld
    BY DEF NewDasArr
  <2> QED BY <1>6, <1>7, <1>8, <2>1 DEF HeldRight
<1>10. PressedRight(KeyUp, KeyUp, a, FALSE)
  BY <1>6, <1>7, <1>8 DEF PressedRight
<1>11. /\ \A k \in HeldKey : k \in Key /\ NewController[k] = NewDasArr
       /\ \A k \in PressedKey : k \in Key /\ NewController[k] = FALSE
  BY DEF HeldKey, PressedKey, Key, NewController
<1>12. \A k \in Key : keyboard[k] = KeyUp /\ device[k] = KeyUp /\ asked[k] = a
  BY <1>1 DEF a
<1> QED BY <1>1, <1>4, <1>9, <1>10, <1>11, <1>12 DEF HumanInv

LEMMA NextRight ==
  ASSUME HumanInv, [Next]_<<keyboard, device, ctl, steps, asked>>
  PROVE  HumanInv'
<1>1. ASSUME NEW k \in Key, KeyDown(k)
      PROVE  HumanInv'
  BY <1>1, KeyDownRight
<1>2. ASSUME NEW k \in Key, KeyUpAgain(k)
      PROVE  HumanInv'
  BY <1>2, KeyUpRight
<1>3. CASE OtherKey
  BY <1>3, OtherKeyRight
<1>4. CASE FixedStep
  BY <1>4, FixedStepRight
<1>5. CASE Tick
  BY <1>5, TickRight
<1>6. CASE UNCHANGED <<keyboard, device, ctl, steps, asked>>
  BY <1>6 DEF HumanInv, TypeOK
<1> QED BY <1>1, <1>2, <1>3, <1>4, <1>5, <1>6 DEF Next

LEMMA HumanInvObeys ==
  ASSUME HumanInv
  PROVE  TypeOK /\ NotMoreThanAsked /\ PressIsAnswered
<1>1. Repeating = HeldKey /\ Once = PressedKey
  BY DEF Repeating, Once, HeldKey, PressedKey
<1>2. \A k \in HeldKey : Due(k) = MovesDue(asked[k].since)
  BY <1>1 DEF Due, MovesDue
<1>3. \A k \in PressedKey : Due(k) = 1
  <2>1. \A k \in PressedKey : k \notin Repeating
    BY DEF PressedKey, Repeating
  <2> QED BY <2>1 DEF Due
<1>4. NotMoreThanAsked
  <2>1. ASSUME NEW k \in HeldKey, asked[k].missed \subseteq {"HeldForNextBlock"}
        PROVE  asked[k].moves <= Due(k)
    BY <1>2, <2>1 DEF HumanInv, HeldRight, Clean, Again
  <2>2. ASSUME NEW k \in PressedKey, asked[k].missed \subseteq {"HeldForNextBlock"}
        PROVE  asked[k].moves <= Due(k)
    BY <1>3, <2>2 DEF HumanInv, PressedRight, Clean, Again
  <2> QED BY <1>1, <2>1, <2>2 DEF NotMoreThanAsked
<1>5. PressIsAnswered
  BY <1>1 DEF HumanInv, HeldRight, PressedRight, PressIsAnswered
<1> QED BY <1>4, <1>5 DEF HumanInv

\* A human's keys are obeyed (KeysAreObeyed, of TetrisBoardController, DasArrHandler and ActionHandler with what
\* Keyboard and Device hand them): a key makes a move for each press, then one each time the delay and the
\* repeat are over while it is held, and none else, for waits of every length.
THEOREM KeysAreAlwaysObeyed == PlayerSpec => [](kind = "Human" => KeysAreObeyed)
<1> DEFINE Inv == kind = "Human" => HumanInv
<1>1. PlayerInit => Inv
  BY InitRight DEF PlayerInit
<1>2. Inv /\ [PlayerNext]_playerVars => Inv'
  <2> SUFFICES ASSUME Inv, [PlayerNext]_playerVars, kind' = "Human"
               PROVE  HumanInv'
    OBVIOUS
  <2>1. CASE kind = "Human" /\ Next /\ UNCHANGED <<kind, aiVars>>
    BY <2>1, NextRight
  <2>2. CASE kind = "Ai" /\ AiPlayer!Next /\ UNCHANGED <<kind, humanVars>>
    BY <2>2
  <2>3. CASE UNCHANGED playerVars
    BY <2>3, NextRight DEF playerVars, humanVars
  <2> QED BY <2>1, <2>2, <2>3 DEF PlayerNext
<1>3. Inv => (kind = "Human" => KeysAreObeyed)
  BY HumanInvObeys DEF KeysAreObeyed, PlayerTypeOK
<1> QED BY <1>1, <1>2, <1>3, PTL DEF PlayerSpec
=============================================================================
