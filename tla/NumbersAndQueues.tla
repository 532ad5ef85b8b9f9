--------------------------- MODULE NumbersAndQueues ---------------------------
(***************************************************************************)
(* Lemmas for the proofs about the components: a set of natural numbers     *)
(* that is not empty has a least element; the n-th of the places that are   *)
(* selected from a sequence exists; and what the messages of a queue do,    *)
(* one after the other, however many there are.                             *)
(***************************************************************************)
EXTENDS Selection, Sequences, WellFoundedInduction, SequenceTheorems, FiniteSetTheorems, TLAPS

Less == {pair \in Nat \X Nat : pair[1] < pair[2]}

\* The order of the natural numbers, as a relation.
LEMMA LessIsWellFounded == IsWellFoundedOn(Less, Nat)
BY NatLessThanWellFounded DEF OpToRel, Less

\* The least element.
LEMMA LeastExists ==
  ASSUME NEW S \in SUBSET Nat, S # {}
  PROVE  \E n \in S : \A m \in S : n <= m
<1>1. PICK n \in S : \A m \in S : ~(<<m, n>> \in Less)
  BY LessIsWellFounded, WFMin
<1>2. ASSUME NEW m \in S PROVE n <= m
  <2>1. n \in Nat /\ m \in Nat
    OBVIOUS
  <2>2. ~(m < n)
    BY <1>1, <2>1 DEF Less
  <2> QED BY <2>1, <2>2
<1> QED BY <1>2

-----------------------------------------------------------------------------
(* Selections *)

\* The elements of r are elements of seq, each from a place of its own.
EachFromItsPlace(r, seq) ==
  \E from \in [1 .. Len(r) -> DOMAIN seq] :
    /\ \A n \in 1 .. Len(r) : r[n] = seq[from[n]]
    /\ \A n, m \in 1 .. Len(r) : from[n] = from[m] => n = m

\* What is selected is a sequence of the elements asked for, each from a place of its own.
LEMMA SelectInParts ==
  ASSUME NEW T, NEW seq \in Seq(T), NEW S
  PROVE  /\ SelectIn(seq, S) \in Seq(T \cap S)
         /\ Len(SelectIn(seq, S)) <= Len(seq)
         /\ EachFromItsPlace(SelectIn(seq, S), seq)
<1> DEFINE places == {k \in DOMAIN seq : seq[k] \in S}
           upTo(k) == {j \in places : j <= k}
           c == Cardinality(places)
           from == [n \in 1 .. c |-> CHOOSE k \in places : Cardinality(upTo(k)) = n]
           result == SelectIn(seq, S)
<1>1. /\ DOMAIN seq = 1 .. Len(seq) /\ Len(seq) \in Nat
      /\ \A k \in DOMAIN seq : seq[k] \in T
  OBVIOUS
<1>2. /\ IsFiniteSet(places) /\ c \in Nat /\ c <= Len(seq)
      /\ \A k : IsFiniteSet(upTo(k)) /\ Cardinality(upTo(k)) \in Nat
  <2>1. IsFiniteSet(1 .. Len(seq)) /\ Cardinality(1 .. Len(seq)) = Len(seq)
    BY <1>1, FS_Interval
  <2>2. places \in SUBSET (1 .. Len(seq)) /\ \A k : upTo(k) \in SUBSET (1 .. Len(seq))
    BY <1>1
  <2> HIDE DEF places, upTo
  <2> QED BY <2>1, <2>2, FS_Subset, FS_CardinalityType
<1>3. ASSUME NEW n \in 1 .. c PROVE \E k \in places : Cardinality(upTo(k)) = n
  <2> DEFINE enough == {k \in 0 .. Len(seq) : Cardinality(upTo(k)) >= n}
  <2>1. Len(seq) \in enough
    <3>1. upTo(Len(seq)) = places
      BY <1>1
    <3> HIDE DEF places, upTo
    <3> QED BY <1>1, <1>2, <3>1
  <2>2. PICK k \in enough : \A m \in enough : k <= m
    <3>1. enough \in SUBSET Nat
      BY <1>1
    <3> HIDE DEF enough
    <3> QED BY <2>1, <3>1, LeastExists
  <2>3. k # 0
    <3>1. upTo(0) = {}
      BY <1>1
    <3> HIDE DEF places, upTo
    <3>2. Cardinality(upTo(0)) = 0
      BY <3>1, FS_EmptySet
    <3> QED BY <3>2, <2>2
  <2>4. k \in Nat /\ k - 1 \in 0 .. Len(seq) /\ ~(k - 1 \in enough) /\ Cardinality(upTo(k)) >= n
    BY <1>1, <2>2, <2>3
  <2>5. Cardinality(upTo(k - 1)) < n
    <3> HIDE DEF places, upTo, c
    <3> QED BY <1>2, <2>4
  <2>6. CASE k \in places
    <3>1. upTo(k) = upTo(k - 1) \cup {k}
      BY <2>4, <2>6, <1>1
    <3> HIDE DEF places, upTo, c
    <3>2. IsFiniteSet(upTo(k - 1)) /\ Cardinality(upTo(k - 1)) \in Nat /\ Cardinality(upTo(k)) \in Nat
      BY <1>2
    <3>3. \/ Cardinality(upTo(k - 1) \cup {k}) = Cardinality(upTo(k - 1))
          \/ Cardinality(upTo(k - 1) \cup {k}) = Cardinality(upTo(k - 1)) + 1
      <4> DEFINE below == upTo(k - 1)
      <4>1. IsFiniteSet(below)
        BY <3>2
      <4> HIDE DEF below
      <4> QED BY <4>1, FS_AddElement DEF below
    <3>4. n \in Nat /\ Cardinality(upTo(k)) >= n
      BY <1>2, <2>4
    <3>5. Cardinality(upTo(k)) \in {Cardinality(upTo(k - 1)), Cardinality(upTo(k - 1)) + 1}
      BY <3>1, <3>3
    <3>6. Cardinality(upTo(k)) = n
      BY <2>5, <3>2, <3>4, <3>5
    <3> QED BY <2>6, <3>6
  <2>7. CASE ~(k \in places)
    <3>1. upTo(k) = upTo(k - 1)
      BY <2>4, <2>7, <1>1
    <3> HIDE DEF places, upTo, c
    <3> QED BY <1>2, <2>4, <2>5, <3>1
  <2> QED BY <2>6, <2>7
<1>4. /\ from \in [1 .. c -> places]
      /\ \A n \in 1 .. c : Cardinality(upTo(from[n])) = n
  <2> HIDE DEF places, upTo, c
  <2> QED BY <1>3
<1>5. result = [n \in 1 .. c |-> seq[from[n]]]
  BY DEF SelectIn
<1>6. \A n \in 1 .. c : seq[from[n]] \in T \cap S
  BY <1>1, <1>4
<1> HIDE DEF places, upTo, c, from, result
<1>7. result \in Seq(T \cap S) /\ Len(result) = c
  BY <1>2, <1>5, <1>6
<1>8. from \in [1 .. Len(result) -> DOMAIN seq]
  BY <1>4, <1>7 DEF places
<1>9. /\ \A n \in 1 .. Len(result) : result[n] = seq[from[n]]
      /\ \A n, m \in 1 .. Len(result) : from[n] = from[m] => n = m
  BY <1>4, <1>5, <1>7
<1>10. EachFromItsPlace(result, seq)
  BY <1>8, <1>9 DEF EachFromItsPlace
<1> QED BY <1>2, <1>7, <1>10 DEF result

\* Nothing that is asked for is left out.
LEMMA SelectInAll ==
  ASSUME NEW T, NEW seq \in Seq(T), NEW S, NEW k \in DOMAIN seq, seq[k] \in S
  PROVE  \E n \in DOMAIN SelectIn(seq, S) : SelectIn(seq, S)[n] = seq[k]
<1> DEFINE places == {j \in DOMAIN seq : seq[j] \in S}
           upTo(j) == {l \in places : l <= j}
           c == Cardinality(places)
           n == Cardinality(upTo(k))
<1>1. DOMAIN seq = 1 .. Len(seq) /\ Len(seq) \in Nat
  BY LenProperties
<1>2. IsFiniteSet(places) /\ c \in Nat /\ places \subseteq Nat
  <2>1. IsFiniteSet(1 .. Len(seq)) /\ places \in SUBSET (1 .. Len(seq)) /\ 1 .. Len(seq) \subseteq Nat
    <3>1. IsFiniteSet(1 .. Len(seq))
      BY <1>1, FS_Interval
    <3>2. places \in SUBSET (1 .. Len(seq)) /\ 1 .. Len(seq) \subseteq Nat
      BY <1>1
    <3> QED BY <3>1, <3>2
  <2> HIDE DEF places
  <2> QED BY <2>1, FS_Subset, FS_CardinalityType
<1>3. k \in places
  OBVIOUS
<1>4. \A j : upTo(j) \in SUBSET places
  OBVIOUS
<1>5. \A j : IsFiniteSet(upTo(j)) /\ Cardinality(upTo(j)) \in Nat /\ Cardinality(upTo(j)) <= c
  <2> HIDE DEF places, upTo
  <2> QED BY <1>2, <1>4, FS_Subset, FS_CardinalityType
<1>6. ASSUME NEW j \in places, NEW l \in places, j < l PROVE Cardinality(upTo(j)) # Cardinality(upTo(l))
  <2>1. upTo(j) \in SUBSET upTo(l) /\ l \in upTo(l) /\ l \notin upTo(j)
    BY <1>1, <1>6
  <2>2. upTo(j) # upTo(l) /\ IsFiniteSet(upTo(l))
    BY <1>5, <2>1
  <2> HIDE DEF places, upTo
  <2> QED BY <2>1, <2>2, FS_Subset
<1>7. n \in 1 .. c
  <2>1. k \in upTo(k)
    BY <1>1
  <2>2. n # 0
    <3> HIDE DEF places, upTo
    <3> QED BY <1>5, <2>1, FS_EmptySet
  <2> HIDE DEF places, upTo, c
  <2>3. n \in Nat /\ n <= c
    BY <1>5
  <2> HIDE DEF n
  <2> QED BY <1>2, <2>2, <2>3
<1>8. SelectIn(seq, S) = [m \in 1 .. c |-> seq[CHOOSE j \in places : Cardinality(upTo(j)) = m]]
  BY DEF SelectIn
<1>9. (CHOOSE j \in places : Cardinality(upTo(j)) = n) = k
  <2> DEFINE j == CHOOSE j \in places : Cardinality(upTo(j)) = n
  <2>1. j \in places /\ Cardinality(upTo(j)) = n
    <3> HIDE DEF places, upTo
    <3> QED BY <1>3
  <2> HIDE DEF j, upTo, places
  <2>2. j \in Nat /\ k \in Nat
    BY <1>2, <1>3, <2>1
  <2> QED BY <1>3, <1>6, <2>1, <2>2
<1> HIDE DEF places, upTo, c, n
<1>10. n \in DOMAIN SelectIn(seq, S) /\ SelectIn(seq, S)[n] = seq[k]
  BY <1>7, <1>8, <1>9
<1> QED BY <1>10

\* What is selected from a sequence of which just the beginning is asked for.
LEMMA SelectBeginning ==
  ASSUME NEW T, NEW seq \in Seq(T), NEW S, NEW n \in 0 .. Len(seq), \A k \in 1 .. Len(seq) : seq[k] \in S <=> k <= n
  PROVE  SelectIn(seq, S) = [k \in 1 .. n |-> seq[k]]
<1> DEFINE places == {k \in DOMAIN seq : seq[k] \in S}
<1>0. n \in Nat /\ Len(seq) \in Nat /\ DOMAIN seq = 1 .. Len(seq)
  OBVIOUS
<1>1. places = 1 .. n
  BY <1>0
<1>2. Cardinality(1 .. n) = n
  BY <1>0, FS_Interval
<1> HIDE DEF places
<1>3. ASSUME NEW i \in 1 .. n PROVE (CHOOSE k \in places : Cardinality({j \in places : j <= k}) = i) = i
  <2>1. ASSUME NEW k \in places PROVE Cardinality({j \in places : j <= k}) = k
    <3>1. {j \in places : j <= k} = 1 .. k /\ k \in Nat
      BY <1>0, <1>1
    <3>2. Cardinality(1 .. k) = k
      BY <3>1, FS_Interval
    <3> QED BY <3>1, <3>2
  <2>2. i \in places
    BY <1>1
  <2> QED BY <2>1, <2>2
<1>4. SelectIn(seq, S) = [i \in 1 .. Cardinality(places) |->
        seq[CHOOSE k \in places : Cardinality({j \in places : j <= k}) = i]]
  BY DEF SelectIn, places
<1>5. Cardinality(places) = n
  BY <1>1, <1>2
<1>6. SelectIn(seq, S) = [i \in 1 .. n |-> seq[CHOOSE k \in places : Cardinality({j \in places : j <= k}) = i]]
  BY <1>4, <1>5
<1> QED BY <1>3, <1>6

-----------------------------------------------------------------------------
(* Queues that lead from one state to another *)

\* The messages of queue lead from first to last, each by a triple <<before, message, after>> of steps.
Linked(first, queue, last, steps) ==
  \E h : /\ h[0] = first /\ h[Len(queue)] = last
         /\ \A k \in 1 .. Len(queue) : <<h[k - 1], queue[k], h[k]>> \in steps

\* Without messages, nothing changes.
LEMMA LinkedEmpty ==
  ASSUME NEW first, NEW last, NEW steps
  PROVE  Linked(first, << >>, last, steps) <=> first = last
<1>1. ASSUME first = last PROVE Linked(first, << >>, last, steps)
  <2> DEFINE h == [k \in {0} |-> first]
  <2>1. h[0] = first /\ h[Len(<< >>)] = last /\ 1 .. Len(<< >>) = {}
    BY <1>1
  <2> QED BY <2>1 DEF Linked
<1>2. ASSUME Linked(first, << >>, last, steps) PROVE first = last
  <2>1. Len(<< >>) = 0
    OBVIOUS
  <2> QED BY <1>2, <2>1 DEF Linked
<1> QED BY <1>1, <1>2

\* The first message on its way is taken.
LEMMA TailOf ==
  ASSUME NEW T, NEW q \in Seq(T), q # << >>
  PROVE  /\ Tail(q) \in Seq(T) /\ Len(Tail(q)) = Len(q) - 1 /\ Len(q) \in Nat /\ Len(q) >= 1
         /\ Head(q) = q[1] /\ Head(q) \in T
         /\ \A k \in 1 .. Len(Tail(q)) : Tail(q)[k] = q[k + 1] /\ k + 1 \in 1 .. Len(q)
<1>1. /\ Tail(q) \in Seq(T) /\ Len(Tail(q)) = Len(q) - 1
      /\ \A k \in 1 .. Len(Tail(q)) : Tail(q)[k] = q[k + 1]
      /\ Head(q) \in T
  BY HeadTailProperties
<1>2. Len(q) \in Nat /\ Len(q) # 0 /\ Head(q) = q[1]
  BY EmptySeq
<1> QED BY <1>1, <1>2

\* The first message is handled.
LEMMA LinkedTail ==
  ASSUME NEW T, NEW queue \in Seq(T), queue # << >>, NEW first, NEW last, NEW steps,
         Linked(first, queue, last, steps)
  PROVE  \E next : <<first, Head(queue), next>> \in steps /\ Linked(next, Tail(queue), last, steps)
<1> DEFINE n == Len(queue)
           rest == Tail(queue)
<1>1. /\ n \in Nat /\ n >= 1 /\ Len(rest) = n - 1
      /\ \A k \in 1 .. n - 1 : rest[k] = queue[k + 1]
      /\ Head(queue) = queue[1]
  BY TailOf
<1>2. PICK h : /\ h[0] = first /\ h[n] = last
               /\ \A k \in 1 .. n : <<h[k - 1], queue[k], h[k]>> \in steps
  BY DEF Linked
<1> DEFINE g == [k \in 0 .. n - 1 |-> h[k + 1]]
<1> HIDE DEF n, rest
<1>3. g[0] = h[1] /\ g[n - 1] = h[n]
  BY <1>1
<1>4. \A k \in 1 .. n - 1 : <<g[k - 1], rest[k], g[k]>> \in steps
  <2> SUFFICES ASSUME NEW k \in 1 .. n - 1 PROVE <<g[k - 1], rest[k], g[k]>> \in steps
    OBVIOUS
  <2>1. k \in 0 .. n - 1 /\ k - 1 \in 0 .. n - 1 /\ k + 1 \in 1 .. n /\ (k - 1) + 1 = k /\ (k + 1) - 1 = k
    BY <1>1
  <2>2. g[k] = h[k + 1] /\ g[k - 1] = h[k]
    BY <2>1
  <2>3. <<h[k], queue[k + 1], h[k + 1]>> \in steps
    BY <1>2, <2>1
  <2> QED BY <1>1, <2>2, <2>3
<1> HIDE DEF g
<1>5. Linked(h[1], rest, last, steps)
  BY <1>1, <1>2, <1>3, <1>4 DEF Linked
<1>6. <<first, Head(queue), h[1]>> \in steps
  BY <1>1, <1>2
<1> QED BY <1>5, <1>6 DEF rest

\* A message is added.
LEMMA LinkedAppend ==
  ASSUME NEW T, NEW queue \in Seq(T), NEW first, NEW last, NEW steps, Linked(first, queue, last, steps),
         NEW m, NEW next, <<last, m, next>> \in steps
  PROVE  Linked(first, Append(queue, m), next, steps)
<1> DEFINE n == Len(queue)
           all == Append(queue, m)
<1>1. /\ n \in Nat /\ Len(all) = n + 1 /\ all[n + 1] = m
      /\ \A k \in 1 .. n : all[k] = queue[k]
  OBVIOUS
<1>2. PICK h : /\ h[0] = first /\ h[n] = last
               /\ \A k \in 1 .. n : <<h[k - 1], queue[k], h[k]>> \in steps
  BY DEF Linked
<1> DEFINE g == [k \in 0 .. n + 1 |-> IF k <= n THEN h[k] ELSE next]
<1> HIDE DEF n, all
<1>3. g[0] = first /\ g[n + 1] = next /\ g[n] = last
  BY <1>1, <1>2
<1>4. \A k \in 1 .. n + 1 : <<g[k - 1], all[k], g[k]>> \in steps
  <2> SUFFICES ASSUME NEW k \in 1 .. n + 1 PROVE <<g[k - 1], all[k], g[k]>> \in steps
    OBVIOUS
  <2>1. CASE k = n + 1
    <3>1. k - 1 = n
      BY <1>1, <2>1
    <3> QED BY <1>1, <1>3, <2>1, <3>1
  <2>2. CASE k # n + 1
    <3>1. k \in 1 .. n /\ k - 1 \in 0 .. n + 1 /\ k \in 0 .. n + 1 /\ k - 1 <= n /\ k <= n
      BY <1>1, <2>2
    <3>2. g[k] = h[k] /\ g[k - 1] = h[k - 1]
      BY <3>1
    <3> QED BY <1>1, <1>2, <3>1, <3>2
  <2> QED BY <2>1, <2>2
<1> HIDE DEF g
<1>5. Linked(first, all, next, steps)
  BY <1>1, <1>3, <1>4 DEF Linked
<1> QED BY <1>5 DEF all

\* The beginning of a queue leads somewhere.
LEMMA LinkedBeginning ==
  ASSUME NEW T, NEW queue \in Seq(T), NEW first, NEW last, NEW steps, Linked(first, queue, last, steps),
         NEW n \in 0 .. Len(queue)
  PROVE  \E next : Linked(first, SubSeq(queue, 1, n), next, steps)
<1>1. PICK h : /\ h[0] = first
               /\ \A k \in 1 .. Len(queue) : <<h[k - 1], queue[k], h[k]>> \in steps
  BY DEF Linked
<1>2. Len(queue) \in Nat /\ n \in Nat
  OBVIOUS
<1>3. Len(SubSeq(queue, 1, n)) = n /\ \A k \in 1 .. n : SubSeq(queue, 1, n)[k] = queue[k] /\ k \in 1 .. Len(queue)
  BY <1>2, SubSeqProperties
<1>4. Linked(first, SubSeq(queue, 1, n), h[n], steps)
  BY <1>1, <1>3 DEF Linked
<1> QED BY <1>4

\* A queue stays linked when more steps are allowed.
LEMMA LinkedMore ==
  ASSUME NEW queue, NEW first, NEW last, NEW steps, Linked(first, queue, last, steps), NEW more,
         \A k \in 1 .. Len(queue) : \A v, w : <<v, queue[k], w>> \in steps => <<v, queue[k], w>> \in more
  PROVE  Linked(first, queue, last, more)
BY DEF Linked

\* Messages that change nothing.
LEMMA LinkedStill ==
  ASSUME NEW T, NEW queue \in Seq(T), NEW v, NEW steps, \A k \in 1 .. Len(queue) : <<v, queue[k], v>> \in steps
  PROVE  Linked(v, queue, v, steps)
<1> DEFINE h == [k \in 0 .. Len(queue) |-> v]
<1>1. Len(queue) \in Nat
  OBVIOUS
<1>2. h[0] = v /\ h[Len(queue)] = v
  BY <1>1
<1>3. \A k \in 1 .. Len(queue) : h[k - 1] = v /\ h[k] = v
  BY <1>1
<1> HIDE DEF h
<1> QED BY <1>2, <1>3 DEF Linked

\* What no message changes stays.
LEMMA LinkedWithin ==
  ASSUME NEW T, NEW queue \in Seq(T), NEW first, NEW last, NEW steps, Linked(first, queue, last, steps),
         NEW P, first \in P,
         \A k \in 1 .. Len(queue) : \A v, w : v \in P /\ <<v, queue[k], w>> \in steps => w \in P
  PROVE  last \in P
<1>1. PICK h : /\ h[0] = first /\ h[Len(queue)] = last
               /\ \A k \in 1 .. Len(queue) : <<h[k - 1], queue[k], h[k]>> \in steps
  BY DEF Linked
<1> DEFINE out == {k \in 0 .. Len(queue) : h[k] \notin P}
<1>0. Len(queue) \in Nat
  OBVIOUS
<1> SUFFICES ASSUME out # {} PROVE FALSE
  BY <1>0, <1>1
<1>2. PICK k \in out : \A j \in out : k <= j
  <2>1. out \in SUBSET Nat
    BY <1>0
  <2> HIDE DEF out
  <2> QED BY <2>1, LeastExists
<1>3. k \in 1 .. Len(queue) /\ k - 1 \in 0 .. Len(queue) /\ ~(k - 1 \in out)
  BY <1>0, <1>1, <1>2
<1>4. h[k - 1] \in P
  BY <1>3
<1> QED BY <1>1, <1>2, <1>3, <1>4

\* What no message along the way changes holds before each message.
LEMMA LinkedAlong ==
  ASSUME NEW T, NEW queue \in Seq(T), NEW first, NEW last, NEW steps, Linked(first, queue, last, steps),
         NEW P, first \in P,
         \A k \in 1 .. Len(queue) : \A v, w : v \in P /\ <<v, queue[k], w>> \in steps => w \in P,
         NEW n \in 1 .. Len(queue)
  PROVE  \E v \in P : \E w : <<v, queue[n], w>> \in steps
<1>1. PICK h : /\ h[0] = first
               /\ \A k \in 1 .. Len(queue) : <<h[k - 1], queue[k], h[k]>> \in steps
  BY DEF Linked
<1> DEFINE out == {k \in 0 .. Len(queue) : h[k] \notin P}
<1>0. Len(queue) \in Nat /\ n - 1 \in 0 .. Len(queue)
  OBVIOUS
<1> SUFFICES ASSUME out # {} PROVE FALSE
  <2>1. out = {} => h[n - 1] \in P
    BY <1>0
  <2>2. <<h[n - 1], queue[n], h[n]>> \in steps
    BY <1>1
  <2> QED BY <2>1, <2>2
<1>2. PICK k \in out : \A j \in out : k <= j
  <2>1. out \in SUBSET Nat
    BY <1>0
  <2> HIDE DEF out
  <2> QED BY <2>1, LeastExists
<1>3. k \in 1 .. Len(queue) /\ k - 1 \in 0 .. Len(queue) /\ ~(k - 1 \in out)
  BY <1>0, <1>1, <1>2
<1>4. h[k - 1] \in P
  BY <1>3
<1> QED BY <1>1, <1>2, <1>3, <1>4

-----------------------------------------------------------------------------
(* What is not in a queue *)

\* No message of queue is of one of the types.
NoneOf(queue, types) == \A k \in 1 .. Len(queue) : queue[k].type \notin types

\* Nothing of a kind is added to a queue.
LEMMA NoneOfAppend ==
  ASSUME NEW T, NEW queue \in Seq(T), NEW m, NEW types
  PROVE  /\ NoneOf(Append(queue, m), types) <=> NoneOf(queue, types) /\ m.type \notin types
         /\ Len(Append(queue, m)) = Len(queue) + 1 /\ Len(queue) \in Nat
         /\ Append(queue, m)[Len(queue) + 1] = m
         /\ \A k \in 1 .. Len(queue) : Append(queue, m)[k] = queue[k]
<1>1. /\ Len(Append(queue, m)) = Len(queue) + 1 /\ Len(queue) \in Nat
      /\ Append(queue, m)[Len(queue) + 1] = m
      /\ \A k \in 1 .. Len(queue) : Append(queue, m)[k] = queue[k]
  OBVIOUS
<1> DEFINE all == Append(queue, m)
<1> HIDE DEF all
<1>2. NoneOf(all, types) <=> NoneOf(queue, types) /\ m.type \notin types
  <2>1. ASSUME NoneOf(all, types) PROVE NoneOf(queue, types) /\ m.type \notin types
    <3>1. Len(queue) + 1 \in 1 .. Len(all) /\ \A k \in 1 .. Len(queue) : k \in 1 .. Len(all)
      BY <1>1 DEF all
    <3> QED BY <1>1, <2>1, <3>1 DEF NoneOf, all
  <2>2. ASSUME NoneOf(queue, types), m.type \notin types PROVE NoneOf(all, types)
    <3>1. \A k \in 1 .. Len(all) : k \in 1 .. Len(queue) \/ k = Len(queue) + 1
      BY <1>1 DEF all
    <3> QED BY <1>1, <2>2, <3>1 DEF NoneOf, all
  <2> QED BY <2>1, <2>2
<1> QED BY <1>1, <1>2 DEF all

\* The rest of a queue has what it had, but for its first message.
LEMMA NoneOfTail ==
  ASSUME NEW T, NEW queue \in Seq(T), queue # << >>, NEW types
  PROVE  /\ NoneOf(queue, types) => NoneOf(Tail(queue), types)
         /\ NoneOf(Tail(queue), types) /\ Head(queue).type \notin types => NoneOf(queue, types)
         /\ (\A j, k \in 1 .. Len(queue) : queue[j].type \in types /\ queue[k].type \in types => j = k)
              => /\ \A j, k \in 1 .. Len(Tail(queue)) :
                      Tail(queue)[j].type \in types /\ Tail(queue)[k].type \in types => j = k
                 /\ Head(queue).type \in types => NoneOf(Tail(queue), types)
<1> DEFINE rest == Tail(queue)
<1>1. /\ Len(rest) = Len(queue) - 1 /\ Len(queue) \in Nat /\ Len(queue) >= 1
      /\ Head(queue) = queue[1]
      /\ \A k \in 1 .. Len(rest) : rest[k] = queue[k + 1] /\ k + 1 \in 1 .. Len(queue)
  BY TailOf
<1> HIDE DEF rest
<1>2. NoneOf(queue, types) => NoneOf(rest, types)
  BY <1>1 DEF NoneOf
<1>3. ASSUME NoneOf(rest, types), Head(queue).type \notin types, NEW k \in 1 .. Len(queue) PROVE queue[k].type \notin types
  <2>1. CASE k = 1
    BY <1>1, <1>3, <2>1
  <2>2. CASE k # 1
    <3>1. k - 1 \in 1 .. Len(rest) /\ (k - 1) + 1 = k
      BY <1>1, <2>2
    <3>2. rest[k - 1] = queue[k]
      BY <1>1, <3>1
    <3> QED BY <1>3, <3>1, <3>2 DEF NoneOf
  <2> QED BY <2>1, <2>2
<1>4. ASSUME \A j, k \in 1 .. Len(queue) : queue[j].type \in types /\ queue[k].type \in types => j = k
      PROVE  /\ \A j, k \in 1 .. Len(rest) : rest[j].type \in types /\ rest[k].type \in types => j = k
             /\ Head(queue).type \in types => NoneOf(rest, types)
  <2>1. ASSUME NEW j \in 1 .. Len(rest), NEW k \in 1 .. Len(rest), rest[j].type \in types, rest[k].type \in types
        PROVE  j = k
    <3>1. /\ rest[j] = queue[j + 1] /\ j + 1 \in 1 .. Len(queue)
          /\ rest[k] = queue[k + 1] /\ k + 1 \in 1 .. Len(queue)
      BY <1>1
    <3>2. j + 1 = k + 1
      BY <1>4, <2>1, <3>1
    <3>3. j \in Nat /\ k \in Nat
      BY <1>1
    <3> QED BY <3>2, <3>3
  <2>2. ASSUME Head(queue).type \in types, NEW k \in 1 .. Len(rest), rest[k].type \in types PROVE FALSE
    <3>1. rest[k] = queue[k + 1] /\ k + 1 \in 1 .. Len(queue) /\ 1 \in 1 .. Len(queue)
      BY <1>1
    <3>2. k + 1 = 1
      BY <1>1, <1>4, <2>2, <3>1
    <3> QED BY <1>1, <3>2
  <2> QED BY <2>1, <2>2 DEF NoneOf
<1> QED BY <1>2, <1>3, <1>4 DEF NoneOf, rest
=============================================================================
