--------------------------- MODULE Connection_proofs --------------------------
(***************************************************************************)
(* Proofs about Connection, for bytes of every size and every plan: what is *)
(* received in step is what was sent, and buffers are used again.           *)
(***************************************************************************)
EXTENDS Connection, SequenceTheorems, TLAPS

-----------------------------------------------------------------------------
(* The bytes of a message, and the stream of them *)

Bytes == [of : Nat, at : Nat, value : 0 .. Base - 1]

Size == 1 .. Base * Base - 1

LEMMA SizesArePositive == \A size \in Size : size \in Nat /\ size >= 1
<1>1. Base * Base - 1 \in Int
  BY ConnectionAssumption
<1> QED BY <1>1 DEF Size

\* A size has two digits.
LEMMA Digits ==
  ASSUME NEW size \in Size
  PROVE  /\ size \div Base \in 0 .. Base - 1 /\ size % Base \in 0 .. Base - 1
         /\ size < Base => size \div Base = 0 /\ size % Base = size
<1>1. Base \in Nat /\ Base >= 2 /\ size \in Nat /\ size < Base * Base
  BY ConnectionAssumption DEF Size
<1>2. size % Base \in 0 .. Base - 1 /\ size = Base * (size \div Base) + (size % Base) /\ size \div Base \in Int
  BY <1>1
<1> DEFINE q == size \div Base
<1> HIDE DEF q
<1>3. q >= 0
  <2> SUFFICES ASSUME q <= -1 PROVE FALSE
    BY <1>2 DEF q
  <2>1. Base * q <= Base * (-1)
    BY <1>1, <1>2 DEF q
  <2> QED BY <1>1, <1>2, <2>1 DEF q
<1>4. q <= Base - 1
  <2> SUFFICES ASSUME q >= Base PROVE FALSE
    BY <1>1, <1>2 DEF q
  <2>1. Base * q >= Base * Base
    BY <1>1, <1>2 DEF q
  <2> QED BY <1>1, <1>2, <2>1 DEF q
<1>5. size < Base => q = 0
  <2> SUFFICES ASSUME size < Base, q >= 1 PROVE FALSE
    BY <1>2, <1>3 DEF q
  <2>1. Base * q >= Base
    BY <1>1, <1>2 DEF q
  <2> QED BY <1>1, <1>2, <2>1 DEF q
<1>6. size < Base => size % Base = size
  BY <1>1
<1> QED BY <1>1, <1>2, <1>3, <1>4, <1>5, <1>6 DEF q

\* The size that is read has a value, whatever bytes it is read from.
LEMMA getBodySizeGood ==
  ASSUME NEW header \in Seq(Bytes), Len(header) \in {1, 2}
  PROVE  getBodySize(header) \in 0 .. Base * Base
<1>1. Base \in Nat /\ Base >= 2
  BY ConnectionAssumption
<1>2. header[1].value \in 0 .. Base - 1 /\ (Len(header) = 2 => header[2].value \in 0 .. Base - 1)
  <2>1. header[1] \in Bytes /\ (Len(header) = 2 => header[2] \in Bytes)
    OBVIOUS
  <2> QED BY <2>1 DEF Bytes
<1>3. ASSUME NEW a \in 0 .. Base - 1, NEW b \in 0 .. Base - 1 PROVE (Base - 1) * a + b \in 0 .. Base * Base
  <2>1. (Base - 1) * a \in Nat /\ (Base - 1) * a <= (Base - 1) * (Base - 1)
    BY <1>1
  <2>2. (Base - 1) * (Base - 1) = Base * Base - Base - Base + 1
    BY <1>1
  <2>3. Base * Base \in Nat
    BY <1>1
  <2> HIDE DEF getBodySize
  <2> QED BY <1>1, <2>1, <2>2, <2>3
<1>4. 0 \in 0 .. Base - 1
  BY <1>1
<1> QED BY <1>2, <1>3, <1>4 DEF getBodySize

\* The bytes of a message: two of its size, and the body.
LEMMA setBufferGood ==
  ASSUME NEW k \in Nat, NEW size \in Size
  PROVE  /\ setBuffer(k, size) \in Seq(Bytes) /\ Len(setBuffer(k, size)) = size + 2
         /\ DOMAIN setBuffer(k, size) = 1 .. size + 2
         /\ \A i \in 1 .. size + 2 : setBuffer(k, size)[i].of = k /\ setBuffer(k, size)[i].at = i
         /\ setBuffer(k, size)[1].value = size \div Base
         /\ setBuffer(k, size)[2].value = size % Base
<1>1. Base \in Nat /\ Base >= 2 /\ size \in Nat /\ size >= 1
  BY ConnectionAssumption DEF Size
<1> DEFINE v(i) == CASE i = 1 -> size \div Base [] i = 2 -> size % Base [] OTHER -> Content
<1>2. \A i \in Nat : v(i) \in 0 .. Base - 1
  BY <1>1, Digits DEF Content
<1>3. v(1) = size \div Base /\ v(2) = size % Base
  OBVIOUS
<1>4. setBuffer(k, size) = [i \in 1 .. size + 2 |-> [of |-> k, at |-> i, value |-> v(i)]]
  BY DEF setBuffer, Byte
<1> HIDE DEF v
<1>5. size + 2 \in Nat /\ 1 \in 1 .. size + 2 /\ 2 \in 1 .. size + 2
  BY <1>1
<1>6. \A i \in 1 .. size + 2 : [of |-> k, at |-> i, value |-> v(i)] \in Bytes
  BY <1>1, <1>2 DEF Bytes
<1> QED BY <1>3, <1>4, <1>5, <1>6

-----------------------------------------------------------------------------
(* The stream *)

\* A part of a sequence.
LEMMA SubSeqParts ==
  ASSUME NEW T, NEW s \in Seq(T), NEW m \in 1 .. Len(s) + 1, NEW n \in m - 1 .. Len(s)
  PROVE  /\ SubSeq(s, m, n) \in Seq(T) /\ Len(SubSeq(s, m, n)) = n - m + 1
         /\ DOMAIN SubSeq(s, m, n) = 1 .. n - m + 1
         /\ \A i \in 1 .. n - m + 1 : SubSeq(s, m, n)[i] = s[m + i - 1]
<1>1. Len(s) \in Nat /\ m \in Int /\ n \in Int /\ 1 <= m /\ n <= Len(s) /\ m <= n + 1
  OBVIOUS
<1>2. \A i \in m .. n : s[i] \in T
  BY <1>1
<1>3. /\ SubSeq(s, m, n) \in Seq(T) /\ Len(SubSeq(s, m, n)) = IF m <= n THEN n - m + 1 ELSE 0
      /\ \A i \in 1 .. n - m + 1 : SubSeq(s, m, n)[i] = s[m + i - 1]
  BY <1>1, <1>2, SubSeqProperties
<1>4. Len(SubSeq(s, m, n)) = n - m + 1
  BY <1>1, <1>3
<1>5. DOMAIN SubSeq(s, m, n) = 1 .. Len(SubSeq(s, m, n))
  BY <1>3
<1> QED BY <1>3, <1>4, <1>5

\* What is left of a sequence.
LEMMA RestParts ==
  ASSUME NEW T, NEW s \in Seq(T), NEW n \in 0 .. Len(s)
  PROVE  /\ SubSeq(s, n + 1, Len(s)) \in Seq(T) /\ Len(SubSeq(s, n + 1, Len(s))) = Len(s) - n
         /\ \A i \in 1 .. Len(s) - n : SubSeq(s, n + 1, Len(s))[i] = s[n + i]
<1> DEFINE m == n + 1
           l == Len(s)
<1>1. /\ l \in Nat /\ m \in 1 .. l + 1 /\ l \in m - 1 .. l /\ l - m + 1 = l - n
      /\ \A i \in 1 .. l - n : m + i - 1 = n + i
  OBVIOUS
<1> HIDE DEF m
<1>2. /\ SubSeq(s, m, l) \in Seq(T) /\ Len(SubSeq(s, m, l)) = l - m + 1
      /\ \A i \in 1 .. l - m + 1 : SubSeq(s, m, l)[i] = s[m + i - 1]
  BY <1>1, SubSeqParts
<1> HIDE DEF l
<1>3. /\ SubSeq(s, m, l) \in Seq(T) /\ Len(SubSeq(s, m, l)) = l - n
      /\ \A i \in 1 .. l - n : SubSeq(s, m, l)[i] = s[n + i]
  BY <1>1, <1>2
<1> QED BY <1>3 DEF m, l

\* Where each message begins in the stream, and where the next one will.
Offsets(off, S) ==
  /\ off \in [1 .. Len(S) + 1 -> Nat]
  /\ \A k \in 1 .. Len(S) : off[k + 1] = off[k] + S[k] + 2
  /\ \A j, k \in 1 .. Len(S) + 1 : j < k => off[j] + S[j] + 2 <= off[k]

\* The n-th byte of the stream of messages of these sizes.
IsNth(b, n, off, S) ==
  /\ b \in Bytes
  /\ b.of \in 1 .. Len(S) /\ b.at \in 1 .. S[b.of] + 2
  /\ b.at = 1 => b.value = S[b.of] \div Base
  /\ b.at = 2 => b.value = S[b.of] % Base
  /\ b = setBuffer(b.of, S[b.of])[b.at]
  /\ off[b.of] + b.at = n

\* How much was read: r messages, and the header of the next.
Here(off, r, want) == off[r + 1] + (IF want = Header THEN 0 ELSE 2)

\* Where the bytes of the j-th message that is written begin.
StartOf(j, off, S, W, w, r, want) ==
  IF j = 1 THEN Here(off, r, want) + Len(w) ELSE off[Len(S) - Len(W) + j]

\* What is to be read, and what is to be written, are the stream from where the reader is.
InOrder(off, S, W, w, r, want) ==
  /\ Offsets(off, S)
  /\ r \in 0 .. Len(S) /\ Len(W) <= Len(S)
  /\ want # Header => r < Len(S) /\ want = S[r + 1]
  /\ \A i \in 1 .. Len(w) : IsNth(w[i], Here(off, r, want) + i, off, S)
  /\ \A j \in 1 .. Len(W) :
       /\ \A i \in 1 .. Len(W[j]) : IsNth(W[j][i], StartOf(j, off, S, W, w, r, want) + i, off, S)
       /\ StartOf(j, off, S, W, w, r, want) + Len(W[j]) = off[Len(S) - Len(W) + j + 1]
  /\ Len(W) = 0 => Here(off, r, want) + Len(w) = off[Len(S) + 1]

Ordered(S, W, w, r, want) == \E off : InOrder(off, S, W, w, r, want)

\* A place in the stream belongs to one message.
LEMMA OnePlace ==
  ASSUME NEW S \in Seq(Size), NEW off, Offsets(off, S), NEW b, NEW n, IsNth(b, n, off, S),
         NEW k \in 1 .. Len(S) + 1, NEW a \in Nat, a >= 1, n = off[k] + a, k <= Len(S) => a <= S[k] + 2
  PROVE  k <= Len(S) /\ b.of = k /\ b.at = a
<1> DEFINE of == b.of
           at == b.at
<1>1. Len(S) \in Nat /\ \A m \in 1 .. Len(S) : S[m] \in Nat
  BY SizesArePositive
<1>2. of \in 1 .. Len(S) /\ at \in 1 .. S[of] + 2 /\ off[of] + at = off[k] + a
  BY DEF IsNth
<1>3. \A m \in 1 .. Len(S) + 1 : off[m] \in Nat
  BY DEF Offsets
<1>4. of \in 1 .. Len(S) + 1 /\ off[of] \in Nat /\ off[k] \in Nat /\ S[of] \in Nat /\ at \in Nat /\ k \in Nat
  BY <1>1, <1>2, <1>3
<1>5. \A j, m \in 1 .. Len(S) + 1 : j < m => off[j] + S[j] + 2 <= off[m]
  BY DEF Offsets
<1>6. 1 <= at /\ at <= S[of] + 2
  BY <1>2, <1>4
<1> HIDE DEF of, at
<1>7. ASSUME NEW x \in Nat, NEW y \in Nat, NEW s \in Nat, NEW i \in Nat, NEW j \in Nat,
             i <= s + 2, x + i = y + j, j >= 1
      PROVE  ~(x + s + 2 <= y)
  BY <1>7
<1>8. ~(of < k)
  <2> SUFFICES ASSUME of < k PROVE FALSE
    OBVIOUS
  <2>1. off[of] + S[of] + 2 <= off[k]
    BY <1>4, <1>5
  <2> QED BY <1>2, <1>4, <1>6, <1>7, <2>1
<1>9. ~(k < of)
  <2> SUFFICES ASSUME k < of PROVE FALSE
    OBVIOUS
  <2>1. k \in 1 .. Len(S)
    BY <1>1, <1>2, <1>4
  <2>2. S[k] \in Nat /\ a <= S[k] + 2
    BY <1>1, <2>1
  <2>3. off[k] + S[k] + 2 <= off[of]
    BY <1>4, <1>5
  <2>4. off[k] + a = off[of] + at
    BY <1>2
  <2> QED BY <1>4, <1>6, <1>7, <2>2, <2>3, <2>4
<1>10. of = k
  BY <1>1, <1>2, <1>4, <1>8, <1>9
<1>11. at = a
  BY <1>2, <1>4, <1>10
<1> QED BY <1>1, <1>2, <1>10, <1>11 DEF of, at

\* A connection that begins has nothing to read or to write.
LEMMA EmptyStream == Ordered(<< >>, << >>, << >>, 0, Header)
<1> DEFINE off == [k \in 1 .. 1 |-> 0]
<1>1. off \in [1 .. Len(<< >>) + 1 -> Nat] /\ off[1] = 0
  OBVIOUS
<1> HIDE DEF off
<1>2. Offsets(off, << >>)
  BY <1>1 DEF Offsets
<1>3. InOrder(off, << >>, << >>, << >>, 0, Header)
  BY <1>1, <1>2 DEF InOrder, Here
<1> QED BY <1>3 DEF Ordered

\* A header that is read tells the size of the next body.
LEMMA HeaderRead ==
  ASSUME NEW S \in Seq(Size), NEW W \in Seq(Seq(Bytes)), NEW w \in Seq(Bytes), NEW r,
         Ordered(S, W, w, r, Header), \A k \in DOMAIN S : S[k] < Base, Len(w) >= 2
  PROVE  Ordered(S, W, SubSeq(w, 3, Len(w)), r, getBodySize(SubSeq(w, 1, 2)))
<1> DEFINE rest == SubSeq(w, 3, Len(w))
           size == getBodySize(SubSeq(w, 1, 2))
<1>1. PICK off : InOrder(off, S, W, w, r, Header)
  BY DEF Ordered
<1>2. /\ Offsets(off, S) /\ r \in 0 .. Len(S)
      /\ \A i \in 1 .. Len(w) : IsNth(w[i], Here(off, r, Header) + i, off, S)
  BY <1>1 DEF InOrder
<1>3. /\ Len(S) \in Nat /\ Len(w) \in Nat /\ r \in Nat /\ r + 1 \in 1 .. Len(S) + 1
      /\ \A k \in 1 .. Len(S) : S[k] \in Size /\ S[k] \in Nat /\ S[k] >= 1 /\ S[k] < Base
  BY <1>2, SizesArePositive
<1>4. Here(off, r, Header) = off[r + 1] /\ off[r + 1] \in Nat
  <2>1. r + 1 \in 1 .. Len(S) + 1 /\ off \in [1 .. Len(S) + 1 -> Nat]
    BY <1>2, <1>3 DEF Offsets
  <2>2. off[r + 1] \in Nat
    BY <2>1
  <2> QED BY <2>2 DEF Here
<1>5. IsNth(w[1], off[r + 1] + 1, off, S) /\ IsNth(w[2], off[r + 1] + 2, off, S)
  BY <1>2, <1>3, <1>4
<1>6. r + 1 <= Len(S) /\ w[1].of = r + 1 /\ w[1].at = 1 /\ w[2].of = r + 1 /\ w[2].at = 2
  BY <1>2, <1>3, <1>5, OnePlace
<1>7. w[1].value = 0 /\ w[2].value = S[r + 1] /\ S[r + 1] \in Nat /\ S[r + 1] >= 1
  <2>1. S[r + 1] \in Size /\ S[r + 1] < Base /\ S[r + 1] \in Nat /\ S[r + 1] >= 1
    BY <1>3, <1>6
  <2> QED BY <1>5, <1>6, <2>1, Digits DEF IsNth
<1>8. size = S[r + 1] /\ size # Header
  <2>1. Len(SubSeq(w, 1, 2)) = 2 /\ SubSeq(w, 1, 2)[1] = w[1] /\ SubSeq(w, 1, 2)[2] = w[2]
    BY <1>3, SubSeqProperties
  <2>2. Base - 1 \in Nat
    BY ConnectionAssumption
  <2> QED BY <1>7, <2>1, <2>2 DEF getBodySize, Header
<1>9. Len(rest) = Len(w) - 2 /\ \A i \in 1 .. Len(rest) : rest[i] = w[i + 2]
  <2>1. 3 \in 1 .. Len(w) + 1 /\ Len(w) \in 3 - 1 .. Len(w) /\ Len(w) - 3 + 1 = Len(w) - 2
    BY <1>3
  <2>2. Len(rest) = Len(w) - 2 /\ \A i \in 1 .. Len(w) - 2 : rest[i] = w[3 + i - 1]
    BY <2>1, SubSeqParts
  <2> HIDE DEF rest
  <2> QED BY <1>3, <2>2
<1> HIDE DEF rest, size
<1>10. Here(off, r, size) = Here(off, r, Header) + 2 /\ Here(off, r, Header) \in Nat
  BY <1>4, <1>8 DEF Here
<1>11. \A i \in 1 .. Len(rest) : IsNth(rest[i], Here(off, r, size) + i, off, S)
  <2> SUFFICES ASSUME NEW i \in 1 .. Len(rest) PROVE IsNth(rest[i], Here(off, r, size) + i, off, S)
    OBVIOUS
  <2>1. i + 2 \in 1 .. Len(w) /\ rest[i] = w[i + 2]
    BY <1>3, <1>9
  <2>2. IsNth(w[i + 2], Here(off, r, Header) + (i + 2), off, S)
    BY <1>2, <2>1
  <2>3. Here(off, r, Header) + (i + 2) = Here(off, r, size) + i
    BY <1>3, <1>9, <1>10
  <2> QED BY <2>1, <2>2, <2>3
<1>12. Here(off, r, Header) + Len(w) = Here(off, r, size) + Len(rest)
  BY <1>3, <1>9, <1>10
<1>13. \A j : StartOf(j, off, S, W, rest, r, size) = StartOf(j, off, S, W, w, r, Header)
  BY <1>12 DEF StartOf
<1>14. r < Len(S)
  BY <1>3, <1>6
<1>15. InOrder(off, S, W, rest, r, size)
  BY <1>1, <1>8, <1>11, <1>12, <1>13, <1>14 DEF InOrder
<1> QED BY <1>15 DEF Ordered, rest, size

\* What is known of a stream, part by part.
LEMMA StreamParts ==
  ASSUME NEW S \in Seq(Size), NEW W \in Seq(Seq(Bytes)), NEW w \in Seq(Bytes), NEW r, NEW want, NEW off,
         InOrder(off, S, W, w, r, want)
  PROVE  /\ Offsets(off, S) /\ r \in Nat /\ r <= Len(S) /\ r + 1 \in 1 .. Len(S) + 1
         /\ Len(S) \in Nat /\ Len(W) \in Nat /\ Len(w) \in Nat /\ Len(W) <= Len(S)
         /\ \A k \in 1 .. Len(S) + 1 : off[k] \in Nat
         /\ \A k \in 1 .. Len(S) : S[k] \in Size /\ S[k] \in Nat /\ S[k] >= 1
         /\ Here(off, r, want) \in Nat
         /\ \A i \in 1 .. Len(w) : IsNth(w[i], Here(off, r, want) + i, off, S)
<1>1. /\ Offsets(off, S) /\ r \in 0 .. Len(S) /\ Len(W) <= Len(S)
      /\ \A i \in 1 .. Len(w) : IsNth(w[i], Here(off, r, want) + i, off, S)
  BY DEF InOrder
<1>2. Len(S) \in Nat /\ Len(W) \in Nat /\ Len(w) \in Nat /\ r \in Nat /\ r <= Len(S) /\ r + 1 \in 1 .. Len(S) + 1
  BY <1>1
<1>3. \A k \in 1 .. Len(S) : S[k] \in Size /\ S[k] \in Nat /\ S[k] >= 1
  BY SizesArePositive
<1>4. \A k \in 1 .. Len(S) + 1 : off[k] \in Nat
  BY <1>1 DEF Offsets
<1>5. off[r + 1] \in Nat
  BY <1>2, <1>4
<1>6. Here(off, r, want) \in Nat
  BY <1>5 DEF Here
<1> QED BY <1>1, <1>2, <1>3, <1>4, <1>6

\* The body that is read is the one of the message it is the turn of.
LEMMA BodyRead ==
  ASSUME NEW S \in Seq(Size), NEW W \in Seq(Seq(Bytes)), NEW w \in Seq(Bytes), NEW r, NEW want,
         want # Header, Ordered(S, W, w, r, want), Len(w) >= want
  PROVE  /\ r \in Nat /\ r + 1 \in 1 .. Len(S) /\ want = S[r + 1]
         /\ SubSeq(w, 1, want) = SubSeq(setBuffer(r + 1, want), 3, want + 2)
         /\ Ordered(S, W, SubSeq(w, want + 1, Len(w)), r + 1, Header)
<1> DEFINE rest == SubSeq(w, want + 1, Len(w))
           message == setBuffer(r + 1, want)
<1>1. PICK off : InOrder(off, S, W, w, r, want)
  BY DEF Ordered
<1>2. /\ Offsets(off, S) /\ r \in Nat /\ r <= Len(S) /\ r + 1 \in 1 .. Len(S) + 1
      /\ Len(S) \in Nat /\ Len(w) \in Nat
      /\ \A k \in 1 .. Len(S) + 1 : off[k] \in Nat
      /\ \A k \in 1 .. Len(S) : S[k] \in Size /\ S[k] \in Nat /\ S[k] >= 1
      /\ Here(off, r, want) \in Nat
      /\ \A i \in 1 .. Len(w) : IsNth(w[i], Here(off, r, want) + i, off, S)
  BY <1>1, StreamParts
<1>3. r < Len(S) /\ want = S[r + 1]
  BY <1>1 DEF InOrder
<1>4. r + 1 \in 1 .. Len(S) /\ want \in Size /\ want \in Nat /\ want >= 1 /\ r + 2 \in 1 .. Len(S) + 1
  BY <1>2, <1>3
<1>5. /\ off[r + 2] = off[r + 1] + want + 2 /\ off[r + 1] \in Nat /\ off[r + 2] \in Nat
      /\ Here(off, r, want) = off[r + 1] + 2 /\ Here(off, r + 1, Header) = off[r + 2]
  <2>1. off[(r + 1) + 1] = off[r + 1] + S[r + 1] + 2 /\ (r + 1) + 1 = r + 2
    BY <1>2, <1>4 DEF Offsets
  <2> QED BY <1>2, <1>3, <1>4, <2>1 DEF Here
<1> DEFINE begin == off[r + 1]
           here == Here(off, r, want)
           after == Here(off, r + 1, Header)
<1>a. begin \in Nat /\ here = begin + 2 /\ after = begin + want + 2 /\ want \in Nat /\ want >= 1
  BY <1>4, <1>5
<1>b. \A i \in 1 .. Len(w) : IsNth(w[i], here + i, off, S)
  BY <1>2
<1> HIDE DEF begin, here, after
<1>6. ASSUME NEW i \in 1 .. want PROVE w[i] = message[i + 2]
  <2>1. i \in Nat /\ i >= 1 /\ i \in 1 .. Len(w) /\ i + 2 <= S[r + 1] + 2 /\ i + 2 \in Nat
    BY <1>2, <1>3, <1>4
  <2>2. IsNth(w[i], off[r + 1] + (i + 2), off, S)
    <3>1. here + i = begin + (i + 2)
      BY <1>a
    <3>2. IsNth(w[i], here + i, off, S)
      BY <1>b, <2>1
    <3> QED BY <3>1, <3>2 DEF begin
  <2>3. w[i].of = r + 1 /\ w[i].at = i + 2
    <3>1. Offsets(off, S) /\ r + 1 \in 1 .. Len(S) + 1 /\ i + 2 >= 1 /\ i + 2 \in Nat /\ i + 2 <= S[r + 1] + 2
      BY <1>2, <2>1
    <3> DEFINE k == r + 1
               a == i + 2
               n == off[k] + a
    <3>2. /\ k \in 1 .. Len(S) + 1 /\ a \in Nat /\ a >= 1 /\ n = off[k] + a /\ a <= S[k] + 2
          /\ IsNth(w[i], n, off, S)
      BY <2>2, <3>1
    <3> HIDE DEF k, a, n
    <3>3. w[i].of = k /\ w[i].at = a
      BY <3>1, <3>2, OnePlace
    <3> QED BY <3>3 DEF k, a
  <2> QED BY <1>3, <2>2, <2>3 DEF IsNth
<1>7. SubSeq(w, 1, want) = SubSeq(message, 3, want + 2)
  <2>1. message \in Seq(Bytes) /\ Len(message) = want + 2
    BY <1>2, <1>4, setBufferGood
  <2> HIDE DEF message
  <2>2. 1 \in 1 .. Len(w) + 1 /\ want \in 1 - 1 .. Len(w) /\ want - 1 + 1 = want
    BY <1>2, <1>4
  <2>3. /\ SubSeq(w, 1, want) \in Seq(Bytes) /\ Len(SubSeq(w, 1, want)) = want
        /\ \A i \in 1 .. want : SubSeq(w, 1, want)[i] = w[1 + i - 1]
    BY <2>2, SubSeqParts
  <2>4. 3 \in 1 .. Len(message) + 1 /\ want + 2 \in 3 - 1 .. Len(message) /\ (want + 2) - 3 + 1 = want
    BY <1>4, <2>1
  <2>5. /\ SubSeq(message, 3, want + 2) \in Seq(Bytes) /\ Len(SubSeq(message, 3, want + 2)) = want
        /\ \A i \in 1 .. want : SubSeq(message, 3, want + 2)[i] = message[3 + i - 1]
    BY <2>1, <2>4, SubSeqParts
  <2>6. \A i \in 1 .. want : 1 + i - 1 = i /\ 3 + i - 1 = i + 2
    BY <1>4
  <2>7. \A i \in 1 .. want : SubSeq(w, 1, want)[i] = SubSeq(message, 3, want + 2)[i]
    BY <1>6, <2>3, <2>5, <2>6
  <2> QED BY <2>3, <2>5, <2>7, SeqEqual
<1>8. Len(rest) = Len(w) - want /\ \A i \in 1 .. Len(rest) : rest[i] = w[want + i]
  <2>1. want \in 0 .. Len(w)
    BY <1>2, <1>4
  <2>2. Len(rest) = Len(w) - want /\ \A i \in 1 .. Len(w) - want : rest[i] = w[want + i]
    BY <2>1, RestParts
  <2> HIDE DEF rest
  <2> QED BY <2>2
<1> HIDE DEF rest, message
<1>9. \A i \in 1 .. Len(rest) : IsNth(rest[i], after + i, off, S)
  <2> SUFFICES ASSUME NEW i \in 1 .. Len(rest) PROVE IsNth(rest[i], after + i, off, S)
    OBVIOUS
  <2>1. want + i \in 1 .. Len(w) /\ rest[i] = w[want + i]
    <3>1. Len(w) \in Nat
      BY <1>2
    <3> QED BY <1>a, <1>8, <3>1
  <2>2. here + (want + i) = after + i
    BY <1>a
  <2>3. IsNth(w[want + i], here + (want + i), off, S)
    BY <1>b, <2>1
  <2> QED BY <2>1, <2>2, <2>3
<1>10. here + Len(w) = after + Len(rest)
  <2>1. Len(w) \in Nat
    BY <1>2
  <2> QED BY <1>a, <1>8, <2>1
<1>11. \A j : StartOf(j, off, S, W, rest, r + 1, Header) = StartOf(j, off, S, W, w, r, want)
  BY <1>10 DEF StartOf, here, after
<1>12. r + 1 \in 0 .. Len(S)
  BY <1>2, <1>4
<1>13. InOrder(off, S, W, rest, r + 1, Header)
  BY <1>1, <1>9, <1>10, <1>11, <1>12 DEF InOrder, here, after
<1> QED BY <1>2, <1>3, <1>4, <1>7, <1>13 DEF Ordered, rest, message
\* A message that is sent comes after those that are written.
LEMMA MessageQueued ==
  ASSUME NEW S \in Seq(Size), NEW W \in Seq(Seq(Bytes)), NEW w \in Seq(Bytes), NEW r, NEW want,
         Ordered(S, W, w, r, want), NEW size \in Size
  PROVE  Ordered(Append(S, size), Append(W, setBuffer(Len(S) + 1, size)), w, r, want)
<1> DEFINE m == Len(S)
           l == Len(W)
           message == setBuffer(m + 1, size)
           S2 == Append(S, size)
           W2 == Append(W, message)
<1>1. PICK off : InOrder(off, S, W, w, r, want)
  BY DEF Ordered
<1> DEFINE end == off[m + 1]
           off2 == [k \in 1 .. m + 2 |-> IF k = m + 2 THEN end + size + 2 ELSE off[k]]
<1>2. /\ Offsets(off, S) /\ r \in Nat /\ r <= m /\ r + 1 \in 1 .. m + 1
      /\ m \in Nat /\ l \in Nat /\ Len(w) \in Nat /\ l <= m
      /\ \A k \in 1 .. m + 1 : off[k] \in Nat
      /\ \A k \in 1 .. m : S[k] \in Size /\ S[k] \in Nat /\ S[k] >= 1
      /\ Here(off, r, want) \in Nat
      /\ \A i \in 1 .. Len(w) : IsNth(w[i], Here(off, r, want) + i, off, S)
  BY <1>1, StreamParts
<1>3. size \in Nat /\ size >= 1
  BY SizesArePositive
<1>4. Len(S2) = m + 1 /\ S2[m + 1] = size /\ \A k \in 1 .. m : S2[k] = S[k]
  BY <1>2
<1>5. message \in Seq(Bytes) /\ Len(message) = size + 2
      /\ \A i \in 1 .. size + 2 : message[i].of = m + 1 /\ message[i].at = i
      /\ message[1].value = size \div Base /\ message[2].value = size % Base
  BY <1>2, setBufferGood
<1> HIDE DEF message
<1>6. Len(W2) = l + 1 /\ W2[l + 1] = message /\ \A j \in 1 .. l : W2[j] = W[j]
  BY <1>2, <1>5
<1>7. end \in Nat /\ off2[m + 2] = end + size + 2 /\ \A k \in 1 .. m + 1 : off2[k] = off[k]
  <2>1. m + 1 \in 1 .. m + 1 /\ m + 2 \in 1 .. m + 2 /\ \A k \in 1 .. m + 1 : k \in 1 .. m + 2 /\ k # m + 2
    BY <1>2
  <2>2. end \in Nat
    BY <1>2, <2>1
  <2> HIDE DEF end, m
  <2> QED BY <2>1, <2>2
<1>8. off2 \in [1 .. m + 2 -> Nat]
  <2>1. \A k \in 1 .. m + 2 : k # m + 2 => k \in 1 .. m + 1
    BY <1>2
  <2>2. end + size + 2 \in Nat
    BY <1>3, <1>7
  <2> HIDE DEF end, m
  <2> QED BY <1>2, <2>1, <2>2
<1> HIDE DEF S2, W2, off2
<1>9. Offsets(off2, S2)
  <2>1. off2 \in [1 .. Len(S2) + 1 -> Nat]
    BY <1>2, <1>4, <1>8
  <2>2. ASSUME NEW k \in 1 .. m + 1 PROVE off2[k + 1] = off2[k] + S2[k] + 2
    <3>1. CASE k = m + 1
      <4>1. k + 1 = m + 2 /\ m + 1 \in 1 .. m + 1
        BY <1>2, <3>1
      <4> QED BY <1>4, <1>7, <3>1, <4>1
    <3>2. CASE k # m + 1
      <4>1. k \in 1 .. m /\ k \in 1 .. m + 1 /\ k + 1 \in 1 .. m + 1
        BY <1>2, <3>2
      <4>2. off[k + 1] = off[k] + S[k] + 2
        BY <1>2, <4>1 DEF Offsets
      <4> QED BY <1>4, <1>7, <4>1, <4>2
    <3> QED BY <3>1, <3>2
  <2>3. ASSUME NEW j \in 1 .. m + 2, NEW k \in 1 .. m + 2, j < k PROVE off2[j] + S2[j] + 2 <= off2[k]
    <3>1. CASE k \in 1 .. m + 1
      <4>1. j \in 1 .. m /\ j \in 1 .. m + 1
        BY <1>2, <2>3, <3>1
      <4>2. off[j] + S[j] + 2 <= off[k]
        BY <1>2, <2>3, <3>1, <4>1 DEF Offsets
      <4> QED BY <1>4, <1>7, <3>1, <4>1, <4>2
    <3>2. CASE k = m + 2 /\ j = m + 1
      <4>1. m + 1 \in 1 .. m + 1
        BY <1>2
      <4>2. off2[k] = end + size + 2 /\ off2[j] = end /\ S2[j] = size
        BY <1>4, <1>7, <3>2, <4>1
      <4> QED BY <1>3, <1>7, <4>2
    <3>3. CASE k = m + 2 /\ j \in 1 .. m
      <4>1. j \in 1 .. m + 1 /\ m + 1 \in 1 .. m + 1 /\ j < m + 1
        BY <1>2, <3>3
      <4>2. off[j] + S[j] + 2 <= end /\ off[j] \in Nat /\ S[j] \in Nat
        BY <1>2, <3>3, <4>1 DEF Offsets
      <4>3. off2[k] = end + size + 2 /\ off2[j] = off[j] /\ S2[j] = S[j]
        BY <1>4, <1>7, <3>3, <4>1
      <4> HIDE DEF end
      <4> QED BY <1>3, <1>7, <4>2, <4>3
    <3> QED BY <1>2, <2>3, <3>1, <3>2, <3>3
  <2>4. Len(S2) + 1 = m + 2
    BY <1>2, <1>4
  <2> QED BY <1>4, <2>1, <2>2, <2>3, <2>4 DEF Offsets
<1>10. ASSUME NEW b, NEW n, IsNth(b, n, off, S) PROVE IsNth(b, n, off2, S2)
  <2>1. b.of \in 1 .. m
    BY <1>10 DEF IsNth
  <2>2. b.of \in 1 .. m + 1
    BY <1>2, <2>1
  <2>3. S2[b.of] = S[b.of] /\ off2[b.of] = off[b.of]
    BY <1>4, <1>7, <2>1, <2>2
  <2>4. b.of \in 1 .. Len(S2)
    BY <1>4, <2>2
  <2> QED BY <1>10, <2>3, <2>4 DEF IsNth
<1>11. ASSUME NEW i \in 1 .. size + 2 PROVE IsNth(message[i], end + i, off2, S2)
  <2>1. message[i] \in Bytes /\ message[i].of = m + 1 /\ message[i].at = i /\ i \in 1 .. size + 2
    BY <1>5
  <2>2. m + 1 \in 1 .. m + 1
    BY <1>2
  <2>3. off2[m + 1] = end /\ S2[m + 1] = size /\ m + 1 \in 1 .. Len(S2)
    BY <1>4, <1>7, <2>2
  <2> HIDE DEF end, m
  <2> QED BY <1>5, <2>1, <2>3 DEF IsNth, message
<1>12. Here(off2, r, want) = Here(off, r, want)
  BY <1>2, <1>7 DEF Here
<1>13. ASSUME NEW j \in 1 .. l
       PROVE  /\ StartOf(j, off2, S2, W2, w, r, want) = StartOf(j, off, S, W, w, r, want)
              /\ off2[Len(S2) - Len(W2) + j + 1] = off[m - l + j + 1]
  <2>1. Len(S2) - Len(W2) + j = m - l + j /\ m - l + j \in 1 .. m + 1 /\ m - l + j + 1 \in 1 .. m + 1
    BY <1>2, <1>4, <1>6
  <2>2. /\ off2[Len(S2) - Len(W2) + j] = off[m - l + j]
        /\ off2[Len(S2) - Len(W2) + j + 1] = off[m - l + j + 1]
    <3> DEFINE p == m - l + j
               q == Len(S2) - Len(W2) + j
    <3>1. q = p /\ p \in 1 .. m + 1 /\ p + 1 \in 1 .. m + 1
      BY <2>1
    <3> HIDE DEF p, q
    <3>2. off2[q] = off[p] /\ off2[q + 1] = off[p + 1]
      BY <1>7, <3>1
    <3> QED BY <3>2 DEF p, q
  <2> QED BY <1>12, <2>2 DEF StartOf
<1>14. StartOf(l + 1, off2, S2, W2, w, r, want) = end
  <2>1. l = 0 => Here(off, r, want) + Len(w) = end
    BY <1>1 DEF InOrder
  <2>2. Len(S2) - Len(W2) + (l + 1) = m + 1 /\ m + 1 \in 1 .. m + 1 /\ (l + 1 = 1 <=> l = 0)
    BY <1>2, <1>4, <1>6
  <2> QED BY <1>7, <1>12, <2>1, <2>2 DEF StartOf
<1>15. off2[Len(S2) - Len(W2) + (l + 1) + 1] = end + size + 2
  <2>1. Len(S2) - Len(W2) + (l + 1) + 1 = m + 2
    BY <1>2, <1>4, <1>6
  <2> QED BY <1>7, <2>1
<1>16. ASSUME NEW j \in 1 .. l + 1
       PROVE  /\ \A i \in 1 .. Len(W2[j]) : IsNth(W2[j][i], StartOf(j, off2, S2, W2, w, r, want) + i, off2, S2)
              /\ StartOf(j, off2, S2, W2, w, r, want) + Len(W2[j]) = off2[Len(S2) - Len(W2) + j + 1]
  <2>1. CASE j \in 1 .. l
    <3>1. /\ \A i \in 1 .. Len(W[j]) : IsNth(W[j][i], StartOf(j, off, S, W, w, r, want) + i, off, S)
          /\ StartOf(j, off, S, W, w, r, want) + Len(W[j]) = off[m - l + j + 1]
      BY <1>1, <2>1 DEF InOrder
    <3> QED BY <1>6, <1>10, <1>13, <2>1, <3>1
  <2>2. CASE j = l + 1
    <3> DEFINE start == StartOf(j, off2, S2, W2, w, r, want)
               next == off2[Len(S2) - Len(W2) + j + 1]
    <3>1. start = end /\ next = end + size + 2
      BY <1>14, <1>15, <2>2
    <3>2. W2[j] = message
      BY <1>6, <2>2
    <3> HIDE DEF start, next, end
    <3>3. start + Len(W2[j]) = next
      <4>1. Len(W2[j]) = size + 2
        BY <1>5, <3>2
      <4> QED BY <1>3, <1>7, <3>1, <4>1
    <3>4. \A i \in 1 .. Len(W2[j]) : IsNth(W2[j][i], start + i, off2, S2)
      BY <1>5, <1>11, <3>1, <3>2
    <3> QED BY <3>3, <3>4 DEF start, next
  <2>3. j \in 1 .. l \/ j = l + 1
    BY <1>2
  <2> QED BY <2>1, <2>2, <2>3
<1>17. r \in 0 .. Len(S2) /\ Len(W2) <= Len(S2) /\ Len(W2) # 0
  BY <1>2, <1>4, <1>6
<1>18. want # Header => r < Len(S2) /\ want = S2[r + 1]
  <2>1. want # Header => r < m /\ want = S[r + 1]
    BY <1>1 DEF InOrder
  <2>2. r < m => r + 1 \in 1 .. m
    BY <1>2
  <2> QED BY <1>2, <1>4, <2>1, <2>2
<1>19. \A i \in 1 .. Len(w) : IsNth(w[i], Here(off2, r, want) + i, off2, S2)
  BY <1>2, <1>10, <1>12
<1>20. InOrder(off2, S2, W2, w, r, want)
  BY <1>6, <1>9, <1>16, <1>17, <1>18, <1>19 DEF InOrder
<1> QED BY <1>20 DEF Ordered, S2, W2, message
\* As long as the stream is in order, only the first of the messages that are written may have begun.
LEMMA OnlyTheFirst ==
  ASSUME NEW S \in Seq(Size), NEW W \in Seq(Seq(Bytes)), NEW w \in Seq(Bytes), NEW r, NEW want,
         Ordered(S, W, w, r, want), NEW j \in 1 .. Len(W), j # 1
  PROVE  ~Started(W[j])
<1> SUFFICES ASSUME Started(W[j]) PROVE FALSE
  OBVIOUS
<1>1. PICK off : InOrder(off, S, W, w, r, want)
  BY DEF Ordered
<1>2. /\ Offsets(off, S) /\ Len(S) \in Nat /\ Len(W) \in Nat /\ Len(W) <= Len(S)
      /\ \A k \in 1 .. Len(S) : S[k] \in Size /\ S[k] \in Nat /\ S[k] >= 1
  BY <1>1, StreamParts
<1>3. W[j] \in Seq(Bytes) /\ W[j] # << >> /\ Head(W[j]).at > 1
  BY DEF Started
<1>4. 1 \in 1 .. Len(W[j]) /\ Head(W[j]) = W[j][1]
  BY <1>3
<1> DEFINE k == Len(S) - Len(W) + j
<1>5. k \in 1 .. Len(S) /\ k \in 1 .. Len(S) + 1 /\ 1 <= S[k] + 2
  BY <1>2
<1>6. StartOf(j, off, S, W, w, r, want) = off[k]
  BY DEF StartOf
<1>7. IsNth(W[j][1], off[k] + 1, off, S)
  BY <1>1, <1>4, <1>6 DEF InOrder
<1> DEFINE a == 1
           b == W[j][1]
           n == off[k] + a
<1>8. /\ Offsets(off, S) /\ IsNth(b, n, off, S) /\ k \in 1 .. Len(S) + 1
      /\ a \in Nat /\ a >= 1 /\ n = off[k] + a /\ (k <= Len(S) => a <= S[k] + 2)
  BY <1>2, <1>5, <1>7
<1> HIDE DEF k, a, b, n
<1>9. b.at = a
  BY <1>8, OnePlace
<1> QED BY <1>3, <1>4, <1>9 DEF a, b

\* A part of the first message, or the rest of it, is put on the wire.
LEMMA BytesWritten ==
  ASSUME NEW S \in Seq(Size), NEW W \in Seq(Seq(Bytes)), NEW w \in Seq(Bytes), NEW r, NEW want,
         Ordered(S, W, w, r, want), Len(W) >= 1, NEW n \in 1 .. Len(W[1])
  PROVE  Ordered(S, IF n = Len(W[1]) THEN Without(W, 1)
                    ELSE [W EXCEPT ![1] = SubSeq(W[1], n + 1, Len(W[1]))],
                 w \o SubSeq(W[1], 1, n), r, want)
<1> DEFINE first == W[1]
           part == SubSeq(first, 1, n)
           rest == SubSeq(first, n + 1, Len(first))
           w2 == w \o part
           W2 == IF n = Len(first) THEN Without(W, 1) ELSE [W EXCEPT ![1] = rest]
           l == Len(W)
           m == Len(S)
<1>1. PICK off : InOrder(off, S, W, w, r, want)
  BY DEF Ordered
<1> DEFINE here == Here(off, r, want)
<1>2. /\ Offsets(off, S) /\ m \in Nat /\ l \in Nat /\ Len(w) \in Nat /\ l <= m /\ l >= 1 /\ here \in Nat
      /\ \A i \in 1 .. Len(w) : IsNth(w[i], here + i, off, S)
  BY <1>1, StreamParts
<1>3. 1 \in 1 .. l /\ first \in Seq(Bytes) /\ Len(first) \in Nat /\ n \in Nat /\ n >= 1 /\ n <= Len(first)
  <2>1. 1 \in 1 .. l
    BY <1>2
  <2>2. first \in Seq(Bytes)
    BY <2>1
  <2> HIDE DEF first
  <2> QED BY <2>1, <2>2 DEF first
<1>4. /\ \A i \in 1 .. Len(first) : IsNth(first[i], here + Len(w) + i, off, S)
      /\ here + Len(w) + Len(first) = off[m - l + 1 + 1]
  <2>1. StartOf(1, off, S, W, w, r, want) = here + Len(w)
    BY DEF StartOf
  <2> QED BY <1>1, <1>3, <2>1 DEF InOrder
<1> HIDE DEF first, here
<1>5. part \in Seq(Bytes) /\ Len(part) = n /\ \A i \in 1 .. n : part[i] = first[i]
  <2>1. 1 \in 1 .. Len(first) + 1 /\ n \in 1 - 1 .. Len(first) /\ n - 1 + 1 = n
    BY <1>3
  <2>2. \A i \in 1 .. n : 1 + i - 1 = i
    BY <1>3
  <2>3. part \in Seq(Bytes) /\ Len(part) = n /\ \A i \in 1 .. n : part[i] = first[1 + i - 1]
    BY <1>3, <2>1, SubSeqParts
  <2> HIDE DEF part
  <2> QED BY <2>2, <2>3
<1>6. rest \in Seq(Bytes) /\ Len(rest) = Len(first) - n /\ \A i \in 1 .. Len(first) - n : rest[i] = first[n + i]
  BY <1>3, RestParts
<1> HIDE DEF part, rest
<1>7. /\ Len(w2) = Len(w) + n /\ \A i \in 1 .. Len(w) : w2[i] = w[i]
      /\ \A i \in 1 .. n : w2[Len(w) + i] = part[i]
  <2>1. /\ Len(w2) = Len(w) + Len(part)
        /\ \A i \in 1 .. Len(w) + Len(part) : w2[i] = IF i <= Len(w) THEN w[i] ELSE part[i - Len(w)]
    BY <1>5, ConcatProperties
  <2> HIDE DEF w2
  <2>2. \A i \in 1 .. Len(w) : i \in 1 .. Len(w) + Len(part) /\ i <= Len(w)
    BY <1>2, <1>3, <1>5
  <2>3. \A i \in 1 .. n : /\ Len(w) + i \in 1 .. Len(w) + Len(part) /\ ~(Len(w) + i <= Len(w))
                          /\ (Len(w) + i) - Len(w) = i
    BY <1>2, <1>3, <1>5
  <2> QED BY <1>5, <2>1, <2>2, <2>3
<1> HIDE DEF w2
<1>8. \A i \in 1 .. Len(w2) : IsNth(w2[i], here + i, off, S)
  <2> SUFFICES ASSUME NEW i \in 1 .. Len(w) + n PROVE IsNth(w2[i], here + i, off, S)
    BY <1>7
  <2>1. CASE i \in 1 .. Len(w)
    BY <1>2, <1>7, <2>1
  <2>2. CASE i \notin 1 .. Len(w)
    <3> DEFINE j == i - Len(w)
    <3>1. j \in 1 .. n /\ j \in 1 .. Len(first) /\ Len(w) + j = i /\ here + Len(w) + j = here + i
      BY <1>2, <1>3, <2>2
    <3> HIDE DEF j
    <3>2. w2[Len(w) + j] = first[j]
      BY <1>5, <1>7, <3>1
    <3>3. IsNth(first[j], here + Len(w) + j, off, S)
      BY <1>4, <3>1
    <3> QED BY <3>1, <3>2, <3>3
  <2> QED BY <2>1, <2>2
<1>9. CASE n = Len(first)
  <2>1. W2 = Tail(W)
    <3>1. SubSeq(W, 1, 0) = << >> /\ SubSeq(W, 1 + 1, Len(W)) = Tail(W) /\ 1 - 1 = 0
      BY <1>2
    <3>2. << >> \o Tail(W) = Tail(W)
      BY <1>2
    <3> QED BY <1>9, <3>1, <3>2 DEF Without
  <2>2. Len(W2) = l - 1 /\ \A j \in 1 .. l - 1 : W2[j] = W[j + 1]
    <3>1. W # << >> /\ W \in Seq(Seq(Bytes))
      BY <1>2
    <3>2. Len(Tail(W)) = l - 1 /\ \A j \in 1 .. l - 1 : Tail(W)[j] = W[j + 1]
      BY <3>1, HeadTailProperties
    <3> QED BY <2>1, <3>2
  <2> HIDE DEF W2
  <2>3. here + Len(w2) = off[m - l + 1 + 1]
    BY <1>2, <1>3, <1>4, <1>7, <1>9
  <2>4. ASSUME NEW j \in 1 .. l - 1
        PROVE  /\ StartOf(j, off, S, W2, w2, r, want) = StartOf(j + 1, off, S, W, w, r, want)
               /\ m - Len(W2) + j = m - l + (j + 1) /\ j + 1 \in 1 .. l
    <3>1. m - Len(W2) + j = m - l + (j + 1) /\ j + 1 \in 1 .. l /\ j + 1 # 1
      BY <1>2, <2>2
    <3>2. j = 1 => m - l + (j + 1) = m - l + 1 + 1
      BY <1>2
    <3>3. StartOf(j, off, S, W2, w2, r, want) = off[m - l + (j + 1)]
      BY <2>3, <3>1, <3>2 DEF StartOf, here
    <3>4. StartOf(j + 1, off, S, W, w, r, want) = off[m - l + (j + 1)]
      BY <3>1 DEF StartOf
    <3> QED BY <3>1, <3>3, <3>4
  <2>5. ASSUME NEW j \in 1 .. Len(W2)
        PROVE  /\ \A i \in 1 .. Len(W2[j]) : IsNth(W2[j][i], StartOf(j, off, S, W2, w2, r, want) + i, off, S)
               /\ StartOf(j, off, S, W2, w2, r, want) + Len(W2[j]) = off[m - Len(W2) + j + 1]
    <3>1. j \in 1 .. l - 1 /\ j + 1 \in 1 .. l /\ W2[j] = W[j + 1]
      BY <1>2, <2>2
    <3>2. /\ \A i \in 1 .. Len(W[j + 1]) : IsNth(W[j + 1][i], StartOf(j + 1, off, S, W, w, r, want) + i, off, S)
          /\ StartOf(j + 1, off, S, W, w, r, want) + Len(W[j + 1]) = off[m - l + (j + 1) + 1]
      BY <1>1, <3>1 DEF InOrder
    <3> QED BY <2>4, <3>1, <3>2
  <2>6. Len(W2) = 0 => here + Len(w2) = off[m + 1]
    <3>1. Len(W2) = 0 => m - l + 1 + 1 = m + 1
      <4>1. Len(W2) = l - 1 /\ l \in Nat /\ m \in Nat
        BY <1>2, <2>2
      <4> HIDE DEF l, m
      <4> QED BY <4>1
    <3> QED BY <2>3, <3>1
  <2>7. Len(W2) <= m
    BY <1>2, <2>2
  <2>8. InOrder(off, S, W2, w2, r, want)
    BY <1>1, <1>8, <2>5, <2>6, <2>7 DEF InOrder, here
  <2> QED BY <2>8 DEF Ordered, W2, w2, rest, part, first
<1>10. CASE n # Len(first)
  <2>1. W2 = [W EXCEPT ![1] = rest]
    BY <1>10
  <2>2. Len(W2) = l /\ W2[1] = rest /\ \A j \in 1 .. l : j # 1 => W2[j] = W[j]
    BY <1>3, <2>1
  <2> HIDE DEF W2
  <2>3. \A j : j # 1 => StartOf(j, off, S, W2, w2, r, want) = StartOf(j, off, S, W, w, r, want)
    BY <2>2 DEF StartOf
  <2>4. StartOf(1, off, S, W2, w2, r, want) = here + Len(w) + n
    BY <1>2, <1>3, <1>7 DEF StartOf, here
  <2>5. ASSUME NEW j \in 1 .. l
        PROVE  /\ \A i \in 1 .. Len(W2[j]) : IsNth(W2[j][i], StartOf(j, off, S, W2, w2, r, want) + i, off, S)
               /\ StartOf(j, off, S, W2, w2, r, want) + Len(W2[j]) = off[m - l + j + 1]
    <3>1. CASE j # 1
      BY <1>1, <2>2, <2>3, <3>1 DEF InOrder
    <3>2. CASE j = 1
      <4>1. here + Len(w) + n + Len(rest) = here + Len(w) + Len(first)
        BY <1>2, <1>3, <1>6
      <4>2. ASSUME NEW i \in 1 .. Len(rest) PROVE IsNth(rest[i], here + Len(w) + n + i, off, S)
        <5>1. n + i \in 1 .. Len(first) /\ i \in 1 .. Len(first) - n
              /\ here + Len(w) + n + i = here + Len(w) + (n + i)
          BY <1>2, <1>3, <1>6
        <5> QED BY <1>4, <1>6, <5>1
      <4> QED BY <1>4, <2>2, <2>4, <3>2, <4>1, <4>2
    <3> QED BY <3>1, <3>2
  <2>6. Len(W2) <= m /\ Len(W2) # 0
    BY <1>2, <2>2
  <2>7. InOrder(off, S, W2, w2, r, want)
    BY <1>1, <1>8, <2>2, <2>5, <2>6 DEF InOrder, here
  <2> QED BY <2>7 DEF Ordered, W2, w2, rest, part, first
<1> QED BY <1>9, <1>10
-----------------------------------------------------------------------------
(* The types of the state *)

PlanType == [transport : {"tcp", "debug"}, sizes : SUBSET Size, messages : Nat, losses : Nat,
             sliced : BOOLEAN, shortReads : BOOLEAN, parts : BOOLEAN]

Cause == {"short read", "mixed writes", "large message"}

\* What is on the way: bytes, or the numbers of messages.
Item == IF InMemory THEN Nat ELSE Bytes

TypesInv ==
  /\ plan \in PlanType
  /\ tcpClient \in [connected : BOOLEAN, isStopped : BOOLEAN]
  /\ listening \in [End -> BOOLEAN]
  /\ writing \in [End -> Seq(Seq(Bytes))]
  /\ \A e \in End : \A k \in DOMAIN writing[e] : writing[e][k] # << >>
  /\ wire \in [End -> Seq(Item)]
  /\ wanted \in [End -> {Header} \cup 0 .. Base * Base]
  /\ sent \in [End -> Seq(Size)]
  /\ received \in [End -> Seq(Nat)]
  /\ causes \in [End -> SUBSET Cause]

\* Nothing is written without a connection, nor in memory.
IdleInv ==
  /\ ~tcpClient.connected \/ InMemory => writing = NoBytes
  /\ InMemory => tcpClient.connected

LEMMA OtherEnd == \A e \in End : Other(e) \in End /\ Other(e) # e /\ Other(Other(e)) = e
BY DEF End, Other

\* The way of transport stays.
LEMMA PlanStep ==
  ASSUME TypesInv, [Next]_vars
  PROVE  plan' \in PlanType /\ plan'.transport = plan.transport /\ InMemory' = InMemory /\ Item' = Item
<1>1. plan' \in PlanType /\ plan'.transport = plan.transport
  <2>0. plan \in PlanType
    BY DEF TypesInv
  <2>1. ASSUME plan.messages > 0, plan' = [plan EXCEPT !.messages = @ - 1]
        PROVE  plan' \in PlanType /\ plan'.transport = plan.transport
    BY <2>0, <2>1 DEF PlanType
  <2>2. ASSUME plan.losses > 0, plan' = [plan EXCEPT !.losses = @ - 1]
        PROVE  plan' \in PlanType /\ plan'.transport = plan.transport
    BY <2>0, <2>2 DEF PlanType
  <2>3. ASSUME NEW e, NEW size, Send(e, size) \/ DebugSend(e, size)
        PROVE  plan' \in PlanType /\ plan'.transport = plan.transport
    BY <2>1, <2>3 DEF Send, DebugSend
  <2>4. CASE Lose
    BY <2>2, <2>4 DEF Lose
  <2>5. CASE UNCHANGED plan
    BY <2>0, <2>5
  <2>6. ASSUME NEW e, WriteSome(e) \/ ReadHeader(e) \/ ReadBody(e) \/ DebugReceive(e)
        PROVE  UNCHANGED plan
    BY <2>6 DEF WriteSome, Write, ReadHeader, ReadBody, DebugReceive
  <2> QED BY <2>3, <2>4, <2>5, <2>6 DEF Next, Connect, vars
<1> QED BY <1>1 DEF InMemory, Item

LEMMA TypesInit ==
  ASSUME Init
  PROVE  TypesInv /\ IdleInv
<1>1. plan \in PlanType
  BY ConnectionAssumption DEF Init, PlanType, Size
<1>2. \A T : NoBytes \in [End -> Seq(T)]
  BY DEF NoBytes
<1>3. NewReads \in [End -> {Header} \cup 0 .. Base * Base] /\ NoCauses \in [End -> SUBSET Cause]
  BY DEF NewReads, NoCauses
<1>4. /\ tcpClient = [connected |-> InMemory, isStopped |-> FALSE]
      /\ listening = [e \in End |-> e = "client" \/ InMemory]
      /\ writing = NoBytes /\ wire = NoBytes /\ wanted = NewReads
      /\ sent = NoBytes /\ received = NoBytes /\ causes = NoCauses
  BY DEF Init
<1>5. InMemory \in BOOLEAN
  BY DEF InMemory
<1>6. tcpClient \in [connected : BOOLEAN, isStopped : BOOLEAN] /\ listening \in [End -> BOOLEAN]
  BY <1>4, <1>5
<1>7. \A e \in End : DOMAIN NoBytes[e] = {}
  BY DEF NoBytes
<1>8. TypesInv
  BY <1>1, <1>2, <1>3, <1>4, <1>6, <1>7 DEF TypesInv
<1>9. IdleInv
  BY <1>4, <1>5 DEF IdleInv
<1> QED BY <1>8, <1>9

\* The k-th of what is written, and the bytes it writes.
LEMMA WriteParts ==
  ASSUME TypesInv, NEW e \in End, NEW k \in DOMAIN writing[e], NEW n \in 1 .. Len(writing[e][k])
  PROVE  /\ writing[e] \in Seq(Seq(Bytes)) /\ k \in 1 .. Len(writing[e]) /\ Len(writing[e]) \in Nat
         /\ writing[e][k] \in Seq(Bytes) /\ Len(writing[e][k]) \in Nat
         /\ SubSeq(writing[e][k], 1, n) \in Seq(Bytes)
         /\ SubSeq(writing[e][k], n + 1, Len(writing[e][k])) \in Seq(Bytes)
         /\ SubSeq(writing[e][k], n + 1, Len(writing[e][k])) = << >> <=> n = Len(writing[e][k])
<1> DEFINE W == writing[e]
           bytes == W[k]
           rest == SubSeq(bytes, n + 1, Len(bytes))
<1>1. W \in Seq(Seq(Bytes))
  BY DEF TypesInv
<1> HIDE DEF W
<1>2. Len(W) \in Nat /\ k \in 1 .. Len(W) /\ bytes \in Seq(Bytes)
  BY <1>1 DEF W
<1> HIDE DEF bytes
<1>3. Len(bytes) \in Nat /\ n \in 0 .. Len(bytes) /\ n \in Nat
  BY <1>2 DEF bytes, W
<1>4. SubSeq(bytes, 1, n) \in Seq(Bytes)
  BY <1>2, <1>3
<1>5. rest \in Seq(Bytes) /\ Len(rest) = Len(bytes) - n
  BY <1>2, <1>3, RestParts
<1> HIDE DEF rest
<1>6. rest = << >> <=> n = Len(bytes)
  BY <1>3, <1>5
<1> QED BY <1>1, <1>2, <1>3, <1>4, <1>5, <1>6 DEF W, bytes, rest

\* What is left when one is taken out.
LEMMA WithoutParts ==
  ASSUME NEW T, NEW seq \in Seq(T), NEW k \in 1 .. Len(seq)
  PROVE  /\ Without(seq, k) \in Seq(T) /\ Len(Without(seq, k)) = Len(seq) - 1
         /\ \A i \in DOMAIN Without(seq, k) : \E j \in DOMAIN seq : Without(seq, k)[i] = seq[j]
<1> DEFINE a == SubSeq(seq, 1, k - 1)
           b == SubSeq(seq, k + 1, Len(seq))
           l == Len(seq)
<1>1. l \in Nat /\ k \in Nat /\ k >= 1 /\ k <= l
  OBVIOUS
<1>2. a \in Seq(T) /\ Len(a) = k - 1 /\ \A i \in 1 .. k - 1 : a[i] = seq[i]
  <2> DEFINE h == k - 1
  <2>1. 1 \in 1 .. l + 1 /\ h \in 1 - 1 .. l /\ h - 1 + 1 = h /\ \A i \in 1 .. h : 1 + i - 1 = i
    BY <1>1
  <2> HIDE DEF h
  <2>2. SubSeq(seq, 1, h) \in Seq(T) /\ Len(SubSeq(seq, 1, h)) = h - 1 + 1
        /\ \A i \in 1 .. h - 1 + 1 : SubSeq(seq, 1, h)[i] = seq[1 + i - 1]
    BY <2>1, SubSeqParts
  <2>3. SubSeq(seq, 1, h) \in Seq(T) /\ Len(SubSeq(seq, 1, h)) = h
        /\ \A i \in 1 .. h : SubSeq(seq, 1, h)[i] = seq[i]
    BY <2>1, <2>2
  <2> QED BY <2>3 DEF h
<1>3. b \in Seq(T) /\ Len(b) = l - k /\ \A i \in 1 .. l - k : b[i] = seq[k + i]
  BY <1>1, RestParts
<1>4. Without(seq, k) = a \o b
  BY DEF Without
<1> HIDE DEF a, b
<1>5. /\ a \o b \in Seq(T) /\ Len(a \o b) = Len(a) + Len(b)
      /\ \A i \in 1 .. Len(a) + Len(b) : (a \o b)[i] = IF i <= Len(a) THEN a[i] ELSE b[i - Len(a)]
  BY <1>2, <1>3, ConcatProperties
<1> DEFINE c == a \o b
<1> HIDE DEF c
<1>6. Len(c) = l - 1 /\ c \in Seq(T) /\ DOMAIN c = 1 .. l - 1
  BY <1>1, <1>2, <1>3, <1>5 DEF c
<1>7. ASSUME NEW i \in 1 .. l - 1 PROVE \E j \in 1 .. l : c[i] = seq[j]
  <2>1. i \in 1 .. Len(a) + Len(b) /\ i \in Nat /\ i >= 1
    BY <1>1, <1>2, <1>3
  <2>2. CASE i <= k - 1
    <3>1. c[i] = a[i] /\ i \in 1 .. k - 1 /\ i \in 1 .. l
      BY <1>1, <1>2, <1>5, <2>1, <2>2 DEF c
    <3> QED BY <1>2, <3>1
  <2>3. CASE ~(i <= k - 1)
    <3> DEFINE g == i - (k - 1)
    <3>1. g \in 1 .. l - k /\ k + g \in 1 .. l /\ i - Len(a) = g
      BY <1>1, <1>2, <2>1, <2>3
    <3>2. c[i] = b[i - Len(a)]
      BY <1>1, <1>2, <1>5, <2>1, <2>3 DEF c
    <3> HIDE DEF g
    <3> QED BY <1>3, <3>1, <3>2
  <2> QED BY <2>2, <2>3
<1>8. DOMAIN seq = 1 .. l
  OBVIOUS
<1> QED BY <1>4, <1>6, <1>7, <1>8 DEF c
\* Whatever happens, the state keeps its types: a size that is read from bytes of any message as well.
LEMMA TypesStep ==
  ASSUME TypesInv, IdleInv, [Next]_vars
  PROVE  TypesInv' /\ IdleInv'
<1>0. /\ tcpClient \in [connected : BOOLEAN, isStopped : BOOLEAN] /\ listening \in [End -> BOOLEAN]
      /\ writing \in [End -> Seq(Seq(Bytes))] /\ wire \in [End -> Seq(Item)]
      /\ \A e \in End : \A k \in DOMAIN writing[e] : writing[e][k] # << >>
      /\ wanted \in [End -> {Header} \cup 0 .. Base * Base]
      /\ sent \in [End -> Seq(Size)] /\ received \in [End -> Seq(Nat)] /\ causes \in [End -> SUBSET Cause]
      /\ plan \in PlanType
  BY DEF TypesInv
<1>1. plan' \in PlanType /\ plan'.transport = plan.transport /\ InMemory' = InMemory /\ Item' = Item
  BY PlanStep
<1> DEFINE Written(W) == W \in [End -> Seq(Seq(Bytes))] /\ \A e \in End : \A k \in DOMAIN W[e] : W[e][k] # << >>
<1>2. Written(writing) /\ Written(NoBytes)
  BY <1>0 DEF NoBytes
<1>3. ASSUME NEW e \in End, NEW c \in Cause, causes' = [causes EXCEPT ![e] = @ \cup {c}] \/ UNCHANGED causes
      PROVE  causes' \in [End -> SUBSET Cause]
  <2>1. causes[e] \cup {c} \in SUBSET Cause
    BY <1>0
  <2> QED BY <1>0, <1>3, <2>1
<1>4. ASSUME UNCHANGED <<tcpClient, writing>> PROVE IdleInv'
  BY <1>1, <1>4 DEF IdleInv, NoBytes
<1>5. "short read" \in Cause /\ "mixed writes" \in Cause /\ "large message" \in Cause
  BY DEF Cause
<1>6. CASE Connect
  <2>1. \A T : NoBytes \in [End -> Seq(T)]
    BY DEF NoBytes
  <2>2. NewReads \in [End -> {Header} \cup 0 .. Base * Base] /\ NoCauses \in [End -> SUBSET Cause]
    BY DEF NewReads, NoCauses
  <2>3. tcpClient' \in [connected : BOOLEAN, isStopped : BOOLEAN] /\ listening' \in [End -> BOOLEAN]
    BY <1>0, <1>6 DEF Connect
  <2>4. UNCHANGED writing /\ wire' = NoBytes /\ wanted' = NewReads /\ sent' = NoBytes /\ received' = NoBytes
        /\ causes' = NoCauses /\ tcpClient'.connected /\ ~tcpClient.connected
    BY <1>0, <1>6 DEF Connect
  <2>5. TypesInv'
    BY <1>0, <1>1, <2>1, <2>2, <2>3, <2>4 DEF TypesInv
  <2>6. IdleInv'
    BY <1>1, <2>4 DEF IdleInv, NoBytes
  <2> QED BY <2>5, <2>6
<1>7. CASE Lose
  <2>1. plan.sliced \in BOOLEAN /\ ~InMemory
    BY <1>0, <1>7 DEF Lose, PlanType, InMemory
  <2>2. tcpClient' \in [connected : BOOLEAN, isStopped : BOOLEAN] /\ listening' \in [End -> BOOLEAN]
    BY <1>0, <1>7, <2>1 DEF Lose
  <2>3. writing' = NoBytes /\ UNCHANGED <<wire, wanted, sent, received, causes>>
    BY <1>7 DEF Lose
  <2>4. TypesInv'
    BY <1>0, <1>1, <1>2, <2>2, <2>3 DEF TypesInv
  <2>5. IdleInv'
    BY <1>1, <2>1, <2>3 DEF IdleInv, NoBytes
  <2> QED BY <2>4, <2>5
<1>8. ASSUME NEW e \in End, NEW size, Send(e, size) PROVE TypesInv' /\ IdleInv'
  <2> DEFINE k == Len(sent[e]) + 1
             message == setBuffer(k, size)
  <2>1. size \in Size /\ UNCHANGED <<tcpClient, listening, wire, wanted, received>> /\ ~InMemory
    BY <1>0, <1>8 DEF Send, clientVars, PlanType, InMemory
  <2>2. CASE tcpClient.connected
    <3>1. k \in Nat
      BY <1>0
    <3>2. message \in Seq(Bytes) /\ message # << >>
      <4>1. message \in Seq(Bytes) /\ Len(message) = size + 2 /\ size \in Nat
        BY <2>1, <3>1, setBufferGood, SizesArePositive
      <4> HIDE DEF message
      <4>2. Len(message) # 0
        BY <4>1
      <4> QED BY <4>1, <4>2, EmptySeq
    <3>3. /\ sent' = [sent EXCEPT ![e] = Append(@, size)]
          /\ writing' = [writing EXCEPT ![e] = Append(@, message)]
          /\ causes' = [causes EXCEPT ![Other(e)] = IF size >= Base THEN @ \cup {"large message"} ELSE @]
      BY <1>8, <2>2 DEF Send
    <3> HIDE DEF k, message
    <3>4. sent' \in [End -> Seq(Size)]
      <4>1. Append(sent[e], size) \in Seq(Size)
        BY <1>0, <2>1, AppendProperties
      <4> QED BY <1>0, <3>3, <4>1
    <3>5. Written(writing')
      <4> DEFINE W == writing[e]
      <4>1. W \in Seq(Seq(Bytes)) /\ \A j \in DOMAIN W : W[j] # << >>
        BY <1>0
      <4>2. writing' = [writing EXCEPT ![e] = Append(W, message)]
        BY <1>0, <3>3
      <4> HIDE DEF W
      <4>3. Append(W, message) \in Seq(Seq(Bytes)) /\ \A j \in DOMAIN Append(W, message) : Append(W, message)[j] # << >>
        BY <3>2, <4>1
      <4> QED BY <1>0, <4>2, <4>3
    <3>6. causes' \in [End -> SUBSET Cause]
      <4>1. causes' = [causes EXCEPT ![Other(e)] = @ \cup {"large message"}] \/ UNCHANGED causes
        BY <1>0, <3>3, OtherEnd
      <4> QED BY <1>3, <1>5, <4>1, OtherEnd
    <3>7. TypesInv'
      BY <1>0, <1>1, <2>1, <3>4, <3>5, <3>6 DEF TypesInv
    <3>8. IdleInv'
      BY <1>1, <2>1, <2>2 DEF IdleInv
    <3> QED BY <3>7, <3>8
  <2>3. CASE ~tcpClient.connected
    <3>1. UNCHANGED <<sent, writing, causes>>
      BY <1>8, <2>3 DEF Send
    <3>2. TypesInv'
      BY <1>0, <1>1, <2>1, <3>1 DEF TypesInv
    <3> QED BY <1>4, <2>1, <3>1, <3>2
  <2> QED BY <2>2, <2>3
<1>9. ASSUME NEW e \in End, WriteSome(e) PROVE TypesInv' /\ IdleInv'
  <2>0. PICK k \in DOMAIN writing[e] : \E n \in 1 .. Len(writing[e][k]) : Write(e, k, n)
    BY <1>9 DEF WriteSome
  <2>1. PICK n \in 1 .. Len(writing[e][k]) : Write(e, k, n)
    BY <2>0
  <2> DEFINE W == writing[e]
             part == SubSeq(W[k], 1, n)
             rest == SubSeq(W[k], n + 1, Len(W[k]))
  <2>2. W \in Seq(Seq(Bytes)) /\ k \in 1 .. Len(W) /\ part \in Seq(Bytes) /\ rest \in Seq(Bytes)
    BY WriteParts
  <2>3. /\ UNCHANGED <<tcpClient, listening, wanted, sent, received>>
        /\ wire' = [wire EXCEPT ![Other(e)] = @ \o part]
        /\ causes' = [causes EXCEPT ![Other(e)] =
             IF \E j \in DOMAIN W \ {k} : Started(W[j]) THEN @ \cup {"mixed writes"} ELSE @]
    BY <2>1 DEF Write, clientVars
  <2>4. \/ rest = << >> /\ writing' = [writing EXCEPT ![e] = Without(W, k)]
        \/ rest # << >> /\ writing' = [writing EXCEPT ![e] = [W EXCEPT ![k] = rest]]
    BY <1>0, <2>1 DEF Write
  <2>5. ~InMemory /\ tcpClient.connected
    BY <2>1 DEF IdleInv, NoBytes
  <2> HIDE DEF part, rest
  <2>6. Item = Bytes
    BY <2>5 DEF Item
  <2>7. wire' \in [End -> Seq(Item)]
    <3>1. wire[Other(e)] \o part \in Seq(Bytes)
      BY <1>0, <2>2, <2>6, OtherEnd
    <3> QED BY <1>0, <2>3, <2>6, <3>1
  <2>8. causes' \in [End -> SUBSET Cause]
    <3>1. causes' = [causes EXCEPT ![Other(e)] = @ \cup {"mixed writes"}] \/ UNCHANGED causes
      BY <1>0, <2>3, OtherEnd
    <3> QED BY <1>3, <1>5, <3>1, OtherEnd
  <2>9. Written(writing')
    <3>1. \A j \in DOMAIN W : W[j] # << >>
      BY <1>0
    <3> HIDE DEF W
    <3>2. CASE rest = << >> /\ writing' = [writing EXCEPT ![e] = Without(W, k)]
      <4>1. Without(W, k) \in Seq(Seq(Bytes)) /\ \A i \in DOMAIN Without(W, k) : Without(W, k)[i] # << >>
        BY <2>2, <3>1, WithoutParts
      <4> QED BY <1>0, <3>2, <4>1
    <3>3. CASE rest # << >> /\ writing' = [writing EXCEPT ![e] = [W EXCEPT ![k] = rest]]
      <4>1. [W EXCEPT ![k] = rest] \in Seq(Seq(Bytes)) /\ \A i \in DOMAIN [W EXCEPT ![k] = rest] : [W EXCEPT ![k] = rest][i] # << >>
        BY <2>2, <3>1, <3>3
      <4> QED BY <1>0, <3>3, <4>1
    <3> QED BY <2>4, <3>2, <3>3
  <2>10. TypesInv'
    BY <1>0, <1>1, <2>3, <2>7, <2>8, <2>9 DEF TypesInv
  <2>11. IdleInv'
    BY <1>1, <2>3, <2>5 DEF IdleInv
  <2> QED BY <2>10, <2>11
<1>10. ASSUME NEW e \in End, NEW asked, NEW n \in Nat, n <= Len(wire[e]), Take(e, asked, n)
       PROVE  wire' \in [End -> Seq(Item)] /\ causes' \in [End -> SUBSET Cause]
  <2>1. wire' = [wire EXCEPT ![e] = SubSeq(@, n + 1, Len(@))]
    BY <1>10 DEF Take
  <2>2. wire[e] \in Seq(Item) /\ n \in 0 .. Len(wire[e])
    BY <1>0, <1>10
  <2>3. SubSeq(wire[e], n + 1, Len(wire[e])) \in Seq(Item)
    BY <2>2, RestParts
  <2>4. causes' = [causes EXCEPT ![e] = @ \cup {"short read"}] \/ UNCHANGED causes
    BY <1>0, <1>10 DEF Take
  <2>5. wire' \in [End -> Seq(Item)]
    BY <1>0, <2>1, <2>3
  <2> QED BY <1>3, <1>5, <2>4, <2>5
<1>11. ASSUME NEW e \in End, ReadHeader(e) PROVE TypesInv' /\ IdleInv'
  <2>1. PICK n \in Readable(e, 2) : /\ Take(e, 2, n)
                                    /\ wanted' = [wanted EXCEPT ![e] = getBodySize(SubSeq(wire[e], 1, n))]
    BY <1>11 DEF ReadHeader
  <2>2. n \in {1, 2} /\ n <= Len(wire[e])
    BY <1>0, <2>1 DEF Readable
  <2>3. ~InMemory /\ Item = Bytes
    BY <1>11 DEF ReadHeader, InMemory, Item
  <2>4. getBodySize(SubSeq(wire[e], 1, n)) \in 0 .. Base * Base
    <3>1. wire[e] \in Seq(Bytes) /\ 1 \in 1 .. Len(wire[e]) + 1 /\ n \in 1 - 1 .. Len(wire[e]) /\ n - 1 + 1 = n
      BY <1>0, <2>2, <2>3
    <3>2. SubSeq(wire[e], 1, n) \in Seq(Bytes) /\ Len(SubSeq(wire[e], 1, n)) = n
      BY <3>1, SubSeqParts
    <3> QED BY <2>2, <3>2, getBodySizeGood
  <2>5. wanted' \in [End -> {Header} \cup 0 .. Base * Base]
    BY <1>0, <2>1, <2>4
  <2>6. wire' \in [End -> Seq(Item)] /\ causes' \in [End -> SUBSET Cause]
    BY <1>10, <2>1, <2>2
  <2>7. UNCHANGED <<tcpClient, listening, writing, sent, received>>
    BY <1>11 DEF ReadHeader, clientVars
  <2>8. TypesInv'
    BY <1>0, <1>1, <2>5, <2>6, <2>7 DEF TypesInv
  <2> QED BY <1>4, <2>7, <2>8
<1>12. ASSUME NEW e \in End, ReadBody(e) PROVE TypesInv' /\ IdleInv'
  <2>1. PICK n \in Readable(e, wanted[e]) :
          /\ Take(e, wanted[e], n)
          /\ \E m \in Parsed(e, SubSeq(wire[e], 1, n)) : received' = [received EXCEPT ![e] = @ \o m]
    BY <1>12 DEF ReadBody
  <2>2. n \in Nat /\ n <= Len(wire[e])
    <3>1. wanted[e] \in Nat /\ Len(wire[e]) \in Nat
      <4>1. wanted[e] \in {Header} \cup 0 .. Base * Base /\ wanted[e] # Header
        BY <1>0, <1>12 DEF ReadBody
      <4> QED BY <1>0, <4>1
    <3> QED BY <2>1, <3>1 DEF Readable
  <2>3. \A body : Parsed(e, body) \subseteq Seq(Nat)
    <3>1. \A k \in DOMAIN sent[Other(e)] : <<k>> \in Seq(Nat)
      BY <1>0, OtherEnd
    <3>2. << >> \in Seq(Nat) /\ <<Garbage>> \in Seq(Nat)
      BY DEF Garbage
    <3> QED BY <3>1, <3>2 DEF Parsed
  <2>4. received' \in [End -> Seq(Nat)]
    <3>1. PICK m \in Seq(Nat) : received' = [received EXCEPT ![e] = @ \o m]
      BY <2>1, <2>3
    <3>2. received[e] \o m \in Seq(Nat)
      BY <1>0
    <3> QED BY <1>0, <3>1, <3>2
  <2>5. wanted' \in [End -> {Header} \cup 0 .. Base * Base]
    BY <1>0, <1>12 DEF ReadBody
  <2>6. wire' \in [End -> Seq(Item)] /\ causes' \in [End -> SUBSET Cause]
    BY <1>10, <2>1, <2>2
  <2>7. UNCHANGED <<tcpClient, listening, writing, sent>>
    BY <1>12 DEF ReadBody, clientVars
  <2>8. TypesInv'
    BY <1>0, <1>1, <2>4, <2>5, <2>6, <2>7 DEF TypesInv
  <2> QED BY <1>4, <2>7, <2>8
<1>13. ASSUME NEW e \in End, NEW size, DebugSend(e, size) PROVE TypesInv' /\ IdleInv'
  <2>1. size \in Size /\ UNCHANGED <<tcpClient, listening, writing, wanted, received, causes>> /\ Item = Nat
    BY <1>0, <1>13 DEF DebugSend, clientVars, PlanType, Item
  <2>2. sent' = [sent EXCEPT ![e] = Append(@, size)] /\ wire' = [wire EXCEPT ![Other(e)] = Append(@, Len(sent[e]) + 1)]
    BY <1>13 DEF DebugSend
  <2>3. sent' \in [End -> Seq(Size)]
    BY <1>0, <2>1, <2>2
  <2>4. wire' \in [End -> Seq(Item)]
    BY <1>0, <2>1, <2>2, OtherEnd
  <2>5. TypesInv'
    BY <1>0, <1>1, <2>1, <2>3, <2>4 DEF TypesInv
  <2> QED BY <1>4, <2>1, <2>5
<1>14. ASSUME NEW e \in End, DebugReceive(e) PROVE TypesInv' /\ IdleInv'
  <2>1. UNCHANGED <<tcpClient, listening, writing, wanted, sent, causes>> /\ wire[e] # << >> /\ Item = Nat
    BY <1>14 DEF DebugReceive, clientVars, Item
  <2>2. wire' = [wire EXCEPT ![e] = Tail(@)] /\ received' = [received EXCEPT ![e] = Append(@, Head(wire[e]))]
    BY <1>14 DEF DebugReceive
  <2>3. Head(wire[e]) \in Nat /\ Tail(wire[e]) \in Seq(Nat)
    BY <1>0, <2>1
  <2>4. wire' \in [End -> Seq(Item)] /\ received' \in [End -> Seq(Nat)]
    BY <1>0, <2>1, <2>2, <2>3
  <2>5. TypesInv'
    BY <1>0, <1>1, <2>1, <2>4 DEF TypesInv
  <2> QED BY <1>4, <2>1, <2>5
<1>15. CASE UNCHANGED vars
  BY <1>0, <1>1, <1>4, <1>15 DEF vars, TypesInv
<1> QED BY <1>6, <1>7, <1>8, <1>9, <1>11, <1>12, <1>13, <1>14, <1>15 DEF Next
-----------------------------------------------------------------------------
(* What is received is what was sent *)

FifoOf(e) ==
  /\ Len(received[e]) <= Len(sent[Other(e)])
  /\ \A k \in DOMAIN received[e] : received[e][k] = k

\* In memory the queue of an end has the messages that it has not received.
QueueOf(e) ==
  /\ Len(received[e]) + Len(wire[e]) = Len(sent[Other(e)])
  /\ \A i \in 1 .. Len(wire[e]) : wire[e][i] = Len(received[e]) + i

\* An end that is in step is at the beginning of a header or of a body of the stream, and what is on
\* the way to it and not yet written is the rest of the stream.
StreamOf(e) ==
  /\ \A k \in DOMAIN sent[Other(e)] : sent[Other(e)][k] < Base
  /\ tcpClient.connected =>
       Ordered(sent[Other(e)], writing[Other(e)], wire[e], Len(received[e]), wanted[e])

StreamInv ==
  \A e \in End : InStep(e) => FifoOf(e) /\ (IF InMemory THEN QueueOf(e) ELSE StreamOf(e))

LEMMA StreamInit ==
  ASSUME Init
  PROVE  StreamInv
<1> SUFFICES ASSUME NEW e \in End
             PROVE  FifoOf(e) /\ (IF InMemory THEN QueueOf(e) ELSE StreamOf(e))
  BY DEF StreamInv
<1>1. /\ sent[Other(e)] = << >> /\ writing[Other(e)] = << >> /\ wire[e] = << >> /\ received[e] = << >>
      /\ wanted[e] = Header
  BY OtherEnd DEF Init, NoBytes, NewReads
<1>2. FifoOf(e)
  BY <1>1 DEF FifoOf
<1>3. QueueOf(e)
  BY <1>1 DEF QueueOf
<1>4. StreamOf(e)
  BY <1>1, EmptyStream DEF StreamOf
<1> QED BY <1>2, <1>3, <1>4

\* The parts of one stream, with their types.
LEMMA StreamTypes ==
  ASSUME TypesInv, IdleInv, ~InMemory, NEW e \in End
  PROVE  /\ sent[Other(e)] \in Seq(Size) /\ writing[Other(e)] \in Seq(Seq(Bytes)) /\ wire[e] \in Seq(Bytes)
         /\ received[e] \in Seq(Nat) /\ Len(received[e]) \in Nat
         /\ Len(sent[Other(e)]) \in Nat /\ Len(wire[e]) \in Nat
BY OtherEnd DEF TypesInv, Item

\* A message that is sent is the last of the stream.
LEMMA SendKeepsStream ==
  ASSUME TypesInv, IdleInv, StreamInv, NEW e \in End, NEW size, Send(Other(e), size), InStep(e)'
  PROVE  FifoOf(e)' /\ StreamOf(e)'
<1> DEFINE o == Other(e)
<1>1. o \in End /\ o # e /\ Other(o) = e
  BY OtherEnd
<1> HIDE DEF o
<1>2. /\ ~InMemory /\ size \in Size /\ UNCHANGED <<tcpClient, wire, wanted, received>>
  BY DEF Send, InMemory, clientVars, TypesInv, PlanType
<1>3. /\ sent[o] \in Seq(Size) /\ writing[o] \in Seq(Seq(Bytes)) /\ wire[e] \in Seq(Bytes)
      /\ received[e] \in Seq(Nat) /\ Len(received[e]) \in Nat /\ Len(sent[o]) \in Nat
  BY <1>2, StreamTypes DEF o
<1>4. CASE tcpClient.connected
  <2> DEFINE message == setBuffer(Len(sent[o]) + 1, size)
  <2>1. /\ sent' = [sent EXCEPT ![o] = Append(@, size)]
        /\ writing' = [writing EXCEPT ![o] = Append(@, message)]
        /\ causes' = [causes EXCEPT ![Other(o)] = IF size >= Base THEN @ \cup {"large message"} ELSE @]
    BY <1>4 DEF Send, o
  <2>2. sent'[o] = Append(sent[o], size) /\ writing'[o] = Append(writing[o], message)
    BY <1>1, <2>1 DEF TypesInv
  <2>3. causes[e] = {} /\ ~(size >= Base)
    <3>1. causes'[e] = IF size >= Base THEN causes[e] \cup {"large message"} ELSE causes[e]
      BY <1>1, <2>1 DEF TypesInv
    <3> QED BY <3>1 DEF InStep
  <2>4. FifoOf(e) /\ StreamOf(e)
    BY <1>2, <2>3 DEF StreamInv, InStep
  <2>5. size < Base
    BY <1>2, <2>3, ConnectionAssumption, SizesArePositive
  <2>6. FifoOf(e)'
    <3>1. Len(sent'[o]) = Len(sent[o]) + 1
      BY <1>2, <1>3, <2>2
    <3> QED BY <1>2, <1>3, <2>4, <3>1 DEF FifoOf, o
  <2>7. \A k \in DOMAIN sent'[o] : sent'[o][k] < Base
    <3>1. \A k \in DOMAIN sent[o] : sent[o][k] < Base
      BY <2>4 DEF StreamOf, o
    <3>2. \A k \in DOMAIN sent'[o] : sent'[o][k] = size \/ (k \in DOMAIN sent[o] /\ sent'[o][k] = sent[o][k])
      BY <1>2, <1>3, <2>2
    <3> QED BY <2>5, <3>1, <3>2
  <2>8. Ordered(sent[o], writing[o], wire[e], Len(received[e]), wanted[e])
    BY <1>4, <2>4 DEF StreamOf, o
  <2>9. Ordered(sent'[o], writing'[o], wire[e], Len(received[e]), wanted[e])
    <3> DEFINE r == Len(received[e])
               want == wanted[e]
    <3> HIDE DEF r, want
    <3>1. Ordered(sent[o], writing[o], wire[e], r, want)
      BY <2>8 DEF r, want
    <3>2. Ordered(Append(sent[o], size), Append(writing[o], message), wire[e], r, want)
      BY <1>2, <1>3, <3>1, MessageQueued
    <3> QED BY <2>2, <3>2 DEF r, want
  <2> QED BY <1>2, <2>6, <2>7, <2>9 DEF StreamOf, o
<1>5. CASE ~tcpClient.connected
  <2>1. UNCHANGED <<sent, writing, causes>>
    BY <1>5 DEF Send
  <2>2. FifoOf(e) /\ StreamOf(e)
    BY <1>2, <2>1 DEF StreamInv, InStep
  <2> QED BY <1>2, <1>5, <2>1, <2>2 DEF FifoOf, StreamOf
<1> QED BY <1>4, <1>5

\* Bytes that are written come after those that are on the way, as long as writes do not mix.
LEMMA WriteKeepsStream ==
  ASSUME TypesInv, IdleInv, StreamInv, NEW e \in End, WriteSome(Other(e)), InStep(e)'
  PROVE  FifoOf(e)' /\ StreamOf(e)'
<1> DEFINE o == Other(e)
           W == writing[o]
           S == sent[o]
           w == wire[e]
           r == Len(received[e])
           want == wanted[e]
<1>1. o \in End /\ o # e /\ Other(o) = e
  BY OtherEnd
<1>2. PICK k \in DOMAIN W : \E n \in 1 .. Len(W[k]) : Write(o, k, n)
  BY DEF WriteSome
<1>3. PICK n \in 1 .. Len(W[k]) : Write(o, k, n)
  BY <1>2
<1> DEFINE part == SubSeq(W[k], 1, n)
           rest == SubSeq(W[k], n + 1, Len(W[k]))
<1>4. /\ ~InMemory /\ tcpClient.connected /\ UNCHANGED <<tcpClient, wanted, sent, received>>
  <2>1. UNCHANGED <<tcpClient, wanted, sent, received>>
    <3> HIDE DEF o, part, rest
    <3> QED BY <1>3 DEF Write, clientVars
  <2>2. writing # NoBytes
    <3>1. k \in DOMAIN writing[o]
      BY <1>2
    <3>2. DOMAIN NoBytes[o] = {}
      BY <1>1 DEF NoBytes
    <3> QED BY <3>1, <3>2
  <2>3. ~InMemory /\ tcpClient.connected
    BY <2>2 DEF IdleInv
  <2> QED BY <2>1, <2>3
<1>5. /\ S \in Seq(Size) /\ W \in Seq(Seq(Bytes)) /\ w \in Seq(Bytes)
      /\ DOMAIN W = 1 .. Len(W) /\ Len(W) \in Nat
  BY <1>4, StreamTypes
<1>6. rest = << >> <=> n = Len(W[k])
  BY <1>1, <1>3, WriteParts
<1>7. /\ Started(W[k]) \/ \A j \in 1 .. k - 1 : Started(W[j])
      /\ wire' = [wire EXCEPT ![Other(o)] = @ \o part]
      /\ causes' = [causes EXCEPT ![Other(o)] =
           IF \E j \in DOMAIN W \ {k} : Started(W[j]) THEN @ \cup {"mixed writes"} ELSE @]
      /\ \/ rest = << >> /\ writing' = [writing EXCEPT ![o] = Without(@, k)]
         \/ rest # << >> /\ writing' = [writing EXCEPT ![o] = [@ EXCEPT ![k] = rest]]
  <2>1. rest = << >> => writing' = [writing EXCEPT ![o] = Without(@, k)]
    BY <1>3 DEF Write
  <2>2. rest # << >> => writing' = [writing EXCEPT ![o][k] = rest]
    BY <1>3 DEF Write
  <2>3. Started(W[k]) \/ \A j \in 1 .. k - 1 : Started(W[j])
    BY <1>3 DEF Write
  <2>4. /\ wire' = [wire EXCEPT ![Other(o)] = @ \o part]
        /\ causes' = [causes EXCEPT ![Other(o)] =
             IF \E j \in DOMAIN W \ {k} : Started(W[j]) THEN @ \cup {"mixed writes"} ELSE @]
    BY <1>3 DEF Write
  <2> HIDE DEF o, part, rest
  <2> QED BY <2>1, <2>2, <2>3, <2>4
<1> HIDE DEF part, rest
<1>8. /\ wire'[e] = w \o part
      /\ writing'[o] = IF n = Len(W[k]) THEN Without(W, k) ELSE [W EXCEPT ![k] = rest]
  BY <1>1, <1>6, <1>7 DEF TypesInv
<1>9. causes[e] = {} /\ \A j \in DOMAIN W \ {k} : ~Started(W[j])
  <2>1. causes'[e] = IF \E j \in DOMAIN W \ {k} : Started(W[j]) THEN causes[e] \cup {"mixed writes"} ELSE causes[e]
    BY <1>1, <1>7 DEF TypesInv
  <2> QED BY <2>1 DEF InStep
<1>10. FifoOf(e) /\ StreamOf(e)
  BY <1>4, <1>9 DEF StreamInv, InStep
<1>11. Ordered(S, W, w, r, want)
  BY <1>4, <1>10 DEF StreamOf
<1> HIDE DEF o, W, S, w, r, want
<1>12. k = 1
  <2> SUFFICES ASSUME k # 1 PROVE FALSE
    OBVIOUS
  <2>1. k \in 1 .. Len(W) /\ 1 \in 1 .. k - 1 /\ 1 \in DOMAIN W \ {k}
    BY <1>5, <1>2
  <2>2. ~Started(W[k])
    BY <1>5, <1>11, <2>1, OnlyTheFirst
  <2> QED BY <1>7, <1>9, <2>1, <2>2
<1>13. n \in 1 .. Len(W[1]) /\ Len(W) >= 1
  BY <1>2, <1>3, <1>5, <1>12
<1>14. Ordered(S, IF n = Len(W[1]) THEN Without(W, 1) ELSE [W EXCEPT ![1] = SubSeq(W[1], n + 1, Len(W[1]))],
               w \o SubSeq(W[1], 1, n), r, want)
  BY <1>5, <1>11, <1>13, BytesWritten
<1>15. Ordered(S, writing'[o], wire'[e], r, want)
  BY <1>8, <1>12, <1>14 DEF part, rest
<1>16. FifoOf(e)'
  BY <1>4, <1>10 DEF FifoOf
<1>17. StreamOf(e)'
  BY <1>4, <1>10, <1>15 DEF StreamOf, o, S, r, want
<1> QED BY <1>16, <1>17

\* A body tells which message it is of, since none is empty.
LEMMA ParsedBody ==
  ASSUME TypesInv, NEW e \in End, NEW k \in 1 .. Len(sent[Other(e)]), NEW body,
         body = SubSeq(setBuffer(k, sent[Other(e)][k]), 3, sent[Other(e)][k] + 2)
  PROVE  Parsed(e, body) = {<<k>>}
<1> DEFINE S == sent[Other(e)]
           Body(j) == SubSeq(setBuffer(j, S[j]), 3, S[j] + 2)
<1>1. S \in Seq(Size) /\ DOMAIN S = 1 .. Len(S)
  BY OtherEnd DEF TypesInv
<1>2. ASSUME NEW j \in DOMAIN S PROVE Body(j) # << >> /\ Body(j)[1].of = j
  <2> DEFINE size == S[j]
             message == setBuffer(j, size)
  <2>1. size \in Size /\ size \in Nat /\ size >= 1 /\ j \in Nat
    BY <1>1, SizesArePositive
  <2> HIDE DEF size
  <2>2. /\ message \in Seq(Bytes) /\ Len(message) = size + 2
        /\ \A i \in 1 .. size + 2 : message[i].of = j
    BY <2>1, setBufferGood
  <2> HIDE DEF message
  <2>3. 3 \in 1 .. Len(message) + 1 /\ size + 2 \in 3 - 1 .. Len(message) /\ (size + 2) - 3 + 1 = size
    BY <2>1, <2>2
  <2>4. /\ Len(SubSeq(message, 3, size + 2)) = size
        /\ \A i \in 1 .. size : SubSeq(message, 3, size + 2)[i] = message[3 + i - 1]
    BY <2>2, <2>3, SubSeqParts
  <2>5. SubSeq(message, 3, size + 2)[1] = message[3] /\ 3 \in 1 .. size + 2
    BY <2>1, <2>4
  <2>6. SubSeq(message, 3, size + 2) # << >>
    <3>1. Len(SubSeq(message, 3, size + 2)) # 0
      BY <2>1, <2>4
    <3> QED BY <3>1, EmptySeq
  <2> QED BY <2>2, <2>5, <2>6 DEF message, size
<1>3. body = Body(k) /\ k \in DOMAIN S
  BY <1>1
<1> HIDE DEF S, Body
<1> DEFINE whole == {j \in DOMAIN S : body = Body(j)}
<1>4. body # << >> /\ whole = {k}
  BY <1>2, <1>3
<1>5. Parsed(e, body) = IF body = << >> THEN {<< >>} ELSE IF whole # {} THEN {<<j>> : j \in whole} ELSE {<< >>, <<Garbage>>}
  BY DEF Parsed, S, Body
<1> HIDE DEF whole
<1> QED BY <1>4, <1>5

\* A header that is read in step is a whole one.
LEMMA HeaderKeepsStream ==
  ASSUME TypesInv, IdleInv, StreamInv, NEW e \in End, ReadHeader(e), InStep(e)'
  PROVE  FifoOf(e)' /\ StreamOf(e)'
<1> DEFINE o == Other(e)
           W == writing[o]
           S == sent[o]
           w == wire[e]
           r == Len(received[e])
<1>1. PICK n \in Readable(e, 2) : /\ Take(e, 2, n)
                                  /\ wanted' = [wanted EXCEPT ![e] = getBodySize(SubSeq(w, 1, n))]
  BY DEF ReadHeader
<1>2. /\ ~InMemory /\ tcpClient.connected /\ wanted[e] = Header
      /\ UNCHANGED <<tcpClient, writing, sent, received>>
  BY DEF ReadHeader, InMemory, clientVars
<1>3. S \in Seq(Size) /\ W \in Seq(Seq(Bytes)) /\ w \in Seq(Bytes) /\ Len(w) \in Nat
  BY <1>2, StreamTypes
<1>4. n \in {1, 2} /\ n <= Len(w)
  BY <1>1, <1>3 DEF Readable
<1>5. wire'[e] = SubSeq(w, n + 1, Len(w)) /\ wanted'[e] = getBodySize(SubSeq(w, 1, n))
  BY <1>1 DEF Take, TypesInv
<1>6. causes[e] = {} /\ n = 2
  <2>1. causes'[e] = IF n < 2 THEN causes[e] \cup {"short read"} ELSE causes[e]
    BY <1>1 DEF Take, TypesInv
  <2>2. causes'[e] = {}
    BY DEF InStep
  <2>3. ~(n < 2)
    BY <2>1, <2>2
  <2> QED BY <1>4, <2>1, <2>2, <2>3
<1>7. FifoOf(e) /\ StreamOf(e)
  BY <1>2, <1>6 DEF StreamInv, InStep
<1>8. Ordered(S, W, w, r, Header) /\ \A k \in DOMAIN S : S[k] < Base
  BY <1>2, <1>7 DEF StreamOf
<1> HIDE DEF S, W, w, r
<1>9. Ordered(S, W, SubSeq(w, 3, Len(w)), r, getBodySize(SubSeq(w, 1, 2)))
  BY <1>3, <1>4, <1>6, <1>8, HeaderRead
<1>10. n + 1 = 3
  BY <1>6
<1>11. Ordered(S, W, wire'[e], r, wanted'[e])
  BY <1>5, <1>6, <1>9, <1>10
<1>12. FifoOf(e)'
  BY <1>2, <1>7 DEF FifoOf
<1>13. StreamOf(e)'
  BY <1>2, <1>7, <1>11 DEF StreamOf, S, W, r
<1> QED BY <1>12, <1>13

\* A body that is read in step is the one of the next message.
LEMMA BodyKeepsStream ==
  ASSUME TypesInv, IdleInv, StreamInv, NEW e \in End, ReadBody(e), InStep(e)'
  PROVE  FifoOf(e)' /\ StreamOf(e)'
<1> DEFINE o == Other(e)
           W == writing[o]
           S == sent[o]
           w == wire[e]
           r == Len(received[e])
           want == wanted[e]
<1>1. PICK n \in Readable(e, want) :
        /\ Take(e, want, n)
        /\ \E m \in Parsed(e, SubSeq(w, 1, n)) : received' = [received EXCEPT ![e] = @ \o m]
  BY DEF ReadBody
<1>2. PICK m \in Parsed(e, SubSeq(w, 1, n)) : received' = [received EXCEPT ![e] = @ \o m]
  BY <1>1
<1>3. /\ ~InMemory /\ tcpClient.connected /\ want # Header
      /\ UNCHANGED <<tcpClient, writing, sent>> /\ wanted' = [wanted EXCEPT ![e] = Header]
  BY DEF ReadBody, InMemory, clientVars
<1>4. /\ S \in Seq(Size) /\ W \in Seq(Seq(Bytes)) /\ w \in Seq(Bytes) /\ Len(w) \in Nat
      /\ received[e] \in Seq(Nat) /\ r \in Nat /\ Len(S) \in Nat
  BY <1>3, StreamTypes
<1>5. /\ wire'[e] = SubSeq(w, n + 1, Len(w)) /\ wanted'[e] = Header /\ received'[e] = received[e] \o m
      /\ want \in 0 .. Base * Base
  <2>1. want \in {Header} \cup 0 .. Base * Base
    BY DEF TypesInv
  <2>2. wanted'[e] = Header /\ received'[e] = received[e] \o m
    BY <1>2, <1>3 DEF TypesInv
  <2>3. wire'[e] = SubSeq(w, n + 1, Len(w))
    BY <1>1 DEF Take, TypesInv
  <2> QED BY <1>3, <2>1, <2>2, <2>3
<1>6. causes[e] = {} /\ ~(n < want)
  <2>1. causes'[e] = IF n < want THEN causes[e] \cup {"short read"} ELSE causes[e]
    BY <1>1 DEF Take, TypesInv
  <2> QED BY <2>1 DEF InStep
<1>7. FifoOf(e) /\ StreamOf(e)
  BY <1>3, <1>6 DEF StreamInv, InStep
<1>8. Ordered(S, W, w, r, want)
  BY <1>3, <1>7 DEF StreamOf
<1>9. n = want /\ n <= Len(w)
  BY <1>1, <1>4, <1>5, <1>6 DEF Readable
<1> HIDE DEF W, S, w, r, want
<1>10. /\ r + 1 \in 1 .. Len(S) /\ want = S[r + 1]
       /\ SubSeq(w, 1, want) = SubSeq(setBuffer(r + 1, want), 3, want + 2)
       /\ Ordered(S, W, SubSeq(w, want + 1, Len(w)), r + 1, Header)
  <2>1. Len(w) >= want
    BY <1>4, <1>5, <1>9
  <2> QED BY <1>3, <1>4, <1>8, <2>1, BodyRead
<1>11. m = <<r + 1>>
  BY <1>2, <1>4, <1>9, <1>10, ParsedBody DEF S, o, w
<1>12. received'[e] = Append(received[e], r + 1) /\ Len(received'[e]) = r + 1
  <2>1. received[e] \o <<r + 1>> = Append(received[e], r + 1)
    BY <1>4
  <2> QED BY <1>4, <1>5, <1>11, <2>1 DEF r
<1>13. FifoOf(e)'
  <2>1. Len(received'[e]) <= Len(S)
    BY <1>4, <1>10, <1>12
  <2>2. \A k \in DOMAIN received[e] : received[e][k] = k
    BY <1>7 DEF FifoOf
  <2>3. \A k \in DOMAIN received'[e] : received'[e][k] = k
    <3>1. DOMAIN received'[e] = 1 .. r + 1 /\ DOMAIN received[e] = 1 .. r
      BY <1>4, <1>12 DEF r
    <3>2. \A k \in 1 .. r + 1 : received'[e][k] = IF k = r + 1 THEN r + 1 ELSE received[e][k]
      BY <1>4, <1>12 DEF r
    <3>3. \A k \in 1 .. r + 1 : k # r + 1 => k \in 1 .. r
      BY <1>4
    <3> HIDE DEF r
    <3> QED BY <2>2, <3>1, <3>2, <3>3
  <2> QED BY <1>3, <2>1, <2>3 DEF FifoOf, S, o
<1>14. Ordered(S, W, wire'[e], r + 1, Header)
  BY <1>5, <1>9, <1>10
<1>15. StreamOf(e)'
  BY <1>3, <1>5, <1>7, <1>12, <1>14 DEF StreamOf, S, W, o
<1> QED BY <1>13, <1>15

\* In memory, a message that is sent is the last of the queue, ...
LEMMA DebugSendKeepsQueue ==
  ASSUME TypesInv, StreamInv, NEW e \in End, NEW size, DebugSend(Other(e), size), InStep(e)'
  PROVE  FifoOf(e)' /\ QueueOf(e)'
<1> DEFINE o == Other(e)
           S == sent[o]
           w == wire[e]
           r == Len(received[e])
<1>1. o \in End /\ o # e /\ Other(o) = e
  BY OtherEnd
<1>2. /\ InMemory /\ size \in Size /\ UNCHANGED <<received, causes>>
      /\ sent' = [sent EXCEPT ![o] = Append(@, size)] /\ wire' = [wire EXCEPT ![Other(o)] = Append(@, Len(S) + 1)]
  <2> HIDE DEF o
  <2> QED BY DEF DebugSend, TypesInv, PlanType, o
<1>3. S \in Seq(Size) /\ w \in Seq(Nat) /\ received[e] \in Seq(Nat)
  BY <1>1, <1>2 DEF TypesInv, Item
<1>4. FifoOf(e) /\ QueueOf(e)
  BY <1>2 DEF StreamInv, InStep
<1>5. sent'[o] = Append(S, size) /\ wire'[e] = Append(w, Len(S) + 1)
  BY <1>1, <1>2 DEF TypesInv
<1>6. /\ r + Len(w) = Len(S) /\ (\A i \in 1 .. Len(w) : w[i] = r + i)
      /\ r \in Nat /\ Len(w) \in Nat /\ Len(S) \in Nat
  <2>1. r \in Nat /\ Len(w) \in Nat /\ Len(S) \in Nat
    BY <1>3
  <2> QED BY <1>4, <2>1 DEF QueueOf
<1>7. Len(sent'[o]) = Len(S) + 1 /\ Len(wire'[e]) = Len(w) + 1
  BY <1>2, <1>3, <1>5
<1>8. \A i \in 1 .. Len(w) + 1 : wire'[e][i] = IF i = Len(w) + 1 THEN Len(S) + 1 ELSE w[i]
  BY <1>3, <1>5
<1>9. FifoOf(e)'
  <2> HIDE DEF S
  <2> QED BY <1>2, <1>4, <1>6, <1>7 DEF FifoOf, S
<1> HIDE DEF S, w, r
<1>10. \A i \in 1 .. Len(w) + 1 : wire'[e][i] = r + i
  <2>1. \A i \in 1 .. Len(w) + 1 : i # Len(w) + 1 => i \in 1 .. Len(w)
    BY <1>6
  <2>2. r + (Len(w) + 1) = Len(S) + 1
    BY <1>6
  <2> QED BY <1>6, <1>8, <2>1, <2>2
<1>11. r + (Len(w) + 1) = Len(S) + 1
  BY <1>6
<1>12. QueueOf(e)'
  BY <1>2, <1>7, <1>10, <1>11 DEF QueueOf, r, o
<1> QED BY <1>9, <1>12

\* ... and the first of the queue is received.
LEMMA DebugReceiveKeepsQueue ==
  ASSUME TypesInv, StreamInv, NEW e \in End, DebugReceive(e), InStep(e)'
  PROVE  FifoOf(e)' /\ QueueOf(e)'
<1> DEFINE S == sent[Other(e)]
           w == wire[e]
           R == received[e]
           r == Len(R)
<1>1. /\ InMemory /\ w # << >> /\ UNCHANGED <<sent, causes>>
      /\ wire' = [wire EXCEPT ![e] = Tail(@)] /\ received' = [received EXCEPT ![e] = Append(@, Head(wire[e]))]
  BY DEF DebugReceive
<1>2. S \in Seq(Size) /\ w \in Seq(Nat) /\ R \in Seq(Nat)
  BY <1>1, OtherEnd DEF TypesInv, Item
<1>3. FifoOf(e) /\ QueueOf(e)
  BY <1>1 DEF StreamInv, InStep
<1>4. /\ r + Len(w) = Len(S) /\ (\A i \in 1 .. Len(w) : w[i] = r + i) /\ (\A k \in 1 .. r : R[k] = k)
      /\ r \in Nat /\ Len(w) \in Nat /\ Len(S) \in Nat /\ Len(w) >= 1
  <2>1. (\A k \in DOMAIN R : R[k] = k) /\ DOMAIN R = 1 .. r
    BY <1>2, <1>3 DEF FifoOf
  <2>2. Len(w) # 0 /\ Len(w) \in Nat
    BY <1>1, <1>2, EmptySeq
  <2>3. r \in Nat /\ Len(S) \in Nat
    BY <1>2
  <2>4. r + Len(w) = Len(S) /\ \A i \in 1 .. Len(w) : w[i] = r + i
    BY <1>3 DEF QueueOf
  <2>5. Len(w) >= 1
    BY <2>2
  <2> QED BY <2>1, <2>2, <2>3, <2>4, <2>5
<1>5. wire'[e] = Tail(w) /\ received'[e] = Append(R, Head(w))
  BY <1>1 DEF TypesInv
<1>6. Head(w) = r + 1
  <2>1. Head(w) = w[1] /\ 1 \in 1 .. Len(w)
    BY <1>1, <1>2, <1>4
  <2> HIDE DEF w, r
  <2> QED BY <1>4, <2>1
<1>7. Len(wire'[e]) = Len(w) - 1 /\ \A i \in 1 .. Len(w) - 1 : wire'[e][i] = w[i + 1]
  BY <1>1, <1>2, <1>5, HeadTailProperties
<1>8. /\ Len(received'[e]) = r + 1 /\ DOMAIN received'[e] = 1 .. r + 1
      /\ \A k \in 1 .. r + 1 : received'[e][k] = IF k = r + 1 THEN r + 1 ELSE R[k]
  <2>1. received'[e] = Append(R, r + 1)
    BY <1>5, <1>6
  <2>2. r + 1 \in Nat
    BY <1>4
  <2> QED BY <1>2, <2>1, <2>2
<1> HIDE DEF S, w, R, r
<1>9. FifoOf(e)'
  <2>1. \A k \in 1 .. r + 1 : k # r + 1 => k \in 1 .. r
    BY <1>4
  <2>2. \A k \in DOMAIN received'[e] : received'[e][k] = k
    BY <1>4, <1>8, <2>1
  <2>3. r + 1 <= Len(S)
    BY <1>4
  <2> QED BY <1>1, <1>8, <2>2, <2>3 DEF FifoOf, S
<1>10. QueueOf(e)'
  <2>1. (r + 1) + (Len(w) - 1) = Len(S)
    BY <1>4
  <2>2. ASSUME NEW i \in 1 .. Len(w) - 1 PROVE wire'[e][i] = (r + 1) + i
    <3>1. i + 1 \in 1 .. Len(w) /\ r + (i + 1) = (r + 1) + i
      BY <1>4
    <3> QED BY <1>4, <1>7, <3>1
  <2> QED BY <1>1, <1>7, <1>8, <2>1, <2>2 DEF QueueOf, S
<1> QED BY <1>9, <1>10

\* What the steps of the other stream leave alone, and what is left of a stream when the connection breaks.
LEMMA SameStream ==
  ASSUME StreamInv, NEW e \in End, InStep(e)', InMemory' = InMemory, causes'[e] = causes[e],
         sent'[Other(e)] = sent[Other(e)], received'[e] = received[e], wire'[e] = wire[e], wanted'[e] = wanted[e],
         tcpClient'.connected => tcpClient.connected /\ writing'[Other(e)] = writing[Other(e)]
  PROVE  FifoOf(e)' /\ (IF InMemory THEN QueueOf(e)' ELSE StreamOf(e)')
<1>1. FifoOf(e) /\ (IF InMemory THEN QueueOf(e) ELSE StreamOf(e))
  BY DEF StreamInv, InStep
<1>2. FifoOf(e)'
  BY <1>1 DEF FifoOf
<1>3. QueueOf(e) => QueueOf(e)'
  BY DEF QueueOf
<1>4. StreamOf(e) => StreamOf(e)'
  BY DEF StreamOf
<1> QED BY <1>1, <1>2, <1>3, <1>4

LEMMA StreamStep ==
  ASSUME TypesInv, IdleInv, StreamInv, [Next]_vars
  PROVE  StreamInv'
<1> USE OtherEnd
<1>1. InMemory' = InMemory
  BY PlanStep
<1> DEFINE Kept(e) == FifoOf(e)' /\ (IF InMemory THEN QueueOf(e)' ELSE StreamOf(e)')
<1> SUFFICES ASSUME NEW e \in End, InStep(e)'
             PROVE  Kept(e)
  BY <1>1 DEF StreamInv
<1> DEFINE o == Other(e)
<1>2. o \in End /\ Other(o) = e /\ \A x \in End : x = e \/ x = o
  BY DEF End, Other
<1>3. /\ sent \in [End -> Seq(Size)] /\ received \in [End -> Seq(Nat)] /\ wire \in [End -> Seq(Item)]
      /\ wanted \in [End -> {Header} \cup 0 .. Base * Base] /\ causes \in [End -> SUBSET Cause]
      /\ writing \in [End -> Seq(Seq(Bytes))]
  BY DEF TypesInv
<1> DEFINE Alone == /\ causes'[e] = causes[e] /\ sent'[o] = sent[o] /\ received'[e] = received[e]
                    /\ wire'[e] = wire[e] /\ wanted'[e] = wanted[e]
                    /\ tcpClient'.connected => tcpClient.connected /\ writing'[o] = writing[o]
<1>4. Alone => Kept(e)
  BY <1>1, SameStream
<1>5. CASE Connect
  <2>1. /\ sent'[o] = << >> /\ received'[e] = << >> /\ wire'[e] = << >> /\ wanted'[e] = Header
        /\ UNCHANGED writing /\ ~tcpClient.connected /\ ~InMemory
    BY <1>2, <1>5 DEF Connect, NoBytes, NewReads, InMemory
  <2>2. writing'[o] = << >>
    BY <1>2, <2>1 DEF IdleInv, NoBytes
  <2>3. FifoOf(e)'
    BY <2>1 DEF FifoOf
  <2>4. Ordered(sent'[o], writing'[o], wire'[e], Len(received'[e]), wanted'[e])
    BY <2>1, <2>2, EmptyStream
  <2>5. StreamOf(e)'
    BY <2>1, <2>4 DEF StreamOf
  <2> QED BY <2>1, <2>3, <2>5
<1>6. CASE Lose
  BY <1>4, <1>6 DEF Lose
<1>7. ASSUME NEW x \in End, NEW size, Send(x, size) PROVE Kept(e)
  <2>1. CASE x = o
    <3>1. ~InMemory /\ Send(Other(e), size)
      BY <1>7, <2>1 DEF Send, InMemory
    <3> QED BY <3>1, SendKeepsStream
  <2>2. CASE x = e
    <3> HIDE DEF o, Kept
    <3>1. UNCHANGED <<tcpClient, wire, wanted, received>>
      BY <1>7 DEF Send, clientVars
    <3>2. sent'[o] = sent[o] /\ writing'[o] = writing[o] /\ causes'[e] = causes[e]
      <4>1. o # e /\ Other(e) = o
        BY DEF o
      <4>2. CASE tcpClient.connected
        BY <1>2, <1>3, <1>7, <2>2, <4>1, <4>2 DEF Send
      <4>3. CASE ~tcpClient.connected
        BY <1>7, <4>3 DEF Send
      <4> QED BY <4>2, <4>3
    <3> QED BY <1>4, <3>1, <3>2
  <2> QED BY <1>2, <2>1, <2>2
<1>8. ASSUME NEW x \in End, WriteSome(x) PROVE Kept(e)
  <2>1. CASE x = o
    <3>1. ~InMemory
      BY <1>2, <1>8, <2>1 DEF WriteSome, IdleInv, NoBytes
    <3> QED BY <1>8, <2>1, <3>1, WriteKeepsStream
  <2>2. CASE x = e
    <3>1. PICK k \in DOMAIN writing[e] : \E n \in 1 .. Len(writing[e][k]) : Write(e, k, n)
      BY <1>8, <2>2 DEF WriteSome
    <3>2. PICK n \in 1 .. Len(writing[e][k]) : Write(e, k, n)
      BY <3>1
    <3> HIDE DEF o, Kept
    <3>3. o # e /\ Other(e) = o
      BY DEF o
    <3>4. UNCHANGED <<tcpClient, wanted, sent, received>>
      BY <3>2 DEF Write, clientVars
    <3>5. wire'[e] = wire[e] /\ causes'[e] = causes[e]
      BY <1>2, <1>3, <3>2, <3>3 DEF Write
    <3>6. writing'[o] = writing[o]
      BY <1>2, <1>3, <3>2, <3>3 DEF Write
    <3> QED BY <1>4, <3>4, <3>5, <3>6
  <2> QED BY <1>2, <2>1, <2>2
<1>9. ASSUME NEW x \in End, ReadHeader(x) PROVE Kept(e)
  <2>1. CASE x = e
    <3>1. ~InMemory /\ ReadHeader(e)
      BY <1>9, <2>1 DEF ReadHeader, InMemory
    <3> QED BY <3>1, HeaderKeepsStream
  <2>2. CASE x = o
    <3> HIDE DEF o, Kept
    <3>1. o # e
      BY DEF o
    <3>2. UNCHANGED <<tcpClient, writing, sent, received>>
      BY <1>9 DEF ReadHeader, clientVars
    <3>3. wire'[e] = wire[e] /\ causes'[e] = causes[e] /\ wanted'[e] = wanted[e]
      BY <1>3, <1>9, <2>2, <3>1 DEF ReadHeader, Take
    <3> QED BY <1>4, <3>2, <3>3
  <2> QED BY <1>2, <2>1, <2>2
<1>10. ASSUME NEW x \in End, ReadBody(x) PROVE Kept(e)
  <2>1. CASE x = e
    <3>1. ~InMemory /\ ReadBody(e)
      BY <1>10, <2>1 DEF ReadBody, InMemory
    <3> QED BY <3>1, BodyKeepsStream
  <2>2. CASE x = o
    <3> HIDE DEF o, Kept
    <3>1. o # e
      BY DEF o
    <3>2. UNCHANGED <<tcpClient, writing, sent>>
      BY <1>10 DEF ReadBody, clientVars
    <3>3. wire'[e] = wire[e] /\ causes'[e] = causes[e] /\ wanted'[e] = wanted[e]
      <4>1. PICK n : Take(o, wanted[o], n)
        BY <1>10, <2>2 DEF ReadBody
      <4>2. wanted' = [wanted EXCEPT ![o] = Header]
        BY <1>10, <2>2 DEF ReadBody
      <4> QED BY <1>3, <3>1, <4>1, <4>2 DEF Take
    <3>4. received'[e] = received[e]
      BY <1>3, <1>10, <2>2, <3>1 DEF ReadBody
    <3> QED BY <1>4, <3>2, <3>3, <3>4
  <2> QED BY <1>2, <2>1, <2>2
<1>11. ASSUME NEW x \in End, NEW size, DebugSend(x, size) PROVE Kept(e)
  <2>1. CASE x = o
    <3>1. InMemory /\ DebugSend(Other(e), size)
      BY <1>11, <2>1 DEF DebugSend
    <3> QED BY <3>1, DebugSendKeepsQueue
  <2>2. CASE x = e
    <3> HIDE DEF o, Kept
    <3>1. o # e /\ Other(e) = o
      BY DEF o
    <3>2. UNCHANGED <<tcpClient, writing, wanted, received, causes>>
      BY <1>11 DEF DebugSend, clientVars
    <3>3. sent'[o] = sent[o] /\ wire'[e] = wire[e]
      BY <1>2, <1>3, <1>11, <2>2, <3>1 DEF DebugSend
    <3> QED BY <1>4, <3>2, <3>3
  <2> QED BY <1>2, <2>1, <2>2
<1>12. ASSUME NEW x \in End, DebugReceive(x) PROVE Kept(e)
  <2>1. CASE x = e
    <3>1. InMemory /\ DebugReceive(e)
      BY <1>12, <2>1 DEF DebugReceive
    <3> QED BY <3>1, DebugReceiveKeepsQueue
  <2>2. CASE x = o
    <3> HIDE DEF o, Kept
    <3>1. o # e
      BY DEF o
    <3>2. UNCHANGED <<tcpClient, writing, wanted, sent, causes>>
      BY <1>12 DEF DebugReceive, clientVars
    <3>3. wire'[e] = wire[e] /\ received'[e] = received[e]
      BY <1>3, <1>12, <2>2, <3>1 DEF DebugReceive
    <3> QED BY <1>4, <3>2, <3>3
  <2> QED BY <1>2, <2>1, <2>2
<1>13. CASE UNCHANGED vars
  BY <1>4, <1>13 DEF vars
<1> HIDE DEF Kept, o
<1> QED BY <1>5, <1>6, <1>7, <1>8, <1>9, <1>10, <1>11, <1>12, <1>13 DEF Next
-----------------------------------------------------------------------------
(* Buffers *)

PoolName == {"client", "server", "session", "debug"}

\* There are no more buffers than were once in use.
Thrifty(pool) == pool.free + pool.out <= pool.peak

LEMMA Acquired ==
  ASSUME NEW pool \in Pool
  PROVE  /\ acquire(pool) \in Pool /\ acquire(pool).out = pool.out + 1
         /\ Thrifty(pool) => Thrifty(acquire(pool))
<1>1. pool.free \in Nat /\ pool.out \in Nat /\ pool.peak \in Nat
  BY DEF Pool
<1> DEFINE free == IF pool.free = 0 THEN 0 ELSE pool.free - 1
           peak == IF pool.out + 1 > pool.peak THEN pool.out + 1 ELSE pool.peak
<1>2. free \in Nat /\ peak \in Nat /\ pool.out + 1 \in Nat
      /\ (pool.free + pool.out <= pool.peak => free + (pool.out + 1) <= peak)
  BY <1>1
<1>3. acquire(pool) = [free |-> free, out |-> pool.out + 1, peak |-> peak]
  BY DEF acquire
<1> HIDE DEF free, peak
<1> QED BY <1>2, <1>3 DEF Pool, Thrifty

\* Of n buffers that are given up, m go back to the pool.
LEMMA Returned ==
  ASSUME NEW pool \in Pool, NEW n \in Nat, NEW m \in Nat, m <= n
  PROVE  /\ GivenUp(pool, n, m) \in Pool
         /\ pool.out >= n => /\ GivenUp(pool, n, m).out = pool.out - n
                             /\ Thrifty(pool) => Thrifty(GivenUp(pool, n, m))
<1> DEFINE out == IF pool.out > n THEN pool.out - n ELSE 0
           free == pool.free + m
<1>1. pool.free \in Nat /\ pool.out \in Nat /\ pool.peak \in Nat
  BY DEF Pool
<1>2. /\ out \in Nat /\ free \in Nat
      /\ pool.out >= n => out = pool.out - n /\ (pool.free + pool.out <= pool.peak => free + out <= pool.peak)
  BY <1>1
<1>3. GivenUp(pool, n, m) = [free |-> free, out |-> out, peak |-> pool.peak]
  <2>1. GivenUp(pool, n, m) = [pool EXCEPT !.out = out, !.free = free]
    BY DEF GivenUp
  <2> HIDE DEF out, free
  <2> QED BY <2>1 DEF Pool
<1> HIDE DEF out, free
<1> QED BY <1>1, <1>2, <1>3 DEF Pool, Thrifty

LEMMA Released ==
  ASSUME NEW pool \in Pool
  PROVE  /\ release(pool) \in Pool
         /\ pool.out >= 1 => release(pool).out = pool.out - 1 /\ (Thrifty(pool) => Thrifty(release(pool)))
<1>1. release(pool) = GivenUp(pool, 1, 1)
  BY DEF release
<1> QED BY <1>1, Returned

\* The client has a buffer out for its read and one for each write; the debug server one for each
\* message on the way.  The client listens until it is stopped, and stops for good.
PoolsInv ==
  /\ pools \in [PoolName -> Pool]
  /\ Thrifty(pools["client"]) /\ Thrifty(pools["debug"])
  /\ pools["client"].out = IF ~InMemory /\ tcpClient.connected THEN 1 + Len(writing["client"]) ELSE 0
  /\ InMemory => pools["debug"].out = Len(wire["client"]) + Len(wire["server"])
  /\ ~tcpClient.isStopped => listening["client"]

LEMMA PoolsInit ==
  ASSUME Init
  PROVE  PoolsInv
<1>1. /\ pools = [p \in PoolName |-> EmptyPool] /\ wire = NoBytes /\ writing = NoBytes
      /\ tcpClient.connected = InMemory /\ listening["client"]
  BY DEF Init, PoolName, End
<1>2. EmptyPool \in Pool /\ Thrifty(EmptyPool) /\ EmptyPool.out = 0
  BY DEF EmptyPool, Pool, Thrifty
<1>3. Len(wire["client"]) = 0 /\ Len(wire["server"]) = 0
  BY <1>1 DEF NoBytes, End
<1> HIDE DEF InMemory
<1> QED BY <1>1, <1>2, <1>3 DEF PoolsInv, PoolName

LEMMA PoolsStep ==
  ASSUME TypesInv, IdleInv, PoolsInv, [Next]_vars
  PROVE  PoolsInv'
<1>1. InMemory' = InMemory
  BY PlanStep
<1>2. /\ pools \in [PoolName -> Pool] /\ Thrifty(pools["client"]) /\ Thrifty(pools["debug"])
      /\ pools["client"].out = IF ~InMemory /\ tcpClient.connected THEN 1 + Len(writing["client"]) ELSE 0
      /\ InMemory => pools["debug"].out = Len(wire["client"]) + Len(wire["server"])
      /\ ~tcpClient.isStopped => listening["client"]
  BY DEF PoolsInv
<1>3. /\ "client" \in PoolName /\ "server" \in PoolName /\ "session" \in PoolName /\ "debug" \in PoolName
      /\ "client" \in End /\ "server" \in End
  BY DEF PoolName, End
<1>4. /\ Len(writing["client"]) \in Nat /\ Len(wire["client"]) \in Nat /\ Len(wire["server"]) \in Nat
      /\ tcpClient \in [connected : BOOLEAN, isStopped : BOOLEAN]
  <2>1. writing["client"] \in Seq(Seq(Bytes)) /\ wire["client"] \in Seq(Item) /\ wire["server"] \in Seq(Item)
    BY <1>3 DEF TypesInv
  <2> QED BY <2>1 DEF TypesInv
<1> DEFINE client == pools["client"]
           debug == pools["debug"]
<1>5. client \in Pool /\ debug \in Pool /\ client.out \in Nat /\ debug.out \in Nat
  BY <1>2, <1>3 DEF Pool
<1>6. CASE Connect
  <2>1. /\ ~InMemory /\ ~tcpClient.connected /\ listening["client"]
        /\ tcpClient' = [tcpClient EXCEPT !.connected = TRUE] /\ UNCHANGED writing
        /\ listening' = [listening EXCEPT !["server"] = TRUE]
        /\ pools' = [pools EXCEPT !["session"] = acquire(EmptyPool), !["client"] = acquire(@)]
    BY <1>2, <1>6 DEF Connect, InMemory
  <2>2. tcpClient'.connected /\ tcpClient'.isStopped = tcpClient.isStopped /\ listening'["client"]
    BY <1>3, <1>4, <2>1 DEF TypesInv
  <2>3. acquire(EmptyPool) \in Pool
    <3>1. EmptyPool \in Pool
      BY DEF EmptyPool, Pool
    <3> QED BY <3>1, Acquired
  <2>4. acquire(client) \in Pool /\ acquire(client).out = 1 /\ Thrifty(acquire(client))
    BY <1>2, <1>5, <2>1, Acquired
  <2>5. Len(writing["client"]) = 0
    BY <1>3, <2>1 DEF IdleInv, NoBytes
  <2>6. pools' \in [PoolName -> Pool] /\ pools'["client"] = acquire(client) /\ pools'["debug"] = debug
    BY <1>2, <1>3, <2>1, <2>3, <2>4
  <2>7. pools'["client"].out = 1 + Len(writing'["client"])
    BY <2>1, <2>4, <2>5, <2>6
  <2> QED BY <1>1, <1>2, <2>1, <2>2, <2>4, <2>6, <2>7 DEF PoolsInv
<1>7. CASE Lose
  <2> DEFINE l == Len(writing["client"])
             n == 1 + l
             after == GivenUp(client, n, l)
  <2>1. /\ ~InMemory /\ tcpClient.connected /\ tcpClient' = [connected |-> FALSE, isStopped |-> plan.sliced]
        /\ listening' = [listening EXCEPT !["server"] = FALSE, !["client"] = ~plan.sliced]
        /\ pools' = [pools EXCEPT !["client"] = GivenUp(@, n, l), !["session"] = EmptyPool]
    BY <1>7 DEF Lose, InMemory
  <2>2. after \in Pool /\ after.out = 0 /\ Thrifty(after)
    <3>1. n \in Nat /\ l \in Nat /\ l <= n /\ client.out = n
      BY <1>2, <1>4, <2>1
    <3> HIDE DEF n, l
    <3> QED BY <1>2, <1>5, <3>1, Returned
  <2>3. EmptyPool \in Pool
    BY DEF EmptyPool, Pool
  <2>4. pools' = [pools EXCEPT !["client"] = after, !["session"] = EmptyPool]
    BY <2>1
  <2> HIDE DEF after
  <2>5. pools' \in [PoolName -> Pool] /\ pools'["client"] = after /\ pools'["debug"] = debug
    BY <1>2, <1>3, <2>2, <2>3, <2>4
  <2>6. ~tcpClient'.connected /\ (~tcpClient'.isStopped => listening'["client"])
    BY <1>3, <2>1 DEF TypesInv
  <2>7. pools'["client"].out = 0
    BY <2>2, <2>5
  <2> QED BY <1>1, <1>2, <2>1, <2>2, <2>5, <2>6, <2>7 DEF PoolsInv
<1>8. ASSUME NEW e \in End, NEW size, Send(e, size) PROVE PoolsInv'
  <2>1. ~InMemory /\ UNCHANGED clientVars
    BY <1>8 DEF Send, InMemory
  <2>2. CASE tcpClient.connected
    <3> DEFINE message == setBuffer(Len(sent[e]) + 1, size)
    <3>1. /\ writing' = [writing EXCEPT ![e] = Append(@, message)]
          /\ pools' = [pools EXCEPT ![PoolOfSend(e)] = acquire(@)]
      BY <1>8, <2>2 DEF Send
    <3> HIDE DEF message
    <3>2. CASE e = "client"
      <4>1. PoolOfSend(e) = "client"
        BY <2>1, <3>2 DEF PoolOfSend, InMemory
      <4>2. acquire(client) \in Pool /\ acquire(client).out = client.out + 1 /\ Thrifty(acquire(client))
        BY <1>2, <1>5, Acquired
      <4>3. pools' \in [PoolName -> Pool] /\ pools'["client"] = acquire(client) /\ pools'["debug"] = debug
        BY <1>2, <1>3, <3>1, <4>1, <4>2
      <4>4. Len(writing'["client"]) = Len(writing["client"]) + 1
        <5>1. writing'["client"] = Append(writing["client"], message)
          BY <1>3, <3>1, <3>2 DEF TypesInv
        <5>2. writing["client"] \in Seq(Seq(Bytes))
          BY <1>3 DEF TypesInv
        <5> QED BY <5>1, <5>2
      <4>5. pools'["client"].out = 1 + Len(writing'["client"])
        BY <1>2, <1>4, <2>1, <2>2, <4>2, <4>3, <4>4
      <4> QED BY <1>1, <1>2, <2>1, <2>2, <4>2, <4>3, <4>5 DEF PoolsInv, clientVars
    <3>3. CASE e = "server"
      <4>1. PoolOfSend(e) = "server"
        BY <2>1, <3>3 DEF PoolOfSend, InMemory
      <4>2. acquire(pools["server"]) \in Pool
        BY <1>2, <1>3, Acquired
      <4>3. pools' \in [PoolName -> Pool] /\ pools'["client"] = client /\ pools'["debug"] = debug
        BY <1>2, <1>3, <3>1, <4>1, <4>2
      <4>4. writing'["client"] = writing["client"]
        BY <1>3, <3>1, <3>3 DEF TypesInv
      <4> QED BY <1>1, <1>2, <2>1, <2>2, <4>3, <4>4 DEF PoolsInv, clientVars
    <3> QED BY <3>2, <3>3 DEF End
  <2>3. CASE ~tcpClient.connected
    <3>1. pools' = [pools EXCEPT !["client"] = release(acquire(@))] /\ UNCHANGED writing
      BY <1>8, <2>3 DEF Send
    <3>2. acquire(client) \in Pool /\ acquire(client).out = 1 /\ Thrifty(acquire(client))
      BY <1>2, <1>5, <2>3, Acquired
    <3>3. release(acquire(client)) \in Pool /\ release(acquire(client)).out = 0 /\ Thrifty(release(acquire(client)))
      BY <3>2, Released
    <3>4. pools' \in [PoolName -> Pool] /\ pools'["client"] = release(acquire(client)) /\ pools'["debug"] = debug
      BY <1>2, <1>3, <3>1, <3>3
    <3> QED BY <1>1, <1>2, <2>1, <2>3, <3>3, <3>4 DEF PoolsInv, clientVars
  <2> QED BY <2>2, <2>3
<1>9. ASSUME NEW e \in End, WriteSome(e) PROVE PoolsInv'
  <2>0. PICK k \in DOMAIN writing[e] : \E n \in 1 .. Len(writing[e][k]) : Write(e, k, n)
    BY <1>9 DEF WriteSome
  <2>1. PICK n \in 1 .. Len(writing[e][k]) : Write(e, k, n)
    BY <2>0
  <2>2. ~InMemory /\ tcpClient.connected
    BY <2>1 DEF IdleInv, NoBytes
  <2> DEFINE W == writing[e]
             rest == SubSeq(W[k], n + 1, Len(W[k]))
  <2>3. UNCHANGED clientVars
    BY <2>1 DEF Write
  <2>4. \/ /\ writing' = [writing EXCEPT ![e] = Without(W, k)]
           /\ pools' = [pools EXCEPT ![PoolOfWritten(e)] = release(@)]
        \/ /\ writing' = [writing EXCEPT ![e] = [W EXCEPT ![k] = rest]]
           /\ UNCHANGED pools
    BY <2>1 DEF Write, TypesInv
  <2>5. W \in Seq(Seq(Bytes)) /\ k \in 1 .. Len(W) /\ Len(W) \in Nat /\ rest \in Seq(Bytes)
    BY WriteParts
  <2>6. Len(Without(W, k)) = Len(W) - 1 /\ Len([W EXCEPT ![k] = rest]) = Len(W)
    BY <2>5, WithoutParts
  <2>7. writing \in [End -> Seq(Seq(Bytes))]
    BY DEF TypesInv
  <2>8. CASE writing' = [writing EXCEPT ![e] = [W EXCEPT ![k] = rest]] /\ UNCHANGED pools
    <3>1. Len(writing'["client"]) = Len(writing["client"])
      <4>1. CASE e = "client"
        <5>1. writing'["client"] = [W EXCEPT ![k] = rest]
          BY <1>3, <2>7, <2>8, <4>1
        <5> QED BY <2>6, <4>1, <5>1
      <4>2. CASE e # "client"
        BY <1>3, <2>7, <2>8, <4>2
      <4> QED BY <4>1, <4>2
    <3> QED BY <1>1, <1>2, <2>2, <2>3, <2>8, <3>1 DEF PoolsInv, clientVars
  <2>9. CASE writing' = [writing EXCEPT ![e] = Without(W, k)] /\ pools' = [pools EXCEPT ![PoolOfWritten(e)] = release(@)]
    <3>1. CASE e = "client"
      <4>1. client.out >= 1
        BY <1>2, <1>4, <2>2
      <4>2. release(client) \in Pool /\ release(client).out = client.out - 1 /\ Thrifty(release(client))
        BY <1>2, <1>5, <4>1, Released
      <4>3. PoolOfWritten(e) = "client"
        BY <3>1 DEF PoolOfWritten
      <4>4. pools' \in [PoolName -> Pool] /\ pools'["client"] = release(client) /\ pools'["debug"] = debug
        BY <1>2, <1>3, <2>9, <4>2, <4>3
      <4>5. Len(writing'["client"]) = Len(writing["client"]) - 1
        <5>1. writing'["client"] = Without(W, k)
          BY <1>3, <2>7, <2>9, <3>1
        <5> QED BY <2>6, <3>1, <5>1
      <4>6. pools'["client"].out = 1 + Len(writing'["client"])
        BY <1>2, <1>4, <2>2, <4>2, <4>4, <4>5
      <4> QED BY <1>1, <1>2, <2>2, <2>3, <4>2, <4>4, <4>6 DEF PoolsInv, clientVars
    <3>2. CASE e = "server"
      <4>1. PoolOfWritten(e) = "session"
        BY <3>2 DEF PoolOfWritten
      <4>2. release(pools["session"]) \in Pool
        BY <1>2, <1>3, Released
      <4>3. pools' \in [PoolName -> Pool] /\ pools'["client"] = client /\ pools'["debug"] = debug
        BY <1>2, <1>3, <2>9, <4>1, <4>2
      <4>4. writing'["client"] = writing["client"]
        BY <1>3, <2>7, <2>9, <3>2
      <4> QED BY <1>1, <1>2, <2>2, <2>3, <4>3, <4>4 DEF PoolsInv, clientVars
    <3> QED BY <3>1, <3>2 DEF End
  <2> HIDE DEF rest, W
  <2> QED BY <2>4, <2>8, <2>9
<1>10. ASSUME NEW e \in End, ReadHeader(e) PROVE PoolsInv'
  <2>1. ~InMemory /\ UNCHANGED <<clientVars, writing, pools>>
    BY <1>10 DEF ReadHeader, InMemory
  <2> QED BY <1>1, <1>2, <2>1 DEF PoolsInv, clientVars
<1>11. ASSUME NEW e \in End, ReadBody(e) PROVE PoolsInv'
  <2>1. /\ ~InMemory /\ tcpClient.connected /\ UNCHANGED <<clientVars, writing>>
        /\ pools' = [pools EXCEPT ![PoolOfWritten(e)] = acquire(release(@))]
    BY <1>11 DEF ReadBody, InMemory
  <2>2. CASE e = "client"
    <3>1. client.out >= 1
      BY <1>2, <1>4, <2>1
    <3>2. release(client) \in Pool /\ release(client).out = client.out - 1 /\ Thrifty(release(client))
      BY <1>2, <1>5, <3>1, Released
    <3>3. /\ acquire(release(client)) \in Pool /\ acquire(release(client)).out = (client.out - 1) + 1
          /\ Thrifty(acquire(release(client)))
      BY <3>2, Acquired
    <3>4. PoolOfWritten(e) = "client"
      BY <2>2 DEF PoolOfWritten
    <3>5. pools' \in [PoolName -> Pool] /\ pools'["client"] = acquire(release(client)) /\ pools'["debug"] = debug
      BY <1>2, <1>3, <2>1, <3>3, <3>4
    <3>6. pools'["client"].out = client.out
      BY <1>5, <3>3, <3>5
    <3> QED BY <1>1, <1>2, <2>1, <3>3, <3>5, <3>6 DEF PoolsInv, clientVars
  <2>3. CASE e = "server"
    <3>1. PoolOfWritten(e) = "session"
      BY <2>3 DEF PoolOfWritten
    <3>2. acquire(release(pools["session"])) \in Pool
      BY <1>2, <1>3, Released, Acquired
    <3>3. pools' \in [PoolName -> Pool] /\ pools'["client"] = client /\ pools'["debug"] = debug
      BY <1>2, <1>3, <2>1, <3>1, <3>2
    <3> QED BY <1>1, <1>2, <2>1, <3>3 DEF PoolsInv, clientVars
  <2> QED BY <2>2, <2>3 DEF End
<1>12. ASSUME NEW e \in End, NEW size, DebugSend(e, size) PROVE PoolsInv'
  <2>1. /\ InMemory /\ UNCHANGED <<clientVars, writing>>
        /\ wire' = [wire EXCEPT ![Other(e)] = Append(@, Len(sent[e]) + 1)]
        /\ pools' = [pools EXCEPT !["debug"] = acquire(@)]
    <3>1. InMemory => PoolOfSend(e) = "debug"
      BY DEF PoolOfSend, InMemory
    <3> QED BY <1>12, <3>1 DEF DebugSend
  <2>2. acquire(debug) \in Pool /\ acquire(debug).out = debug.out + 1 /\ Thrifty(acquire(debug))
    BY <1>2, <1>5, Acquired
  <2>3. pools' \in [PoolName -> Pool] /\ pools'["client"] = client /\ pools'["debug"] = acquire(debug)
    BY <1>2, <1>3, <2>1, <2>2
  <2>4. wire \in [End -> Seq(Item)]
    BY DEF TypesInv
  <2> DEFINE item == Len(sent[e]) + 1
  <2> HIDE DEF item
  <2>5. wire' = [wire EXCEPT ![Other(e)] = Append(wire[Other(e)], item)]
    BY <2>1 DEF item
  <2>6. ASSUME NEW x \in End PROVE Len(Append(wire[x], item)) = Len(wire[x]) + 1
    <3>1. wire[x] \in Seq(Item)
      BY <2>4
    <3> QED BY <3>1
  <2> DEFINE c == Len(wire["client"])
             d == Len(wire["server"])
             c2 == Len(wire'["client"])
             d2 == Len(wire'["server"])
  <2>a. c \in Nat /\ d \in Nat
    BY <1>4
  <2>b. (c2 = c + 1 /\ d2 = d) \/ (d2 = d + 1 /\ c2 = c)
    <3>1. CASE Other(e) = "client"
      <4>1. wire'["client"] = Append(wire["client"], item) /\ wire'["server"] = wire["server"]
        BY <1>3, <2>4, <2>5, <3>1
      <4> QED BY <1>3, <2>6, <4>1
    <3>2. CASE Other(e) = "server"
      <4>1. wire'["server"] = Append(wire["server"], item) /\ wire'["client"] = wire["client"]
        BY <1>3, <2>4, <2>5, <3>2
      <4> QED BY <1>3, <2>6, <4>1
    <3> QED BY <3>1, <3>2 DEF Other
  <2>c. debug.out = c + d
    BY <1>2, <2>1
  <2> HIDE DEF c, d, c2, d2
  <2>7. pools'["debug"].out = c2 + d2
    BY <1>5, <2>a, <2>b, <2>c, <2>2, <2>3
  <2> QED BY <1>1, <1>2, <2>1, <2>2, <2>3, <2>7 DEF PoolsInv, clientVars, c2, d2
<1>13. ASSUME NEW e \in End, DebugReceive(e) PROVE PoolsInv'
  <2>1. /\ InMemory /\ UNCHANGED <<clientVars, writing>> /\ wire[e] # << >>
        /\ wire' = [wire EXCEPT ![e] = Tail(wire[e])]
        /\ pools' = [pools EXCEPT !["debug"] = release(@)]
    BY <1>13 DEF DebugReceive
  <2>2. wire \in [End -> Seq(Item)]
    BY DEF TypesInv
  <2>3. Len(wire[e]) \in Nat /\ Len(wire[e]) >= 1 /\ Len(Tail(wire[e])) = Len(wire[e]) - 1
    <3>1. wire[e] \in Seq(Item) /\ wire[e] # << >>
      BY <2>1, <2>2
    <3>2. Len(wire[e]) # 0
      BY <3>1, EmptySeq
    <3> QED BY <3>1, <3>2, HeadTailProperties
  <2> DEFINE c == Len(wire["client"])
             d == Len(wire["server"])
             c2 == Len(wire'["client"])
             d2 == Len(wire'["server"])
  <2>a. c \in Nat /\ d \in Nat
    BY <1>4
  <2>b. (c >= 1 /\ c2 = c - 1 /\ d2 = d) \/ (d >= 1 /\ d2 = d - 1 /\ c2 = c)
    <3>1. CASE e = "client"
      <4>1. wire'["client"] = Tail(wire["client"]) /\ wire'["server"] = wire["server"]
        BY <1>3, <2>1, <2>2, <3>1
      <4> QED BY <2>3, <3>1, <4>1
    <3>2. CASE e = "server"
      <4>1. wire'["server"] = Tail(wire["server"]) /\ wire'["client"] = wire["client"]
        BY <1>3, <2>1, <2>2, <3>2
      <4> QED BY <2>3, <3>2, <4>1
    <3> QED BY <3>1, <3>2 DEF End
  <2>c. debug.out = c + d
    BY <1>2, <2>1
  <2> HIDE DEF c, d, c2, d2
  <2>4. debug.out >= 1
    BY <2>a, <2>b, <2>c
  <2>5. release(debug) \in Pool /\ release(debug).out = debug.out - 1 /\ Thrifty(release(debug))
    BY <1>2, <1>5, <2>1, <2>4, Released
  <2>6. pools' \in [PoolName -> Pool] /\ pools'["client"] = client /\ pools'["debug"] = release(debug)
    BY <1>2, <1>3, <2>1, <2>5
  <2>7. pools'["debug"].out = c2 + d2
    BY <1>5, <2>a, <2>b, <2>c, <2>5, <2>6
  <2> QED BY <1>1, <1>2, <2>1, <2>5, <2>6, <2>7 DEF PoolsInv, clientVars, c2, d2
<1>14. CASE UNCHANGED vars
  BY <1>1, <1>2, <1>14 DEF vars, PoolsInv
<1> QED BY <1>6, <1>7, <1>8, <1>9, <1>10, <1>11, <1>12, <1>13, <1>14 DEF Next
-----------------------------------------------------------------------------
(* The theorems *)

IInv == TypesInv /\ IdleInv /\ StreamInv /\ PoolsInv

LEMMA IInvHolds == Spec => []IInv
<1>1. Init => IInv
  BY TypesInit, StreamInit, PoolsInit DEF IInv
<1>2. IInv /\ [Next]_vars => IInv'
  BY TypesStep, StreamStep, PoolsStep DEF IInv
<1> QED BY <1>1, <1>2, PTL DEF Spec

\* A TCP connection whose reads are whole, whose writes do not mix and whose bodies are shorter than
\* 256 bytes is a pair of FIFO queues, however the bytes are cut into parts, however many are on the
\* way, and whenever it breaks: what an end has received are the messages the other has sent, in
\* order, none missing and none made up.  The queues in memory always are.
THEOREM AlwaysFifoInStep == Spec => []FifoInStep
<1>1. IInv => FifoInStep
  <2> SUFFICES ASSUME IInv PROVE FifoInStep
    OBVIOUS
  <2>1. TypeOK
    BY DEF IInv, TypesInv, PoolsInv, TypeOK, PoolName, Cause
  <2>2. \A e \in End : InStep(e) => FifoOf(e)
    BY DEF IInv, StreamInv
  <2> QED BY <2>1, <2>2 DEF FifoInStep, FifoOf
<1> QED BY <1>1, IInvHolds, PTL

\* The pools of the client and of the debug server hold no more buffers than were once in use at the
\* same time, through any number of messages, failed writes and lost connections.
THEOREM BuffersAreAlwaysUsedAgain == Spec => []BuffersAreUsedAgain
<1>1. IInv => BuffersAreUsedAgain
  BY DEF IInv, PoolsInv, Thrifty, BuffersAreUsedAgain
<1> QED BY <1>1, IInvHolds, PTL
=============================================================================
