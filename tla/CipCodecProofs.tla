--------------------------- MODULE CipCodecProofs ---------------------------
(***************************************************************************)
(* Proofs about CipCodec: what is encoded is what is decoded, for byte     *)
(* sequences of any length and counts of any size.                         *)
(***************************************************************************)
EXTENDS CipCodec, SequenceTheorems, FiniteSetTheorems, TLAPS

-----------------------------------------------------------------------------
(* Induction, over a set: what a decoder finds behind n items depends on   *)
(* what it finds behind n - 1.                                             *)

\* A set that has 0 and with each number the next has all numbers. The intervals
\* k .. n with k in the set have a smallest, which can only be n .. n.
LEMMA NatSet ==
  ASSUME NEW T, 0 \in T, \A n \in Nat : n \in T => n + 1 \in T
  PROVE  Nat \subseteq T
<1> SUFFICES ASSUME NEW n \in Nat PROVE n \in T
  OBVIOUS
<1> DEFINE Family == {k .. n : k \in {i \in 0 .. n : i \in T}}
<1>1. 0 .. n \in Family
  OBVIOUS
<1>2. Family \subseteq FiniteSubsetsOf(0 .. n)
  <2> SUFFICES ASSUME NEW k \in 0 .. n PROVE k .. n \in FiniteSubsetsOf(0 .. n)
    OBVIOUS
  <2>1. IsFiniteSet(k .. n)
    BY FS_Interval
  <2> QED BY <2>1 DEF FiniteSubsetsOf
<1>3. IsWellFoundedOn(StrictSubsetOrdering(0 .. n), FiniteSubsetsOf(0 .. n))
  BY FS_StrictSubsetOrderingWellFounded
<1>4. PICK S \in Family : \A U \in Family : <<U, S>> \notin StrictSubsetOrdering(0 .. n)
  <2> HIDE DEF Family
  <2> QED BY <1>1, <1>2, <1>3, WFMin
<1>5. PICK k \in 0 .. n : k \in T /\ S = k .. n
  BY <1>4
<1>6. CASE k = n
  BY <1>5, <1>6
<1>7. CASE k # n
  <2>1. k + 1 \in 0 .. n /\ k + 1 \in T
    BY <1>5, <1>7
  <2>2. (k + 1) .. n \in Family
    BY <2>1
  <2>3. (k + 1) .. n \subseteq k .. n /\ (k + 1) .. n # k .. n /\ k .. n \subseteq 0 .. n
    BY <1>7
  <2>4. <<(k + 1) .. n, S>> \in StrictSubsetOrdering(0 .. n)
    BY <2>1, <2>3, <1>5 DEF StrictSubsetOrdering
  <2> QED BY <1>4, <2>2, <2>4
<1> QED BY <1>6, <1>7

\* Each value of g comes from the one before.
Follows(g, n, start, step) ==
  /\ n >= 1 => g[1] = start
  /\ \A i \in 2 .. n : g[i] = step[i][g[i - 1]]

\* A function on 1 .. n is determined by its first value and by what it makes of the
\* one before: the places of items and attributes, the parts of a FlattenSeq.
LEMMA Recursion ==
  ASSUME NEW n \in Nat, NEW S, NEW start \in S, NEW step \in [Nat -> [S -> S]]
  PROVE  \E g \in [1 .. n -> S] : Follows(g, n, start, step)
<1> DEFINE T == {k \in Nat : \E g \in [1 .. k -> S] : Follows(g, k, start, step)}
<1>1. 0 \in T
  <2>1. [i \in 1 .. 0 |-> start] \in [1 .. 0 -> S] /\ Follows([i \in 1 .. 0 |-> start], 0, start, step)
    BY DEF Follows
  <2> QED BY <2>1, Zenon
<1>2. ASSUME NEW k \in Nat, k \in T PROVE k + 1 \in T
  <2>1. PICK g \in [1 .. k -> S] : Follows(g, k, start, step)
    BY <1>2
  <2>2. PICK last \in S : last = IF k = 0 THEN start ELSE step[k + 1][g[k]]
    OBVIOUS
  <2>3. PICK h \in [1 .. k + 1 -> S] : h = [i \in 1 .. k + 1 |-> IF i = k + 1 THEN last ELSE g[i]]
    <3>1. [i \in 1 .. k + 1 |-> IF i = k + 1 THEN last ELSE g[i]] \in [1 .. k + 1 -> S]
      OBVIOUS
    <3> QED BY <3>1, Zenon
  <2>4. h[k + 1] = last /\ \A i \in 1 .. k : h[i] = g[i]
    BY <2>3
  <2>5. h[1] = start
    BY <2>1, <2>2, <2>4 DEF Follows
  <2>6. \A i \in 2 .. k + 1 : h[i] = step[i][h[i - 1]]
    <3> SUFFICES ASSUME NEW i \in 2 .. k + 1 PROVE h[i] = step[i][h[i - 1]]
      OBVIOUS
    <3>1. CASE i = k + 1
      <4>1. i - 1 = k /\ h[k] = g[k] /\ k # 0
        BY <2>4, <3>1
      <4> QED BY <2>2, <2>4, <3>1, <4>1
    <3>2. CASE i # k + 1
      <4>1. i \in 2 .. k /\ h[i] = g[i] /\ h[i - 1] = g[i - 1]
        BY <2>4, <3>2
      <4> QED BY <4>1, <2>1 DEF Follows
    <3> QED BY <3>1, <3>2
  <2>7. Follows(h, k + 1, start, step)
    BY <2>5, <2>6 DEF Follows
  <2> QED BY <2>7
<1>3. n \in T
  <2> HIDE DEF T
  <2> QED BY <1>1, <1>2, NatSet
<1> QED BY <1>3

\* All values of a function are in a set if the first is and each next one is.
LEMMA RecursionType ==
  ASSUME NEW n \in Nat, NEW S, NEW f,
         n >= 1 => f[1] \in S,
         \A i \in 2 .. n : f[i - 1] \in S => f[i] \in S
  PROVE  \A i \in 1 .. n : f[i] \in S
<1> DEFINE T == {k \in Nat : k \in 1 .. n => f[k] \in S}
<1>1. 0 \in T
  OBVIOUS
<1>2. ASSUME NEW k \in Nat, k \in T PROVE k + 1 \in T
  <2>1. CASE k = 0
    BY <2>1
  <2>2. CASE k + 1 \in 2 .. n
    BY <1>2, <2>2
  <2>3. CASE k + 1 > n
    BY <2>3
  <2> QED BY <2>1, <2>2, <2>3
<1>3. Nat \subseteq T
  <2> HIDE DEF T
  <2> QED BY <1>1, <1>2, NatSet
<1> QED BY <1>3

\* A set that has 1 and with each number up to n the next.
LEMMA UpTo ==
  ASSUME NEW n \in Nat, NEW T, n >= 1 => 1 \in T,
         \A i \in 2 .. n : i - 1 \in T => i \in T
  PROVE  \A i \in 1 .. n : i \in T
<1> DEFINE f == [i \in 1 .. n |-> i]
<1>1. n >= 1 => f[1] \in T
  OBVIOUS
<1>2. \A i \in 2 .. n : f[i - 1] \in T => f[i] \in T
  OBVIOUS
<1>3. \A i \in 1 .. n : f[i] \in T
  <2> HIDE DEF f
  <2> QED BY <1>1, <1>2, RecursionType
<1> QED BY <1>3

-----------------------------------------------------------------------------
(* Bytes.                                                                  *)

\* What a sequence of bytes is.
LEMMA BytesType ==
  ASSUME NEW b \in Bytes
  PROVE  Len(b) \in Nat /\ \A i \in 1 .. Len(b) : b[i] \in Byte
BY DEF Bytes

\* Sequences with the same bytes are the same.
LEMMA BytesEqual ==
  ASSUME NEW s \in Bytes, NEW t \in Bytes, Len(s) = Len(t), \A i \in 1 .. Len(s) : s[i] = t[i]
  PROVE  s = t
BY SeqEqual DEF Bytes

\* Sequences of no, one or two bytes.
LEMMA FewBytes ==
  ASSUME NEW x \in Byte, NEW y \in Byte
  PROVE  /\ <<>> \in Bytes /\ Len(<<>>) = 0
         /\ <<x>> \in Bytes /\ Len(<<x>>) = 1 /\ <<x>>[1] = x
         /\ <<x, y>> \in Bytes /\ Len(<<x, y>>) = 2 /\ <<x, y>>[1] = x /\ <<x, y>>[2] = y
BY DEF Bytes

\* One sequence behind another.
LEMMA BytesConcat ==
  ASSUME NEW s \in Bytes, NEW t \in Bytes
  PROVE  /\ s \o t \in Bytes /\ Len(s \o t) = Len(s) + Len(t)
         /\ \A i \in 1 .. Len(s) : (s \o t)[i] = s[i]
         /\ \A i \in 1 .. Len(t) : (s \o t)[Len(s) + i] = t[i]
BY DEF Bytes

\* A piece of a sequence.
LEMMA BytesSub ==
  ASSUME NEW b \in Bytes, NEW p \in Nat, NEW q \in Nat, 1 <= p, p <= q + 1, q <= Len(b)
  PROVE  /\ SubSeq(b, p, q) \in Bytes /\ Len(SubSeq(b, p, q)) = q + 1 - p
         /\ \A i \in 1 .. q + 1 - p : SubSeq(b, p, q)[i] = b[p + i - 1]
BY DEF Bytes

\* What is left from a place on, behind the end nothing.
LEMMA FromType ==
  ASSUME NEW b \in Bytes, NEW p \in Nat, 1 <= p
  PROVE  /\ From(b, p) \in Bytes
         /\ p <= Len(b) + 1 => Len(From(b, p)) = Len(b) + 1 - p
         /\ p > Len(b) => From(b, p) = <<>>
<1>1. Len(b) \in Nat
  BY BytesType
<1>2. CASE p <= Len(b) + 1
  <2>1. From(b, p) \in Bytes /\ Len(From(b, p)) = Len(b) + 1 - p
    BY <1>1, <1>2, BytesSub DEF From
  <2>2. ASSUME p > Len(b) PROVE From(b, p) = <<>>
    <3>1. Len(From(b, p)) = 0
      BY <1>1, <1>2, <2>1, <2>2
    <3> QED BY <2>1, <3>1 DEF Bytes
  <2> QED BY <2>1, <2>2
<1>3. CASE p > Len(b) + 1
  <2>1. From(b, p) = <<>>
    BY <1>1, <1>3 DEF From, Bytes
  <2>2. <<>> \in Bytes
    BY DEF Bytes
  <2> QED BY <1>1, <1>3, <2>1, <2>2
<1> QED BY <1>1, <1>2, <1>3

\* What is there.
LEMMA FromPlace ==
  ASSUME NEW b \in Bytes, NEW p \in Nat, NEW i \in Nat, 1 <= p, 1 <= i, p + i <= Len(b) + 1
  PROVE  From(b, p)[i] = b[p + i - 1]
BY BytesType DEF From, Bytes

-----------------------------------------------------------------------------
(* Numbers.                                                                *)

\* A number of 16 bits, and what 16 bits hold of a number.
Is16(n)  == n \in Nat /\ n < 65536
Low16(n) == n % 65536

\* Two bytes are a number of 16 bits.
LEMMA TwoBytes ==
  ASSUME NEW x \in Byte, NEW y \in Byte
  PROVE  Is16(x + 256 * y)
<1>1. x \in Nat /\ y \in Nat /\ x <= 255 /\ y <= 255
  BY DEF Byte
<1>2. x + 256 * y \in Nat
  BY <1>1
<1>3. x + 256 * y < 65536
  BY <1>1
<1> QED BY <1>2, <1>3 DEF Is16

\* The number at the head of a sequence of bytes.
LEMMA NumberFirst ==
  ASSUME NEW b \in Bytes, Len(b) >= 2
  PROVE  Is16(U16(b)) /\ U16(b) \in Nat
<1>1. b[1] \in Byte /\ b[2] \in Byte
  BY BytesType
<1>2. Is16(U16(b))
  BY <1>1, TwoBytes DEF U16
<1> QED BY <1>2 DEF Is16

\* At any place in it.
LEMMA NumberAt ==
  ASSUME NEW b \in Bytes, NEW p \in Nat, 1 <= p, p + 1 <= Len(b)
  PROVE  Is16(U16(From(b, p))) /\ U16(From(b, p)) \in Nat
<1>1. Len(b) \in Nat
  BY BytesType
<1>2. From(b, p) \in Bytes /\ Len(From(b, p)) = Len(b) + 1 - p
  BY <1>1, FromType
<1>3. Len(From(b, p)) >= 2
  BY <1>1, <1>2
<1> QED BY <1>2, <1>3, NumberFirst

\* The two bytes of a number.
LEMMA Le16Type ==
  ASSUME NEW n \in Int
  PROVE  /\ Le16(n) \in Bytes /\ Len(Le16(n)) = 2
         /\ Le16(n)[1] = n % 256 /\ Le16(n)[2] = (n \div 256) % 256
<1>1. n % 256 \in Byte /\ (n \div 256) % 256 \in Byte
  BY DEF Byte
<1>2. PICK x : x = n % 256
  OBVIOUS
<1>3. PICK y : y = (n \div 256) % 256
  OBVIOUS
<1>4. Le16(n) = <<x, y>>
  BY <1>2, <1>3, Zenon DEF Le16
<1>5. x \in Byte /\ y \in Byte
  BY <1>1, <1>2, <1>3
<1> HIDE <1>1
<1>6. <<x, y>> \in Bytes /\ Len(<<x, y>>) = 2
  BY <1>5, FewBytes
<1>7. <<x, y>>[1] = x /\ <<x, y>>[2] = y
  OBVIOUS
<1> QED BY <1>2, <1>3, <1>4, <1>6, <1>7, Zenon

\* What 16 bits hold of a number is the number if it fits.
LEMMA Fits16 ==
  ASSUME NEW n \in Nat
  PROVE  /\ Low16(n) \in Nat /\ Low16(n) <= n /\ Is16(Low16(n))
         /\ Is16(n) => Low16(n) = n
BY DEF Low16, Is16

-----------------------------------------------------------------------------
(* What is where in a sequence.                                            *)

\* s is in b, from p on.
Holds(b, p, s) ==
  /\ p \in Nat /\ 1 <= p /\ p + Len(s) <= Len(b) + 1
  /\ \A i \in 1 .. Len(s) : b[p + i - 1] = s[i]

\* A sequence holds itself.
LEMMA HoldsAll ==
  ASSUME NEW b \in Bytes
  PROVE  Holds(b, 1, b)
BY BytesType DEF Holds

\* What holds one sequence behind another holds both.
LEMMA HoldsParts ==
  ASSUME NEW b \in Bytes, NEW s \in Bytes, NEW t \in Bytes, NEW p, Holds(b, p, s \o t)
  PROVE  Holds(b, p, s) /\ Holds(b, p + Len(s), t)
<1>1. /\ Len(s \o t) = Len(s) + Len(t)
      /\ \A i \in 1 .. Len(s) : (s \o t)[i] = s[i]
      /\ \A i \in 1 .. Len(t) : (s \o t)[Len(s) + i] = t[i]
  BY BytesConcat
<1>2. Len(s) \in Nat /\ Len(t) \in Nat /\ Len(b) \in Nat
  BY BytesType
<1>3. p \in Nat /\ 1 <= p /\ p + (Len(s) + Len(t)) <= Len(b) + 1
  BY <1>1 DEF Holds
<1>4. \A i \in 1 .. Len(s) + Len(t) : b[p + i - 1] = (s \o t)[i]
  BY <1>1 DEF Holds
<1>5. Holds(b, p, s)
  BY <1>1, <1>2, <1>3, <1>4 DEF Holds
<1>6. ASSUME NEW i \in 1 .. Len(t) PROVE b[p + Len(s) + i - 1] = t[i]
  <2>1. Len(s) + i \in 1 .. Len(s) + Len(t) /\ (s \o t)[Len(s) + i] = t[i]
    BY <1>1, <1>2
  <2>2. b[p + (Len(s) + i) - 1] = (s \o t)[Len(s) + i]
    BY <1>4, <2>1
  <2>3. p + (Len(s) + i) - 1 = p + Len(s) + i - 1
    BY <1>2, <1>3
  <2> QED BY <2>1, <2>2, <2>3
<1>7. p + Len(s) \in Nat /\ 1 <= p + Len(s) /\ p + Len(s) + Len(t) <= Len(b) + 1
  BY <1>2, <1>3
<1>8. Holds(b, p + Len(s), t)
  BY <1>6, <1>7 DEF Holds
<1> QED BY <1>5, <1>8

\* It is cut out again.
LEMMA HoldsCut ==
  ASSUME NEW b \in Bytes, NEW s \in Bytes, NEW p, Holds(b, p, s)
  PROVE  SubSeq(b, p, p + Len(s) - 1) = s
<1>1. Len(s) \in Nat /\ Len(b) \in Nat /\ p \in Nat /\ 1 <= p /\ p + Len(s) <= Len(b) + 1
  BY BytesType DEF Holds
<1>2. PICK q \in Nat : q = p + Len(s) - 1
  BY <1>1
<1>3. p <= q + 1 /\ q <= Len(b) /\ q + 1 - p = Len(s)
  BY <1>1, <1>2
<1>4. /\ SubSeq(b, p, q) \in Bytes /\ Len(SubSeq(b, p, q)) = Len(s)
      /\ \A i \in 1 .. Len(s) : SubSeq(b, p, q)[i] = b[p + i - 1]
  BY <1>1, <1>3, BytesSub
<1>5. \A i \in 1 .. Len(s) : SubSeq(b, p, q)[i] = s[i]
  BY <1>4 DEF Holds
<1> QED BY <1>2, <1>4, <1>5, BytesEqual

\* It is what is left where it is last.
LEMMA HoldsEnd ==
  ASSUME NEW b \in Bytes, NEW s \in Bytes, NEW p, Holds(b, p, s), p + Len(s) = Len(b) + 1
  PROVE  From(b, p) = s
<1>1. p + Len(s) - 1 = Len(b)
  BY BytesType DEF Holds
<1> QED BY <1>1, HoldsCut DEF From

\* A number is read where it is.
LEMMA HoldsNumber ==
  ASSUME NEW b \in Bytes, NEW n \in Nat, NEW p, Holds(b, p, Le16(n))
  PROVE  p + 1 <= Len(b) /\ U16(From(b, p)) = Low16(n)
<1>1. PICK s : s = Le16(n)
  OBVIOUS
<1>2. Len(s) = 2 /\ s[1] = n % 256 /\ s[2] = (n \div 256) % 256
  BY <1>1, Le16Type
<1>3. p \in Nat /\ 1 <= p /\ p + 1 <= Len(b) /\ Len(b) \in Nat
  BY <1>1, <1>2, BytesType DEF Holds
<1>4. b[p + 1 - 1] = s[1] /\ b[p + 2 - 1] = s[2]
  BY <1>1, <1>2 DEF Holds
<1>5. From(b, p)[1] = b[p + 1 - 1] /\ From(b, p)[2] = b[p + 2 - 1]
  BY <1>3, FromPlace
<1>6. U16(From(b, p)) = (n % 256) + 256 * ((n \div 256) % 256)
  BY <1>2, <1>4, <1>5 DEF U16
<1>7. (n % 256) + 256 * ((n \div 256) % 256) = Low16(n)
  BY DEF Low16
<1> QED BY <1>3, <1>6, <1>7

\* What is held by something that is held.
LEMMA HoldsWithin ==
  ASSUME NEW b \in Bytes, NEW s \in Bytes, NEW t \in Bytes, NEW p, NEW q,
         Holds(b, p, s), Holds(s, q, t)
  PROVE  Holds(b, p + q - 1, t)
<1>1. /\ p \in Nat /\ 1 <= p /\ p + Len(s) <= Len(b) + 1
      /\ q \in Nat /\ 1 <= q /\ q + Len(t) <= Len(s) + 1
      /\ Len(b) \in Nat /\ Len(s) \in Nat /\ Len(t) \in Nat
  BY BytesType DEF Holds
<1>2. p + q - 1 \in Nat /\ 1 <= p + q - 1 /\ p + q - 1 + Len(t) <= Len(b) + 1
  BY <1>1
<1>3. ASSUME NEW i \in 1 .. Len(t) PROVE b[p + q - 1 + i - 1] = t[i]
  <2>1. q + i - 1 \in 1 .. Len(s)
    BY <1>1
  <2>2. s[q + i - 1] = t[i]
    BY DEF Holds
  <2>3. b[p + (q + i - 1) - 1] = s[q + i - 1]
    BY <2>1 DEF Holds
  <2>4. p + (q + i - 1) - 1 = p + q - 1 + i - 1
    BY <1>1
  <2> QED BY <2>2, <2>3, <2>4
<1> QED BY <1>2, <1>3 DEF Holds

-----------------------------------------------------------------------------
(* The common packet format, for any number of items.                      *)

\* What FlattenSeq has put together behind each of n sequences.
Parts(parts, seqs, n) ==
  /\ parts[1] = seqs[1]
  /\ \A i \in 2 .. n : parts[i] = parts[i - 1] \o seqs[i]

\* There are such parts.
LEMMA PartsExist ==
  ASSUME NEW n \in Nat, n >= 1, NEW S, \A s, t \in S : s \o t \in S,
         NEW seqs, \A i \in 1 .. n : seqs[i] \in S
  PROVE  \E parts \in [1 .. n -> S] : Parts(parts, seqs, n)
<1>1. PICK start \in S : start = seqs[1]
  OBVIOUS
<1>2. PICK step \in [Nat -> [S -> S]] : \A i \in 1 .. n, s \in S : step[i][s] = s \o seqs[i]
  <2> DEFINE f == [i \in Nat |-> [s \in S |-> IF i \in 1 .. n THEN s \o seqs[i] ELSE s]]
  <2>1. \A i \in Nat, s \in S : (IF i \in 1 .. n THEN s \o seqs[i] ELSE s) \in S
    OBVIOUS
  <2>2. \A i \in Nat : f[i] \in [S -> S]
    BY <2>1
  <2>3. f \in [Nat -> [S -> S]]
    BY <2>2
  <2>4. \A i \in 1 .. n, s \in S : f[i][s] = s \o seqs[i]
    OBVIOUS
  <2> HIDE DEF f
  <2> QED BY <2>3, <2>4
<1>3. PICK g \in [1 .. n -> S] : Follows(g, n, start, step)
  BY Recursion
<1>4. \A i \in 2 .. n : g[i] = g[i - 1] \o seqs[i]
  <2> SUFFICES ASSUME NEW i \in 2 .. n PROVE g[i] = g[i - 1] \o seqs[i]
    OBVIOUS
  <2>1. g[i] = step[i][g[i - 1]] /\ g[i - 1] \in S /\ i \in 1 .. n
    BY <1>3 DEF Follows
  <2> QED BY <1>2, <2>1
<1>5. Parts(g, seqs, n)
  BY <1>1, <1>3, <1>4 DEF Parts, Follows
<1> QED BY <1>5

\* The last of them is the whole.
IsFlat(whole, seqs, n, S) ==
  \E parts \in [1 .. n -> S] : Parts(parts, seqs, n) /\ whole = parts[n]

\* What FlattenSeq makes of n sequences.
LEMMA FlattenParts ==
  ASSUME NEW n \in Nat, n >= 1, NEW S, \A s, t \in S : s \o t \in S,
         NEW seqs, Len(seqs) = n, \A i \in 1 .. n : seqs[i] \in S
  PROVE  IsFlat(FlattenSeq(seqs), seqs, n, S)
<1> DEFINE F(f) == f = [i \in 1 .. Len(seqs) |-> IF i = 1 THEN seqs[i] ELSE f[i - 1] \o seqs[i]]
<1>1. \E f : F(f)
  <2>1. PICK g \in [1 .. n -> S] : Parts(g, seqs, n)
    BY PartsExist
  <2>2. ASSUME NEW i \in 1 .. n PROVE g[i] = IF i = 1 THEN seqs[i] ELSE g[i - 1] \o seqs[i]
    <3>1. CASE i = 1
      BY <2>1, <3>1 DEF Parts
    <3>2. CASE i # 1
      <4>1. i \in 2 .. n
        BY <3>2
      <4> QED BY <2>1, <3>2, <4>1 DEF Parts
    <3> QED BY <3>1, <3>2
  <2>3. g = [i \in 1 .. n |-> IF i = 1 THEN seqs[i] ELSE g[i - 1] \o seqs[i]]
    BY <2>2
  <2> QED BY <2>3
<1>2. PICK f : f = CHOOSE h : F(h)
  OBVIOUS
<1>3. F(f)
  <2> HIDE DEF F
  <2> QED BY <1>1, <1>2
<1>4. FlattenSeq(seqs) = f[n]
  <2>1. Len(seqs) # 0
    OBVIOUS
  <2>2. FlattenSeq(seqs) = f[Len(seqs)]
    BY <1>2, <2>1, Zenon DEF FlattenSeq
  <2> QED BY <2>2
<1>5. f[1] = seqs[1] /\ \A i \in 2 .. n : f[i] = f[i - 1] \o seqs[i]
  <2>1. f = [i \in 1 .. n |-> IF i = 1 THEN seqs[i] ELSE f[i - 1] \o seqs[i]]
    BY <1>3
  <2> HIDE DEF F
  <2>2. f[1] = seqs[1]
    BY <2>1
  <2>3. ASSUME NEW i \in 2 .. n PROVE f[i] = f[i - 1] \o seqs[i]
    <3>1. i \in 1 .. n /\ i # 1
      OBVIOUS
    <3>2. f[i] = IF i = 1 THEN seqs[i] ELSE f[i - 1] \o seqs[i]
      BY <2>1, <3>1
    <3> QED BY <3>1, <3>2
  <2> QED BY <2>2, <2>3
<1>6. \A i \in 1 .. n : f[i] \in S
  <2> HIDE DEF F
  <2>1. f[1] \in S
    BY <1>5
  <2>2. \A i \in 2 .. n : f[i - 1] \in S => f[i] \in S
    <3>1. \A i \in 2 .. n : seqs[i] \in S
      OBVIOUS
    <3> QED BY <1>5, <3>1
  <2> QED BY <2>1, <2>2, RecursionType
<1>7. f \in [1 .. n -> S]
  BY <1>3, <1>6
<1>8. Parts(f, seqs, n)
  BY <1>5 DEF Parts
<1> QED BY <1>4, <1>7, <1>8, Zenon DEF IsFlat

\* Each part is at the head of the whole.
LEMMA PartsHeld ==
  ASSUME NEW n \in Nat, NEW parts \in [1 .. n -> Bytes],
         NEW seqs, \A i \in 1 .. n : seqs[i] \in Bytes, Parts(parts, seqs, n), NEW i \in 1 .. n
  PROVE  Holds(parts[n], 1, parts[i])
<1> DEFINE T == {k \in Nat : i + k <= n => Holds(parts[i + k], 1, parts[i])}
<1>1. 0 \in T
  <2>1. parts[i] \in Bytes /\ i + 0 = i
    OBVIOUS
  <2>2. Holds(parts[i], 1, parts[i])
    BY <2>1, HoldsAll
  <2> QED BY <2>1, <2>2
<1>2. ASSUME NEW k \in Nat, k \in T PROVE k + 1 \in T
  <2> SUFFICES ASSUME i + (k + 1) <= n PROVE Holds(parts[i + (k + 1)], 1, parts[i])
    OBVIOUS
  <2>1. PICK j : j = i + (k + 1)
    OBVIOUS
  <2>2. j \in 2 .. n /\ j - 1 = i + k /\ j \in 1 .. n /\ j - 1 \in 1 .. n /\ i + k <= n
    BY <2>1
  <2>3. parts[j] \in Bytes /\ parts[j - 1] \in Bytes /\ parts[i] \in Bytes /\ seqs[j] \in Bytes
    BY <2>2
  <2>4. parts[j] = parts[j - 1] \o seqs[j]
    BY <2>2 DEF Parts
  <2>5. Holds(parts[j], 1, parts[j - 1] \o seqs[j])
    BY <2>3, <2>4, HoldsAll
  <2>6. Holds(parts[j], 1, parts[j - 1])
    BY <2>3, <2>5, HoldsParts
  <2>7. Holds(parts[j - 1], 1, parts[i])
    BY <1>2, <2>2
  <2>8. Holds(parts[j], 1 + 1 - 1, parts[i])
    BY <2>3, <2>6, <2>7, HoldsWithin
  <2>9. 1 + 1 - 1 = 1
    OBVIOUS
  <2> QED BY <2>1, <2>8, <2>9
<1>3. n - i \in T
  <2>1. n - i \in Nat
    OBVIOUS
  <2> HIDE DEF T
  <2> QED BY <1>1, <1>2, <2>1, NatSet
<1> QED BY <1>3

\* And each sequence is where the part it ends ends.
LEMMA PartPlaces ==
  ASSUME NEW n \in Nat, NEW parts \in [1 .. n -> Bytes],
         NEW seqs, \A i \in 1 .. n : seqs[i] \in Bytes, Parts(parts, seqs, n), NEW i \in 1 .. n
  PROVE  /\ Holds(parts[n], 1 + Len(parts[i]) - Len(seqs[i]), seqs[i])
         /\ i + 1 \in 1 .. n => Len(parts[i + 1]) = Len(parts[i]) + Len(seqs[i + 1])
<1>1. parts[i] \in Bytes /\ seqs[i] \in Bytes /\ parts[n] \in Bytes
  OBVIOUS
<1>2. Holds(parts[n], 1, parts[i])
  BY PartsHeld
<1>3. Holds(parts[i], 1 + Len(parts[i]) - Len(seqs[i]), seqs[i])
  <2>1. CASE i = 1
    <3>1. parts[i] = seqs[i]
      BY <2>1 DEF Parts
    <3>2. Holds(parts[i], 1, seqs[i])
      BY <1>1, <3>1, HoldsAll
    <3>3. 1 + Len(parts[i]) - Len(seqs[i]) = 1
      BY <1>1, <3>1
    <3> QED BY <3>2, <3>3
  <2>2. CASE i # 1
    <3>1. i \in 2 .. n /\ i - 1 \in 1 .. n
      BY <2>2
    <3>2. parts[i] = parts[i - 1] \o seqs[i] /\ parts[i - 1] \in Bytes
      BY <3>1 DEF Parts
    <3>3. Holds(parts[i], 1, parts[i - 1] \o seqs[i])
      BY <1>1, <3>2, HoldsAll
    <3>4. Holds(parts[i], 1 + Len(parts[i - 1]), seqs[i])
      BY <1>1, <3>2, <3>3, HoldsParts
    <3>5. Len(parts[i]) = Len(parts[i - 1]) + Len(seqs[i])
      BY <1>1, <3>2
    <3>6. 1 + Len(parts[i]) - Len(seqs[i]) = 1 + Len(parts[i - 1])
      BY <1>1, <3>2, <3>5
    <3> QED BY <3>4, <3>6
  <2> QED BY <2>1, <2>2
<1>4. Holds(parts[n], 1 + (1 + Len(parts[i]) - Len(seqs[i])) - 1, seqs[i])
  BY <1>1, <1>2, <1>3, HoldsWithin
<1>5. 1 + (1 + Len(parts[i]) - Len(seqs[i])) - 1 = 1 + Len(parts[i]) - Len(seqs[i])
  BY <1>1
<1>6. ASSUME i + 1 \in 1 .. n PROVE Len(parts[i + 1]) = Len(parts[i]) + Len(seqs[i + 1])
  <2>1. PICK j : j = i + 1
    OBVIOUS
  <2>2. j \in 2 .. n /\ j - 1 = i /\ j \in 1 .. n
    BY <1>6, <2>1
  <2>3. parts[j] = parts[i] \o seqs[j]
    BY <2>2 DEF Parts
  <2>4. seqs[j] \in Bytes
    BY <2>2
  <2>5. Len(parts[j]) = Len(parts[i]) + Len(seqs[j])
    BY <1>1, <2>3, <2>4
  <2> QED BY <2>1, <2>5
<1> QED BY <1>4, <1>5, <1>6

\* Each item has a next one.
LEMMA NextItemType ==
  ASSUME NEW b \in Bytes, NEW p \in Nat
  PROVE  NextItem(b, p) \in Nat
<1>1. p + 3 <= Len(b) => U16(From(b, p + 2)) \in Nat
  BY NumberAt
<1> QED BY <1>1 DEF NextItem

\* There is a function like the one ItemsAt defines.
LEMMA ItemWalk ==
  ASSUME NEW b \in Bytes, NEW n \in Nat, n >= 1
  PROVE  \E g : g = [i \in 1 .. n |-> IF i = 1 THEN 3 ELSE NextItem(b, g[i - 1])]
<1>1. PICK S : S = Nat
  OBVIOUS
<1>2. PICK three \in S : three = 3
  BY <1>1
<1>3. PICK next \in [S -> S] : \A p \in S : next[p] = NextItem(b, p)
  <2>1. [p \in S |-> NextItem(b, p)] \in [S -> S]
    BY <1>1, NextItemType
  <2> QED BY <2>1
<1>4. PICK step \in [Nat -> [S -> S]] : step = [i \in Nat |-> next]
  OBVIOUS
<1>5. PICK g \in [1 .. n -> S] : Follows(g, n, three, step)
  BY Recursion
<1>6. \A i \in 2 .. n : g[i] = NextItem(b, g[i - 1])
  <2> SUFFICES ASSUME NEW i \in 2 .. n PROVE g[i] = NextItem(b, g[i - 1])
    OBVIOUS
  <2>1. g[i] = step[i][g[i - 1]] /\ g[i - 1] \in S
    BY <1>5 DEF Follows
  <2>2. step[i] = next
    BY <1>4
  <2> QED BY <1>3, <2>1, <2>2
<1>7. g = [i \in 1 .. n |-> IF i = 1 THEN 3 ELSE NextItem(b, g[i - 1])]
  BY <1>2, <1>5, <1>6 DEF Follows
<1> QED BY <1>7

\* The places of items: the first is at 3, and from each one gets to the next.
LEMMA ItemPlaces ==
  ASSUME NEW b \in Bytes, Len(b) >= 2
  PROVE  /\ ItemsAt(b) \in [1 .. U16(b) + 1 -> Nat]
         /\ ItemsAt(b)[1] = 3
         /\ \A i \in 1 .. U16(b) : ItemsAt(b)[i + 1] = NextItem(b, ItemsAt(b)[i])
<1>1. PICK n \in Nat : n = U16(b) + 1 /\ n >= 1
  BY NumberFirst
<1>2. PICK at : at = ItemsAt(b)
  OBVIOUS
<1>3. at = [i \in 1 .. n |-> IF i = 1 THEN 3 ELSE NextItem(b, at[i - 1])]
  <2> DEFINE F(f) == f = [i \in 1 .. U16(b) + 1 |-> IF i = 1 THEN 3 ELSE NextItem(b, f[i - 1])]
  <2>1. \E f : F(f)
    BY <1>1, ItemWalk
  <2>2. at = CHOOSE f : F(f)
    BY <1>2, Zenon DEF ItemsAt
  <2>3. F(at)
    <3> HIDE DEF F
    <3> QED BY <2>1, <2>2
  <2> QED BY <1>1, <2>3
<1>4. at[1] = 3 /\ \A i \in 2 .. n : at[i] = NextItem(b, at[i - 1])
  BY <1>1, <1>3
<1>5. \A i \in 1 .. n : at[i] \in Nat
  <2>1. \A i \in 2 .. n : at[i - 1] \in Nat => at[i] \in Nat
    BY <1>4, NextItemType
  <2>2. n >= 1 => at[1] \in Nat
    BY <1>4
  <2> QED BY <2>1, <2>2, RecursionType
<1>6. at \in [1 .. n -> Nat]
  BY <1>3, <1>5
<1>7. \A i \in 1 .. U16(b) : at[i + 1] = NextItem(b, at[i])
  BY <1>1, <1>4, NumberFirst
<1> QED BY <1>1, <1>2, <1>4, <1>6, <1>7


\* A type and data with their length before them.
Frame(type, data) == Le16(type) \o Le16(Len(data)) \o data

\* Two numbers one behind the other.
LEMMA FourBytes ==
  ASSUME NEW s \in Bytes, NEW t \in Bytes, Len(s) = 2, Len(t) = 2
  PROVE  s \o t \in Bytes /\ Len(s \o t) = 4
<1>1. s \o t \in Bytes
  BY BytesConcat
<1>2. Len(s \o t) = Len(s) + Len(t)
  BY BytesConcat
<1> QED BY <1>1, <1>2

\* The head of a frame has four bytes.
LEMMA FrameParts ==
  ASSUME NEW type \in Nat, NEW data \in Bytes
  PROVE  \E s \in Bytes, t \in Bytes : /\ s = Le16(type) /\ Len(s) = 2
                             /\ t = Le16(Len(data)) /\ Len(t) = 2
                             /\ s \o t \in Bytes /\ Len(s \o t) = 4
                             /\ Frame(type, data) = (s \o t) \o data
<1>1. Len(data) \in Nat
  BY BytesType
<1>2. PICK s : s = Le16(type)
  OBVIOUS
<1>3. PICK t : t = Le16(Len(data))
  OBVIOUS
<1>4. s \in Bytes /\ Len(s) = 2
  BY <1>2, Le16Type
<1>5. t \in Bytes /\ Len(t) = 2
  BY <1>1, <1>3, Le16Type
<1>6. s \o t \in Bytes /\ Len(s \o t) = 4
  BY <1>4, <1>5, FourBytes, Zenon
<1>7. Frame(type, data) = (s \o t) \o data
  BY <1>2, <1>3, Zenon DEF Frame
<1> QED BY <1>2, <1>3, <1>4, <1>5, <1>6, <1>7, Zenon

\* A frame is four bytes longer than its data.
LEMMA FrameType ==
  ASSUME NEW type \in Nat, NEW data \in Bytes
  PROVE  Frame(type, data) \in Bytes /\ Len(Frame(type, data)) = 4 + Len(data)
<1>1. PICK head \in Bytes : Len(head) = 4 /\ Frame(type, data) = head \o data
  BY FrameParts, Zenon
<1>2. head \o data \in Bytes
  BY BytesConcat
<1>3. Len(head \o data) = Len(head) + Len(data)
  BY BytesConcat
<1> QED BY <1>1, <1>2, <1>3

\* b has a frame of this type and size at p, with this data.
HasFrame(b, p, type, size, data) ==
  /\ p \in Nat /\ 1 <= p /\ p + 3 + Len(data) <= Len(b)
  /\ U16(From(b, p)) = type
  /\ U16(From(b, p + 2)) = size
  /\ Holds(b, p + 4, data)

\* Where a frame is, it is found.
LEMMA FrameHeld ==
  ASSUME NEW b \in Bytes, NEW p, NEW type \in Nat, NEW data \in Bytes,
         Holds(b, p, Frame(type, data))
  PROVE  HasFrame(b, p, Low16(type), Low16(Len(data)), data)
<1>1. Len(data) \in Nat /\ Len(b) \in Nat
  BY BytesType
<1>2. PICK s \in Bytes, t \in Bytes : /\ s = Le16(type) /\ Len(s) = 2
                             /\ t = Le16(Len(data)) /\ Len(t) = 2
                             /\ s \o t \in Bytes /\ Len(s \o t) = 4
                             /\ Frame(type, data) = (s \o t) \o data
  BY FrameParts, Zenon
<1>3. PICK head \in Bytes : head = s \o t /\ Len(head) = 4
  BY <1>2, Zenon
<1>4. Holds(b, p, head \o data)
  BY <1>2, <1>3, Zenon
<1>5. Holds(b, p, head) /\ Holds(b, p + 4, data)
  BY <1>3, <1>4, HoldsParts
<1>6. Holds(b, p, s) /\ Holds(b, p + 2, t)
  <2>1. Holds(b, p, s \o t)
    BY <1>3, <1>5, Zenon
  <2> QED BY <1>2, <2>1, HoldsParts
<1>7. U16(From(b, p)) = Low16(type)
  <2>1. Holds(b, p, Le16(type))
    BY <1>2, <1>6, Zenon
  <2> QED BY <2>1, HoldsNumber
<1>8. U16(From(b, p + 2)) = Low16(Len(data))
  <2>1. Holds(b, p + 2, Le16(Len(data)))
    BY <1>2, <1>6, Zenon
  <2> QED BY <1>1, <2>1, HoldsNumber
<1>9. p \in Nat /\ 1 <= p
  BY <1>5 DEF Holds
<1>10. p + 4 + Len(data) <= Len(b) + 1
  BY <1>5 DEF Holds
<1>11. p + 3 + Len(data) <= Len(b)
  BY <1>1, <1>9, <1>10
<1> QED BY <1>5, <1>7, <1>8, <1>9, <1>11 DEF HasFrame

\* What an item is encoded to.
LEMMA EncodeItemType ==
  ASSUME NEW item, item.type \in Nat, item.data \in Bytes
  PROVE  /\ EncodeItem(item) = Frame(item.type, item.data)
         /\ EncodeItem(item) \in Bytes /\ Len(EncodeItem(item)) = 4 + Len(item.data)
<1>1. EncodeItem(item) = Frame(item.type, item.data)
  BY Zenon DEF EncodeItem, Frame
<1>2. Frame(item.type, item.data) \in Bytes
  BY FrameType
<1>3. Len(Frame(item.type, item.data)) = 4 + Len(item.data)
  BY FrameType
<1> QED BY <1>1, <1>2, <1>3, Zenon

\* From a frame one gets to the next.
LEMMA NextFrame ==
  ASSUME NEW b \in Bytes, NEW p, NEW type, NEW size, NEW data \in Bytes,
         HasFrame(b, p, type, size, data)
  PROVE  NextItem(b, p) = p + 4 + size
<1>1. p \in Nat /\ p + 3 + Len(data) <= Len(b) /\ U16(From(b, p + 2)) = size
  BY DEF HasFrame
<1>2. Len(data) \in Nat /\ Len(b) \in Nat
  BY BytesType
<1>3. p + 3 <= Len(b)
  BY <1>1, <1>2
<1> QED BY <1>1, <1>3 DEF NextItem

\* n items that can be in a packet: of all but the last the data has a length of
\* 16 bits.
IsItem(item) == Is16(item.type) /\ item.data \in Bytes

AreItems(items, n) ==
  /\ Is16(n) /\ 1 <= n /\ Len(items) = n /\ DOMAIN items = 1 .. n
  /\ \A i \in 1 .. n : IsItem(items[i])
  /\ \A i \in 1 .. n - 1 : Is16(Len(items[i].data))

\* Their encoding.
LEMMA EncodeItemsParts ==
  ASSUME NEW items, NEW n, AreItems(items, n)
  PROVE  \E seqs : \E parts \in [1 .. n -> Bytes] :
           /\ \A i \in 1 .. n : seqs[i] = EncodeItem(items[i]) /\ seqs[i] \in Bytes
           /\ Parts(parts, seqs, n)
           /\ EncodeItems(items) = Le16(n) \o parts[n]
<1>1. n \in Nat /\ n >= 1
  BY DEF AreItems, Is16
<1>2. PICK seqs : seqs = [i \in DOMAIN items |-> EncodeItem(items[i])]
  OBVIOUS
<1>3. DOMAIN items = 1 .. n /\ Len(items) = n
  BY DEF AreItems
<1>4. \A i \in 1 .. n : seqs[i] = EncodeItem(items[i]) /\ seqs[i] \in Bytes
  BY <1>2, <1>3, EncodeItemType DEF AreItems, IsItem, Is16
<1>5. Len(seqs) = n
  BY <1>1, <1>2, <1>3
<1>6. \A s, t \in Bytes : s \o t \in Bytes
  BY BytesConcat
<1>7. \A i \in 1 .. n : seqs[i] \in Bytes
  BY <1>4
<1>8. PICK parts \in [1 .. n -> Bytes] : Parts(parts, seqs, n) /\ FlattenSeq(seqs) = parts[n]
  <2>1. IsFlat(FlattenSeq(seqs), seqs, n, Bytes)
    BY <1>1, <1>5, <1>6, <1>7, FlattenParts
  <2> QED BY <2>1, Zenon DEF IsFlat
<1>9. EncodeItems(items) = Le16(n) \o parts[n]
  BY <1>2, <1>3, <1>8 DEF EncodeItems
<1> QED BY <1>4, <1>8, <1>9

\* Where a sequence is, a piece from its head on is cut out.
LEMMA HoldsHead ==
  ASSUME NEW b \in Bytes, NEW s \in Bytes, NEW p, Holds(b, p, s), NEW m \in Nat, m <= Len(s)
  PROVE  SubSeq(b, p, p + m - 1) = SubSeq(s, 1, m)
<1>1. Len(s) \in Nat /\ Len(b) \in Nat /\ p \in Nat /\ 1 <= p /\ p + Len(s) <= Len(b) + 1
  BY BytesType DEF Holds
<1>2. PICK q \in Nat : q = p + m - 1
  BY <1>1
<1>3. p <= q + 1 /\ q <= Len(b) /\ q + 1 - p = m
  BY <1>1, <1>2
<1>4. /\ SubSeq(b, p, q) \in Bytes /\ Len(SubSeq(b, p, q)) = m
      /\ \A i \in 1 .. m : SubSeq(b, p, q)[i] = b[p + i - 1]
  BY <1>1, <1>3, BytesSub
<1>5. /\ SubSeq(s, 1, m) \in Bytes /\ Len(SubSeq(s, 1, m)) = m + 1 - 1
      /\ \A i \in 1 .. m + 1 - 1 : SubSeq(s, 1, m)[i] = s[1 + i - 1]
  BY <1>1, BytesSub
<1>6. \A i \in 1 .. m : b[p + i - 1] = s[i]
  BY <1>1 DEF Holds
<1>7. m + 1 - 1 = m /\ \A i \in 1 .. m : 1 + i - 1 = i
  OBVIOUS
<1>8. \A i \in 1 .. m : SubSeq(b, p, q)[i] = SubSeq(s, 1, m)[i]
  BY <1>4, <1>5, <1>6, <1>7
<1>9. SubSeq(b, p, q) = SubSeq(s, 1, m)
  BY <1>4, <1>5, <1>7, <1>8, BytesEqual
<1> QED BY <1>2, <1>9

\* Items are at places that begin at 3 and of which each one leads to the next.
LEMMA ItemsPlaced ==
  ASSUME NEW b \in Bytes, Len(b) >= 2, NEW n \in Nat, U16(b) = n,
         NEW place, place[1] = 3, \A i \in 1 .. n : NextItem(b, place[i]) = place[i + 1]
  PROVE  \A i \in 1 .. n + 1 : ItemsAt(b)[i] = place[i]
<1>1. PICK at : at = ItemsAt(b)
  OBVIOUS
<1>2. at[1] = 3 /\ \A i \in 1 .. n : at[i + 1] = NextItem(b, at[i])
  BY <1>1, ItemPlaces
<1> DEFINE T == {i \in Nat : at[i] = place[i]}
<1>3. n + 1 >= 1 => 1 \in T
  BY <1>2
<1>4. \A i \in 2 .. n + 1 : i - 1 \in T => i \in T
  <2> SUFFICES ASSUME NEW i \in 2 .. n + 1, i - 1 \in T PROVE i \in T
    OBVIOUS
  <2>1. PICK j : j = i - 1
    OBVIOUS
  <2>2. j \in 1 .. n /\ j + 1 = i /\ at[j] = place[j]
    BY <2>1
  <2>3. at[j + 1] = place[j + 1]
    BY <1>2, <2>2
  <2> QED BY <2>2, <2>3
<1>5. \A i \in 1 .. n + 1 : i \in T
  <2>1. n + 1 \in Nat
    OBVIOUS
  <2> HIDE DEF T
  <2> QED BY <1>3, <1>4, <2>1, UpTo
<1> QED BY <1>1, <1>5


\* b has this item at start, the data with this length before it.
FrameAt(b, start, size, item) ==
  /\ HasFrame(b, start, item.type, size, item.data)
  /\ size = Low16(Len(item.data))

\* Where an item is encoded, its frame is.
LEMMA FrameOfItem ==
  ASSUME NEW b \in Bytes, NEW item, IsItem(item), NEW start, Holds(b, start, EncodeItem(item)),
         NEW size, size = Low16(Len(item.data))
  PROVE  FrameAt(b, start, size, item)
<1>1. item.type \in Nat /\ Is16(item.type)
  BY DEF IsItem, Is16
<1>2. item.data \in Bytes
  BY DEF IsItem
<1>3. EncodeItem(item) = Frame(item.type, item.data)
  BY <1>1, <1>2, EncodeItemType
<1>4. Holds(b, start, Frame(item.type, item.data))
  BY <1>3, Zenon
<1>5. HasFrame(b, start, Low16(item.type), Low16(Len(item.data)), item.data)
  BY <1>1, <1>2, <1>4, FrameHeld, Zenon
<1>6. Low16(item.type) = item.type
  BY <1>1, Fits16
<1>7. HasFrame(b, start, item.type, size, item.data)
  BY <1>5, <1>6, Zenon
<1> QED BY <1>7, Zenon DEF FrameAt

\* What is found there.
LEMMA FrameFound ==
  ASSUME NEW b \in Bytes, NEW item, IsItem(item), NEW start, NEW size, FrameAt(b, start, size, item)
  PROVE  /\ start \in Nat /\ size \in Nat /\ size <= Len(item.data)
         /\ Is16(Len(item.data)) => size = Len(item.data)
         /\ U16(From(b, start)) = item.type
         /\ NextItem(b, start) = start + 4 + size
         /\ SubSeq(b, start + 4, NextItem(b, start) - 1) = SubSeq(item.data, 1, size)
<1>1. PICK data : data = item.data
  OBVIOUS
<1>2. data \in Bytes
  BY <1>1 DEF IsItem
<1>3. HasFrame(b, start, item.type, size, data) /\ size = Low16(Len(data))
  BY <1>1 DEF FrameAt
<1>4. start \in Nat /\ U16(From(b, start)) = item.type /\ Holds(b, start + 4, data)
  BY <1>3 DEF HasFrame
<1>5. Len(data) \in Nat
  BY <1>2, BytesType
<1>6. size \in Nat /\ size <= Len(data) /\ (Is16(Len(data)) => size = Len(data))
  BY <1>3, <1>5, Fits16
<1>7. NextItem(b, start) = start + 4 + size
  BY <1>2, <1>3, NextFrame
<1>8. SubSeq(b, start + 4, NextItem(b, start) - 1) = SubSeq(data, 1, size)
  <2>1. PICK p : p = start + 4
    OBVIOUS
  <2>2. Holds(b, p, data)
    BY <1>4, <2>1
  <2>3. PICK m \in Nat : m = size /\ m <= Len(data)
    BY <1>6
  <2>4. SubSeq(b, p, p + m - 1) = SubSeq(data, 1, m)
    BY <1>2, <2>2, <2>3, HoldsHead
  <2>5. p + m - 1 = NextItem(b, start) - 1
    BY <1>7, <2>1, <2>3
  <2> QED BY <2>1, <2>3, <2>4, <2>5
<1> QED BY <1>1, <1>4, <1>6, <1>7, <1>8

\* What comes behind the part that the item ends.
LEMMA PlaceOfItem ==
  ASSUME NEW b \in Bytes, NEW whole \in Bytes, Holds(b, 3, whole),
         NEW item, IsItem(item), NEW part \in Bytes, NEW seq \in Bytes, seq = EncodeItem(item),
         Holds(whole, 1 + Len(part) - Len(seq), seq)
  PROVE  /\ Holds(b, 3 + Len(part) - Len(seq), seq)
         /\ Len(seq) = 4 + Len(item.data)
<1>1. Len(part) \in Nat /\ Len(seq) \in Nat
  BY BytesType
<1>2. Holds(b, 3 + (1 + Len(part) - Len(seq)) - 1, seq)
  BY HoldsWithin
<1>3. 3 + (1 + Len(part) - Len(seq)) - 1 = 3 + Len(part) - Len(seq)
  BY <1>1
<1>4. Len(seq) = 4 + Len(item.data)
  BY EncodeItemType DEF IsItem, Is16
<1> QED BY <1>2, <1>3, <1>4

\* The places and sizes of n frames, one behind the other.
Placed(b, items, n, start, size) ==
  /\ \A i \in 1 .. n : FrameAt(b, start[i], size[i], items[i])
  /\ \A i \in 2 .. n : start[i] = start[i - 1] + 4 + size[i - 1]
  /\ start[1] = 3 /\ start[n] + 4 + size[n] <= Len(b) + 1

\* That is what items are encoded to.
LEMMA EncodeItemsPlaced ==
  ASSUME NEW items, NEW n, AreItems(items, n)
  PROVE  /\ EncodeItems(items) \in Bytes /\ Len(EncodeItems(items)) >= 2
         /\ U16(EncodeItems(items)) = n
         /\ \E start, size : Placed(EncodeItems(items), items, n, start, size)
<1>0. PICK seqs :
        \E parts \in [1 .. n -> Bytes] :
          /\ \A i \in 1 .. n : seqs[i] = EncodeItem(items[i]) /\ seqs[i] \in Bytes
          /\ Parts(parts, seqs, n)
          /\ EncodeItems(items) = Le16(n) \o parts[n]
  BY EncodeItemsParts, Zenon
<1>1. PICK parts \in [1 .. n -> Bytes] :
        /\ \A i \in 1 .. n : seqs[i] = EncodeItem(items[i]) /\ seqs[i] \in Bytes
        /\ Parts(parts, seqs, n)
        /\ EncodeItems(items) = Le16(n) \o parts[n]
  BY <1>0
<1>2. n \in Nat /\ 1 <= n /\ Is16(n)
  BY DEF AreItems, Is16
<1>3. PICK b : b = EncodeItems(items)
  OBVIOUS
<1>4. PICK head : head = Le16(n)
  OBVIOUS
<1>5. head \in Bytes /\ Len(head) = 2
  BY <1>2, <1>4, Le16Type
<1>6. PICK whole \in Bytes : whole = parts[n]
  BY <1>2
<1>7. b = head \o whole
  BY <1>1, <1>3, <1>4, <1>6, Zenon
<1>8. b \in Bytes
  BY <1>5, <1>6, <1>7, BytesConcat
<1>9. Len(b) = Len(head) + Len(whole)
  BY <1>5, <1>6, <1>7, BytesConcat
<1>10. Holds(b, 1, head \o whole)
  BY <1>7, <1>8, HoldsAll
<1>11. Holds(b, 1, head) /\ Holds(b, 1 + Len(head), whole)
  BY <1>5, <1>6, <1>8, <1>10, HoldsParts
<1>12. Holds(b, 3, whole)
  <2>1. 1 + Len(head) = 3
    BY <1>5
  <2> QED BY <1>11, <2>1
<1>13. U16(b) = n
  <2>1. Holds(b, 1, Le16(n))
    BY <1>4, <1>11, Zenon
  <2>2. U16(From(b, 1)) = Low16(n)
    BY <1>2, <1>8, <2>1, HoldsNumber
  <2>3. 1 + Len(b) = Len(b) + 1
    BY <1>8, BytesType
  <2>4. From(b, 1) = b
    BY <1>8, <2>3, HoldsAll, HoldsEnd
  <2>5. Low16(n) = n
    BY <1>2, Fits16
  <2> QED BY <2>2, <2>4, <2>5
<1>14. \A i \in 1 .. n : seqs[i] \in Bytes
  BY <1>1
<1>15. ASSUME NEW i \in 1 .. n
       PROVE  /\ Holds(b, 3 + Len(parts[i]) - Len(seqs[i]), EncodeItem(items[i]))
              /\ Len(seqs[i]) = 4 + Len(items[i].data)
              /\ IsItem(items[i])
              /\ Len(parts[i]) \in Nat
              /\ Len(seqs[i]) \in Nat
  <2>1. IsItem(items[i])
    BY DEF AreItems
  <2>2. PICK seq \in Bytes : seq = seqs[i] /\ seq = EncodeItem(items[i])
    BY <1>1
  <2>3. PICK part \in Bytes : part = parts[i]
    OBVIOUS
  <2>4. Holds(parts[n], 1 + Len(parts[i]) - Len(seqs[i]), seqs[i])
    BY <1>1, <1>2, <1>14, PartPlaces
  <2>5. Holds(whole, 1 + Len(part) - Len(seq), seq)
    BY <1>6, <2>2, <2>3, <2>4, Zenon
  <2>6. Holds(b, 3 + Len(part) - Len(seq), seq)
    BY <1>8, <1>12, <2>1, <2>2, <2>5, PlaceOfItem
  <2>7. Len(seq) = 4 + Len(items[i].data)
    BY <1>8, <1>12, <2>1, <2>2, <2>5, PlaceOfItem
  <2>8. Len(part) \in Nat /\ Len(seq) \in Nat
    BY BytesType
  <2> QED BY <2>1, <2>2, <2>3, <2>6, <2>7, <2>8, Zenon
<1>16. PICK size : size = [i \in 1 .. n |-> Low16(Len(items[i].data))]
  BY Zenon
<1>17. PICK start : start = [i \in 1 .. n |-> 3 + Len(parts[i]) - Len(seqs[i])]
  BY Zenon
<1>18. ASSUME NEW i \in 1 .. n PROVE FrameAt(b, start[i], size[i], items[i])
  <2>1. start[i] = 3 + Len(parts[i]) - Len(seqs[i]) /\ size[i] = Low16(Len(items[i].data))
    BY <1>16, <1>17, Zenon
  <2>2. Holds(b, start[i], EncodeItem(items[i]))
    BY <1>15, <2>1, Zenon
  <2>3. IsItem(items[i])
    BY <1>15
  <2> QED BY <1>8, <2>1, <2>2, <2>3, FrameOfItem
<1>19. ASSUME NEW i \in 2 .. n PROVE start[i] = start[i - 1] + 4 + size[i - 1]
  <2>1. PICK j : j = i - 1
    OBVIOUS
  <2>2. j \in 1 .. n /\ j + 1 = i /\ i \in 1 .. n /\ j \in 1 .. n - 1
    BY <1>2, <2>1
  <2>3. Len(parts[j + 1]) = Len(parts[j]) + Len(seqs[j + 1])
    BY <1>1, <1>2, <1>14, <2>2, PartPlaces
  <2>4. Len(parts[i]) = Len(parts[j]) + Len(seqs[i])
    BY <2>2, <2>3
  <2>5. start[i] = 3 + Len(parts[i]) - Len(seqs[i]) /\ start[j] = 3 + Len(parts[j]) - Len(seqs[j])
    BY <1>17, <2>2
  <2>6. /\ Len(parts[i]) \in Nat /\ Len(seqs[i]) \in Nat
        /\ Len(parts[j]) \in Nat /\ Len(seqs[j]) \in Nat /\ Len(seqs[j]) = 4 + Len(items[j].data)
    BY <1>15, <2>2
  <2>7. size[j] = Len(items[j].data)
    <3>1. Is16(Len(items[j].data))
      BY <2>2 DEF AreItems
    <3>2. size[j] = Low16(Len(items[j].data))
      BY <1>16, <2>2
    <3>3. Len(items[j].data) \in Nat
      BY <3>1 DEF Is16
    <3> QED BY <3>1, <3>2, <3>3, Fits16
  <2>8. start[i] = 3 + Len(parts[j])
    BY <2>4, <2>5, <2>6
  <2>9. start[j] + 4 + size[j] = 3 + Len(parts[j])
    BY <2>5, <2>6, <2>7
  <2> QED BY <2>1, <2>8, <2>9
<1>20. start[1] = 3
  <2>1. 1 \in 1 .. n /\ parts[1] = seqs[1]
    BY <1>1, <1>2 DEF Parts
  <2>2. start[1] = 3 + Len(parts[1]) - Len(seqs[1]) /\ Len(parts[1]) \in Nat
    BY <1>15, <1>17, <2>1
  <2> QED BY <2>1, <2>2
<1>21. start[n] + 4 + size[n] <= Len(b) + 1
  <2>1. n \in 1 .. n
    BY <1>2
  <2>2. start[n] = 3 + Len(parts[n]) - Len(seqs[n])
    BY <1>17, <2>1
  <2>3. Len(parts[n]) \in Nat /\ Len(seqs[n]) \in Nat /\ Len(seqs[n]) = 4 + Len(items[n].data)
    BY <1>15, <2>1
  <2>4. size[n] = Low16(Len(items[n].data))
    BY <1>16, <2>1
  <2>5. Len(items[n].data) \in Nat
    BY <1>15, <2>1, BytesType DEF IsItem
  <2>6. size[n] \in Nat /\ size[n] <= Len(items[n].data)
    BY <2>4, <2>5, Fits16
  <2>7. Len(b) = 2 + Len(parts[n])
    BY <1>5, <1>6, <1>9
  <2>8. start[n] + 4 + Len(items[n].data) = 3 + Len(parts[n])
    BY <2>2, <2>3, <2>5
  <2>9. start[n] \in Int
    BY <2>2, <2>3
  <2>10. start[n] + 4 + size[n] <= start[n] + 4 + Len(items[n].data)
    BY <2>5, <2>6, <2>9
  <2>11. Len(b) + 1 = 3 + Len(parts[n])
    BY <2>3, <2>7
  <2> QED BY <2>8, <2>10, <2>11
<1>22. Placed(b, items, n, start, size)
  BY <1>18, <1>19, <1>20, <1>21 DEF Placed
<1>23. Len(b) >= 2
  BY <1>5, <1>6, <1>9, BytesType
<1> QED BY <1>3, <1>8, <1>13, <1>22, <1>23, Zenon

\* b has these n items; of data longer than its length can tell, the head.
HasItems(b, items, n) ==
  /\ b \in Bytes /\ Len(b) >= 2 /\ U16(b) = n /\ DecodesItems(b)
  /\ \A i \in 1 .. n :
       /\ U16(From(b, ItemsAt(b)[i])) = items[i].type
       /\ SubSeq(b, ItemsAt(b)[i] + 4, ItemsAt(b)[i + 1] - 1)
            = SubSeq(items[i].data, 1, Low16(Len(items[i].data)))

\* The items that are encoded are decoded.
THEOREM ItemsHeld ==
  ASSUME NEW items, NEW n, AreItems(items, n)
  PROVE  HasItems(EncodeItems(items), items, n)
<1>1. PICK b : b = EncodeItems(items)
  OBVIOUS
<1>2. b \in Bytes /\ Len(b) >= 2 /\ U16(b) = n
  BY <1>1, EncodeItemsPlaced
<1>3. PICK start, size : Placed(b, items, n, start, size)
  BY <1>1, EncodeItemsPlaced
<1>4. n \in Nat /\ 1 <= n
  BY DEF AreItems, Is16
<1>5. PICK place : place = [i \in 1 .. n + 1 |-> IF i <= n THEN start[i] ELSE start[n] + 4 + size[n]]
  BY Zenon
<1>6. ASSUME NEW i \in 1 .. n
      PROVE  /\ FrameAt(b, start[i], size[i], items[i]) /\ IsItem(items[i])
             /\ place[i] = start[i] /\ place[i + 1] = start[i] + 4 + size[i]
  <2>1. FrameAt(b, start[i], size[i], items[i])
    BY <1>3 DEF Placed
  <2>2. IsItem(items[i])
    BY DEF AreItems
  <2>3. place[i] = start[i]
    BY <1>4, <1>5
  <2>4. PICK j : j = i + 1
    OBVIOUS
  <2>5. place[j] = start[i] + 4 + size[i]
    <3>1. CASE i = n
      BY <1>4, <1>5, <2>4, <3>1
    <3>2. CASE i # n
      <4>1. j \in 2 .. n /\ j - 1 = i
        BY <1>4, <2>4, <3>2
      <4>2. start[j] = start[i] + 4 + size[i]
        BY <1>3, <4>1 DEF Placed
      <4> QED BY <1>4, <1>5, <4>1, <4>2
    <3> QED BY <3>1, <3>2
  <2> QED BY <2>1, <2>2, <2>3, <2>4, <2>5
<1>7. place[1] = 3
  <2>1. 1 \in 1 .. n /\ start[1] = 3
    BY <1>3, <1>4 DEF Placed
  <2> QED BY <1>6, <2>1
<1>8. ASSUME NEW i \in 1 .. n PROVE NextItem(b, place[i]) = place[i + 1]
  <2>1. NextItem(b, start[i]) = start[i] + 4 + size[i]
    BY <1>2, <1>6, FrameFound
  <2> QED BY <1>6, <2>1
<1>9. PICK at : at = ItemsAt(b)
  OBVIOUS
<1>10. \A i \in 1 .. n + 1 : at[i] = place[i]
  BY <1>2, <1>4, <1>7, <1>8, <1>9, ItemsPlaced
<1>11. ASSUME NEW i \in 1 .. n
       PROVE  /\ U16(From(b, at[i])) = items[i].type
              /\ SubSeq(b, at[i] + 4, at[i + 1] - 1)
                   = SubSeq(items[i].data, 1, Low16(Len(items[i].data)))
  <2>1. i \in 1 .. n + 1 /\ i + 1 \in 1 .. n + 1
    BY <1>4
  <2>2. at[i] = start[i] /\ at[i + 1] = start[i] + 4 + size[i]
    BY <1>6, <1>10, <2>1
  <2>3. U16(From(b, start[i])) = items[i].type
    BY <1>2, <1>6, FrameFound
  <2>4. SubSeq(b, start[i] + 4, NextItem(b, start[i]) - 1) = SubSeq(items[i].data, 1, size[i])
    <3>1. PICK s, m, item : s = start[i] /\ m = size[i] /\ item = items[i]
      OBVIOUS
    <3>2. FrameAt(b, s, m, item) /\ IsItem(item)
      BY <1>6, <3>1
    <3>3. SubSeq(b, s + 4, NextItem(b, s) - 1) = SubSeq(item.data, 1, m)
      BY <1>2, <3>2, FrameFound
    <3> QED BY <3>1, <3>3, Zenon
  <2>5. size[i] = Low16(Len(items[i].data))
    BY <1>6 DEF FrameAt
  <2>6. NextItem(b, start[i]) = at[i + 1]
    BY <1>2, <1>6, <2>2, FrameFound
  <2> QED BY <2>2, <2>3, <2>4, <2>5, <2>6, Zenon
<1>12. at[n + 1] <= Len(b) + 1
  <2>1. n \in 1 .. n /\ n + 1 \in 1 .. n + 1
    BY <1>4
  <2>2. at[n + 1] = start[n] + 4 + size[n]
    BY <1>6, <1>10, <2>1
  <2> QED BY <1>3, <2>2 DEF Placed
<1>13. DecodesItems(b)
  BY <1>2, <1>9, <1>12 DEF DecodesItems
<1>14. HasItems(b, items, n)
  BY <1>2, <1>9, <1>11, <1>13 DEF HasItems
<1> QED BY <1>1, <1>14

\* The first number with a property, as FindItemByType chooses it.
LEMMA FirstOf ==
  ASSUME NEW T \in SUBSET Nat, NEW k \in T, \A j \in T : k <= j
  PROVE  (CHOOSE i \in T : \A j \in T : i <= j) = k
<1>1. \A i \in T : (\A j \in T : i <= j) => i = k
  OBVIOUS
<1> QED BY <1>1

\* The first item of a type is found.
THEOREM ItemIsFound ==
  ASSUME NEW items, NEW n, AreItems(items, n), NEW k \in 1 .. n,
         \A i \in 1 .. n : items[i].type = items[k].type => k <= i
  PROVE  FindItemByType(EncodeItems(items), items[k].type)
           = [ok |-> TRUE, data |-> SubSeq(items[k].data, 1, Low16(Len(items[k].data)))]
<1>1. PICK b : b = EncodeItems(items)
  OBVIOUS
<1>2. HasItems(b, items, n)
  BY <1>1, ItemsHeld
<1>3. PICK at : at = ItemsAt(b)
  OBVIOUS
<1>4. PICK type : type = items[k].type
  OBVIOUS
<1>5. U16(b) = n /\ DecodesItems(b)
  BY <1>2 DEF HasItems
<1>6. \A i \in 1 .. n : U16(From(b, at[i])) = items[i].type
  BY <1>2, <1>3 DEF HasItems
<1>7. SubSeq(b, at[k] + 4, at[k + 1] - 1) = SubSeq(items[k].data, 1, Low16(Len(items[k].data)))
  BY <1>2, <1>3 DEF HasItems
<1>8. PICK typed : typed = {i \in 1 .. U16(b) : U16(From(b, at[i])) = type}
  BY Zenon
<1>9. typed = {i \in 1 .. n : items[i].type = items[k].type}
  BY <1>4, <1>5, <1>6, <1>8
<1>10. k \in typed /\ typed \subseteq Nat /\ \A j \in typed : k <= j
  BY <1>9
<1>11. (CHOOSE i \in typed : \A j \in typed : i <= j) = k
  BY <1>10, FirstOf
<1>12. FindItemByType(b, type) = [ok |-> TRUE, data |-> SubSeq(b, at[k] + 4, at[k + 1] - 1)]
  <2>1. typed # {}
    BY <1>10
  <2> QED BY <1>3, <1>5, <1>8, <1>11, <2>1, Zenon DEF FindItemByType
<1> QED BY <1>1, <1>4, <1>7, <1>12, Zenon

\* An item of a type there is not is not.
THEOREM NoItemIsFound ==
  ASSUME NEW items, NEW n, AreItems(items, n), NEW type, \A i \in 1 .. n : items[i].type # type
  PROVE  FindItemByType(EncodeItems(items), type) = [ok |-> FALSE, data |-> <<>>]
<1>1. PICK b : b = EncodeItems(items)
  OBVIOUS
<1>2. HasItems(b, items, n)
  BY <1>1, ItemsHeld
<1>3. PICK at : at = ItemsAt(b)
  OBVIOUS
<1>4. U16(b) = n
  BY <1>2 DEF HasItems
<1>5. \A i \in 1 .. n : U16(From(b, at[i])) = items[i].type
  BY <1>2, <1>3 DEF HasItems
<1>6. {i \in 1 .. U16(b) : U16(From(b, at[i])) = type} = {}
  BY <1>4, <1>5
<1>7. FindItemByType(b, type) = [ok |-> FALSE, data |-> <<>>]
  BY <1>3, <1>6, Zenon DEF FindItemByType
<1> QED BY <1>1, <1>7

\* The places of items are in order.
LEMMA ItemsInOrder ==
  ASSUME NEW b \in Bytes, Len(b) >= 2, NEW i \in 1 .. U16(b)
  PROVE  /\ ItemsAt(b)[i] \in Nat /\ ItemsAt(b)[i + 1] \in Nat /\ 3 <= ItemsAt(b)[i]
         /\ ItemsAt(b)[i] + 4 <= ItemsAt(b)[i + 1]
         /\ ItemsAt(b)[i + 1] <= ItemsAt(b)[U16(b) + 1]
<1>1. PICK n \in Nat : n = U16(b)
  BY NumberFirst
<1>2. PICK at : at = ItemsAt(b)
  OBVIOUS
<1>3. at \in [1 .. n + 1 -> Nat] /\ at[1] = 3
  BY <1>1, <1>2, ItemPlaces
<1>4. \A j \in 1 .. n : at[j + 1] = NextItem(b, at[j])
  BY <1>1, <1>2, ItemPlaces
<1>5. ASSUME NEW j \in 1 .. n PROVE at[j] + 4 <= at[j + 1]
  <2>1. PICK p \in Nat : p = at[j]
    BY <1>3
  <2>2. p + 3 <= Len(b) => U16(From(b, p + 2)) \in Nat
    BY <2>1, NumberAt
  <2>3. NextItem(b, p) >= p + 4
    BY <2>2 DEF NextItem
  <2> QED BY <1>4, <2>1, <2>3
<1>6. \A j \in 1 .. n + 1 : at[j] >= 3
  <2> DEFINE T == {j \in 1 .. n + 1 : at[j] >= 3}
  <2>1. n + 1 >= 1 => 1 \in T
    BY <1>3
  <2>2. \A j \in 2 .. n + 1 : j - 1 \in T => j \in T
    <3> SUFFICES ASSUME NEW j \in 2 .. n + 1, j - 1 \in T PROVE j \in T
      OBVIOUS
    <3>1. PICK m : m = j - 1
      OBVIOUS
    <3>2. m \in 1 .. n /\ m \in 1 .. n + 1 /\ m + 1 = j /\ at[m] >= 3
      BY <3>1
    <3>3. at[m] \in Nat /\ at[j] \in Nat /\ j \in 1 .. n + 1
      BY <1>3, <3>2
    <3>4. at[m] + 4 <= at[j]
      BY <1>5, <3>2
    <3> QED BY <3>2, <3>3, <3>4
  <2>3. n + 1 \in Nat
    OBVIOUS
  <2>4. \A j \in 1 .. n + 1 : j \in T
    <3> HIDE DEF T
    <3> QED BY <2>1, <2>2, <2>3, UpTo
  <2> QED BY <2>4
<1>7. \A j \in 1 .. n + 1 : i + 1 <= j => at[i + 1] <= at[j]
  <2> DEFINE T == {j \in 1 .. n + 1 : i + 1 <= j => at[i + 1] <= at[j]}
  <2>1. n + 1 >= 1 => 1 \in T
    BY <1>1
  <2>2. \A j \in 2 .. n + 1 : j - 1 \in T => j \in T
    <3> SUFFICES ASSUME NEW j \in 2 .. n + 1, j - 1 \in T PROVE j \in T
      OBVIOUS
    <3>1. PICK m : m = j - 1
      OBVIOUS
    <3>2. m \in 1 .. n /\ m \in 1 .. n + 1 /\ m + 1 = j /\ (i + 1 <= m => at[i + 1] <= at[m])
      BY <3>1
    <3>3. at[m] \in Nat /\ at[j] \in Nat /\ at[i + 1] \in Nat
      <4>1. i + 1 \in 1 .. n + 1
        BY <1>1
      <4> QED BY <1>3, <3>2, <4>1
    <3>4. at[m] + 4 <= at[j]
      BY <1>5, <3>2
    <3>5. CASE i + 1 <= m
      BY <3>2, <3>3, <3>4, <3>5
    <3>6. CASE ~(i + 1 <= m)
      <4>1. i + 1 <= j => i + 1 = j
        BY <1>1, <3>1, <3>6
      <4> QED BY <3>3, <4>1
    <3> QED BY <3>5, <3>6
  <2>3. n + 1 \in Nat
    OBVIOUS
  <2>4. \A j \in 1 .. n + 1 : j \in T
    <3> HIDE DEF T
    <3> QED BY <2>1, <2>2, <2>3, UpTo
  <2> QED BY <2>4
<1>8. i \in 1 .. n /\ i \in 1 .. n + 1 /\ i + 1 \in 1 .. n + 1 /\ n + 1 \in 1 .. n + 1
  BY <1>1
<1>9. at[i] \in Nat /\ at[i + 1] \in Nat /\ 3 <= at[i] /\ at[i] + 4 <= at[i + 1] /\ at[i + 1] <= at[n + 1]
  BY <1>3, <1>5, <1>6, <1>7, <1>8
<1> QED BY <1>1, <1>2, <1>9

\* A set of numbers that is not empty has a smallest.
LEMMA LeastElement ==
  ASSUME NEW n \in Nat, NEW T, T \subseteq 1 .. n, T # {}
  PROVE  \E i \in T : \A j \in T : i <= j
<1> SUFFICES ASSUME \A i \in T : \E j \in T : j < i PROVE FALSE
  OBVIOUS
<1> DEFINE U == {k \in Nat : \A i \in T : k < i}
<1>1. 0 \in U
  OBVIOUS
<1>2. ASSUME NEW k \in Nat, k \in U PROVE k + 1 \in U
  <2> SUFFICES ASSUME NEW i \in T PROVE k + 1 < i
    OBVIOUS
  <2>1. PICK j \in T : j < i
    OBVIOUS
  <2>2. k < j /\ i \in Nat /\ j \in Nat
    BY <1>2
  <2> QED BY <2>1, <2>2
<1>3. n \in U
  <2> HIDE DEF U
  <2> QED BY <1>1, <1>2, NatSet
<1>4. PICK i \in T : i \in 1 .. n
  OBVIOUS
<1>5. n < i
  BY <1>3
<1> QED BY <1>4, <1>5

\* What is found in bytes is bytes.
LEMMA FindItemType ==
  ASSUME NEW b \in Bytes, NEW type
  PROVE  FindItemByType(b, type).data \in Bytes /\ FindItemByType(b, type).ok \in BOOLEAN
<1>1. PICK at : at = ItemsAt(b)
  OBVIOUS
<1>2. PICK typed : typed = {i \in 1 .. U16(b) : U16(From(b, at[i])) = type}
  BY Zenon
<1>3. PICK first : first = CHOOSE i \in typed : \A j \in typed : i <= j
  OBVIOUS
<1>4. CASE ~DecodesItems(b) \/ typed = {}
  <2>1. FindItemByType(b, type) = [ok |-> FALSE, data |-> <<>>]
    BY <1>1, <1>2, <1>4, Zenon DEF FindItemByType
  <2>2. <<>> \in Bytes
    BY DEF Bytes
  <2> QED BY <2>1, <2>2
<1>5. CASE DecodesItems(b) /\ typed # {}
  <2>1. FindItemByType(b, type)
          = [ok |-> TRUE, data |-> SubSeq(b, at[first] + 4, at[first + 1] - 1)]
    BY <1>1, <1>2, <1>3, <1>5, Zenon DEF FindItemByType
  <2>2. Len(b) >= 2 /\ at[U16(b) + 1] <= Len(b) + 1
    BY <1>1, <1>5 DEF DecodesItems
  <2>3. U16(b) \in Nat
    BY <2>2, NumberFirst
  <2>4. \E i \in typed : \A j \in typed : i <= j
    BY <1>2, <1>5, <2>3, LeastElement
  <2>5. first \in 1 .. U16(b)
    BY <1>2, <1>3, <2>4
  <2>6. /\ at[first] \in Nat /\ at[first + 1] \in Nat /\ 3 <= at[first]
        /\ at[first] + 4 <= at[first + 1] /\ at[first + 1] <= at[U16(b) + 1]
    BY <1>1, <2>2, <2>5, ItemsInOrder
  <2>7. PICK p \in Nat : p = at[first] + 4
    BY <2>6
  <2>8. PICK q \in Nat : q = at[first + 1] - 1
    BY <2>6
  <2>9. Len(b) \in Nat
    BY BytesType
  <2>10. at[U16(b) + 1] \in Nat
    <3>1. PICK n \in Nat : n = U16(b)
      BY <2>3
    <3>2. n + 1 \in 1 .. n + 1
      OBVIOUS
    <3>3. at \in [1 .. n + 1 -> Nat]
      BY <1>1, <2>2, <3>1, ItemPlaces
    <3> QED BY <3>1, <3>2, <3>3
  <2>11. 1 <= p /\ p <= q + 1
    BY <2>6, <2>7, <2>8
  <2>12. q <= Len(b)
    <3>1. PICK x \in Nat, y \in Nat, z \in Nat :
            x = at[first + 1] /\ y = at[U16(b) + 1] /\ z = Len(b)
      BY <2>6, <2>9, <2>10
    <3>2. x <= y /\ y <= z + 1 /\ q = x - 1
      BY <2>2, <2>6, <2>8, <3>1
    <3> QED BY <3>1, <3>2
  <2>13. SubSeq(b, p, q) \in Bytes
    BY <2>11, <2>12, BytesSub
  <2> QED BY <2>1, <2>7, <2>8, <2>13
<1> QED BY <1>4, <1>5

-----------------------------------------------------------------------------
(* Bytes of a known length.                                                *)

\* n bytes.
AreBytes(s, n) == s \in Bytes /\ Len(s) = n

\* A function is a sequence of bytes.
LEMMA FunctionBytes ==
  ASSUME NEW n \in Nat, NEW f \in [1 .. n -> Byte]
  PROVE  f \in Bytes /\ Len(f) = n
<1>1. f \in Seq(Byte)
  BY SeqDef
<1>2. Len(f) = n
  BY <1>1
<1> QED BY <1>1, <1>2 DEF Bytes

\* Two bytes more.
LEMMA TwoMore ==
  ASSUME NEW s, NEW k \in Nat, AreBytes(s, k), NEW n \in Int
  PROVE  AreBytes(s \o Le16(n), k + 2)
<1>1. PICK t \in Bytes : t = Le16(n) /\ Len(t) = 2
  BY Le16Type
<1>2. s \in Bytes /\ Len(s) = k
  BY DEF AreBytes
<1>3. s \o t \in Bytes /\ Len(s \o t) = Len(s) + Len(t)
  BY <1>2, BytesConcat
<1> QED BY <1>1, <1>2, <1>3 DEF AreBytes

\* And more.
LEMMA MoreBytes ==
  ASSUME NEW s, NEW k \in Nat, AreBytes(s, k), NEW t, NEW m \in Nat, AreBytes(t, m)
  PROVE  AreBytes(s \o t, k + m)
<1>1. s \in Bytes /\ Len(s) = k /\ t \in Bytes /\ Len(t) = m
  BY DEF AreBytes
<1>2. s \o t \in Bytes /\ Len(s \o t) = Len(s) + Len(t)
  BY <1>1, BytesConcat
<1> QED BY <1>1, <1>2 DEF AreBytes

\* b has the number n at p.
HasNumber(b, p, n) == p \in Nat /\ 1 <= p /\ p + 1 <= Len(b) /\ U16(From(b, p)) = n

\* The number at the end of what is held.
LEMMA NumberHeld ==
  ASSUME NEW b \in Bytes, NEW p, NEW s, NEW k \in Nat, AreBytes(s, k),
         NEW n \in Nat, Holds(b, p, s \o Le16(n))
  PROVE  Holds(b, p, s) /\ HasNumber(b, p + k, Low16(n))
<1>1. PICK t \in Bytes : t = Le16(n) /\ Len(t) = 2
  BY Le16Type
<1>2. s \in Bytes /\ Len(s) = k
  BY DEF AreBytes
<1>3. Holds(b, p, s) /\ Holds(b, p + k, t)
  <2>1. Holds(b, p, s \o t)
    BY <1>1, Zenon
  <2> QED BY <1>2, <2>1, HoldsParts
<1>4. Holds(b, p + k, Le16(n))
  BY <1>1, <1>3, Zenon
<1>5. p + k + 1 <= Len(b) /\ U16(From(b, p + k)) = Low16(n)
  BY <1>4, HoldsNumber
<1>6. p + k \in Nat /\ 1 <= p + k
  BY <1>4 DEF Holds
<1> QED BY <1>3, <1>5, <1>6 DEF HasNumber

-----------------------------------------------------------------------------
(* Paths.                                                                  *)

\* Four bytes of a number.
LEMMA Le32Type ==
  ASSUME NEW n \in Int
  PROVE  Le32(n) \in Bytes /\ Len(Le32(n)) = 4
<1>1. n % 65536 \in Int /\ n \div 65536 \in Int
  OBVIOUS
<1>2. PICK l : l = Le16(n % 65536)
  OBVIOUS
<1>3. PICK h : h = Le16(n \div 65536)
  OBVIOUS
<1>4. l \in Bytes /\ Len(l) = 2
  BY <1>1, <1>2, Le16Type
<1>5. h \in Bytes /\ Len(h) = 2
  BY <1>1, <1>3, Le16Type
<1>6. l \o h \in Bytes /\ Len(l \o h) = 4
  BY <1>4, <1>5, FourBytes
<1> QED BY <1>2, <1>3, <1>6 DEF Le32

\* A segment in its three formats. Each is an even number of bytes.
LEMMA SegmentType ==
  ASSUME NEW type \in Nat, type <= 253, NEW id \in Nat
  PROVE  /\ id <= 255 => AreBytes(Segment(type, id), 2)
         /\ Is16(id) /\ ~(id <= 255) => AreBytes(Segment(type, id), 4)
         /\ ~Is16(id) => AreBytes(Segment(type, id), 6)
<1>1. ASSUME id <= 255 PROVE AreBytes(Segment(type, id), 2)
  <2>1. type \in Byte /\ id \in Byte
    BY <1>1 DEF Byte
  <2>2. Segment(type, id) = <<type, id>>
    BY <1>1 DEF Segment
  <2> QED BY <2>1, <2>2, FewBytes DEF AreBytes
<1>2. ASSUME Is16(id), ~(id <= 255) PROVE AreBytes(Segment(type, id), 4)
  <2>1. type + 1 \in Byte /\ 0 \in Byte
    BY DEF Byte
  <2>2. PICK s : s = <<type + 1, 0>>
    OBVIOUS
  <2>3. AreBytes(s, 2)
    BY <2>1, <2>2, FewBytes DEF AreBytes
  <2>4. Segment(type, id) = s \o Le16(id)
    BY <1>2, <2>2 DEF Segment, Is16
  <2>5. AreBytes(s \o Le16(id), 2 + 2)
    BY <2>3, TwoMore
  <2> QED BY <2>4, <2>5
<1>3. ASSUME ~Is16(id) PROVE AreBytes(Segment(type, id), 6)
  <2>1. type + 2 \in Byte /\ 0 \in Byte
    BY DEF Byte
  <2>2. PICK s : s = <<type + 2, 0>>
    OBVIOUS
  <2>3. AreBytes(s, 2)
    BY <2>1, <2>2, FewBytes DEF AreBytes
  <2>4. PICK t : t = Le32(id)
    OBVIOUS
  <2>5. AreBytes(t, 4)
    BY <2>4, Le32Type DEF AreBytes
  <2>6. Segment(type, id) = s \o t
    BY <1>3, <2>2, <2>4 DEF Segment, Is16
  <2>7. AreBytes(s \o t, 2 + 4)
    BY <2>3, <2>5, MoreBytes
  <2> QED BY <2>6, <2>7
<1> QED BY <1>1, <1>2, <1>3

\* p is k bytes of s, and the rest.
Begins(p, s, k, rest) ==
  /\ p \in Bytes /\ Len(p) \in Nat /\ Len(p) >= k /\ From(p, k + 1) = rest
  /\ \A i \in 1 .. k : p[i] = s[i]

\* What is behind a sequence of known length.
LEMMA Behind ==
  ASSUME NEW s, NEW k \in Nat, AreBytes(s, k), NEW rest \in Bytes, NEW p, p = s \o rest
  PROVE  Begins(p, s, k, rest)
<1>1. s \in Bytes /\ Len(s) = k
  BY DEF AreBytes
<1>2. p \in Bytes /\ Len(p) = Len(s) + Len(rest) /\ \A i \in 1 .. Len(s) : p[i] = s[i]
  BY <1>1, BytesConcat
<1>3. Len(rest) \in Nat
  BY BytesType
<1>4. Holds(p, 1, s \o rest)
  BY <1>2, HoldsAll
<1>5. Holds(p, 1 + Len(s), rest)
  BY <1>1, <1>2, <1>4, HoldsParts
<1>6. 1 + Len(s) + Len(rest) = Len(p) + 1
  BY <1>1, <1>2, <1>3
<1>7. From(p, 1 + Len(s)) = rest
  BY <1>2, <1>5, <1>6, HoldsEnd
<1>8. 1 + Len(s) = k + 1
  BY <1>1
<1> QED BY <1>1, <1>2, <1>3, <1>7, <1>8 DEF Begins

\* What a segment is parsed to: an id of up to 16 bits, and what is behind it.
THEOREM SegmentIsParsed ==
  ASSUME NEW type \in Nat, type <= 253, NEW id, Is16(id), NEW rest \in Bytes
  PROVE  ParseSegment(Segment(type, id) \o rest, type) = [ok |-> TRUE, id |-> id, rest |-> rest]
<1>0. id \in Nat
  BY DEF Is16
<1>1. PICK s : s = Segment(type, id)
  OBVIOUS
<1>2. PICK p : p = s \o rest
  OBVIOUS
<1>3. CASE id <= 255
  <2>1. AreBytes(s, 2)
    BY <1>0, <1>1, <1>3, SegmentType
  <2>2. s = <<type, id>>
    BY <1>1, <1>3 DEF Segment
  <2>3. Len(p) \in Nat /\ Len(p) >= 2 /\ From(p, 3) = rest /\ \A i \in 1 .. 2 : p[i] = s[i]
    <3>1. Begins(p, s, 2, rest)
      BY <1>2, <2>1, Behind
    <3>2. 2 + 1 = 3
      OBVIOUS
    <3> QED BY <3>1, <3>2 DEF Begins
  <2>4. p[1] = type /\ p[2] = id
    BY <2>2, <2>3
  <2>5. ParseSegment(p, type) = [ok |-> TRUE, id |-> id, rest |-> From(p, 3)]
    BY <2>3, <2>4 DEF ParseSegment
  <2> QED BY <1>1, <1>2, <2>3, <2>5
<1>4. CASE ~(id <= 255)
  <2>1. AreBytes(s, 4)
    BY <1>0, <1>1, <1>4, SegmentType
  <2>2. PICK head : head = <<type + 1, 0>>
    OBVIOUS
  <2>3. s = head \o Le16(id)
    BY <1>1, <1>4, <2>2 DEF Segment, Is16
  <2>4. Len(p) \in Nat /\ Len(p) >= 4 /\ From(p, 5) = rest /\ \A i \in 1 .. 4 : p[i] = s[i]
    <3>1. Begins(p, s, 4, rest)
      BY <1>2, <2>1, Behind
    <3>2. 4 + 1 = 5
      OBVIOUS
    <3> QED BY <3>1, <3>2 DEF Begins
  <2>5. AreBytes(head, 2)
    <3>1. type + 1 \in Byte /\ 0 \in Byte
      BY DEF Byte
    <3> QED BY <2>2, <3>1, FewBytes DEF AreBytes
  <2>6. p[1] = type + 1
    <3>1. Le16(id) \in Bytes
      BY <1>0, Le16Type
    <3>2. \A i \in 1 .. 2 : s[i] = head[i]
      BY <2>3, <2>5, <3>1, Behind DEF Begins
    <3>3. head[1] = type + 1
      BY <2>2
    <3> QED BY <2>4, <3>2, <3>3
  <2>7. U16(From(p, 3)) = id
    <3>1. p \in Bytes
      BY <1>2, <2>1, Behind DEF Begins
    <3>2. s \in Bytes
      BY <2>1 DEF AreBytes
    <3>3. Holds(p, 1, s)
      <4>1. Holds(p, 1, s \o rest)
        BY <1>2, <3>1, HoldsAll
      <4> QED BY <3>1, <3>2, <4>1, HoldsParts
    <3>4. Holds(p, 1, head \o Le16(id))
      BY <2>3, <3>3
    <3>5. HasNumber(p, 1 + 2, Low16(id))
      BY <1>0, <2>5, <3>1, <3>4, NumberHeld
    <3>6. Low16(id) = id
      BY <1>0, Fits16
    <3> QED BY <3>5, <3>6 DEF HasNumber
  <2>8. ParseSegment(p, type) = [ok |-> TRUE, id |-> U16(From(p, 3)), rest |-> From(p, 5)]
    BY <2>4, <2>6 DEF ParseSegment
  <2> QED BY <1>1, <1>2, <2>4, <2>7, <2>8
<1> QED BY <1>3, <1>4

\* A segment with a larger id is not taken for one with an id of 16 bits.
THEOREM WideSegmentIsRefused ==
  ASSUME NEW type \in Nat, type <= 253, NEW id \in Nat, ~Is16(id), NEW rest \in Bytes
  PROVE  ~ParseSegment(Segment(type, id) \o rest, type).ok
<1>1. PICK head : head = <<type + 2, 0>>
  OBVIOUS
<1>2. AreBytes(head, 2)
  <2>1. type + 2 \in Byte /\ 0 \in Byte
    BY DEF Byte
  <2> QED BY <1>1, <2>1, FewBytes DEF AreBytes
<1>3. PICK s : s = Segment(type, id)
  OBVIOUS
<1>4. s = head \o Le32(id)
  BY <1>1, <1>3 DEF Segment, Is16
<1>5. AreBytes(s, 6)
  BY <1>3, SegmentType
<1>6. Le32(id) \in Bytes
  BY Le32Type
<1>7. \A i \in 1 .. 2 : s[i] = head[i]
  BY <1>2, <1>4, <1>6, Behind DEF Begins
<1>8. PICK p : p = s \o rest
  OBVIOUS
<1>9. \A i \in 1 .. 6 : p[i] = s[i]
  BY <1>5, <1>8, Behind DEF Begins
<1>10. p[1] = type + 2
  BY <1>1, <1>7, <1>9
<1>11. ParseSegment(p, type) = [ok |-> FALSE, id |-> 0, rest |-> <<>>]
  BY <1>10 DEF ParseSegment
<1> QED BY <1>3, <1>8, <1>11

\* A path of at most so many words, not empty.
HasWords(p, max) == p \in Bytes /\ \E k \in 1 .. max : Len(p) = 2 * k

\* What is put together from two.
LEMMA MoreWords ==
  ASSUME NEW s, NEW t, NEW m \in Nat, NEW n \in Nat, HasWords(s, m), HasWords(t, n)
  PROVE  HasWords(s \o t, m + n)
<1>1. PICK j \in 1 .. m : Len(s) = 2 * j
  BY DEF HasWords
<1>2. PICK k \in 1 .. n : Len(t) = 2 * k
  BY DEF HasWords
<1>3. s \in Bytes /\ t \in Bytes
  BY DEF HasWords
<1>4. s \o t \in Bytes /\ Len(s \o t) = Len(s) + Len(t)
  BY <1>3, BytesConcat, Zenon
<1>5. Len(s \o t) = 2 * (j + k) /\ j + k \in 1 .. m + n
  BY <1>1, <1>2, <1>4
<1> QED BY <1>4, <1>5 DEF HasWords

\* A logical segment has one to three words.
LEMMA SegmentWords ==
  ASSUME NEW type \in Nat, type <= 253, NEW id \in Nat
  PROVE  HasWords(Segment(type, id), 3)
<1>1. \/ AreBytes(Segment(type, id), 2) \/ AreBytes(Segment(type, id), 4)
      \/ AreBytes(Segment(type, id), 6)
  BY SegmentType, Zenon
<1>2. 2 = 2 * 1 /\ 4 = 2 * 2 /\ 6 = 2 * 3 /\ 1 \in 1 .. 3 /\ 2 \in 1 .. 3 /\ 3 \in 1 .. 3
  OBVIOUS
<1> QED BY <1>1, <1>2 DEF AreBytes, HasWords

\* Nothing before it.
LEMMA NothingBefore ==
  ASSUME NEW s \in Bytes
  PROVE  <<>> \o s = s /\ s \o <<>> = s
<1>1. <<>> \in Bytes /\ Len(<<>>) = 0
  BY DEF Bytes
<1>2. /\ <<>> \o s \in Bytes /\ Len(<<>> \o s) = Len(<<>>) + Len(s)
      /\ \A i \in 1 .. Len(s) : (<<>> \o s)[Len(<<>>) + i] = s[i]
  BY <1>1, BytesConcat, Zenon
<1>3. /\ s \o <<>> \in Bytes /\ Len(s \o <<>>) = Len(s) + Len(<<>>)
      /\ \A i \in 1 .. Len(s) : (s \o <<>>)[i] = s[i]
  BY <1>1, BytesConcat, Zenon
<1>4. Len(s) \in Nat
  BY BytesType
<1>5. <<>> \o s = s
  <2>1. Len(<<>> \o s) = Len(s)
    BY <1>1, <1>2, <1>4
  <2>2. ASSUME NEW i \in 1 .. Len(<<>> \o s) PROVE (<<>> \o s)[i] = s[i]
    <3>1. 0 + i = i
      OBVIOUS
    <3> QED BY <1>1, <1>2, <2>1, <3>1
  <2> QED BY <1>2, <2>1, <2>2, BytesEqual
<1>6. s \o <<>> = s
  <2>1. Len(s \o <<>>) = Len(s)
    BY <1>1, <1>3, <1>4
  <2> QED BY <1>3, <2>1, BytesEqual
<1> QED BY <1>5, <1>6

\* The path of what a call names by numbers.
LEMMA BuildPathWords ==
  ASSUME NEW class \in Nat, NEW instance \in Nat, NEW attribute \in Nat
  PROVE  HasWords(BuildPath(class, instance, attribute), 9)
<1>1. /\ HasWords(Segment(32, class), 3) /\ HasWords(Segment(36, instance), 3)
      /\ HasWords(Segment(48, attribute), 3)
  BY SegmentWords
<1>2. PICK p : p = AddInstance(AddClass(<<>>, class), instance)
  OBVIOUS
<1>3. p = Segment(32, class) \o Segment(36, instance)
  BY <1>1, <1>2, NothingBefore DEF AddInstance, AddClass, HasWords
<1>4. HasWords(p, 6) /\ HasWords(p \o Segment(48, attribute), 9)
  <2>1. HasWords(p, 3 + 3)
    BY <1>1, <1>3, MoreWords
  <2>2. HasWords(p, 6)
    BY <2>1
  <2>3. HasWords(p \o Segment(48, attribute), 6 + 3)
    BY <1>1, <2>2, MoreWords
  <2> QED BY <2>2, <2>3
<1>5. HasWords(p, 9)
  <2>1. \A k \in 1 .. 6 : k \in 1 .. 9
    OBVIOUS
  <2> QED BY <1>4, <2>1 DEF HasWords
<1> QED BY <1>2, <1>4, <1>5 DEF BuildPath, AddAttribute

\* A name in a path: the path has full words, and the name can be read from it.
THEOREM NameIsRead ==
  ASSUME NEW name \in Bytes, Len(name) >= 1, Len(name) <= 255
  PROVE  /\ HasWords(AddSymbolicSegment(<<>>, name), 129)
         /\ LET p == AddSymbolicSegment(<<>>, name) IN SubSeq(p, 3, 2 + p[2]) = name
<1>1. PICK n \in Nat : n = Len(name) /\ 1 <= n /\ n <= 255
  BY BytesType
<1>2. PICK h : h = <<145, n % 256>>
  OBVIOUS
<1>3. h \in Bytes /\ Len(h) = 2 /\ h[2] = n
  <2>1. n % 256 = n /\ n \in Byte
    <3>1. n \in Nat /\ 1 <= n /\ n <= 255
      BY <1>1
    <3>2. n % 256 = n
      BY <3>1
    <3> QED BY <3>1, <3>2 DEF Byte
  <2>2. 145 \in Byte
    BY DEF Byte
  <2>3. h = <<145, n>>
    BY <1>2, <2>1, Zenon
  <2>4. <<145, n>> \in Bytes /\ Len(<<145, n>>) = 2 /\ <<145, n>>[2] = n
    BY <2>1, <2>2, FewBytes
  <2> QED BY <2>3, <2>4, Zenon
<1>4. PICK pad : pad = IF n % 2 = 0 THEN <<>> ELSE <<0>>
  OBVIOUS
<1>5. PICK m \in 0 .. 1 : pad \in Bytes /\ Len(pad) = m /\ (n + m) % 2 = 0
  <2>1. <<>> \in Bytes /\ Len(<<>>) = 0 /\ <<0>> \in Bytes /\ Len(<<0>>) = 1
    <3>1. 0 \in Byte
      BY DEF Byte
    <3> QED BY <3>1, FewBytes
  <2>2. CASE n % 2 = 0
    <3>1. 0 \in 0 .. 1 /\ (n + 0) % 2 = 0
      BY <2>2
    <3> QED BY <1>4, <2>1, <2>2, <3>1
  <2>3. CASE n % 2 # 0
    <3>1. 1 \in 0 .. 1 /\ (n + 1) % 2 = 0
      BY <2>3
    <3> QED BY <1>4, <2>1, <2>3, <3>1
  <2> QED BY <2>2, <2>3
<1>6. PICK b : b = (h \o name) \o pad
  OBVIOUS
<1>7. AddSymbolicSegment(<<>>, name) = b
  <2>1. <<>> \o h = h
    BY <1>3, NothingBefore
  <2>2. AddSymbolicSegment(<<>>, name)
          = <<>> \o <<145, n % 256>> \o name \o (IF n % 2 = 0 THEN <<>> ELSE <<0>>)
    BY <1>1 DEF AddSymbolicSegment
  <2> QED BY <1>2, <1>4, <1>6, <2>1, <2>2, Zenon
<1>8. /\ h \o name \in Bytes /\ Len(h \o name) = Len(h) + Len(name)
  BY <1>3, BytesConcat, Zenon
<1>9. b \in Bytes /\ Len(b) = Len(h \o name) + Len(pad)
  BY <1>5, <1>6, <1>8, BytesConcat, Zenon
<1>10. Len(b) = 2 + n + m
  BY <1>1, <1>3, <1>5, <1>8, <1>9
<1>11. HasWords(b, 129)
  <2>1. PICK k \in Nat : n + m = 2 * k
    <3>1. n + m = 2 * ((n + m) \div 2) /\ (n + m) \div 2 \in Nat
      BY <1>5
    <3> QED BY <3>1
  <2>2. Len(b) = 2 * (k + 1) /\ k + 1 \in 1 .. 129
    BY <1>1, <1>10, <2>1
  <2> QED BY <1>9, <2>2 DEF HasWords
<1>12. Holds(b, 1, h) /\ Holds(b, 3, name)
  <2>1. Holds(b, 1, b)
    BY <1>9, HoldsAll
  <2>2. Holds(b, 1, h \o name)
    BY <1>5, <1>6, <1>8, <1>9, <2>1, HoldsParts
  <2>3. Holds(b, 1, h) /\ Holds(b, 1 + Len(h), name)
    BY <1>3, <1>9, <2>2, HoldsParts
  <2>4. 1 + Len(h) = 3
    BY <1>3
  <2> QED BY <2>3, <2>4
<1>13. b[2] = n
  <2>1. 2 \in 1 .. Len(h) /\ 1 + 2 - 1 = 2
    BY <1>3
  <2>2. b[1 + 2 - 1] = h[2]
    BY <1>12, <2>1 DEF Holds
  <2> QED BY <1>3, <2>1, <2>2
<1>14. SubSeq(b, 3, 3 + Len(name) - 1) = name
  BY <1>9, <1>12, HoldsCut
<1>15. 2 + b[2] = 3 + Len(name) - 1
  BY <1>1, <1>13
<1>16. SubSeq(b, 3, 2 + b[2]) = name
  BY <1>14, <1>15
<1> QED BY <1>7, <1>11, <1>16, Zenon

-----------------------------------------------------------------------------
(* Message router requests and responses.                                  *)

\* What a request is encoded to.
LEMMA EncodeRequestType ==
  ASSUME NEW service \in Byte, NEW path \in Bytes, NEW data \in Bytes
  PROVE  /\ EncodeRequest(Request(service, path, data)) \in Bytes
         /\ Len(EncodeRequest(Request(service, path, data))) = 2 + Len(path) + Len(data)
<1>1. PICK words : words = LenWords(path)
  OBVIOUS
<1>2. Len(path) \in Nat
  BY BytesType
<1>3. words \in Byte
  <2>1. PICK m \in Nat : m = (Len(path) + 1) \div 2
    BY <1>2
  <2>2. words = m % 256
    BY <1>1, <2>1 DEF LenWords
  <2> QED BY <2>2 DEF Byte
<1>4. PICK head : head = <<service, words>>
  OBVIOUS
<1>5. head \in Bytes /\ Len(head) = 2
  BY <1>3, <1>4, FewBytes
<1>6. head \o path \in Bytes /\ Len(head \o path) = 2 + Len(path)
  <2>1. head \o path \in Bytes /\ Len(head \o path) = Len(head) + Len(path)
    BY <1>5, BytesConcat, Zenon
  <2> QED BY <1>5, <2>1
<1>7. PICK front \in Bytes : front = head \o path
  BY <1>6
<1>8. front \o data \in Bytes /\ Len(front \o data) = Len(front) + Len(data)
  BY BytesConcat
<1>9. EncodeRequest(Request(service, path, data)) = front \o data
  BY <1>1, <1>4, <1>7, Zenon DEF EncodeRequest, Request
<1> QED BY <1>6, <1>7, <1>8, <1>9

\* The server reads the request that the client has encoded, if its path is padded
\* to words and no longer than a byte can tell.
THEOREM RequestIsRead ==
  ASSUME NEW service \in Byte, NEW path \in Bytes, NEW k \in 0 .. 255, Len(path) = 2 * k,
         NEW data \in Bytes, path # <<>> \/ data # <<>>
  PROVE  DecodeRequest(EncodeRequest(Request(service, path, data)))
           = [ok |-> TRUE, request |-> Request(service, path, data)]
<1>1. PICK words : words = LenWords(path)
  OBVIOUS
<1>2. words = k
  BY <1>1 DEF LenWords
<1>3. PICK head : head = <<service, words>>
  OBVIOUS
<1>4. head \in Bytes /\ Len(head) = 2 /\ head[1] = service /\ head[2] = k
  <2>1. words \in Byte
    BY <1>2 DEF Byte
  <2> QED BY <1>2, <1>3, <2>1, FewBytes
<1>5. PICK front \in Bytes : front = head \o path /\ Len(front) = 2 + 2 * k
  <2>1. head \o path \in Bytes /\ Len(head \o path) = Len(head) + Len(path)
    BY <1>4, BytesConcat, Zenon
  <2> QED BY <1>4, <2>1
<1>6. PICK b : b = front \o data
  OBVIOUS
<1>7. EncodeRequest(Request(service, path, data)) = b
  BY <1>1, <1>3, <1>5, <1>6, Zenon DEF EncodeRequest, Request
<1>8. b \in Bytes /\ Len(b) = Len(front) + Len(data)
  BY <1>6, BytesConcat
<1>9. Holds(b, 1, front) /\ Holds(b, 1 + Len(front), data)
  <2>1. Holds(b, 1, front \o data)
    BY <1>6, <1>8, HoldsAll
  <2> QED BY <1>8, <2>1, HoldsParts
<1>10. Holds(b, 1, head) /\ Holds(b, 1 + Len(head), path)
  <2>1. Holds(b, 1, head \o path)
    BY <1>5, <1>9
  <2> QED BY <1>4, <1>8, <2>1, HoldsParts
<1>11. b[1] = service /\ b[2] = k
  <2>1. b[1 + 1 - 1] = head[1] /\ b[1 + 2 - 1] = head[2]
    BY <1>4, <1>10 DEF Holds
  <2> QED BY <1>4, <2>1
<1>12. Len(data) \in Nat /\ Len(b) = 2 + 2 * k + Len(data)
  BY <1>5, <1>8, BytesType
<1>13. Len(b) >= 3
  <2>1. Len(path) > 0 \/ Len(data) > 0
    BY EmptySeq DEF Bytes
  <2> QED BY <1>12, <2>1
<1>14. PICK n \in Nat : n = 2 * k
  OBVIOUS
<1>15. [i \in 1 .. n |-> IF i + 2 <= Len(b) THEN b[i + 2] ELSE 0] = path
  <2>1. PICK f : f = [i \in 1 .. n |-> IF i + 2 <= Len(b) THEN b[i + 2] ELSE 0]
    BY Zenon
  <2>2. ASSUME NEW i \in 1 .. n PROVE f[i] = path[i]
    <3>1. b[1 + Len(head) + i - 1] = path[i]
      BY <1>10, <1>14 DEF Holds
    <3>2. 1 + Len(head) + i - 1 = i + 2 /\ i + 2 <= Len(b)
      BY <1>4, <1>12, <1>14
    <3>3. f[i] = b[i + 2]
      BY <2>1, <3>2
    <3> QED BY <3>1, <3>2, <3>3
  <2>3. \A i \in 1 .. n : path[i] \in Byte
    BY <1>14, BytesType
  <2>4. f \in [1 .. n -> Byte]
    BY <2>1, <2>2, <2>3
  <2>5. f \in Bytes /\ Len(f) = n
    BY <2>4, FunctionBytes
  <2>6. f = path
    BY <1>14, <2>2, <2>5, BytesEqual
  <2> QED BY <2>1, <2>6
<1>16. From(b, n + 3) = data
  <2>1. PICK p : p = n + 3
    OBVIOUS
  <2>2. Holds(b, p, data) /\ p + Len(data) = Len(b) + 1
    BY <1>5, <1>9, <1>12, <1>14, <2>1
  <2> QED BY <1>8, <2>1, <2>2, HoldsEnd
<1>17. DecodeRequest(b)
         = [ok |-> TRUE,
            request |-> Request(b[1], [i \in 1 .. n |-> IF i + 2 <= Len(b) THEN b[i + 2] ELSE 0],
                                From(b, n + 3))]
  <2>1. ~(Len(b) < 3)
    BY <1>8, <1>13, BytesType
  <2>2. 2 * b[2] = n
    BY <1>11, <1>14
  <2> QED BY <2>1, <2>2, Zenon DEF DecodeRequest
<1> QED BY <1>7, <1>11, <1>15, <1>16, <1>17

\* What the server reads of any bytes.
LEMMA DecodeRequestType ==
  ASSUME NEW b \in Bytes, DecodeRequest(b).ok
  PROVE  /\ DecodeRequest(b).request.service \in Byte
         /\ DecodeRequest(b).request.path \in Bytes
         /\ DecodeRequest(b).request.data \in Bytes
<1>1. Len(b) \in Nat
  BY BytesType
<1>2. ~(Len(b) < 3)
  BY DEF DecodeRequest
<1>3. b[1] \in Byte /\ b[2] \in Byte
  BY <1>1, <1>2, BytesType
<1>4. PICK n \in Nat : n = 2 * b[2]
  BY <1>3 DEF Byte
<1>5. PICK f : f = [i \in 1 .. n |-> IF i + 2 <= Len(b) THEN b[i + 2] ELSE 0]
  BY Zenon
<1>6. f \in [1 .. n -> Byte]
  <2>1. ASSUME NEW i \in 1 .. n PROVE f[i] \in Byte
    <3>1. i + 2 <= Len(b) => b[i + 2] \in Byte
      BY <1>1, BytesType
    <3>2. 0 \in Byte
      BY DEF Byte
    <3> QED BY <1>5, <3>1, <3>2
  <2> QED BY <1>5, <2>1
<1>7. From(b, n + 3) \in Bytes
  <2>1. PICK p \in Nat : p = n + 3 /\ 1 <= p
    OBVIOUS
  <2> QED BY <2>1, FromType
<1>8. DecodeRequest(b) = [ok |-> TRUE, request |-> Request(b[1], f, From(b, n + 3))]
  BY <1>2, <1>4, <1>5, Zenon DEF DecodeRequest
<1>9. f \in Bytes
  BY <1>6, FunctionBytes
<1> QED BY <1>3, <1>7, <1>8, <1>9 DEF Request

\* An extended status has two bytes a word.
LEMMA ExtType ==
  ASSUME NEW ext, NEW n \in Nat, Len(ext) = n, DOMAIN ext = 1 .. n, \A i \in 1 .. n : ext[i] \in Nat
  PROVE  AreBytes(FlattenSeq([i \in DOMAIN ext |-> Le16(ext[i])]), 2 * n)
<1>1. PICK seqs : seqs = [i \in DOMAIN ext |-> Le16(ext[i])]
  BY Zenon
<1>2. ASSUME NEW i \in 1 .. n PROVE AreBytes(seqs[i], 2)
  <2>1. seqs[i] = Le16(ext[i]) /\ ext[i] \in Int
    BY <1>1
  <2> QED BY <2>1, Le16Type DEF AreBytes
<1>3. Len(seqs) = n
  BY <1>1
<1>4. CASE n = 0
  <2>1. FlattenSeq(seqs) = seqs
    BY <1>3, <1>4 DEF FlattenSeq
  <2>2. seqs \in [1 .. 0 -> Byte]
    BY <1>1, <1>4
  <2>3. seqs \in Bytes /\ Len(seqs) = 0
    BY <2>2, FunctionBytes
  <2>4. 2 * n = 0
    BY <1>4
  <2> QED BY <1>1, <2>1, <2>3, <2>4 DEF AreBytes
<1>5. CASE n >= 1
  <2>1. \A i \in 1 .. n : seqs[i] \in Bytes
    BY <1>2 DEF AreBytes
  <2>2. \A s, t \in Bytes : s \o t \in Bytes
    BY BytesConcat
  <2>3. IsFlat(FlattenSeq(seqs), seqs, n, Bytes)
    <3> HIDE <1>2
    <3> QED BY <1>3, <1>5, <2>1, <2>2, FlattenParts
  <2>4. PICK parts \in [1 .. n -> Bytes] : Parts(parts, seqs, n) /\ FlattenSeq(seqs) = parts[n]
    BY <2>3, Zenon DEF IsFlat
  <2> DEFINE T == {i \in 1 .. n : Len(parts[i]) = 2 * i}
  <2>5. n >= 1 => 1 \in T
    <3>1. parts[1] = seqs[1] /\ 1 \in 1 .. n
      BY <1>5, <2>4 DEF Parts
    <3>2. Len(seqs[1]) = 2
      BY <1>2, <3>1 DEF AreBytes
    <3> QED BY <3>1, <3>2
  <2>6. \A i \in 2 .. n : i - 1 \in T => i \in T
    <3> SUFFICES ASSUME NEW i \in 2 .. n, i - 1 \in T PROVE i \in T
      OBVIOUS
    <3>1. PICK j : j = i - 1
      OBVIOUS
    <3>2. j \in 1 .. n /\ Len(parts[j]) = 2 * j /\ parts[j] \in Bytes /\ i \in 1 .. n
      BY <3>1
    <3>3. parts[i] = parts[j] \o seqs[i]
      BY <2>4, <3>1 DEF Parts
    <3>4. seqs[i] \in Bytes /\ Len(seqs[i]) = 2
      BY <1>2, <3>2 DEF AreBytes
    <3>5. Len(parts[i]) = Len(parts[j]) + Len(seqs[i])
      <4>1. Len(parts[j] \o seqs[i]) = Len(parts[j]) + Len(seqs[i])
        BY <3>2, <3>4, BytesConcat, Zenon
      <4> QED BY <3>3, <4>1, Zenon
    <3>6. Len(parts[i]) = 2 * i
      BY <3>1, <3>2, <3>4, <3>5
    <3> QED BY <3>2, <3>6
  <2>7. \A i \in 1 .. n : i \in T
    <3> HIDE DEF T
    <3> QED BY <2>5, <2>6, UpTo
  <2>8. n \in 1 .. n
    BY <1>5
  <2>9. Len(parts[n]) = 2 * n /\ parts[n] \in Bytes
    BY <2>7, <2>8
  <2> QED BY <1>1, <2>4, <2>9 DEF AreBytes
<1> QED BY <1>4, <1>5

\* The client reads the status and the data of the response that was encoded, with
\* any extended status before the data.
THEOREM ResponseIsRead ==
  ASSUME NEW service \in Byte, NEW status \in Byte, NEW ext, NEW n \in 0 .. 255,
         Len(ext) = n, DOMAIN ext = 1 .. n, \A i \in 1 .. n : ext[i] \in Nat, NEW data \in Bytes,
         NEW size, size = 4 + 2 * n + Len(data)
  PROVE  /\ AreBytes(EncodeResponse(service, status, ext, data), size)
         /\ DecodeResponse(EncodeResponse(service, status, ext, data))
              = [ok |-> TRUE, status |-> status, data |-> data]
<1>1. PICK more : more = FlattenSeq([i \in DOMAIN ext |-> Le16(ext[i])])
  BY Zenon
<1>2. PICK m \in Nat : m = 2 * n
  OBVIOUS
<1>3. AreBytes(more, m)
  BY <1>1, <1>2, ExtType
<1>4. PICK reply : reply = IF service < 128 THEN service + 128 ELSE service
  OBVIOUS
<1>5. PICK head : head = <<reply, 0, status, n>>
  OBVIOUS
<1>6. AreBytes(head, 4) /\ head[3] = status /\ head[4] = n
  <2>1. reply \in Byte /\ 0 \in Byte /\ n \in Byte
    BY <1>4 DEF Byte
  <2>2. <<reply, 0>> \in Bytes /\ Len(<<reply, 0>>) = 2 /\ <<status, n>> \in Bytes /\ Len(<<status, n>>) = 2
    BY <2>1, FewBytes
  <2>3. head = <<reply, 0>> \o <<status, n>>
    BY <1>5
  <2>4. head \in Bytes /\ Len(head) = 4
    BY <2>2, <2>3, FourBytes
  <2> QED BY <1>5, <2>4 DEF AreBytes
<1>7. PICK front : front = head \o more
  OBVIOUS
<1>8. AreBytes(front, 4 + m)
  BY <1>3, <1>6, <1>7, MoreBytes
<1>9. PICK b : b = front \o data
  OBVIOUS
<1>10. EncodeResponse(service, status, ext, data) = b
  BY <1>1, <1>4, <1>5, <1>7, <1>9, Zenon DEF EncodeResponse
<1>11. Begins(b, front, 4 + m, data)
  <2>1. PICK q \in Nat : q = 4 + m
    OBVIOUS
  <2>2. AreBytes(front, q)
    BY <1>8, <2>1
  <2>3. Begins(b, front, q, data)
    BY <1>9, <2>2, Behind
  <2> QED BY <2>1, <2>3
<1>12. Begins(front, head, 4, more)
  BY <1>3, <1>6, <1>7, Behind DEF AreBytes
<1>13. b[3] = status /\ b[4] = n
  <2>1. front[3] = status /\ front[4] = n
    BY <1>6, <1>12 DEF Begins
  <2> QED BY <1>11, <2>1 DEF Begins
<1>14. b \in Bytes /\ Len(b) \in Nat /\ Len(b) >= 4 + m
  BY <1>11 DEF Begins
<1>15. From(b, 5 + 2 * b[4]) = data
  <2>1. 5 + 2 * b[4] = 4 + m + 1
    BY <1>2, <1>13
  <2> QED BY <1>11, <2>1 DEF Begins
<1>16. ~(Len(b) < 4) /\ ~(Len(b) < 4 + 2 * b[4])
  BY <1>2, <1>13, <1>14
<1>17. DecodeResponse(b) = [ok |-> TRUE, status |-> b[3], data |-> From(b, 5 + 2 * b[4])]
  BY <1>16, Zenon DEF DecodeResponse
<1>18. Len(b) = 4 + m + Len(data)
  BY <1>8, <1>9, BytesConcat DEF AreBytes
<1>19. AreBytes(b, size)
  BY <1>2, <1>14, <1>18 DEF AreBytes
<1> QED BY <1>10, <1>13, <1>15, <1>17, <1>19

-----------------------------------------------------------------------------
(* Values.                                                                 *)

\* A number of 32 bits.
LEMMA WideNumber ==
  ASSUME NEW b \in Bytes, Len(b) >= 4
  PROVE  U32(b) \in Nat
<1>1. U16(b) \in Nat
  BY NumberFirst
<1>2. U16(From(b, 3)) \in Nat
  BY NumberAt
<1> QED BY <1>1, <1>2 DEF U32

\* A byte.
LEMMA ByteType ==
  ASSUME NEW x \in Byte
  PROVE  x \in Nat /\ x <= 255
BY DEF Byte

\* The sign of sixteen bits.
LEMMA Signed16 ==
  ASSUME NEW b \in Bytes, Len(b) >= 2
  PROVE  I16(b) \in Int /\ -32768 <= I16(b) /\ I16(b) <= 32767
<1>1. PICK x \in Nat, y \in Nat : x = b[1] /\ y = b[2] /\ x <= 255 /\ y <= 255
  <2>1. b[1] \in Byte /\ b[2] \in Byte
    BY BytesType
  <2>2. b[1] \in Nat /\ b[1] <= 255 /\ b[2] \in Nat /\ b[2] <= 255
    BY <2>1, ByteType
  <2> QED BY <2>2, Zenon
<1>2. U16(b) = x + 256 * y
  BY <1>1 DEF U16
<1>3. CASE y < 128
  <2>1. I16(b) = x + 256 * y
    BY <1>1, <1>2, <1>3 DEF I16
  <2> QED BY <1>1, <1>3, <2>1
<1>4. CASE ~(y < 128)
  <2>1. I16(b) = x + 256 * y - 65536
    BY <1>1, <1>2, <1>4 DEF I16
  <2>2. x + 256 * y - 65536 \in Int
    BY <1>1
  <2>3. -32768 <= x + 256 * y - 65536
    BY <1>1, <1>4
  <2>4. x + 256 * y - 65536 <= 32767
    BY <1>1, <1>4
  <2> QED BY <2>1, <2>2, <2>3, <2>4
<1> QED BY <1>3, <1>4

\* Sixteen bits with a sign are read as they were written.
LEMMA Held16 ==
  ASSUME NEW n \in Int, -32768 <= n, n <= 32767, NEW b, b[1] = n % 256, b[2] = (n \div 256) % 256
  PROVE  I16(b) = n
<1>1. CASE n >= 0
  <2>1. (n \div 256) % 256 < 128 /\ (n % 256) + 256 * ((n \div 256) % 256) = n
    BY <1>1
  <2> QED BY <2>1 DEF I16, U16
<1>2. CASE n < 0
  <2>1. ~((n \div 256) % 256 < 128) /\ (n % 256) + 256 * ((n \div 256) % 256) - 65536 = n
    BY <1>2
  <2> QED BY <2>1 DEF I16, U16
<1> QED BY <1>1, <1>2

\* An int16 or int32 that is written is read, whatever is behind it.
THEOREM NumbersAreRead ==
  ASSUME NEW n \in Int, NEW rest \in Bytes
  PROVE  /\ -32768 <= n /\ n <= 32767 =>
              Unmarshal("int16", Marshal("int16", <<n>>) \o rest) = [ok |-> TRUE, val |-> <<n>>]
         /\ -2147483648 <= n /\ n <= 2147483647 =>
              Unmarshal("int32", Marshal("int32", <<n>>) \o rest) = [ok |-> TRUE, val |-> <<n>>]
<1>1. ASSUME -32768 <= n, n <= 32767
      PROVE  Unmarshal("int16", Marshal("int16", <<n>>) \o rest) = [ok |-> TRUE, val |-> <<n>>]
  <2>1. PICK s : s = Le16(n)
    OBVIOUS
  <2>2. AreBytes(s, 2) /\ s[1] = n % 256 /\ s[2] = (n \div 256) % 256
    BY <2>1, Le16Type DEF AreBytes
  <2>3. PICK b : b = s \o rest
    OBVIOUS
  <2>4. Begins(b, s, 2, rest)
    BY <2>2, <2>3, Behind
  <2>5. I16(b) = n
    <3>1. b[1] = n % 256 /\ b[2] = (n \div 256) % 256
      BY <2>2, <2>4 DEF Begins
    <3> QED BY <1>1, <3>1, Held16
  <2>6. ~(Len(b) < 2)
    BY <2>4 DEF Begins
  <2>7. Marshal("int16", <<n>>) = s
    BY <2>1 DEF Marshal
  <2> QED BY <2>3, <2>5, <2>6, <2>7 DEF Unmarshal
<1>2. ASSUME -2147483648 <= n, n <= 2147483647
      PROVE  Unmarshal("int32", Marshal("int32", <<n>>) \o rest) = [ok |-> TRUE, val |-> <<n>>]
  <2>1. PICK l \in Nat, h \in Int : l = n % 65536 /\ h = n \div 65536
    OBVIOUS
  <2>2. Is16(l) /\ -32768 <= h /\ h <= 32767 /\ l + 65536 * h = n
    <3>1. l < 65536 /\ l + 65536 * h = n
      BY <2>1
    <3>2. -32768 <= h /\ h <= 32767
      BY <1>2, <2>1
    <3> QED BY <3>1, <3>2 DEF Is16
  <2>3. PICK s : s = Le32(n)
    OBVIOUS
  <2>4. s = Le16(l) \o Le16(h)
    BY <2>1, <2>3 DEF Le32
  <2>5. AreBytes(Le16(l), 2)
    BY Le16Type DEF AreBytes
  <2>6. AreBytes(s, 4)
    BY <2>3, Le32Type DEF AreBytes
  <2>7. PICK b : b = s \o rest
    OBVIOUS
  <2>8. Begins(b, s, 4, rest)
    BY <2>6, <2>7, Behind
  <2>9. b \in Bytes /\ Len(b) \in Nat /\ Len(b) >= 4
    BY <2>8 DEF Begins
  <2>10. Holds(b, 1, Le16(l)) /\ Holds(b, 3, Le16(h))
    <3>1. Holds(b, 1, s \o rest)
      BY <2>7, <2>9, HoldsAll
    <3>2. Holds(b, 1, s)
      BY <2>6, <2>9, <3>1, HoldsParts DEF AreBytes
    <3>3. Le16(h) \in Bytes /\ Le16(l) \in Bytes /\ Len(Le16(l)) = 2
      BY Le16Type
    <3>4. Holds(b, 1, Le16(l)) /\ Holds(b, 1 + Len(Le16(l)), Le16(h))
      BY <2>4, <2>9, <3>2, <3>3, HoldsParts
    <3>5. 1 + Len(Le16(l)) = 3
      BY <3>3
    <3> QED BY <3>4, <3>5
  <2>11. U16(b) = l
    <3>1. U16(From(b, 1)) = Low16(l)
      BY <2>9, <2>10, HoldsNumber
    <3>2. 1 + Len(b) = Len(b) + 1
      BY <2>9
    <3>3. From(b, 1) = b
      BY <2>9, <3>2, HoldsAll, HoldsEnd
    <3>4. Low16(l) = l
      BY <2>2, Fits16
    <3> QED BY <3>1, <3>3, <3>4
  <2>12. I16(From(b, 3)) = h
    <3>1. Len(Le16(h)) = 2 /\ Le16(h)[1] = h % 256 /\ Le16(h)[2] = (h \div 256) % 256
      BY Le16Type
    <3>2. b[3 + 1 - 1] = Le16(h)[1] /\ b[3 + 2 - 1] = Le16(h)[2]
      BY <2>10, <3>1 DEF Holds
    <3>3. From(b, 3)[1] = b[3 + 1 - 1] /\ From(b, 3)[2] = b[3 + 2 - 1]
      BY <2>9, FromPlace
    <3>4. From(b, 3)[1] = h % 256 /\ From(b, 3)[2] = (h \div 256) % 256
      BY <3>1, <3>2, <3>3
    <3> QED BY <2>2, <3>4, Held16
  <2>13. I32(b) = n
    BY <2>2, <2>11, <2>12 DEF I32
  <2>14. ~(Len(b) < 4)
    BY <2>9
  <2>15. Marshal("int32", <<n>>) = s
    BY <2>3 DEF Marshal
  <2> QED BY <2>7, <2>13, <2>14, <2>15 DEF Unmarshal
<1> QED BY <1>1, <1>2

-----------------------------------------------------------------------------
(* Answers of the Symbol object.                                           *)

\* The places of two attributes.
LEMMA AttributePlaces ==
  ASSUME NEW b, U16(b) = 2, NEW named
  PROVE  /\ AttributesAt(b, named)[1] = 3
         /\ AttributesAt(b, named)[2] = NextAttribute(b, named, 3)
         /\ AttributesAt(b, named)[3] = NextAttribute(b, named, NextAttribute(b, named, 3))
<1>1. PICK at : at = AttributesAt(b, named)
  OBVIOUS
<1> DEFINE F(f) == f = [i \in 1 .. U16(b) + 1 |-> IF i = 1 THEN 3 ELSE NextAttribute(b, named, f[i - 1])]
<1>2. \E f : F(f)
  <2>1. PICK second, third : second = NextAttribute(b, named, 3) /\ third = NextAttribute(b, named, second)
    OBVIOUS
  <2>2. PICK g : g = [i \in 1 .. 3 |-> IF i = 1 THEN 3 ELSE IF i = 2 THEN second ELSE third]
    BY Zenon
  <2>3. g[1] = 3 /\ g[2] = second /\ g[3] = third
    BY <2>2
  <2>4. ASSUME NEW i \in 1 .. 3 PROVE g[i] = IF i = 1 THEN 3 ELSE NextAttribute(b, named, g[i - 1])
    <3>1. i = 1 \/ (i = 2 /\ i - 1 = 1) \/ (i = 3 /\ i - 1 = 2)
      OBVIOUS
    <3> QED BY <2>1, <2>3, <3>1
  <2>5. g = [i \in 1 .. 3 |-> IF i = 1 THEN 3 ELSE NextAttribute(b, named, g[i - 1])]
    BY <2>2, <2>4
  <2>6. U16(b) + 1 = 3
    OBVIOUS
  <2> QED BY <2>5, <2>6
<1>3. at = CHOOSE f : F(f)
  BY <1>1, Zenon DEF AttributesAt
<1>4. F(at)
  <2> HIDE DEF F
  <2> QED BY <1>2, <1>3
<1>5. at = [i \in 1 .. 3 |-> IF i = 1 THEN 3 ELSE NextAttribute(b, named, at[i - 1])]
  BY <1>4
<1>6. at[1] = 3
  BY <1>5
<1>7. at[2] = NextAttribute(b, named, 3)
  <2>1. 2 \in 1 .. 3 /\ 2 # 1 /\ 2 - 1 = 1
    OBVIOUS
  <2>2. at[2] = NextAttribute(b, named, at[2 - 1])
    BY <1>5, <2>1
  <2> QED BY <1>6, <2>1, <2>2
<1>8. at[3] = NextAttribute(b, named, at[2])
  <2>1. 3 \in 1 .. 3 /\ 3 # 1 /\ 3 - 1 = 2
    OBVIOUS
  <2>2. at[3] = NextAttribute(b, named, at[3 - 1])
    BY <1>5, <2>1
  <2> QED BY <2>1, <2>2
<1> QED BY <1>1, <1>6, <1>7, <1>8

\* Attributes 1 and 2, with values of v and w bytes, fill b.
HasAttributes(b, named, v, w) ==
  /\ b \in Bytes /\ U16(b) = 2 /\ v \in Nat /\ w \in Nat /\ v > 0 /\ w > 0
  /\ HasNumber(b, 3, 1) /\ ValueSize(b, named, 3) = v
  /\ HasNumber(b, 7 + v, 2) /\ ValueSize(b, named, 7 + v) = w
  /\ Len(b) = 10 + v + w

AttributesRead(b, named, v, w) ==
  /\ DecodesAttributes(b, named)
  /\ AttributeValue(b, named, 1) = SubSeq(b, 7, 6 + v)
  /\ AttributeValue(b, named, 2) = SubSeq(b, 11 + v, 10 + v + w)

\* They are decoded.
LEMMA AttributesFound ==
  ASSUME NEW b, NEW named, NEW v, NEW w, HasAttributes(b, named, v, w)
  PROVE  AttributesRead(b, named, v, w)
<1>1. /\ b \in Bytes /\ U16(b) = 2 /\ v \in Nat /\ w \in Nat /\ v > 0 /\ w > 0
      /\ Len(b) = 10 + v + w
  BY DEF HasAttributes
<1>2. U16(From(b, 3)) = 1 /\ U16(From(b, 7 + v)) = 2
  BY DEF HasAttributes, HasNumber
<1>3. ValueSize(b, named, 3) = v /\ ValueSize(b, named, 7 + v) = w
  BY DEF HasAttributes
<1>4. PICK at : at = AttributesAt(b, named)
  OBVIOUS
<1>5. at[1] = 3 /\ at[2] = 7 + v /\ at[3] = 11 + v + w
  <2>1. NextAttribute(b, named, 3) = 7 + v
    BY <1>1, <1>3 DEF NextAttribute
  <2>2. NextAttribute(b, named, 7 + v) = 11 + v + w
    BY <1>1, <1>3 DEF NextAttribute
  <2> QED BY <1>1, <1>4, <2>1, <2>2, AttributePlaces
<1>6. DecodesAttributes(b, named)
  <2>1. Len(b) >= 2 /\ at[3] <= Len(b) + 1
    BY <1>1, <1>5
  <2>2. U16(b) + 1 = 3
    BY <1>1
  <2> QED BY <1>4, <2>1, <2>2 DEF DecodesAttributes
<1>7. ASSUME NEW attr, NEW k \in 1 .. 2, \A i \in 1 .. 2 : U16(From(b, at[i])) = attr <=> i = k
      PROVE  AttributeValue(b, named, attr)
               = SubSeq(b, at[k] + 4, at[k] + 3 + ValueSize(b, named, at[k]))
  <2>1. PICK given : given = {i \in 1 .. U16(b) : U16(From(b, at[i])) = attr
                                                   /\ ValueSize(b, named, at[i]) > 0}
    BY Zenon
  <2>2. ValueSize(b, named, at[k]) > 0
    <3>1. k = 1 \/ k = 2
      OBVIOUS
    <3> QED BY <1>1, <1>3, <1>5, <3>1
  <2>3. given = {k}
    BY <1>1, <1>7, <2>1, <2>2
  <2>4. (CHOOSE i \in given : \A j \in given : j <= i) = k
    BY <2>3
  <2>5. given # {}
    BY <2>3
  <2> QED BY <1>4, <2>1, <2>4, <2>5, Zenon DEF AttributeValue
<1>8. AttributeValue(b, named, 1) = SubSeq(b, 7, 6 + v)
  <2>1. 1 \in 1 .. 2 /\ \A i \in 1 .. 2 : U16(From(b, at[i])) = 1 <=> i = 1
    <3>1. \A i \in 1 .. 2 : i = 1 \/ i = 2
      OBVIOUS
    <3> QED BY <1>2, <1>5, <3>1
  <2>2. AttributeValue(b, named, 1)
          = SubSeq(b, at[1] + 4, at[1] + 3 + ValueSize(b, named, at[1]))
    BY <1>7, <2>1
  <2>3. at[1] + 4 = 7 /\ at[1] + 3 + ValueSize(b, named, at[1]) = 6 + v
    BY <1>1, <1>3, <1>5
  <2> QED BY <2>2, <2>3
<1>9. AttributeValue(b, named, 2) = SubSeq(b, 11 + v, 10 + v + w)
  <2>1. 2 \in 1 .. 2 /\ \A i \in 1 .. 2 : U16(From(b, at[i])) = 2 <=> i = 2
    <3>1. \A i \in 1 .. 2 : i = 1 \/ i = 2
      OBVIOUS
    <3> QED BY <1>2, <1>5, <3>1
  <2>2. AttributeValue(b, named, 2)
          = SubSeq(b, at[2] + 4, at[2] + 3 + ValueSize(b, named, at[2]))
    BY <1>7, <2>1
  <2>3. at[2] + 4 = 11 + v /\ at[2] + 3 + ValueSize(b, named, at[2]) = 10 + v + w
    BY <1>1, <1>3, <1>5
  <2> QED BY <2>2, <2>3
<1> QED BY <1>6, <1>8, <1>9 DEF AttributesRead

\* The size of a value of two bytes.
LEMMA TwoByteValue ==
  ASSUME NEW b \in Bytes, NEW named, NEW p \in Nat, NEW attr \in {1, 2}, attr = 2 \/ ~named,
         HasNumber(b, p, attr), HasNumber(b, p + 2, 0)
  PROVE  ValueSize(b, named, p) = 2
<1>1. U16(From(b, p)) = attr /\ U16(From(b, p + 2)) = 0 /\ p + 3 <= Len(b)
  <2>1. p + 2 + 1 <= Len(b)
    BY DEF HasNumber
  <2>2. p + 2 + 1 = p + 3
    OBVIOUS
  <2> QED BY <2>1, <2>2 DEF HasNumber
<1>2. ValueSize(b, named, p) = ValueLength(named, attr, From(b, p + 4))
  BY <1>1 DEF ValueSize
<1>3. ValueLength(named, attr, From(b, p + 4)) = 2
  BY DEF ValueLength
<1> QED BY <1>2, <1>3

\* And of a name, with its length before it.
LEMMA NameValue ==
  ASSUME NEW b \in Bytes, NEW p \in Nat, NEW n \in Nat,
         HasNumber(b, p, 1), HasNumber(b, p + 2, 0), HasNumber(b, p + 4, n)
  PROVE  ValueSize(b, TRUE, p) = 2 + n
<1>1. U16(From(b, p)) = 1 /\ U16(From(b, p + 2)) = 0 /\ U16(From(b, p + 4)) = n
  BY DEF HasNumber
<1>2. 1 <= p + 4 /\ p + 4 + 1 <= Len(b) /\ Len(b) \in Nat
  BY BytesType DEF HasNumber
<1>3. p + 3 <= Len(b)
  BY <1>2
<1>4. Len(From(b, p + 4)) = Len(b) + 1 - (p + 4)
  <2>1. PICK q \in Nat : q = p + 4
    OBVIOUS
  <2>2. 1 <= q /\ q <= Len(b) + 1
    BY <1>2, <2>1
  <2>3. Len(From(b, q)) = Len(b) + 1 - q
    BY <2>2, FromType
  <2> QED BY <2>1, <2>3
<1>5. ~(Len(From(b, p + 4)) < 2)
  BY <1>2, <1>4
<1>6. ValueSize(b, TRUE, p) = ValueLength(TRUE, 1, From(b, p + 4))
  BY <1>1, <1>3 DEF ValueSize
<1>7. ValueLength(TRUE, 1, From(b, p + 4)) = 2 + n
  BY <1>1, <1>5 DEF ValueLength
<1> QED BY <1>6, <1>7

\* A number that is cut out.
LEMMA NumberCut ==
  ASSUME NEW b \in Bytes, NEW p, NEW n, HasNumber(b, p, n)
  PROVE  U16(SubSeq(b, p, p + 1)) = n
<1>1. p \in Nat /\ 1 <= p /\ p + 1 <= Len(b) /\ U16(From(b, p)) = n /\ Len(b) \in Nat
  BY BytesType DEF HasNumber
<1>2. PICK q \in Nat : q = p + 1 /\ q + 1 - p = 2 /\ p <= q + 1
  BY <1>1
<1>3. \A i \in 1 .. 2 : SubSeq(b, p, q)[i] = b[p + i - 1]
  BY <1>1, <1>2, BytesSub
<1>4. From(b, p)[1] = b[p + 1 - 1] /\ From(b, p)[2] = b[p + 2 - 1]
  BY <1>1, FromPlace
<1>5. SubSeq(b, p, q)[1] = From(b, p)[1] /\ SubSeq(b, p, q)[2] = From(b, p)[2]
  <2>1. SubSeq(b, p, q)[1] = b[p + 1 - 1] /\ SubSeq(b, p, q)[2] = b[p + 2 - 1]
    <3>1. 1 \in 1 .. 2 /\ 2 \in 1 .. 2
      OBVIOUS
    <3> QED BY <1>3, <3>1
  <2> QED BY <1>4, <2>1, Zenon
<1> QED BY <1>1, <1>2, <1>5 DEF U16

\* The numbers that are in the answers.
LEMMA SmallNumbers == Low16(0) = 0 /\ Low16(1) = 1 /\ Low16(2) = 2
BY DEF Low16

\* The number at the head.
LEMMA NumberAtHead ==
  ASSUME NEW b \in Bytes, NEW n \in Nat, Holds(b, 1, Le16(n))
  PROVE  U16(b) = Low16(n)
<1>1. U16(From(b, 1)) = Low16(n)
  BY HoldsNumber
<1>2. 1 + Len(b) = Len(b) + 1
  BY BytesType
<1>3. From(b, 1) = b
  BY <1>2, HoldsAll, HoldsEnd
<1> QED BY <1>1, <1>3

\* What the Symbol object answers about itself, and about a symbol.
ClassAttributes(max) ==
  Le16(2) \o Le16(1) \o Le16(0) \o Le16(1) \o Le16(2) \o Le16(0) \o Le16(max)
SymbolAttributes(symbol) ==
  Le16(2) \o Le16(1) \o Le16(0) \o Le16(Len(symbol.name)) \o symbol.name
    \o Le16(2) \o Le16(0) \o Le16(symbol.type)

\* The largest instance is decoded.
THEOREM ClassIsDecoded ==
  ASSUME NEW max, Is16(max)
  PROVE  /\ AreBytes(ClassAttributes(max), 14)
         /\ DecodeSymbolClassAttributesResponse(ClassAttributes(max)) = [ok |-> TRUE, max |-> max]
<1>0. max \in Nat /\ Low16(max) = max
  BY Fits16 DEF Is16
<1>1. PICK s1 : s1 = Le16(2)
  OBVIOUS
<1>2. PICK s2 : s2 = s1 \o Le16(1)
  OBVIOUS
<1>3. PICK s3 : s3 = s2 \o Le16(0)
  OBVIOUS
<1>4. PICK s4 : s4 = s3 \o Le16(1)
  OBVIOUS
<1>5. PICK s5 : s5 = s4 \o Le16(2)
  OBVIOUS
<1>6. PICK s6 : s6 = s5 \o Le16(0)
  OBVIOUS
<1>7. PICK b : b = s6 \o Le16(max)
  OBVIOUS
<1>8. ClassAttributes(max) = b
  BY <1>1, <1>2, <1>3, <1>4, <1>5, <1>6, <1>7, Zenon DEF ClassAttributes
<1>9. /\ AreBytes(s1, 2) /\ AreBytes(s2, 4) /\ AreBytes(s3, 6) /\ AreBytes(s4, 8)
      /\ AreBytes(s5, 10) /\ AreBytes(s6, 12) /\ AreBytes(b, 14)
  <2>1. AreBytes(s1, 2)
    BY <1>1, Le16Type DEF AreBytes
  <2>2. AreBytes(s2, 2 + 2)
    BY <1>2, <2>1, TwoMore
  <2>3. AreBytes(s3, 4 + 2)
    BY <1>3, <2>2, TwoMore
  <2>4. AreBytes(s4, 6 + 2)
    BY <1>4, <2>3, TwoMore
  <2>5. AreBytes(s5, 8 + 2)
    BY <1>5, <2>4, TwoMore
  <2>6. AreBytes(s6, 10 + 2)
    BY <1>6, <2>5, TwoMore
  <2>7. AreBytes(b, 12 + 2)
    BY <1>0, <1>7, <2>6, TwoMore
  <2> QED BY <2>1, <2>2, <2>3, <2>4, <2>5, <2>6, <2>7
<1>10. b \in Bytes /\ Len(b) = 14
  BY <1>9 DEF AreBytes
<1>11. Holds(b, 1, s6) /\ HasNumber(b, 1 + 12, Low16(max))
  <2>1. Holds(b, 1, s6 \o Le16(max))
    BY <1>7, <1>10, HoldsAll
  <2> QED BY <1>0, <1>9, <1>10, <2>1, NumberHeld
<1>12. Holds(b, 1, s5) /\ HasNumber(b, 1 + 10, Low16(0))
  BY <1>6, <1>9, <1>10, <1>11, NumberHeld
<1>13. Holds(b, 1, s4) /\ HasNumber(b, 1 + 8, Low16(2))
  BY <1>5, <1>9, <1>10, <1>12, NumberHeld
<1>14. Holds(b, 1, s3)
  BY <1>4, <1>9, <1>10, <1>13, NumberHeld
<1>15. Holds(b, 1, s2) /\ HasNumber(b, 1 + 4, Low16(0))
  BY <1>3, <1>9, <1>10, <1>14, NumberHeld
<1>16. Holds(b, 1, s1) /\ HasNumber(b, 1 + 2, Low16(1))
  BY <1>2, <1>9, <1>10, <1>15, NumberHeld
<1>17. U16(b) = 2
  BY <1>1, <1>10, <1>16, NumberAtHead, SmallNumbers
<1>18. /\ HasNumber(b, 3, 1) /\ HasNumber(b, 3 + 2, 0)
       /\ HasNumber(b, 9, 2) /\ HasNumber(b, 9 + 2, 0) /\ HasNumber(b, 13, max)
  BY <1>0, <1>11, <1>12, <1>13, <1>15, <1>16, SmallNumbers
<1>19. ValueSize(b, FALSE, 3) = 2
  BY <1>10, <1>18, TwoByteValue
<1>20. ValueSize(b, FALSE, 9) = 2
  BY <1>10, <1>18, TwoByteValue
<1>21. HasAttributes(b, FALSE, 2, 2)
  <2>1. 7 + 2 = 9 /\ Len(b) = 10 + 2 + 2 /\ 2 \in Nat /\ 2 > 0
    BY <1>10
  <2>2. HasNumber(b, 7 + 2, 2) /\ ValueSize(b, FALSE, 7 + 2) = 2
    BY <1>18, <1>20, <2>1
  <2>3. HasNumber(b, 3, 1)
    BY <1>18
  <2> QED BY <1>10, <1>17, <1>19, <2>1, <2>2, <2>3, Zenon DEF HasAttributes
<1>22. DecodesAttributes(b, FALSE) /\ AttributeValue(b, FALSE, 2) = SubSeq(b, 11 + 2, 10 + 2 + 2)
  <2>1. AttributesRead(b, FALSE, 2, 2)
    BY <1>21, AttributesFound, Zenon
  <2> QED BY <2>1, Zenon DEF AttributesRead
<1>23. U16(SubSeq(b, 13, 13 + 1)) = max
  BY <1>10, <1>18, NumberCut
<1>24. U16(AttributeValue(b, FALSE, 2)) = max
  <2>1. 11 + 2 = 13 /\ 10 + 2 + 2 = 13 + 1
    OBVIOUS
  <2> QED BY <1>22, <1>23, <2>1
<1>25. DecodeSymbolClassAttributesResponse(b) = [ok |-> TRUE, max |-> max]
  BY <1>22, <1>24, Zenon DEF DecodeSymbolClassAttributesResponse
<1> QED BY <1>8, <1>9, <1>25

\* The name and the type of a symbol are decoded.
THEOREM SymbolIsDecoded ==
  ASSUME NEW symbol, NEW name \in Bytes, Is16(Len(name)), NEW type, Is16(type),
         symbol = [name |-> name, type |-> type]
  PROVE  /\ AreBytes(SymbolAttributes(symbol), 14 + Len(name))
         /\ DecodeSymbolAttributesResponse(SymbolAttributes(symbol)) = [ok |-> TRUE, symbol |-> symbol]
<1>0. type \in Nat /\ Low16(type) = type
  BY Fits16 DEF Is16
<1>1. PICK n \in Nat : n = Len(name) /\ Low16(n) = n
  BY Fits16 DEF Is16
<1>2. PICK s1 : s1 = Le16(2)
  OBVIOUS
<1>3. PICK s2 : s2 = s1 \o Le16(1)
  OBVIOUS
<1>4. PICK s3 : s3 = s2 \o Le16(0)
  OBVIOUS
<1>5. PICK s4 : s4 = s3 \o Le16(n)
  OBVIOUS
<1>6. PICK s5 : s5 = s4 \o name
  OBVIOUS
<1>7. PICK s6 : s6 = s5 \o Le16(2)
  OBVIOUS
<1>8. PICK s7 : s7 = s6 \o Le16(0)
  OBVIOUS
<1>9. PICK b : b = s7 \o Le16(type)
  OBVIOUS
<1>10. SymbolAttributes(symbol) = b
  <2>1. symbol.name = name /\ symbol.type = type
    OBVIOUS
  <2> QED BY <1>1, <1>2, <1>3, <1>4, <1>5, <1>6, <1>7, <1>8, <1>9, <2>1, Zenon
          DEF SymbolAttributes
<1>11. PICK k5 \in Nat, k6 \in Nat, k7 \in Nat, k8 \in Nat :
         k5 = 8 + n /\ k6 = 10 + n /\ k7 = 12 + n /\ k8 = 14 + n
  OBVIOUS
<1>12. k5 + 2 = k6 /\ k6 + 2 = k7 /\ k7 + 2 = k8
  BY <1>11
<1>13. /\ AreBytes(s1, 2) /\ AreBytes(s2, 4) /\ AreBytes(s3, 6) /\ AreBytes(s4, 8)
       /\ AreBytes(s5, k5) /\ AreBytes(s6, k6) /\ AreBytes(s7, k7) /\ AreBytes(b, k8)
  <2>1. AreBytes(s1, 2)
    BY <1>2, Le16Type DEF AreBytes
  <2>2. AreBytes(s2, 2 + 2)
    BY <1>3, <2>1, TwoMore
  <2>3. AreBytes(s3, 4 + 2)
    BY <1>4, <2>2, TwoMore
  <2>4. AreBytes(s4, 6 + 2)
    BY <1>5, <2>3, TwoMore
  <2>5. AreBytes(s5, 8 + n)
    <3>1. AreBytes(name, n) /\ AreBytes(s4, 8)
      BY <1>1, <2>4 DEF AreBytes
    <3> QED BY <1>6, <3>1, MoreBytes
  <2>6. AreBytes(s5, k5)
    BY <1>11, <2>5
  <2>7. AreBytes(s6, k5 + 2)
    BY <1>7, <2>6, TwoMore
  <2>8. AreBytes(s6, k6)
    BY <1>12, <2>7
  <2>9. AreBytes(s7, k6 + 2)
    BY <1>8, <2>8, TwoMore
  <2>10. AreBytes(s7, k7)
    BY <1>12, <2>9
  <2>11. AreBytes(b, k7 + 2)
    BY <1>0, <1>9, <2>10, TwoMore
  <2> QED BY <1>12, <2>1, <2>2, <2>3, <2>4, <2>6, <2>8, <2>10, <2>11
<1>14. b \in Bytes /\ Len(b) = k8
  BY <1>13 DEF AreBytes
<1>15. Holds(b, 1, s7) /\ HasNumber(b, 1 + k7, Low16(type))
  <2>1. Holds(b, 1, s7 \o Le16(type))
    BY <1>9, <1>14, HoldsAll
  <2> QED BY <1>0, <1>13, <1>14, <2>1, NumberHeld
<1>16. Holds(b, 1, s6) /\ HasNumber(b, 1 + k6, Low16(0))
  BY <1>8, <1>13, <1>14, <1>15, NumberHeld
<1>17. Holds(b, 1, s5) /\ HasNumber(b, 1 + k5, Low16(2))
  BY <1>7, <1>13, <1>14, <1>16, NumberHeld
<1>18. Holds(b, 1, s4) /\ Holds(b, 9, name)
  <2>1. s4 \in Bytes /\ Len(s4) = 8
    BY <1>13 DEF AreBytes
  <2>2. Holds(b, 1, s4) /\ Holds(b, 1 + Len(s4), name)
    BY <1>6, <1>14, <1>17, <2>1, HoldsParts
  <2>3. 1 + Len(s4) = 9
    BY <2>1
  <2> QED BY <2>2, <2>3
<1>19. Holds(b, 1, s3) /\ HasNumber(b, 1 + 6, Low16(n))
  BY <1>5, <1>13, <1>14, <1>18, NumberHeld
<1>20. Holds(b, 1, s2) /\ HasNumber(b, 1 + 4, Low16(0))
  BY <1>4, <1>13, <1>14, <1>19, NumberHeld
<1>21. Holds(b, 1, s1) /\ HasNumber(b, 1 + 2, Low16(1))
  BY <1>3, <1>13, <1>14, <1>20, NumberHeld
<1>22. U16(b) = 2
  BY <1>2, <1>14, <1>21, NumberAtHead, SmallNumbers
<1>23. PICK v \in Nat : v = 2 + n /\ v > 0
  OBVIOUS
<1>24. HasNumber(b, 3, 1) /\ HasNumber(b, 3 + 2, 0) /\ HasNumber(b, 3 + 4, n)
  BY <1>1, <1>19, <1>20, <1>21, SmallNumbers
<1>25. PICK p \in Nat, q \in Nat : p = 7 + v /\ q = 11 + v
  OBVIOUS
<1>26. HasNumber(b, p, 2) /\ HasNumber(b, p + 2, 0) /\ HasNumber(b, q, type)
  <2>1. 1 + k5 = p /\ 1 + k6 = p + 2 /\ 1 + k7 = q
    BY <1>11, <1>23, <1>25
  <2> QED BY <1>0, <1>15, <1>16, <1>17, <2>1, SmallNumbers
<1>27. ValueSize(b, TRUE, 3) = v
  BY <1>14, <1>23, <1>24, NameValue
<1>28. ValueSize(b, TRUE, p) = 2
  BY <1>14, <1>26, TwoByteValue
<1>29. HasAttributes(b, TRUE, v, 2)
  <2>1. Len(b) = 10 + v + 2 /\ 2 \in Nat /\ 2 > 0 /\ v \in Nat /\ v > 0
    BY <1>11, <1>14, <1>23
  <2>2. HasNumber(b, 7 + v, 2) /\ ValueSize(b, TRUE, 7 + v) = 2
    BY <1>25, <1>26, <1>28
  <2>3. HasNumber(b, 3, 1)
    BY <1>24
  <2> QED BY <1>14, <1>22, <1>27, <2>1, <2>2, <2>3, Zenon DEF HasAttributes
<1>30. /\ DecodesAttributes(b, TRUE)
       /\ AttributeValue(b, TRUE, 1) = SubSeq(b, 7, 6 + v)
       /\ AttributeValue(b, TRUE, 2) = SubSeq(b, 11 + v, 10 + v + 2)
  <2>1. AttributesRead(b, TRUE, v, 2)
    BY <1>29, AttributesFound, Zenon
  <2> QED BY <2>1, Zenon DEF AttributesRead
<1>31. U16(AttributeValue(b, TRUE, 2)) = type
  <2>1. 11 + v = q /\ 10 + v + 2 = q + 1
    BY <1>25
  <2>2. U16(SubSeq(b, q, q + 1)) = type
    BY <1>14, <1>26, NumberCut
  <2> QED BY <1>30, <2>1, <2>2
<1>32. From(AttributeValue(b, TRUE, 1), 3) = name
  <2>1. PICK e \in Nat : e = 6 + v
    OBVIOUS
  <2>2. PICK value : value = SubSeq(b, 7, e)
    OBVIOUS
  <2>3. 7 <= e + 1 /\ e <= Len(b) /\ e + 1 - 7 = 2 + n
    BY <1>11, <1>14, <1>23, <2>1
  <2>4. value \in Bytes /\ Len(value) = 2 + n /\ \A i \in 1 .. 2 + n : value[i] = b[7 + i - 1]
    BY <1>14, <2>2, <2>3, BytesSub
  <2>5. From(value, 3) \in Bytes /\ Len(From(value, 3)) = n
    <3>1. 3 <= Len(value) + 1 /\ Len(value) + 1 - 3 = n /\ 3 \in Nat /\ 1 <= 3
      BY <2>4
    <3>2. value \in Bytes
      BY <2>4
    <3>3. From(value, 3) \in Bytes /\ (3 <= Len(value) + 1 => Len(From(value, 3)) = Len(value) + 1 - 3)
      BY <3>1, <3>2, FromType, Zenon
    <3> QED BY <3>1, <3>3
  <2>6. ASSUME NEW i \in 1 .. n PROVE From(value, 3)[i] = name[i]
    <3>1. From(value, 3)[i] = value[3 + i - 1]
      <4>1. value \in Bytes /\ Len(value) = 2 + n
        BY <2>4
      <4>2. PICK t \in Nat, j \in Nat : t = 3 /\ j = i /\ 1 <= t /\ 1 <= j /\ t + j <= Len(value) + 1
        BY <4>1
      <4>3. From(value, t)[j] = value[t + j - 1]
        BY <4>1, <4>2, FromPlace
      <4> QED BY <4>2, <4>3
    <3>2. 3 + i - 1 = i + 2 /\ i + 2 \in 1 .. 2 + n
      OBVIOUS
    <3>3. value[i + 2] = b[7 + (i + 2) - 1]
      BY <2>4, <3>2
    <3>4. 7 + (i + 2) - 1 = 9 + i - 1
      OBVIOUS
    <3>5. b[9 + i - 1] = name[i]
      BY <1>1, <1>18 DEF Holds
    <3> QED BY <3>1, <3>2, <3>3, <3>4, <3>5
  <2>7. From(value, 3) = name
    BY <1>1, <2>5, <2>6, BytesEqual
  <2> QED BY <1>30, <2>1, <2>2, <2>7
<1>33. DecodeSymbolAttributesResponse(b) = [ok |-> TRUE, symbol |-> symbol]
  BY <1>30, <1>31, <1>32, Zenon DEF DecodeSymbolAttributesResponse
<1>34. AreBytes(b, 14 + Len(name))
  BY <1>1, <1>11, <1>13
<1> QED BY <1>10, <1>33, <1>34
=============================================================================
