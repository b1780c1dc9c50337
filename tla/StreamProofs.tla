----------------------------- MODULE StreamProofs -----------------------------
(***************************************************************************)
(* What happens to a stream when a number, or something else, is added at  *)
(* its end, and when a part of it is taken out.                            *)
(***************************************************************************)
EXTENDS Streams, SequenceTheorems, TLAPS

\* The range of three sequences put end to end.
LEMMA RangeOfThree ==
  ASSUME NEW s \in Seq(Int), NEW t \in Seq(Int), NEW u \in Seq(Int)
  PROVE  /\ s \o t \o u \in Seq(Int)
         /\ s \o t \o u = s \o (t \o u)
         /\ Range(s \o t \o u) = Range(s) \cup Range(t) \cup Range(u)
<1> DEFINE v == s \o t
<1>1. v \in Seq(Int) /\ Range(v) = Range(s) \cup Range(t)
  BY ConcatProperties, RangeConcatenation
<1> HIDE DEF v
<1>2. v \o u \in Seq(Int)
  BY <1>1, ConcatProperties
<1>3. Range(v \o u) = Range(v) \cup Range(u)
  BY <1>1, RangeConcatenation
<1> USE DEF v
<1>4. s \o t \o u = s \o (t \o u)
  BY ConcatAssociative
<1> QED BY <1>1, <1>2, <1>3, <1>4

\* The elements of two sequences put end to end.
LEMMA Joined ==
  ASSUME NEW s \in Seq(Int), NEW t \in Seq(Int)
  PROVE  /\ DOMAIN s = 1 .. Len(s) /\ DOMAIN t = 1 .. Len(t)
         /\ Len(s) \in Nat /\ Len(t) \in Nat
         /\ DOMAIN (s \o t) = 1 .. Len(s) + Len(t)
         /\ \A i \in 1 .. Len(s) : (s \o t)[i] = s[i] /\ s[i] \in Int
         /\ \A i \in 1 .. Len(t) : (s \o t)[Len(s) + i] = t[i] /\ t[i] \in Int
         /\ Range(s \o t) = Range(s) \cup Range(t)
<1>1. /\ s \o t \in Seq(Int) /\ Len(s \o t) = Len(s) + Len(t)
      /\ \A i \in 1 .. Len(s) + Len(t) : (s \o t)[i] =
           IF i <= Len(s) THEN s[i] ELSE t[i - Len(s)]
  BY ConcatProperties
<1>2. /\ DOMAIN s = 1 .. Len(s) /\ DOMAIN t = 1 .. Len(t)
      /\ Len(s) \in Nat /\ Len(t) \in Nat
      /\ DOMAIN (s \o t) = 1 .. Len(s \o t)
  BY <1>1, LenProperties
<1>3. ASSUME NEW i \in 1 .. Len(s)
      PROVE  (s \o t)[i] = s[i] /\ s[i] \in Int
  <2>1. i \in 1 .. Len(s) + Len(t) /\ i <= Len(s)
    BY <1>2
  <2> QED BY <1>1, <2>1, ElementOfSeq
<1>4. ASSUME NEW i \in 1 .. Len(t)
      PROVE  (s \o t)[Len(s) + i] = t[i] /\ t[i] \in Int
  <2>1. /\ Len(s) + i \in 1 .. Len(s) + Len(t) /\ ~(Len(s) + i <= Len(s))
        /\ (Len(s) + i) - Len(s) = i
    BY <1>2
  <2>2. (s \o t)[Len(s) + i] = t[(Len(s) + i) - Len(s)]
    BY <1>1, <2>1
  <2> QED BY <2>1, <2>2, ElementOfSeq
<1> QED BY <1>1, <1>2, <1>3, <1>4, RangeConcatenation

\* Every number of s is below every number of t.
Below(s, t) ==
  \A i \in 1 .. Len(s) : \A j \in 1 .. Len(t) : s[i] > 0 /\ t[j] > 0 => s[i] < t[j]

\* Two sequences are in order end to end just when both are and every number of
\* the first is below every number of the second.
LEMMA OrderOfTwo ==
  ASSUME NEW s \in Seq(Int), NEW t \in Seq(Int)
  PROVE  InOrder(s \o t) <=> InOrder(s) /\ InOrder(t) /\ Below(s, t)
<1> DEFINE w == s \o t
           m == Len(s)
           n == Len(t)
<1>1. /\ DOMAIN s = 1 .. m /\ DOMAIN t = 1 .. n /\ m \in Nat /\ n \in Nat
      /\ DOMAIN w = 1 .. m + n
      /\ \A i \in 1 .. m : w[i] = s[i] /\ s[i] \in Int
      /\ \A i \in 1 .. n : w[m + i] = t[i] /\ t[i] \in Int
  BY Joined
<1> HIDE DEF w, m, n
<1>2. ASSUME InOrder(w)
      PROVE  InOrder(s) /\ InOrder(t) /\ \A i \in 1 .. m : \A j \in 1 .. n :
               s[i] > 0 /\ t[j] > 0 => s[i] < t[j]
  <2>1. InOrder(s)
    <3>1. DOMAIN s \subseteq DOMAIN w /\ \A i \in DOMAIN s : w[i] = s[i]
      BY <1>1
    <3> QED BY <1>2, <3>1 DEF InOrder
  <2>2. ASSUME NEW i \in 1 .. n, NEW j \in 1 .. n, i < j, t[i] > 0, t[j] > 0
        PROVE  t[i] < t[j]
    <3>1. m + i \in DOMAIN w /\ m + j \in DOMAIN w /\ m + i < m + j
      BY <1>1, <2>2
    <3> QED BY <1>1, <1>2, <2>2, <3>1 DEF InOrder
  <2>3. ASSUME NEW i \in 1 .. m, NEW j \in 1 .. n, s[i] > 0, t[j] > 0
        PROVE  s[i] < t[j]
    <3>1. i \in DOMAIN w /\ m + j \in DOMAIN w /\ i < m + j
      BY <1>1, <2>3
    <3> QED BY <1>1, <1>2, <2>3, <3>1 DEF InOrder
  <2>4. InOrder(t)
    BY <1>1, <2>2 DEF InOrder
  <2> QED BY <2>1, <2>3, <2>4
<1>3. ASSUME InOrder(s), InOrder(t),
             \A i \in 1 .. m : \A j \in 1 .. n : s[i] > 0 /\ t[j] > 0 => s[i] < t[j]
      PROVE  InOrder(w)
  <2>1. SUFFICES ASSUME NEW i \in 1 .. m + n, NEW j \in 1 .. m + n,
                        i < j, w[i] > 0, w[j] > 0
                 PROVE  w[i] < w[j]
    BY <1>1 DEF InOrder
  <2>2. CASE j <= m
    <3>1. i \in 1 .. m /\ j \in 1 .. m
      BY <1>1, <2>1, <2>2
    <3> QED BY <1>1, <1>3, <2>1, <3>1 DEF InOrder
  <2>3. CASE i <= m /\ ~(j <= m)
    <3>1. i \in 1 .. m /\ j - m \in 1 .. n /\ m + (j - m) = j
      BY <1>1, <2>1, <2>3
    <3>2. w[j] = t[j - m] /\ w[i] = s[i]
      BY <1>1, <3>1
    <3> QED BY <1>3, <2>1, <3>1, <3>2
  <2>4. CASE ~(i <= m)
    <3>1. /\ i - m \in 1 .. n /\ j - m \in 1 .. n /\ i - m < j - m
          /\ m + (i - m) = i /\ m + (j - m) = j
      BY <1>1, <2>1, <2>4
    <3>2. w[i] = t[i - m] /\ w[j] = t[j - m]
      BY <1>1, <3>1
    <3> QED BY <1>1, <1>3, <2>1, <3>1, <3>2 DEF InOrder
  <2> QED BY <2>2, <2>3, <2>4
<1> QED BY <1>2, <1>3 DEF w, m, n, Below

\* A stream is longer by what comes behind it.
LEMMA Joins ==
  ASSUME NEW s \in Seq(Int), NEW t \in Seq(Int), NEW n \in Nat, NEW m \in Nat,
         NEW W \in SUBSET (1 .. n), n <= m,
         InOrder(t), {x \in Range(t) : x > 0} = (n + 1) .. m
  PROVE  Carries(s, n, W) => Carries(s \o t, m, W)
<1> SUFFICES ASSUME Carries(s, n, W)
             PROVE  Carries(s \o t, m, W)
  OBVIOUS
<1>1. Range(s \o t) = Range(s) \cup Range(t)
  BY Joined
<1>2. ASSUME NEW i \in 1 .. Len(s), NEW j \in 1 .. Len(t), s[i] > 0, t[j] > 0
      PROVE  s[i] < t[j]
  <2>1. s[i] \in Range(s) /\ t[j] \in Range(t)
    BY Joined DEF Range
  <2>2. s[i] \in 1 .. n
    BY <1>2, <2>1 DEF Carries
  <2>3. t[j] \in (n + 1) .. m
    BY <1>2, <2>1
  <2> QED BY <2>2, <2>3
<1>3. InOrder(s \o t)
  BY <1>2, OrderOfTwo DEF Carries, Below
<1>4. {x \in Range(s \o t) : x > 0}
        = {x \in Range(s) : x > 0} \cup {x \in Range(t) : x > 0}
  BY <1>1
<1>5. ((1 .. n) \ W) \cup ((n + 1) .. m) = (1 .. m) \ W
  OBVIOUS
<1> QED BY <1>3, <1>4, <1>5 DEF Carries

\* A sequence of one element.
LEMMA One ==
  ASSUME NEW x \in Int
  PROVE  /\ <<x>> \in Seq(Int) /\ Len(<<x>>) = 1
         /\ Range(<<x>>) = {x} /\ InOrder(<<x>>)
<1>1. <<x>> \in Seq(Int) /\ Len(<<x>>) = 1 /\ DOMAIN <<x>> = {1} /\ <<x>>[1] = x
  OBVIOUS
<1> QED BY <1>1 DEF Range, InOrder

\* The next number comes in.
LEMMA NextNumber ==
  ASSUME NEW s \in Seq(Int), NEW n \in Nat, NEW W \in SUBSET (1 .. n)
  PROVE  /\ Carries(s, n, W) => Carries(s \o <<n + 1>>, n + 1, W)
         /\ IsStream(s, n, W) => IsStream(s \o <<n + 1>>, n + 1, W)
<1> DEFINE t == <<n + 1>>
           m == n + 1
<1>1. t \in Seq(Int) /\ Range(t) = {m} /\ InOrder(t) /\ m \in Nat /\ n <= m
  BY One
<1>2. {x \in {m} : x > 0} = (n + 1) .. m
  OBVIOUS
<1> HIDE DEF t, m
<1>3. Carries(s, n, W) => Carries(s \o t, m, W)
  BY <1>1, <1>2, Joins
<1>4. Range(s \o t) = Range(s) \cup {m}
  BY <1>1, Joined
<1>5. m > 0
  BY DEF m
<1> QED BY <1>3, <1>4, <1>5 DEF IsStream, t, m

\* Something comes in that is not a number.
LEMMA NoNumber ==
  ASSUME NEW s \in Seq(Int), NEW n \in Nat, NEW W \in SUBSET (1 .. n),
         NEW c \in Int, c <= 0
  PROVE  Carries(s, n, W) => Carries(s \o <<c>>, n, W)
<1> DEFINE t == <<c>>
<1>1. t \in Seq(Int) /\ Range(t) = {c} /\ InOrder(t)
  BY One
<1>2. {x \in {c} : x > 0} = (n + 1) .. n
  OBVIOUS
<1> HIDE DEF t
<1>3. Carries(s, n, W) => Carries(s \o t, n, W)
  BY <1>1, <1>2, Joins
<1> QED BY <1>3 DEF t

\* The next number is lost before it comes in.
LEMMA LostNumber ==
  ASSUME NEW s, NEW n \in Nat, NEW W \in SUBSET (1 .. n)
  PROVE  /\ Carries(s, n, W) => Carries(s, n + 1, W \cup {n + 1})
         /\ IsStream(s, n, W) => IsStream(s, n + 1, W \cup {n + 1})
<1>1. (1 .. n) \ W = (1 .. n + 1) \ (W \cup {n + 1})
  OBVIOUS
<1> QED BY <1>1 DEF Carries, IsStream

\* The next k numbers come in.
LEMMA NextNumbers ==
  ASSUME NEW s \in Seq(Int), NEW n \in Nat, NEW W \in SUBSET (1 .. n), NEW k \in Nat,
         NEW t \in Seq(Int), Len(t) = k, \A i \in 1 .. k : t[i] = n + i
  PROVE  /\ IsStream(s, n, W) => IsStream(s \o t, n + k, W)
         /\ Range(t) = (n + 1) .. (n + k)
<1>1. DOMAIN t = 1 .. k
  BY LenProperties
<1>2. InOrder(t)
  BY <1>1 DEF InOrder
<1>3. Range(t) \subseteq (n + 1) .. (n + k)
  BY <1>1 DEF Range
<1>4. ASSUME NEW x \in (n + 1) .. (n + k)
      PROVE  x \in Range(t)
  <2>1. x - n \in 1 .. k /\ n + (x - n) = x
    OBVIOUS
  <2> QED BY <1>1, <2>1 DEF Range
<1>5. Range(t) = (n + 1) .. (n + k)
  BY <1>3, <1>4
<1>6. {x \in Range(t) : x > 0} = (n + 1) .. (n + k)
  BY <1>5
<1>7. n + k \in Nat /\ n <= n + k
  OBVIOUS
<1>8. Carries(s, n, W) => Carries(s \o t, n + k, W)
  BY <1>2, <1>6, <1>7, Joins
<1>9. Range(s \o t) = Range(s) \cup Range(t)
  BY Joined
<1> QED BY <1>5, <1>8, <1>9 DEF IsStream

\* A part of a stream is taken out.
LEMMA TakenOut ==
  ASSUME NEW s \in Seq(Int), NEW t \in Seq(Int), NEW u \in Seq(Int),
         NEW n \in Nat, NEW W
  PROVE  /\ Carries(s \o t \o u, n, W) => Carries(s \o u, n, W \cup Range(t))
         /\ IsStream(s \o t \o u, n, W) => IsStream(s \o u, n, W \cup Range(t))
<1>1. /\ s \o t \in Seq(Int) /\ s \o u \in Seq(Int)
      /\ Range(s \o t \o u) = Range(s) \cup Range(t) \cup Range(u)
      /\ Range(s \o u) = Range(s) \cup Range(u)
  BY RangeOfThree, ConcatProperties, RangeConcatenation
<1>2. ASSUME Carries(s \o t \o u, n, W)
      PROVE  Carries(s \o u, n, W \cup Range(t))
  <2>1. InOrder(s \o t) /\ InOrder(u) /\ Below(s \o t, u)
    BY <1>1, <1>2, OrderOfTwo DEF Carries
  <2>2. InOrder(s) /\ InOrder(t) /\ Below(s, t)
    BY <2>1, OrderOfTwo
  <2>3. Below(s, u) /\ Below(t, u)
    <3>1. /\ Len(s) \in Nat /\ Len(t) \in Nat
          /\ Len(s \o t) = Len(s) + Len(t)
          /\ \A i \in 1 .. Len(s) : (s \o t)[i] = s[i]
          /\ \A i \in 1 .. Len(t) : (s \o t)[Len(s) + i] = t[i]
      BY Joined, ConcatProperties
    <3>2. ASSUME NEW i \in 1 .. Len(s), NEW j \in 1 .. Len(u), s[i] > 0, u[j] > 0
          PROVE  s[i] < u[j]
      <4>1. i \in 1 .. Len(s \o t) /\ (s \o t)[i] = s[i]
        BY <3>1
      <4> QED BY <2>1, <3>2, <4>1 DEF Below
    <3>3. ASSUME NEW i \in 1 .. Len(t), NEW j \in 1 .. Len(u), t[i] > 0, u[j] > 0
          PROVE  t[i] < u[j]
      <4>1. Len(s) + i \in 1 .. Len(s \o t) /\ (s \o t)[Len(s) + i] = t[i]
        BY <3>1
      <4> QED BY <2>1, <3>3, <4>1 DEF Below
    <3> QED BY <3>2, <3>3 DEF Below
  <2>4. InOrder(s \o u)
    BY <2>1, <2>2, <2>3, OrderOfTwo
  <2>5. ASSUME NEW x \in Range(t), x > 0, x \in Range(s) \cup Range(u)
        PROVE  FALSE
    <3>1. PICK j \in 1 .. Len(t) : x = t[j]
      BY Joined DEF Range
    <3>2. CASE x \in Range(s)
      <4>1. PICK i \in 1 .. Len(s) : x = s[i]
        BY <3>2, Joined DEF Range
      <4>2. s[i] < t[j]
        BY <2>2, <2>5, <3>1, <4>1 DEF Below
      <4>3. x \in Int
        BY <3>1, Joined
      <4> QED BY <3>1, <4>1, <4>2, <4>3
    <3>3. CASE x \in Range(u)
      <4>1. PICK i \in 1 .. Len(u) : x = u[i]
        BY <3>3, Joined DEF Range
      <4>2. t[j] < u[i]
        BY <2>3, <2>5, <3>1, <4>1 DEF Below
      <4>3. x \in Int
        BY <3>1, Joined
      <4> QED BY <3>1, <4>1, <4>2, <4>3
    <3> QED BY <2>5, <3>2, <3>3
  <2>6. {x \in Range(s \o t \o u) : x > 0} = (1 .. n) \ W
    BY <1>2 DEF Carries
  <2>7. {x \in Range(s \o u) : x > 0} = (1 .. n) \ (W \cup Range(t))
    BY <1>1, <2>5, <2>6
  <2> QED BY <2>4, <2>7 DEF Carries
<1> QED BY <1>1, <1>2 DEF IsStream

\* The end of a stream is taken out.
LEMMA TakenOff ==
  ASSUME NEW s \in Seq(Int), NEW t \in Seq(Int), NEW n \in Nat, NEW W
  PROVE  /\ Carries(s \o t, n, W) => Carries(s, n, W \cup Range(t))
         /\ IsStream(s \o t, n, W) => IsStream(s, n, W \cup Range(t))
<1>1. /\ <<>> \in Seq(Int) /\ s \o t \in Seq(Int)
      /\ s \o t \o <<>> = s \o t /\ s \o <<>> = s
  BY EmptySeq, ConcatProperties, ConcatEmptySeq
<1> DEFINE e == <<>>
<1>2. e \in Seq(Int) /\ s \o t \o e = s \o t /\ s \o e = s
  BY <1>1
<1> HIDE DEF e
<1>3. /\ Carries(s \o t \o e, n, W) => Carries(s \o e, n, W \cup Range(t))
      /\ IsStream(s \o t \o e, n, W) => IsStream(s \o e, n, W \cup Range(t))
  BY <1>2, TakenOut
<1> QED BY <1>2, <1>3

\* The empty stream.
LEMMA NoStream ==
  /\ IsStream(<<>>, 0, {}) /\ Carries(<<>>, 0, {})
  /\ IsStream(<<>> \o <<>> \o <<>>, 0, {}) /\ IsStream(<<>> \o <<>>, 0, {})
  /\ Carries(<<>> \o <<>> \o <<>>, 0, {}) /\ Range(<<>>) = {}
<1>1. <<>> \in Seq(Int) /\ <<>> \o <<>> = <<>> /\ DOMAIN <<>> = {}
  BY EmptySeq, ConcatEmptySeq
<1>2. Range(<<>>) = {} /\ InOrder(<<>>)
  BY <1>1 DEF Range, InOrder
<1>3. {x \in {} : x > 0} = {} /\ (1 .. 0) \ {} = {}
  OBVIOUS
<1>4. Carries(<<>>, 0, {})
  BY <1>2, <1>3 DEF Carries
<1> QED BY <1>1, <1>2, <1>4 DEF IsStream

-----------------------------------------------------------------------------
(* Sequences of bytes.                                                     *)

\* The first n elements of a sequence and the others.
LEMMA Split ==
  ASSUME NEW S, NEW q \in Seq(S), NEW n \in 0 .. Len(q)
  PROVE  LET a == SubSeq(q, 1, n)
             b == SubSeq(q, n + 1, Len(q))
         IN  /\ a \in Seq(S) /\ Len(a) = n
             /\ b \in Seq(S) /\ Len(b) = Len(q) - n
             /\ a \o b = q
<1>1. Len(q) \in Nat /\ \A i \in 1 .. Len(q) : q[i] \in S
  BY LenProperties, ElementOfSeq
<1> DEFINE m == Len(q)
<1>2. m \in Nat /\ n \in 0 .. m /\ \A i \in 1 .. m : q[i] \in S
  BY <1>1
<1> HIDE DEF m
<1>3. SubSeq(q, 1, n) \in Seq(S) /\ Len(SubSeq(q, 1, n)) = n
  <2>1. \A i \in 1 .. n : q[i] \in S
    BY <1>2
  <2>2. n \in Int /\ 1 \in Int /\ (IF 1 <= n THEN n - 1 + 1 ELSE 0) = n
    BY <1>2
  <2>3. /\ SubSeq(q, 1, n) \in Seq(S)
        /\ Len(SubSeq(q, 1, n)) = IF 1 <= n THEN n - 1 + 1 ELSE 0
    BY <2>1, <2>2, SubSeqProperties
  <2> QED BY <2>2, <2>3
<1>4. SubSeq(q, n + 1, m) \in Seq(S) /\ Len(SubSeq(q, n + 1, m)) = m - n
  <2>1. \A i \in n + 1 .. m : q[i] \in S
    BY <1>2
  <2>2. /\ n + 1 \in Int /\ m \in Int
        /\ (IF n + 1 <= m THEN m - (n + 1) + 1 ELSE 0) = m - n
    BY <1>2
  <2>3. /\ SubSeq(q, n + 1, m) \in Seq(S)
        /\ Len(SubSeq(q, n + 1, m)) = IF n + 1 <= m THEN m - (n + 1) + 1 ELSE 0
    BY <2>1, <2>2, SubSeqProperties
  <2> QED BY <2>2, <2>3
<1>5. SubSeq(q, 1, n) \o SubSeq(q, n + 1, m) = SubSeq(q, 1, m)
  <2>1. 1 \in 1 .. m + 1 /\ n \in 1 - 1 .. m /\ m \in n .. m
    BY <1>2
  <2> QED BY <2>1, ConcatAdjacentSubSeq DEF m
<1>6. SubSeq(q, 1, m) = q
  BY SubSeqFull DEF m
<1> QED BY <1>3, <1>4, <1>5, <1>6 DEF m

\* Bytes are integers.
LEMMA IntSeq ==
  ASSUME NEW S \in SUBSET Int, NEW q \in Seq(S)
  PROVE  q \in Seq(Int)
BY SeqMonotonic

\* The first element and the others.
LEMMA HeadAndTail ==
  ASSUME NEW S, NEW q \in Seq(S), q # <<>>
  PROVE  /\ Head(q) \in S /\ Tail(q) \in Seq(S) /\ Len(Tail(q)) = Len(q) - 1
         /\ <<Head(q)>> \o Tail(q) = q /\ <<Head(q)>> \in Seq(S)
<1>1. /\ Head(q) \in S /\ Tail(q) \in Seq(S) /\ Len(Tail(q)) = Len(q) - 1
      /\ \A i \in 1 .. Len(Tail(q)) : Tail(q)[i] = q[i + 1]
  BY HeadTailProperties
<1> DEFINE h == <<Head(q)>>
           t == Tail(q)
<1>2. h \in Seq(S) /\ Len(h) = 1 /\ h[1] = q[1]
  BY <1>1
<1>3. Len(q) \in Nat \ {0}
  BY EmptySeq
<1>4. t \in Seq(S) /\ Len(t) = Len(q) - 1 /\ \A i \in 1 .. Len(t) : t[i] = q[i + 1]
  BY <1>1
<1> HIDE DEF h, t
<1>5. /\ h \o t \in Seq(S) /\ Len(h \o t) = Len(q)
      /\ \A i \in 1 .. Len(q) : (h \o t)[i] = IF i <= 1 THEN h[i] ELSE t[i - 1]
  <2>0. h \in Seq(S) /\ t \in Seq(S)
    BY <1>2, <1>4
  <2>1. /\ h \o t \in Seq(S) /\ Len(h \o t) = Len(h) + Len(t)
        /\ \A i \in 1 .. Len(h) + Len(t) :
             (h \o t)[i] = IF i <= Len(h) THEN h[i] ELSE t[i - Len(h)]
    BY ONLY <2>0, ConcatProperties
  <2>2. Len(h) + Len(t) = Len(q) /\ Len(h) = 1
    BY <1>2, <1>3, <1>4
  <2> QED BY <2>1, <2>2
<1>6. ASSUME NEW i \in 1 .. Len(q)
      PROVE  (h \o t)[i] = q[i]
  <2>1. CASE i = 1
    BY <1>2, <1>3, <1>5, <2>1
  <2>2. CASE i # 1
    <3>1. i - 1 \in 1 .. Len(t) /\ (i - 1) + 1 = i /\ ~(i <= 1)
      BY <1>3, <1>4, <2>2
    <3> QED BY <1>4, <1>5, <3>1
  <2> QED BY <2>1, <2>2
<1>7. h \o t = q
  BY <1>5, <1>6, SeqEqual
<1> QED BY <1>1, <1>2, <1>7 DEF h, t

\* Concatenation is associative: the form that Zenon can use.
LEMMA Associative ==
  \A s, a, b \in Seq(Int) : s \o a \o b = s \o (a \o b)
<1> SUFFICES ASSUME NEW s \in Seq(Int), NEW a \in Seq(Int), NEW b \in Seq(Int)
             PROVE  s \o a \o b = s \o (a \o b)
  OBVIOUS
<1> QED BY ConcatAssociative

-----------------------------------------------------------------------------
(* Streams with something in them that is not a number.                    *)

\* Something that is not a number comes in between.
LEMMA Inserted ==
  ASSUME NEW s \in Seq(Int), NEW u \in Seq(Int), NEW c \in Int, c <= 0,
         NEW n \in Nat, NEW W
  PROVE  Carries(s \o u, n, W) => Carries(s \o <<c>> \o u, n, W)
<1> DEFINE t == <<c>>
<1>1. t \in Seq(Int) /\ Range(t) = {c} /\ InOrder(t) /\ Len(t) = 1 /\ t[1] = c
  BY One
<1> HIDE DEF t
<1>2. SUFFICES ASSUME Carries(s \o u, n, W)
               PROVE  Carries(s \o t \o u, n, W)
  BY DEF t
<1>3. /\ s \o t \in Seq(Int) /\ s \o t \o u \in Seq(Int)
      /\ Range(s \o t \o u) = Range(s) \cup {c} \cup Range(u)
      /\ Range(s \o u) = Range(s) \cup Range(u)
  BY <1>1, RangeOfThree, ConcatProperties, RangeConcatenation
<1>4. InOrder(s) /\ InOrder(u) /\ Below(s, u)
  BY <1>2, OrderOfTwo DEF Carries
<1>5. Below(s, t)
  BY <1>1 DEF Below
<1>6. InOrder(s \o t)
  BY <1>1, <1>4, <1>5, OrderOfTwo
<1>7. ASSUME NEW i \in 1 .. Len(s \o t), NEW j \in 1 .. Len(u),
             (s \o t)[i] > 0, u[j] > 0
      PROVE  (s \o t)[i] < u[j]
  <2>1. /\ Len(s) \in Nat /\ Len(s \o t) = Len(s) + 1
        /\ \A k \in 1 .. Len(s) : (s \o t)[k] = s[k]
        /\ (s \o t)[Len(s) + 1] = c
    <3>1. /\ Len(s) \in Nat /\ s \o t \in Seq(Int)
          /\ DOMAIN (s \o t) = 1 .. Len(s) + Len(t)
          /\ \A k \in 1 .. Len(s) : (s \o t)[k] = s[k]
          /\ \A k \in 1 .. Len(t) : (s \o t)[Len(s) + k] = t[k]
      BY <1>1, <1>3, Joined
    <3>2. Len(s \o t) = Len(s) + Len(t)
      BY ONLY <1>1, s \in Seq(Int), ConcatProperties
    <3>3. 1 \in 1 .. Len(t)
      BY <1>1
    <3> QED BY <1>1, <3>1, <3>2, <3>3
  <2>2. i # Len(s) + 1
    BY <1>7, <2>1
  <2>3. i \in 1 .. Len(s)
    BY <2>1, <2>2
  <2> QED BY <1>4, <1>7, <2>1, <2>3 DEF Below
<1>8. InOrder(s \o t \o u)
  BY <1>3, <1>4, <1>6, <1>7, OrderOfTwo DEF Below
<1>9. {x \in Range(s \o t \o u) : x > 0} = {x \in Range(s \o u) : x > 0}
  BY <1>3
<1> QED BY <1>2, <1>8, <1>9 DEF Carries

\* What is taken out in the middle, if it is not a number, is not missed.
LEMMA Unmissed ==
  ASSUME NEW s \in Seq(Int), NEW u \in Seq(Int), NEW c \in Int, c <= 0,
         NEW n \in Nat, NEW W
  PROVE  Carries(s \o <<c>> \o u, n, W) => Carries(s \o u, n, W)
<1> DEFINE t == <<c>>
<1>1. t \in Seq(Int) /\ Range(t) = {c}
  BY One
<1> HIDE DEF t
<1>2. Carries(s \o t \o u, n, W) => Carries(s \o u, n, W \cup {c})
  BY <1>1, TakenOut
<1>3. (1 .. n) \ (W \cup {c}) = (1 .. n) \ W
  OBVIOUS
<1> QED BY <1>2, <1>3 DEF Carries, t
=============================================================================
