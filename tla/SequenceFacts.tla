---------------------------- MODULE SequenceFacts ----------------------------
(***************************************************************************)
(* What the operations on sequences do to the set of their elements, and to *)
(* the order of their elements, sequences put together, induction by least   *)
(* elements and the values of recursive functions: lemmas for the other      *)
(* modules with proofs.                                                    *)
(***************************************************************************)
EXTENDS Integers, Sequences, SequencesExt, TLAPS, SequenceTheorems, WellFoundedInduction

-----------------------------------------------------------------------------
(* Counting                                                                *)

\* Every set of numbers has a least element: for arguments by induction.
LEMMA LeastNat ==
  ASSUME NEW S \in SUBSET Nat, S # {}
  PROVE  \E n \in S : \A m \in S : n <= m
  <1> DEFINE R == {ss \in Nat \X Nat : ss[1] < ss[2]}
  <1>1. R = OpToRel(<, Nat)
    BY DEF OpToRel
  <1>2. IsWellFoundedOn(R, Nat)
    BY <1>1, NatLessThanWellFounded
  <1>3. PICK n \in S : \A m \in S : <<m, n>> \notin R
    <2> HIDE DEF R
    <2> QED BY <1>2, WFMin
  <1>4. ASSUME NEW m \in S PROVE n <= m
    <2>1. m \in Nat /\ n \in Nat /\ <<m, n>> \notin R
      BY <1>3
    <2>2. m < n => <<m, n>> \in R
      BY <2>1
    <2> QED BY <2>1, <2>2
  <1> QED BY <1>4

\* What holds of 0, and of a number's successor with it, holds of all.
LEMMA Induction ==
  ASSUME NEW S, 0 \in S, NEW n \in Nat, \A k \in 0 .. n - 1 : k \in S => k + 1 \in S
  PROVE  \A k \in 0 .. n : k \in S
  <1> DEFINE missing == (0 .. n) \ S
  <1> SUFFICES ASSUME missing # {} PROVE FALSE
    OBVIOUS
  <1>1. missing \in SUBSET Nat
    OBVIOUS
  <1>2. PICK m \in missing : \A k \in missing : m <= k
    BY <1>1, LeastNat
  <1>3. m # 0 /\ m \in 0 .. n
    OBVIOUS
  <1>4. m - 1 \in 0 .. n - 1 /\ m - 1 \in 0 .. n /\ ~(m <= m - 1) /\ (m - 1) + 1 = m
    BY <1>3
  <1>5. m - 1 \in S
    BY <1>2, <1>4
  <1> QED BY <1>4, <1>5

\* What is given for 0, and for a number by what it is for the one before.
Follows(f, V, base, n, step) ==
  f \in [0 .. n -> V] /\ f[0] = base /\ \A k \in 1 .. n : f[k] = step[<<f[k - 1], k>>]

\* A function that is given step by step exists.
LEMMA Recursion ==
  ASSUME NEW V, NEW base \in V, NEW n \in Nat, NEW step \in [V \X (1 .. n) -> V]
  PROVE  \E f : Follows(f, V, base, n, step)
  <1> DEFINE Value(f, k) == IF k = 0 THEN base ELSE step[<<f[k - 1], k>>]
             UpTo(m) == \E f \in [0 .. m -> V] : \A k \in 0 .. m : f[k] = Value(f, k)
             S == {m \in 0 .. n : UpTo(m)}
  <1>1. 0 \in S
    <2>1. [k \in 0 .. 0 |-> base] \in [0 .. 0 -> V]
      OBVIOUS
    <2>2. \A k \in 0 .. 0 : [j \in 0 .. 0 |-> base][k] = Value([j \in 0 .. 0 |-> base], k)
      OBVIOUS
    <2>3. UpTo(0)
      BY <2>1, <2>2
    <2> QED BY <2>3
  <1>2. ASSUME NEW m \in 0 .. n - 1, m \in S PROVE m + 1 \in S
    <2>1. PICK f \in [0 .. m -> V] : \A k \in 0 .. m : f[k] = Value(f, k)
      BY <1>2
    <2> DEFINE next == step[<<f[m], m + 1>>]
               g == [k \in 0 .. m + 1 |-> IF k = m + 1 THEN next ELSE f[k]]
    <2>2. next \in V /\ m + 1 \in 0 .. n
      <3>1. f[m] \in V /\ m + 1 \in 1 .. n
        OBVIOUS
      <3>2. <<f[m], m + 1>> \in V \X (1 .. n)
        BY <3>1
      <3> QED BY <3>1, <3>2
    <2>3. g \in [0 .. m + 1 -> V] /\ g[m + 1] = next /\ \A k \in 0 .. m : g[k] = f[k]
      BY <2>2
    <2>4. ASSUME NEW k \in 0 .. m + 1 PROVE g[k] = Value(g, k)
      <3> HIDE DEF g
      <3>1. CASE k = m + 1
        <4>1. k # 0 /\ k - 1 = m /\ m \in 0 .. m
          BY <3>1
        <4>2. Value(g, k) = step[<<g[m], m + 1>>]
          BY <3>1, <4>1
        <4> QED BY <2>3, <3>1, <4>1, <4>2
      <3>2. CASE k # m + 1
        <4>1. k \in 0 .. m
          BY <3>2
        <4>2. k # 0 => k - 1 \in 0 .. m
          BY <4>1
        <4>3. Value(g, k) = Value(f, k)
          BY <2>3, <4>2
        <4> QED BY <2>1, <2>3, <4>1, <4>3
      <3> QED BY <3>1, <3>2
    <2>5. UpTo(m + 1)
      <3> HIDE DEF g, Value
      <3> QED BY <2>3, <2>4
    <2> QED BY <2>2, <2>5
  <1>3. n \in S
    <2> HIDE DEF S
    <2>1. \A k \in 0 .. n : k \in S
      BY <1>1, <1>2, Induction
    <2> QED BY <2>1
  <1>4. PICK f \in [0 .. n -> V] : \A k \in 0 .. n : f[k] = Value(f, k)
    BY <1>3
  <1>5. 0 \in 0 .. n /\ \A k \in 1 .. n : k \in 0 .. n /\ k # 0
    OBVIOUS
  <1> QED BY <1>4, <1>5 DEF Follows

-----------------------------------------------------------------------------
(* The elements                                                            *)

\* The elements of a longer list.
LEMMA RangeOfAppend ==
  ASSUME NEW S, NEW s \in Seq(S), NEW e \in S
  PROVE  Range(Append(s, e)) = Range(s) \cup {e}
  <1>1. /\ Append(s, e) \in Seq(S)
        /\ Len(Append(s, e)) = Len(s) + 1
        /\ \A i \in 1 .. Len(s) : Append(s, e)[i] = s[i]
        /\ Append(s, e)[Len(s) + 1] = e
    BY AppendProperties
  <1>2. DOMAIN s = 1 .. Len(s) /\ DOMAIN Append(s, e) = 1 .. Len(s) + 1 /\ Len(s) \in Nat
    BY <1>1, LenProperties
  <1> QED BY <1>1, <1>2 DEF Range

\* The elements of two lists put together.
LEMMA RangeOfConcat ==
  ASSUME NEW S, NEW s \in Seq(S), NEW t \in Seq(S)
  PROVE  Range(s \o t) = Range(s) \cup Range(t)
  <1>1. /\ s \o t \in Seq(S)
        /\ Len(s \o t) = Len(s) + Len(t)
        /\ \A i \in 1 .. Len(s) + Len(t) :
             (s \o t)[i] = IF i <= Len(s) THEN s[i] ELSE t[i - Len(s)]
    BY ConcatProperties
  <1>2. /\ DOMAIN s = 1 .. Len(s) /\ DOMAIN t = 1 .. Len(t)
        /\ DOMAIN (s \o t) = 1 .. Len(s) + Len(t)
        /\ Len(s) \in Nat /\ Len(t) \in Nat
    BY <1>1, LenProperties
  <1>3. Range(s \o t) \subseteq Range(s) \cup Range(t)
    BY <1>1, <1>2 DEF Range
  <1>4. Range(s) \subseteq Range(s \o t)
    BY <1>1, <1>2 DEF Range
  <1>5. ASSUME NEW j \in 1 .. Len(t) PROVE t[j] \in Range(s \o t)
    <2>1. /\ Len(s) + j \in 1 .. Len(s) + Len(t)
          /\ (s \o t)[Len(s) + j] = t[j]
      BY <1>1, <1>2
    <2> QED BY <1>2, <2>1 DEF Range
  <1>6. Range(t) \subseteq Range(s \o t)
    BY <1>2, <1>5 DEF Range
  <1> QED BY <1>3, <1>4, <1>6

\* The first element of a list and the rest of it.
LEMMA RangeOfTail ==
  ASSUME NEW S, NEW s \in Seq(S), s # <<>>
  PROVE  Range(s) = {Head(s)} \cup Range(Tail(s))
  <1>1. /\ Tail(s) \in Seq(S)
        /\ Len(Tail(s)) = Len(s) - 1
        /\ \A i \in 1 .. Len(Tail(s)) : Tail(s)[i] = s[i + 1]
    BY HeadTailProperties
  <1>2. /\ DOMAIN s = 1 .. Len(s) /\ DOMAIN Tail(s) = 1 .. Len(s) - 1
        /\ Len(s) \in Nat \ {0} /\ Head(s) = s[1]
    BY <1>1, LenProperties, EmptySeq
  <1>3. Range(s) \subseteq {s[1]} \cup Range(Tail(s))
    <2> SUFFICES ASSUME NEW i \in 1 .. Len(s), i # 1
                 PROVE  s[i] \in Range(Tail(s))
      BY <1>2 DEF Range
    <2>1. i - 1 \in 1 .. Len(s) - 1 /\ Tail(s)[i - 1] = s[i]
      BY <1>1, <1>2
    <2> QED BY <1>2, <2>1 DEF Range
  <1>4. Range(Tail(s)) \subseteq Range(s)
    <2> SUFFICES ASSUME NEW i \in 1 .. Len(s) - 1
                 PROVE  Tail(s)[i] \in Range(s)
      BY <1>2 DEF Range
    <2> QED BY <1>1, <1>2 DEF Range
  <1>5. s[1] \in Range(s)
    BY <1>2 DEF Range
  <1> QED BY <1>2, <1>3, <1>4, <1>5

\* The elements of a list are of its type.
LEMMA RangeInSet ==
  ASSUME NEW S, NEW s \in Seq(S)
  PROVE  Range(s) \subseteq S
  BY LenProperties, ElementOfSeq DEF Range

\* A list is its first k elements and the others.
LEMMA RangeOfParts ==
  ASSUME NEW S, NEW s \in Seq(S), NEW k \in 0 .. Len(s)
  PROVE  /\ SubSeq(s, 1, k) \in Seq(S)
         /\ SubSeq(s, k + 1, Len(s)) \in Seq(S)
         /\ Range(s) = Range(SubSeq(s, 1, k)) \cup Range(SubSeq(s, k + 1, Len(s)))
  <1>1. Len(s) \in Nat /\ k \in Nat /\ \A i \in 1 .. Len(s) : s[i] \in S
    BY LenProperties, ElementOfSeq
  <1>2. SubSeq(s, 1, k) \in Seq(S)
    <2>1. 1 \in Int /\ k \in Int /\ \A i \in 1 .. k : s[i] \in S
      BY <1>1
    <2> QED BY <2>1, SubSeqProperties
  <1>3. SubSeq(s, k + 1, Len(s)) \in Seq(S)
    <2>1. k + 1 \in Int /\ Len(s) \in Int /\ \A i \in k + 1 .. Len(s) : s[i] \in S
      BY <1>1
    <2> QED BY <2>1, SubSeqProperties
  <1>4. SubSeq(s, 1, k) \o SubSeq(s, k + 1, Len(s)) = s
    <2>1. /\ 1 \in 1 .. Len(s) + 1
          /\ k \in 1 - 1 .. Len(s)
          /\ Len(s) \in k .. Len(s)
      BY <1>1
    <2> QED BY <2>1, ConcatAdjacentSubSeq, SubSeqFull
  <1> DEFINE front == SubSeq(s, 1, k)
             rest == SubSeq(s, k + 1, Len(s))
  <1>5. front \in Seq(S) /\ rest \in Seq(S) /\ front \o rest = s
    BY <1>2, <1>3, <1>4
  <1> HIDE DEF front, rest
  <1>6. Range(s) = Range(front) \cup Range(rest)
    BY <1>5, RangeOfConcat
  <1> QED BY <1>2, <1>3, <1>6 DEF front, rest

-----------------------------------------------------------------------------
(* The order                                                               *)

\* The numbers of a list of numbered things grow.
Ascending(s) == \A i, j \in DOMAIN s : i < j => s[i].seq < s[j].seq

\* Everything in s has a smaller number than everything in t.
Before(s, t) == \A a \in Range(s), b \in Range(t) : a.seq < b.seq

\* The first of an ordered list comes before the others.
LEMMA OrderOfTail ==
  ASSUME NEW S, NEW s \in Seq(S), s # <<>>, Ascending(s)
  PROVE  /\ Ascending(Tail(s))
         /\ \A b \in Range(Tail(s)) : Head(s).seq < b.seq
  <1>1. /\ Len(s) \in Nat \ {0} /\ DOMAIN s = 1 .. Len(s) /\ Head(s) = s[1]
        /\ Tail(s) \in Seq(S) /\ Len(Tail(s)) = Len(s) - 1
        /\ DOMAIN Tail(s) = 1 .. Len(s) - 1
        /\ \A i \in 1 .. Len(s) - 1 : Tail(s)[i] = s[i + 1]
    BY LenProperties, EmptySeq, HeadTailProperties
  <1>2. Ascending(Tail(s))
    <2> SUFFICES ASSUME NEW i \in 1 .. Len(s) - 1, NEW j \in 1 .. Len(s) - 1, i < j
                 PROVE  Tail(s)[i].seq < Tail(s)[j].seq
      BY <1>1 DEF Ascending
    <2>1. i + 1 \in DOMAIN s /\ j + 1 \in DOMAIN s /\ i + 1 < j + 1
      BY <1>1
    <2> QED BY <1>1, <2>1 DEF Ascending
  <1>3. ASSUME NEW b \in Range(Tail(s)) PROVE Head(s).seq < b.seq
    <2>1. PICK i \in 1 .. Len(s) - 1 : b = s[i + 1]
      BY <1>1 DEF Range
    <2>2. 1 \in DOMAIN s /\ i + 1 \in DOMAIN s /\ 1 < i + 1
      BY <1>1
    <2> QED BY <1>1, <2>1, <2>2 DEF Ascending
  <1> QED BY <1>2, <1>3

\* One more at the end.
LEMMA OrderOfAppend ==
  ASSUME NEW S, NEW s \in Seq(S), NEW e \in S, Ascending(s),
         \A a \in Range(s) : a.seq < e.seq
  PROVE  Ascending(Append(s, e))
  <1>1. /\ Len(s) \in Nat /\ DOMAIN s = 1 .. Len(s)
        /\ Append(s, e) \in Seq(S) /\ DOMAIN Append(s, e) = 1 .. Len(s) + 1
        /\ \A i \in 1 .. Len(s) : Append(s, e)[i] = s[i]
        /\ Append(s, e)[Len(s) + 1] = e
    BY AppendProperties, LenProperties
  <1> SUFFICES ASSUME NEW i \in 1 .. Len(s) + 1, NEW j \in 1 .. Len(s) + 1, i < j
               PROVE  Append(s, e)[i].seq < Append(s, e)[j].seq
    BY <1>1 DEF Ascending
  <1>2. i \in DOMAIN s /\ s[i] \in Range(s)
    BY <1>1 DEF Range
  <1>3. CASE j = Len(s) + 1
    BY <1>1, <1>2, <1>3
  <1>4. CASE j # Len(s) + 1
    BY <1>1, <1>2, <1>4 DEF Ascending
  <1> QED BY <1>3, <1>4

\* Two lists, one after the other.
LEMMA OrderOfConcat ==
  ASSUME NEW S, NEW s \in Seq(S), NEW t \in Seq(S),
         Ascending(s), Ascending(t), Before(s, t)
  PROVE  Ascending(s \o t)
  <1>1. /\ Len(s) \in Nat /\ DOMAIN s = 1 .. Len(s)
        /\ Len(t) \in Nat /\ DOMAIN t = 1 .. Len(t)
        /\ s \o t \in Seq(S) /\ DOMAIN (s \o t) = 1 .. Len(s) + Len(t)
        /\ \A i \in 1 .. Len(s) + Len(t) :
             (s \o t)[i] = IF i <= Len(s) THEN s[i] ELSE t[i - Len(s)]
    BY ConcatProperties, LenProperties
  <1> SUFFICES ASSUME NEW i \in 1 .. Len(s) + Len(t), NEW j \in 1 .. Len(s) + Len(t),
                      i < j
               PROVE  (s \o t)[i].seq < (s \o t)[j].seq
    BY <1>1 DEF Ascending
  <1>2. CASE j <= Len(s)
    BY <1>1, <1>2 DEF Ascending
  <1>3. CASE i > Len(s)
    <2>1. i - Len(s) \in DOMAIN t /\ j - Len(s) \in DOMAIN t /\ i - Len(s) < j - Len(s)
      BY <1>1, <1>3
    <2> QED BY <1>1, <1>3, <2>1 DEF Ascending
  <1>4. CASE i <= Len(s) /\ j > Len(s)
    <2>1. i \in DOMAIN s /\ j - Len(s) \in DOMAIN t
      BY <1>1, <1>4
    <2>2. s[i] \in Range(s) /\ t[j - Len(s)] \in Range(t)
      BY <2>1 DEF Range
    <2>3. s[i].seq < t[j - Len(s)].seq
      BY <2>2 DEF Before
    <2>4. (s \o t)[i] = s[i] /\ (s \o t)[j] = t[j - Len(s)]
      BY <1>1, <1>4
    <2> QED BY <2>3, <2>4
  <1> QED BY <1>1, <1>2, <1>3, <1>4

\* The first k of an ordered list.
LEMMA OrderOfPart ==
  ASSUME NEW S, NEW s \in Seq(S), NEW k \in 0 .. Len(s), Ascending(s)
  PROVE  Ascending(SubSeq(s, 1, k))
  <1>1. Len(s) \in Nat /\ DOMAIN s = 1 .. Len(s) /\ k \in Nat
    BY LenProperties
  <1>2. /\ SubSeq(s, 1, k) \in Seq(S) /\ Len(SubSeq(s, 1, k)) = k
        /\ \A i \in 1 .. k : SubSeq(s, 1, k)[i] = s[i]
    <2>1. 1 \in Int /\ k \in Int /\ \A i \in 1 .. k : s[i] \in S
      BY <1>1, ElementOfSeq
    <2>2. /\ SubSeq(s, 1, k) \in Seq(S)
          /\ Len(SubSeq(s, 1, k)) = IF 1 <= k THEN k - 1 + 1 ELSE 0
          /\ \A i \in 1 .. k - 1 + 1 : SubSeq(s, 1, k)[i] = s[1 + i - 1]
      BY <2>1, SubSeqProperties
    <2> QED BY <1>1, <2>2
  <1>3. DOMAIN SubSeq(s, 1, k) = 1 .. k
    BY <1>2, LenProperties
  <1> QED BY <1>1, <1>2, <1>3 DEF Ascending

-----------------------------------------------------------------------------
(* Sequences put together                                                  *)

\* Sequences put together one after the other.
Chained(parts, xs, n) ==
  parts = [i \in 1 .. n |-> IF i = 1 THEN xs[i] ELSE parts[i - 1] \o xs[i]]

\* The sequences before i and the i-th make those before i + 1; this determines all.
LEMMA FirstOfChain ==
  ASSUME NEW xs, NEW n \in Nat, n > 0, NEW parts, Chained(parts, xs, n)
  PROVE  parts[1] = xs[1]
  <1>1. 1 \in 1 .. n
    OBVIOUS
  <1> QED BY <1>1 DEF Chained

LEMMA NextOfChain ==
  ASSUME NEW xs, NEW n \in Nat, n > 0, NEW parts, Chained(parts, xs, n),
         NEW i \in 1 .. n, NEW j \in 1 .. n, j = i + 1
  PROVE  parts[j] = parts[i] \o xs[j]
  <1> DEFINE Part(k) == IF k = 1 THEN xs[k] ELSE parts[k - 1] \o xs[k]
  <1>1. parts[j] = Part(j)
    <2>1. parts = [k \in 1 .. n |-> Part(k)]
      BY DEF Chained
    <2> HIDE DEF Part
    <2> QED BY <2>1
  <1>2. j # 1 /\ j - 1 = i
    OBVIOUS
  <1> QED BY <1>1, <1>2

LEMMA ChainOfParts ==
  ASSUME NEW xs, NEW n \in Nat, n > 0, NEW parts, parts = [i \in 1 .. n |-> parts[i]],
         parts[1] = xs[1], \A i, j \in 1 .. n : j = i + 1 => parts[j] = parts[i] \o xs[j]
  PROVE  Chained(parts, xs, n)
  <1> DEFINE Part(i) == IF i = 1 THEN xs[i] ELSE parts[i - 1] \o xs[i]
  <1>1. ASSUME NEW j \in 1 .. n PROVE parts[j] = Part(j)
    <2>1. CASE j = 1
      BY <2>1
    <2>2. CASE j # 1
      <3> DEFINE i == j - 1
      <3>1. i \in 1 .. n /\ j = i + 1
        BY <2>2
      <3>2. Part(j) = parts[i] \o xs[j]
        BY <2>2
      <3> HIDE DEF i, Part
      <3> QED BY <3>1, <3>2
    <2> QED BY <2>1, <2>2
  <1>2. parts = [i \in 1 .. n |-> Part(i)]
    <2> HIDE DEF Part
    <2> QED BY <1>1
  <1> QED BY <1>2 DEF Chained

\* FlattenSeq has such a chain, as it is the fold of one.
LEMMA Flattened ==
  ASSUME NEW xs, NEW n \in Nat, n > 0, Len(xs) = n, NEW witness, Chained(witness, xs, n)
  PROVE  \E parts : Chained(parts, xs, n) /\ FlattenSeq(xs) = parts[n]
  <1> DEFINE Body(g) == [i \in 1 .. n |-> IF i = 1 THEN xs[i] ELSE g[i - 1] \o xs[i]]
             flatten == CHOOSE g : g = Body(g)
  <1>1. FlattenSeq(xs) = flatten[n]
    BY DEF FlattenSeq
  <1>2. flatten = Body(flatten)
    <2>1. witness = Body(witness)
      BY DEF Chained
    <2> HIDE DEF Body
    <2> QED BY <2>1
  <1> HIDE DEF flatten
  <1>3. Chained(flatten, xs, n)
    BY <1>2 DEF Chained
  <1> QED BY <1>1, <1>3

\* It is the only one.
LEMMA ChainsAreOne ==
  ASSUME NEW xs, NEW n \in Nat, n > 0,
         NEW f, Chained(f, xs, n), NEW g, Chained(g, xs, n)
  PROVE  \A c \in 1 .. n : f[c] = g[c]
  <1> DEFINE S == {c \in 0 .. n : c # 0 => f[c] = g[c]}
  <1>1. 0 \in S
    OBVIOUS
  <1>2. ASSUME NEW c \in 0 .. n - 1, c \in S PROVE c + 1 \in S
    <2> DEFINE j == c + 1
    <2>1. j \in 1 .. n /\ j \in 0 .. n /\ j = c + 1
      OBVIOUS
    <2> HIDE DEF j
    <2>2. f[j] = g[j]
      <3>1. CASE c = 0
        <4>1. j = 1
          BY <2>1, <3>1
        <4> QED BY <4>1, FirstOfChain
      <3>2. CASE c # 0
        <4>1. c \in 1 .. n /\ f[c] = g[c]
          BY <1>2, <3>2
        <4>2. f[j] = f[c] \o xs[j]
          BY <2>1, <4>1, NextOfChain
        <4>3. g[j] = g[c] \o xs[j]
          BY <2>1, <4>1, NextOfChain
        <4> QED BY <4>1, <4>2, <4>3
      <3> QED BY <3>1, <3>2
    <2> QED BY <2>1, <2>2 DEF j
  <1>3. \A c \in 0 .. n : c \in S
    <2> HIDE DEF S
    <2> QED BY <1>1, <1>2, Induction
  <1> QED BY <1>3

\* Any sequences can be put together, and this is what FlattenSeq does.
LEMMA ChainExists ==
  ASSUME NEW S, NEW n \in Nat, n > 0, NEW xs, \A i \in 1 .. n : xs[i] \in Seq(S)
  PROVE  \E parts : Chained(parts, xs, n) /\ \A i \in 1 .. n : parts[i] \in Seq(S)
  <1> DEFINE step == [p \in Seq(S) \X (1 .. n) |-> p[1] \o xs[p[2]]]
  <1>1. step \in [Seq(S) \X (1 .. n) -> Seq(S)]
    <2>1. ASSUME NEW p \in Seq(S) \X (1 .. n) PROVE p[1] \o xs[p[2]] \in Seq(S)
      <3>1. p[1] \in Seq(S) /\ p[2] \in 1 .. n
        OBVIOUS
      <3>2. xs[p[2]] \in Seq(S)
        BY <3>1
      <3> QED BY <3>1, <3>2, ConcatProperties
    <2> QED BY <2>1
  <1>2. <<>> \in Seq(S)
    OBVIOUS
  <1>3. PICK f : Follows(f, Seq(S), <<>>, n, step)
    <2> HIDE DEF step
    <2> QED BY <1>1, <1>2, Recursion
  <1> DEFINE parts == [i \in 1 .. n |-> f[i]]
  <1>4. f[0] = <<>> /\ \A i \in 0 .. n : f[i] \in Seq(S)
    <2> HIDE DEF step
    <2> QED BY <1>3 DEF Follows
  <1>5. ASSUME NEW i \in 1 .. n PROVE f[i] = f[i - 1] \o xs[i]
    <2>1. f[i] = step[<<f[i - 1], i>>] /\ i - 1 \in 0 .. n
      <3> HIDE DEF step
      <3> QED BY <1>3 DEF Follows
    <2>2. <<f[i - 1], i>> \in Seq(S) \X (1 .. n)
      BY <1>4, <2>1
    <2>3. step[<<f[i - 1], i>>] = f[i - 1] \o xs[i]
      BY <2>2
    <2> QED BY <2>1, <2>3
  <1>6. parts[1] = xs[1]
    <2>1. 1 \in 1 .. n /\ 1 - 1 = 0
      OBVIOUS
    <2>2. f[1] = <<>> \o xs[1]
      BY <1>4, <1>5, <2>1
    <2>3. xs[1] \in Seq(S)
      BY <2>1
    <2>4. <<>> \o xs[1] = xs[1]
      BY <2>3, ConcatEmptySeq
    <2> QED BY <2>1, <2>2, <2>4
  <1>7. ASSUME NEW i \in 1 .. n, NEW j \in 1 .. n, j = i + 1 PROVE parts[j] = parts[i] \o xs[j]
    <2>1. j - 1 = i
      BY <1>7
    <2> QED BY <1>5, <2>1
  <1>8. parts = [i \in 1 .. n |-> parts[i]] /\ \A i \in 1 .. n : parts[i] \in Seq(S)
    <2>1. \A i \in 1 .. n : i \in 0 .. n
      OBVIOUS
    <2> QED BY <1>4, <2>1
  <1> HIDE DEF parts
  <1>9. Chained(parts, xs, n)
    BY <1>6, <1>7, <1>8, ChainOfParts
  <1> QED BY <1>8, <1>9

=============================================================================
