--------------------------- MODULE SequenceLemmas ---------------------------
(***************************************************************************)
(* Sequences and numbers: what the proofs about generators and about       *)
(* rendering need of FlattenSeq, and of the least and the last of some     *)
(* numbers.                                                                *)
(***************************************************************************)
EXTENDS Integers, SequencesExt, SequenceTheorems, WellFoundedInduction, TLAPS

\* A function on the first numbers is a sequence of its own values.
LEMMA FunctionIsSequence ==
  ASSUME NEW n \in Nat, NEW f, f = [i \in 1 .. n |-> f[i]]
  PROVE  f \in Seq(Range(f)) /\ Len(f) = n /\ DOMAIN f = 1 .. n
<1>1. f \in [1 .. n -> Range(f)]
  BY DEF Range
<1>2. f \in Seq(Range(f))
  BY <1>1, SeqDef
<1>3. QED  BY <1>1, <1>2, LenProperties

\* A sequence is a sequence of its own values, so that it has a length.
LEMMA SequenceOfRange ==
  ASSUME NEW S, NEW s \in Seq(S)
  PROVE  s \in Seq(Range(s)) /\ Range(s) \subseteq S
<1>1. s \in [1 .. Len(s) -> S] /\ Len(s) \in Nat
  BY LenProperties
<1>2. QED  BY <1>1, FunctionIsSequence DEF Range

\* Numbers that are some have a least one.
LEMMA LeastOf ==
  ASSUME NEW T, T \subseteq Nat, T # {}
  PROVE  \E least \in T : \A i \in T : least <= i
<1> DEFINE R == OpToRel(<, Nat)
<1>1. \A i, j \in Nat : i < j => <<i, j>> \in R
  BY DEF OpToRel
<1>2. IsWellFoundedOn(R, Nat)
  BY NatLessThanWellFounded, Zenon
<1> HIDE DEF R
<1>3. \E least \in T : \A i \in T : ~(<<i, least>> \in R)
  BY <1>2, WFMin, Zenon
<1>4. PICK least \in T : \A i \in T : ~(<<i, least>> \in R)
  BY <1>3, Zenon
<1>5. ASSUME NEW i \in T PROVE least <= i
  <2>1. i \in Nat /\ least \in Nat
    OBVIOUS
  <2>2. ~(i < least)
    BY <1>1, <1>4, <2>1, Zenon
  <2>3. QED  BY <2>1, <2>2
<1>6. QED  BY <1>5, Zenon

\* Indexes that are some have a last one.
LEMMA LastOf ==
  ASSUME NEW n \in Nat, NEW S, S \subseteq 1 .. n, S # {}
  PROVE  Max(S) \in S /\ \A j \in S : j <= Max(S)
<1>1. ASSUME NEW j \in S PROVE n - j \in Nat
  OBVIOUS
<1>2. PICK least \in {n - j : j \in S} : \A i \in {n - j : j \in S} : least <= i
  <2> DEFINE T == {n - j : j \in S}
  <2>1. T \subseteq Nat /\ T # {}
    BY <1>1
  <2> HIDE DEF T
  <2>2. \E least \in T : \A i \in T : least <= i
    BY <2>1, LeastOf
  <2>3. QED  BY <2>2 DEF T
<1>3. PICK last \in S : least = n - last
  BY <1>2
<1>4. ASSUME NEW j \in S PROVE last >= j
  <2>1. least <= n - j
    BY <1>2
  <2>2. QED  BY <1>3, <2>1
<1>5. Max(S) \in S /\ \A j \in S : Max(S) >= j
  BY <1>4 DEF Max
<1>6. QED  BY <1>5

-----------------------------------------------------------------------------
(* Flattening a sequence of sequences adds the last one to the others. *)

\* What FlattenSeq makes of the first sequences, one by one.
Flattens(f, s, n) ==
  f = [i \in 1 .. n |-> IF i = 1 THEN s[i] ELSE f[i - 1] \o s[i]]

LEMMA FlattensOnce ==
  ASSUME NEW n \in Nat, NEW s, NEW f, NEW h, Flattens(f, s, n), Flattens(h, s, n)
  PROVE  f = h
<1> DEFINE T == {i \in 1 .. n : f[i] # h[i]}
<1>1. ASSUME T # {} PROVE FALSE
  <2>1. PICK least \in T : \A i \in T : least <= i
    <3>1. T \subseteq Nat
      OBVIOUS
    <3> QED BY <1>1, <3>1, LeastOf, Zenon
  <2>2. /\ f[least] = IF least = 1 THEN s[least] ELSE f[least - 1] \o s[least]
        /\ h[least] = IF least = 1 THEN s[least] ELSE h[least - 1] \o s[least]
    BY Zenon DEF Flattens
  <2>3. least # 1 => f[least - 1] = h[least - 1]
    BY <2>1
  <2> QED BY <2>2, <2>3
<1>2. \A i \in 1 .. n : f[i] = h[i]
  BY <1>1
<1> QED BY <1>2 DEF Flattens

LEMMA FlattensSome ==
  ASSUME NEW n \in Nat, NEW s
  PROVE  \E f : Flattens(f, s, n)
<1> DEFINE T == {m \in Nat : ~ \E f : Flattens(f, s, m)}
<1>1. ASSUME T # {} PROVE FALSE
  <2>1. PICK m \in T : \A i \in T : m <= i
    BY <1>1, LeastOf
  <2>2. CASE m = 0
    <3> DEFINE f == [i \in 1 .. 0 |-> s[i]]
    <3>1. f = [i \in 1 .. 0 |-> IF i = 1 THEN s[i] ELSE f[i - 1] \o s[i]]
      OBVIOUS
    <3> QED BY <3>1, <2>2, Zenon DEF Flattens
  <2>3. CASE m # 0
    <3>1. m - 1 \in Nat /\ m - 1 \notin T
      BY <2>1, <2>3
    <3>2. PICK f : Flattens(f, s, m - 1)
      BY <3>1
    <3> DEFINE h == [i \in 1 .. m |-> IF i < m THEN f[i] ELSE IF m = 1 THEN s[m] ELSE f[m - 1] \o s[m]]
    <3>3. ASSUME NEW i \in 1 .. m PROVE h[i] = IF i = 1 THEN s[i] ELSE h[i - 1] \o s[i]
      <4>1. CASE i < m
        <5>1. i \in 1 .. m - 1 /\ h[i] = f[i]
          BY <4>1, <2>1
        <5>2. f[i] = IF i = 1 THEN s[i] ELSE f[i - 1] \o s[i]
          BY <3>2, <5>1, Zenon DEF Flattens
        <5>3. i # 1 => h[i - 1] = f[i - 1]
          BY <4>1, <2>1
        <5> QED BY <5>1, <5>2, <5>3, Zenon
      <4>2. CASE i = m
        BY <4>2
      <4> QED BY <4>1, <4>2
    <3>4. Flattens(h, s, m)
      BY <3>3 DEF Flattens
    <3> QED BY <3>4, Zenon
  <2> QED BY <2>2, <2>3
<1> QED BY <1>1

LEMMA FlattenNone ==
  ASSUME NEW S PROVE FlattenSeq([i \in 1 .. 0 |-> S[i]]) = <<>>
BY DEF FlattenSeq

LEMMA FlattenIsLast ==
  ASSUME NEW n \in Nat, n # 0, NEW s, Len(s) = n, NEW f, Flattens(f, s, n)
  PROVE  FlattenSeq(s) = f[n]
<1>1. (CHOOSE h : Flattens(h, s, n)) = f
  BY FlattensOnce, Zenon
<1>2. FlattenSeq(s) = (CHOOSE h : Flattens(h, s, n))[n]
  BY DEF FlattenSeq, Flattens
<1> QED BY <1>1, <1>2

LEMMA FlattenAppend ==
  ASSUME NEW n \in Nat, NEW s, s = [i \in 1 .. n + 1 |-> s[i]], NEW S, s[n + 1] \in Seq(S)
  PROVE  FlattenSeq(s) = FlattenSeq([i \in 1 .. n |-> s[i]]) \o s[n + 1]
<1> DEFINE r == [i \in 1 .. n |-> s[i]]
<1>1. Len(s) = n + 1 /\ Len(r) = n
  <2>1. r = [i \in 1 .. n |-> r[i]]
    OBVIOUS
  <2> HIDE DEF r
  <2> QED BY <2>1, FunctionIsSequence
<1>2. PICK f : Flattens(f, s, n + 1)
  <2>1. n + 1 \in Nat
    OBVIOUS
  <2> QED BY <2>1, FlattensSome, Zenon
<1>3. FlattenSeq(s) = f[n + 1]
  BY <1>1, <1>2, FlattenIsLast
<1>4. CASE n = 0
  <2>1. f[1] = s[1]
    BY <1>2, <1>4 DEF Flattens
  <2>2. FlattenSeq(r) = <<>>
    BY <1>1, <1>4 DEF FlattenSeq
  <2> QED BY <1>3, <1>4, <2>1, <2>2
<1>5. CASE n # 0
  <2> DEFINE h == [i \in 1 .. n |-> f[i]]
  <2>1. Flattens(h, r, n)
    <3>1. ASSUME NEW i \in 1 .. n PROVE h[i] = IF i = 1 THEN r[i] ELSE h[i - 1] \o r[i]
      <4>1. i \in 1 .. n + 1
        OBVIOUS
      <4>2. f[i] = IF i = 1 THEN s[i] ELSE f[i - 1] \o s[i]
        BY <1>2, <4>1, Zenon DEF Flattens
      <4>3. i # 1 => h[i - 1] = f[i - 1]
        OBVIOUS
      <4> QED BY <4>2, <4>3, Zenon
    <3> QED BY <3>1, Zenon DEF Flattens
  <2>2. FlattenSeq(r) = f[n]
    BY <1>1, <1>5, <2>1, FlattenIsLast
  <2>3. f[n + 1] = f[n] \o s[n + 1]
    <3>1. n + 1 \in 1 .. n + 1 /\ n + 1 # 1 /\ (n + 1) - 1 = n
      BY <1>5
    <3>2. f[n + 1] = IF n + 1 = 1 THEN s[n + 1] ELSE f[(n + 1) - 1] \o s[n + 1]
      BY <1>2, <3>1, Zenon DEF Flattens
    <3> QED BY <3>1, <3>2
  <2> QED BY <1>3, <2>2, <2>3
<1> QED BY <1>4, <1>5

-----------------------------------------------------------------------------
(* Lists of lists. *)

IsList(s) == s \in Seq(Range(s))

LEMMA ListLength ==
  ASSUME NEW s, IsList(s)
  PROVE  /\ Len(s) \in Nat /\ DOMAIN s = 1 .. Len(s)
         /\ s = [i \in 1 .. Len(s) |-> s[i]]
         /\ (s = <<>> <=> Len(s) = 0)
<1>1. Len(s) \in Nat /\ DOMAIN s = 1 .. Len(s) /\ s \in [1 .. Len(s) -> Range(s)]
  BY LenProperties DEF IsList
<1>2. s = <<>> <=> Len(s) = 0
  BY EmptySeq DEF IsList
<1> QED BY <1>1, <1>2

LEMMA ListIsSequence ==
  ASSUME NEW n \in Nat, NEW s, s = [i \in 1 .. n |-> s[i]]
  PROVE  IsList(s) /\ Len(s) = n
BY FunctionIsSequence DEF IsList

LEMMA ConcatLists ==
  ASSUME NEW s, NEW t, IsList(s), IsList(t)
  PROVE  /\ IsList(s \o t) /\ Len(s \o t) = Len(s) + Len(t)
         /\ \A i \in 1 .. Len(s) : (s \o t)[i] = s[i]
         /\ \A i \in 1 .. Len(t) : (s \o t)[Len(s) + i] = t[i]
<1> DEFINE S == Range(s) \cup Range(t)
<1>1. s \in Seq(S) /\ t \in Seq(S)
  BY SeqMonotonic DEF IsList
<1> HIDE DEF S
<1>2. Len(s) \in Nat /\ Len(t) \in Nat
  BY ListLength
<1>3. /\ s \o t \in Seq(S) /\ Len(s \o t) = Len(s) + Len(t)
      /\ \A i \in 1 .. Len(s) + Len(t) : (s \o t)[i] = IF i <= Len(s) THEN s[i] ELSE t[i - Len(s)]
  BY <1>1, ConcatProperties
<1>4. IsList(s \o t)
  BY <1>3, SequenceOfRange DEF IsList
<1>5. \A i \in 1 .. Len(s) : (s \o t)[i] = s[i]
  BY <1>2, <1>3
<1>6. ASSUME NEW i \in 1 .. Len(t) PROVE (s \o t)[Len(s) + i] = t[i]
  <2>1. Len(s) + i \in 1 .. Len(s) + Len(t) /\ ~(Len(s) + i <= Len(s)) /\ Len(s) + i - Len(s) = i
    BY <1>2
  <2> QED BY <1>3, <2>1
<1> QED BY <1>3, <1>4, <1>5, <1>6

LEMMA ConcatNothing ==
  ASSUME NEW s, IsList(s)
  PROVE  s \o <<>> = s /\ <<>> \o s = s
BY ConcatEmptySeq DEF IsList

LEMMA ConcatRegroups ==
  ASSUME NEW s, NEW t, NEW u, IsList(s), IsList(t), IsList(u)
  PROVE  (s \o t) \o u = s \o (t \o u)
<1> DEFINE S == Range(s) \cup Range(t) \cup Range(u)
<1>1. s \in Seq(S) /\ t \in Seq(S) /\ u \in Seq(S)
  BY SeqMonotonic DEF IsList
<1> HIDE DEF S
<1> QED BY <1>1, ConcatAssociative

\* What the first lists of some give together.
Flattened(s, m) == FlattenSeq([i \in 1 .. m |-> s[i]])

LEMMA FlattenedStep ==
  ASSUME NEW m \in Nat, NEW s, IsList(s[m + 1])
  PROVE  Flattened(s, m + 1) = Flattened(s, m) \o s[m + 1]
<1> DEFINE r == [i \in 1 .. m + 1 |-> s[i]]
<1>1. /\ r = [i \in 1 .. m + 1 |-> r[i]] /\ r[m + 1] = s[m + 1]
      /\ [i \in 1 .. m |-> r[i]] = [i \in 1 .. m |-> s[i]]
  OBVIOUS
<1>2. r[m + 1] \in Seq(Range(s[m + 1]))
  BY <1>1 DEF IsList
<1>3. FlattenSeq(r) = FlattenSeq([i \in 1 .. m |-> r[i]]) \o r[m + 1]
  <2> HIDE DEF r
  <2> QED BY <1>1, <1>2, FlattenAppend
<1> QED BY <1>1, <1>3 DEF Flattened

LEMMA FlattenedNone ==
  ASSUME NEW s PROVE Flattened(s, 0) = <<>>
<1>1. Flattened(s, 0) = FlattenSeq([i \in 1 .. 0 |-> s[i]])
  BY DEF Flattened
<1> QED BY <1>1, FlattenNone

LEMMA FlattenedIsList ==
  ASSUME NEW n \in Nat, NEW s, \A i \in 1 .. n : IsList(s[i])
  PROVE  IsList(Flattened(s, n))
<1> DEFINE T == {m \in 0 .. n : ~IsList(Flattened(s, m))}
<1>1. ASSUME T # {} PROVE FALSE
  <2>1. T \subseteq Nat
    OBVIOUS
  <2>2. PICK m \in T : \A i \in T : m <= i
    <3> HIDE DEF T
    <3> QED BY <1>1, <2>1, LeastOf, Zenon
  <2>3. CASE m = 0
    <3>1. IsList(<<>>)
      BY EmptySeq DEF IsList
    <3> QED BY <2>2, <2>3, <3>1, FlattenedNone
  <2>4. CASE m # 0
    <3>1. m - 1 \in Nat /\ m - 1 \notin T /\ m - 1 \in 0 .. n /\ (m - 1) + 1 = m /\ m \in 1 .. n
      BY <2>2, <2>4
    <3>2. IsList(Flattened(s, m - 1)) /\ IsList(s[m])
      BY <3>1
    <3>3. Flattened(s, m) = Flattened(s, m - 1) \o s[m]
      BY <3>1, <3>2, FlattenedStep
    <3>4. IsList(Flattened(s, m - 1) \o s[m])
      BY <3>2, ConcatLists, Zenon
    <3>5. ~IsList(Flattened(s, m))
      BY <2>2
    <3> QED BY <3>3, <3>4, <3>5, Zenon
  <2> QED BY <2>3, <2>4
<1> QED BY <1>1

\* What the first ones give is where all of them begin.
LEMMA FlattenedPrefix ==
  ASSUME NEW n \in Nat, NEW s, \A i \in 1 .. n : IsList(s[i]), NEW m \in 0 .. n
  PROVE  /\ Len(Flattened(s, m)) <= Len(Flattened(s, n))
         /\ \A p \in 1 .. Len(Flattened(s, m)) : Flattened(s, n)[p] = Flattened(s, m)[p]
<1> DEFINE Begins(k) == /\ Len(Flattened(s, m)) <= Len(Flattened(s, k))
                        /\ \A p \in 1 .. Len(Flattened(s, m)) : Flattened(s, k)[p] = Flattened(s, m)[p]
           T == {k \in m .. n : ~Begins(k)}
<1>1. \A k \in 0 .. n : IsList(Flattened(s, k)) /\ Len(Flattened(s, k)) \in Nat
  BY FlattenedIsList, ListLength
<1>2. ASSUME T # {} PROVE FALSE
  <2>1. T \subseteq Nat
    OBVIOUS
  <2>2. PICK k \in T : \A i \in T : k <= i
    <3> HIDE DEF T
    <3> QED BY <1>2, <2>1, LeastOf, Zenon
  <2>3. CASE k = m
    BY <1>1, <2>2, <2>3
  <2>4. CASE k # m
    <3>1. k - 1 \in Nat /\ k - 1 \notin T /\ k - 1 \in m .. n /\ (k - 1) + 1 = k /\ k \in 1 .. n
      BY <2>2, <2>4
    <3>2. Begins(k - 1)
      BY <3>1
    <3>3. Flattened(s, k) = Flattened(s, k - 1) \o s[k]
      BY <3>1, FlattenedStep
    <3>4. /\ Len(Flattened(s, k)) = Len(Flattened(s, k - 1)) + Len(s[k])
          /\ \A p \in 1 .. Len(Flattened(s, k - 1)) : Flattened(s, k)[p] = Flattened(s, k - 1)[p]
          /\ Len(s[k]) \in Nat /\ Len(Flattened(s, k - 1)) \in Nat /\ Len(Flattened(s, m)) \in Nat
      BY <1>1, <3>1, <3>3, ConcatLists, ListLength
    <3>5. Len(Flattened(s, m)) <= Len(Flattened(s, k))
      <4>1. Len(Flattened(s, m)) <= Len(Flattened(s, k - 1))
        BY <3>2
      <4>2. Len(Flattened(s, k)) = Len(Flattened(s, k - 1)) + Len(s[k])
        BY <3>4
      <4>3. Len(s[k]) \in Nat /\ Len(Flattened(s, k - 1)) \in Nat /\ Len(Flattened(s, m)) \in Nat
        BY <3>4
      <4>4. \A a, b, d \in Nat : a <= b => a <= b + d
        OBVIOUS
      <4> QED BY <4>1, <4>2, <4>3, <4>4, Zenon
    <3>6. ASSUME NEW p \in 1 .. Len(Flattened(s, m))
          PROVE  Flattened(s, k)[p] = Flattened(s, m)[p]
      <4>1. p \in 1 .. Len(Flattened(s, k - 1))
        BY <3>2, <3>4
      <4> QED BY <3>2, <3>4, <4>1
    <3>7. Begins(k)
      BY <3>5, <3>6
    <3> QED BY <2>2, <3>7
  <2> QED BY <2>3, <2>4
<1> QED BY <1>2

\* Every item of theirs is an item of one of them.
LEMMA FlattenedItems ==
  ASSUME NEW n \in Nat, NEW s, \A i \in 1 .. n : IsList(s[i])
  PROVE  \A p \in 1 .. Len(Flattened(s, n)) :
           \E i \in 1 .. n : \E q \in 1 .. Len(s[i]) : Flattened(s, n)[p] = s[i][q]
<1> DEFINE Found(x, m) == \E i \in 1 .. m : \E q \in 1 .. Len(s[i]) : x = s[i][q]
           T == {m \in 0 .. n : ~ \A p \in 1 .. Len(Flattened(s, m)) : Found(Flattened(s, m)[p], m)}
<1>1. \A k \in 0 .. n : IsList(Flattened(s, k)) /\ Len(Flattened(s, k)) \in Nat
  BY FlattenedIsList, ListLength
<1>2. ASSUME T # {} PROVE FALSE
  <2>1. T \subseteq Nat
    OBVIOUS
  <2>2. PICK m \in T : \A i \in T : m <= i
    <3> HIDE DEF T
    <3> QED BY <1>2, <2>1, LeastOf, Zenon
  <2>3. CASE m = 0
    <3>1. Len(Flattened(s, m)) = 0
      BY <2>3, FlattenedNone, EmptySeq
    <3> QED BY <2>2, <3>1
  <2>4. CASE m # 0
    <3> DEFINE before == Flattened(s, m - 1)
    <3>1. m - 1 \in Nat /\ m - 1 \notin T /\ m - 1 \in 0 .. n /\ (m - 1) + 1 = m /\ m \in 1 .. n
      BY <2>2, <2>4
    <3>2. \A p \in 1 .. Len(before) : Found(before[p], m - 1)
      BY <3>1
    <3>3. Flattened(s, m) = before \o s[m]
      BY <3>1, FlattenedStep
    <3>4. IsList(before) /\ IsList(s[m]) /\ Len(before) \in Nat /\ Len(s[m]) \in Nat
      BY <1>1, <3>1, ListLength
    <3> HIDE DEF before
    <3>5. /\ Len(Flattened(s, m)) = Len(before) + Len(s[m])
          /\ \A p \in 1 .. Len(before) : Flattened(s, m)[p] = before[p]
          /\ \A q \in 1 .. Len(s[m]) : Flattened(s, m)[Len(before) + q] = s[m][q]
      BY <3>3, <3>4, ConcatLists
    <3>6. ASSUME NEW p \in 1 .. Len(Flattened(s, m)) PROVE Found(Flattened(s, m)[p], m)
      <4>1. CASE p <= Len(before)
        <5>1. p \in 1 .. Len(before)
          BY <3>4, <4>1
        <5>2. PICK i \in 1 .. m - 1 : \E q \in 1 .. Len(s[i]) : before[p] = s[i][q]
          BY <3>2, <5>1
        <5>3. i \in 1 .. m
          BY <3>1
        <5> QED BY <3>5, <5>1, <5>2, <5>3
      <4>2. CASE ~(p <= Len(before))
        <5>1. p - Len(before) \in 1 .. Len(s[m]) /\ Len(before) + (p - Len(before)) = p
          BY <3>4, <3>5, <4>2
        <5>2. m \in 1 .. m
          BY <3>1
        <5>3. Flattened(s, m)[p] = s[m][p - Len(before)]
          BY <3>5, <5>1
        <5> QED BY <5>1, <5>2, <5>3
      <4> QED BY <4>1, <4>2
    <3> QED BY <2>2, <3>6
  <2> QED BY <2>3, <2>4
<1>3. n \in 0 .. n
  OBVIOUS
<1>4. \A p \in 1 .. Len(Flattened(s, n)) : Found(Flattened(s, n)[p], n)
  <2> HIDE DEF Found
  <2> QED BY <1>2, <1>3, Zenon
<1> QED BY <1>4, Zenon

-----------------------------------------------------------------------------
(* What is left of a list. *)

\* What follows the first k of a list.
IsRest(rest, s, k) ==
  /\ IsList(rest) /\ k \in Nat /\ k + Len(rest) = Len(s)
  /\ \A p \in 1 .. Len(rest) : rest[p] = s[k + p]

LEMMA RestOfAll ==
  ASSUME NEW s, IsList(s)
  PROVE  IsRest(s, s, 0)
<1>1. Len(s) \in Nat
  BY ListLength
<1>2. 0 + Len(s) = Len(s) /\ \A p \in 1 .. Len(s) : 0 + p = p
  BY <1>1
<1> QED BY <1>2 DEF IsRest

LEMMA RestHead ==
  ASSUME NEW rest, NEW s, NEW k, IsRest(rest, s, k), rest # <<>>
  PROVE  /\ k + 1 \in 1 .. Len(s) /\ Head(rest) = s[k + 1] /\ IsRest(Tail(rest), s, k + 1)
         /\ Len(Tail(rest)) = Len(rest) - 1 /\ rest[1] = Head(rest)
<1> DEFINE S == Range(rest)
<1>1. rest \in Seq(S) /\ k \in Nat /\ k + Len(rest) = Len(s)
  BY DEF IsRest, IsList
<1>2. \A p \in 1 .. Len(rest) : rest[p] = s[k + p]
  BY DEF IsRest
<1> HIDE DEF S
<1>3. /\ Head(rest) = rest[1] /\ Tail(rest) \in Seq(S) /\ Len(rest) \in Nat \ {0}
      /\ Len(Tail(rest)) = Len(rest) - 1
      /\ \A p \in 1 .. Len(Tail(rest)) : Tail(rest)[p] = rest[p + 1]
  <2>1. /\ Head(rest) \in S /\ Tail(rest) \in Seq(S) /\ Len(Tail(rest)) = Len(rest) - 1
        /\ \A p \in 1 .. Len(Tail(rest)) : Tail(rest)[p] = rest[p + 1]
    BY <1>1, HeadTailProperties
  <2>2. Head(rest) = rest[1] /\ Len(rest) \in Nat /\ Len(rest) # 0
    BY <1>1, EmptySeq, LenProperties
  <2> QED BY <2>1, <2>2
<1>4. IsList(Tail(rest))
  BY <1>3, SequenceOfRange DEF IsList
<1>5. k + 1 \in 1 .. Len(s) /\ Head(rest) = s[k + 1]
  BY <1>1, <1>2, <1>3
<1>6. (k + 1) + Len(Tail(rest)) = Len(s) /\ k + 1 \in Nat
  BY <1>1, <1>3
<1>7. ASSUME NEW p \in 1 .. Len(Tail(rest)) PROVE Tail(rest)[p] = s[(k + 1) + p]
  <2>1. p + 1 \in 1 .. Len(rest) /\ k + (p + 1) = (k + 1) + p
    BY <1>1, <1>3
  <2>2. Tail(rest)[p] = rest[p + 1] /\ rest[p + 1] = s[k + (p + 1)]
    BY <1>2, <1>3, <2>1
  <2> QED BY <2>1, <2>2, Zenon
<1> QED BY <1>3, <1>4, <1>5, <1>6, <1>7 DEF IsRest

LEMMA RestNone ==
  ASSUME NEW rest, NEW s, NEW k, IsRest(rest, s, k), rest = <<>>
  PROVE  k = Len(s)
<1>1. Len(rest) = 0 /\ k \in Nat /\ k + Len(rest) = Len(s)
  BY EmptySeq DEF IsRest
<1> QED BY <1>1

\* A list with one more item.
LEMMA ListAppend ==
  ASSUME NEW s, IsList(s), NEW item
  PROVE  /\ IsList(Append(s, item)) /\ Len(Append(s, item)) = Len(s) + 1
         /\ Append(s, item)[Len(s) + 1] = item
         /\ \A i \in 1 .. Len(s) : Append(s, item)[i] = s[i]
         /\ Append(s, item) = s \o <<item>>
<1> DEFINE S == Range(s) \cup {item}
<1>1. s \in Seq(S) /\ item \in S
  BY SeqMonotonic DEF IsList
<1> HIDE DEF S
<1>2. /\ Append(s, item) \in Seq(S) /\ Len(Append(s, item)) = Len(s) + 1
      /\ Append(s, item)[Len(s) + 1] = item
      /\ \A i \in 1 .. Len(s) : Append(s, item)[i] = s[i]
  BY <1>1, AppendProperties
<1>3. Append(s, item) = s \o <<item>>
  BY <1>1, AppendIsConcat
<1> QED BY <1>2, <1>3, SequenceOfRange DEF IsList
=============================================================================
