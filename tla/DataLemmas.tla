----------------------------- MODULE DataLemmas -----------------------------
(***************************************************************************)
(* Facts about natural numbers and sequences that the proofs about parser, *)
(* driver and system share: induction, as a statement about sets of        *)
(* numbers, and where FlattenSeq puts the elements of its argument.        *)
(***************************************************************************)
EXTENDS Integers, SequencesExt, WellFoundedInduction, SequenceTheorems, TLAPS

\* A set of numbers has a least one.
LEMMA LeastNumber ==
  ASSUME NEW T \in SUBSET Nat, T # {}
  PROVE  \E x \in T : \A y \in T : x <= y
<1> DEFINE less == OpToRel(<, Nat)
<1>1. IsWellFoundedOn(less, Nat)
      BY NatLessThanWellFounded
<1>2. \A x, y \in T : y < x => << y, x >> \in less
      BY DEF OpToRel
<1> HIDE DEF less
<1>3. PICK x \in T : \A y \in T : << y, x >> \notin less
      BY <1>1, WFMin
<1>4. \A y \in T : ~(y < x)
      BY <1>2, <1>3
<1>5. \A y \in T : x \in Nat /\ y \in Nat
      OBVIOUS
<1> QED BY <1>4, <1>5

\* A set with 0 that is closed under successor, up to a bound, holds every
\* number up to it.
LEMMA BoundedInduction ==
  ASSUME NEW n \in Nat, NEW S, 0 \in S, \A k \in 0 .. n - 1 : k \in S => k + 1 \in S
  PROVE  0 .. n \subseteq S
<1>1. SUFFICES ASSUME (0 .. n) \ S # {} PROVE FALSE
      OBVIOUS
<1>2. PICK x \in (0 .. n) \ S : \A y \in (0 .. n) \ S : x <= y
      <2>1. (0 .. n) \ S \in SUBSET Nat
            OBVIOUS
      <2> QED BY <1>1, <2>1, LeastNumber
<1>3. x - 1 \in S /\ x - 1 \in 0 .. n - 1
      BY <1>2
<1> QED BY <1>2, <1>3

\* The elements of a sequence.
LEMMA ElementType ==
  ASSUME NEW S, NEW s \in Seq(S), NEW i \in 1 .. Len(s)
  PROVE  s[i] \in S
OBVIOUS

-----------------------------------------------------------------------------
(***************************************************************************)
(* FlattenSeq                                                              *)
(***************************************************************************)
AreOffsets(seqs, off) ==
  /\ off \in [0 .. Len(seqs) -> Nat]
  /\ off[0] = 0
  /\ \A k \in 1 .. Len(seqs) : off[k] = off[k - 1] + Len(seqs[k])

\* Where the elements of the k-th sequence of seqs begin in FlattenSeq(seqs),
\* less 1; and where the last one ends.
Offsets(seqs) == CHOOSE off : AreOffsets(seqs, off)

\* The recursive function in FlattenSeq meets its equation.
LEMMA FlattenEquation ==
  ASSUME NEW S, NEW seqs \in Seq(Seq(S)), seqs # << >>
  PROVE  \E f \in [1 .. Len(seqs) -> Seq(S)] :
           /\ \A k \in 1 .. Len(seqs) :
                f[k] = IF k = 1 THEN seqs[k] ELSE f[k - 1] \o seqs[k]
           /\ FlattenSeq(seqs) = f[Len(seqs)]
<1> DEFINE n == Len(seqs)
           Meets(f, m) == \A k \in 1 .. m : f[k] = IF k = 1 THEN seqs[k] ELSE f[k - 1] \o seqs[k]
           Good == { m \in Nat : \E f \in [1 .. m -> Seq(S)] : Meets(f, m) }
           whole == CHOOSE f : f = [k \in 1 .. n |-> IF k = 1 THEN seqs[k] ELSE f[k - 1] \o seqs[k]]
<1>1. n \in Nat /\ n > 0
      OBVIOUS
<1>2. 0 \in Good
      <2>1. [k \in 1 .. 0 |-> << >>] \in [1 .. 0 -> Seq(S)]
            OBVIOUS
      <2>2. Meets([k \in 1 .. 0 |-> << >>], 0)
            OBVIOUS
      <2> QED BY <2>1, <2>2
<1>3. ASSUME NEW m \in 0 .. n - 1, m \in Good PROVE m + 1 \in Good
      <2>1. PICK f \in [1 .. m -> Seq(S)] : Meets(f, m)
            BY <1>3
      <2> DEFINE g == [k \in 1 .. m + 1 |->
                         IF k = m + 1 THEN (IF k = 1 THEN seqs[k] ELSE f[k - 1] \o seqs[k])
                         ELSE f[k]]
      <2>2. seqs[m + 1] \in Seq(S)
            OBVIOUS
      <2>3. m # 0 => f[m] \in Seq(S)
            OBVIOUS
      <2>4. g \in [1 .. m + 1 -> Seq(S)]
            BY <2>2, <2>3
      <2>5. Meets(g, m + 1)
            <3>1. \A k \in 1 .. m : g[k] = f[k]
                  <4>1. \A k \in 1 .. m : k \in 1 .. m + 1 /\ k # m + 1
                        OBVIOUS
                  <4> QED BY <4>1
            <3>2. ASSUME NEW k \in 1 .. m PROVE g[k] = IF k = 1 THEN seqs[k] ELSE g[k - 1] \o seqs[k]
                  <4>1. CASE k = 1
                        BY <2>1, <3>1, <4>1
                  <4>2. CASE k # 1
                        <5>1. k - 1 \in 1 .. m
                              BY <4>2
                        <5> HIDE DEF g
                        <5> QED BY <2>1, <3>1, <4>2, <5>1
                  <4> QED BY <4>1, <4>2
            <3>3. g[m + 1] = IF m + 1 = 1 THEN seqs[m + 1] ELSE g[m] \o seqs[m + 1]
                  OBVIOUS
            <3> HIDE DEF g
            <3> QED BY <3>2, <3>3
      <2> HIDE DEF g, Meets
      <2> QED BY <2>4, <2>5
<1>4. n \in Good
      <2> HIDE DEF Good, n
      <2>1. 0 .. n \subseteq Good
            BY <1>1, <1>2, <1>3, BoundedInduction
      <2> QED BY <1>1, <2>1
<1>5. PICK f \in [1 .. n -> Seq(S)] : Meets(f, n)
      BY <1>4
<1>6. f = [k \in 1 .. n |-> IF k = 1 THEN seqs[k] ELSE f[k - 1] \o seqs[k]]
      BY <1>5
<1>7. \E g : g = [k \in 1 .. n |-> IF k = 1 THEN seqs[k] ELSE g[k - 1] \o seqs[k]]
      BY <1>6
<1>8. whole = [k \in 1 .. n |-> IF k = 1 THEN seqs[k] ELSE whole[k - 1] \o seqs[k]]
      <2> HIDE DEF n
      <2> QED BY <1>7, Zenon
<1>9. Len(seqs) # 0 => FlattenSeq(seqs) = whole[n]
      BY DEF FlattenSeq
<1>10. FlattenSeq(seqs) = whole[n]
      <2> HIDE DEF whole, n
      <2> QED BY <1>1, <1>9 DEF n
<1> HIDE DEF whole
<1>11. Meets(whole, n)
      BY <1>8
<1>12. \A k \in 0 .. n : \A j \in 1 .. k : whole[j] = f[j]
      <2> DEFINE Same == { k \in 0 .. n : \A j \in 1 .. k : whole[j] = f[j] }
      <2>1. 0 \in Same
            BY <1>1
      <2>2. ASSUME NEW k \in 0 .. n - 1, k \in Same PROVE k + 1 \in Same
            <3>1. \A j \in 1 .. k : whole[j] = f[j]
                  BY <2>2
            <3>2. k \in Nat /\ k + 1 \in 1 .. n /\ k + 1 \in 0 .. n
                  BY <1>1
            <3>3. whole[k + 1] = f[k + 1]
                  <4>1. (k + 1) - 1 = k
                        BY <3>2
                  <4>2. CASE k = 0
                        <5>1. k + 1 = 1 /\ 1 \in 1 .. n
                              BY <3>2, <4>2
                        <5>2. whole[1] = seqs[1]
                              BY <1>11, <5>1
                        <5>3. f[1] = seqs[1]
                              BY <1>5, <5>1
                        <5> QED BY <5>1, <5>2, <5>3
                  <4>3. CASE k # 0
                        <5>1. k \in 1 .. k /\ k + 1 # 1
                              BY <3>2, <4>3
                        <5>2. whole[k + 1] = whole[k] \o seqs[k + 1]
                              BY <1>11, <3>2, <4>1, <5>1
                        <5>3. f[k + 1] = f[k] \o seqs[k + 1]
                              BY <1>5, <3>2, <4>1, <5>1
                        <5> QED BY <3>1, <5>1, <5>2, <5>3
                  <4> QED BY <4>2, <4>3
            <3>4. \A j \in 1 .. k + 1 : j \in 1 .. k \/ j = k + 1
                  BY <3>2
            <3>5. \A j \in 1 .. k + 1 : whole[j] = f[j]
                  BY <3>1, <3>3, <3>4
            <3> HIDE DEF n
            <3> QED BY <3>2, <3>5
      <2> HIDE DEF Same, n
      <2>3. 0 .. n \subseteq Same
            BY <1>1, <2>1, <2>2, BoundedInduction
      <2> QED BY <2>3 DEF Same
<1>13. whole[n] = f[n]
      <2>1. n \in 0 .. n /\ n \in 1 .. n
            BY <1>1
      <2> HIDE DEF n
      <2> QED BY <2>1, <1>12
<1> QED BY <1>5, <1>10, <1>13

FlatAt(seqs, off) ==
  /\ AreOffsets(seqs, off)
  /\ Len(FlattenSeq(seqs)) = off[Len(seqs)]
  /\ \A k \in 1 .. Len(seqs) : \A j \in 1 .. Len(seqs[k]) :
       FlattenSeq(seqs)[off[k - 1] + j] = seqs[k][j]

\* FlattenSeq puts the elements of its k-th sequence behind its offset.
LEMMA FlattenAt ==
  ASSUME NEW S, NEW seqs \in Seq(Seq(S))
  PROVE  FlattenSeq(seqs) \in Seq(S) /\ \E off : FlatAt(seqs, off)
<1>1. CASE seqs = << >>
      <2>1. FlattenSeq(seqs) = seqs
            BY <1>1 DEF FlattenSeq
      <2>2. AreOffsets(seqs, [k \in 0 .. 0 |-> 0])
            BY <1>1 DEF AreOffsets
      <2>3. seqs \in Seq(S) /\ Len(seqs) = 0
            BY <1>1
      <2>4. FlatAt(seqs, [k \in 0 .. 0 |-> 0])
            BY <1>1, <2>1, <2>2, <2>3 DEF FlatAt
      <2> QED BY <2>1, <2>3, <2>4
<1>2. CASE seqs # << >>
      <2> DEFINE n == Len(seqs)
      <2>1. n \in Nat /\ n > 0
            BY <1>2
      <2>2. PICK f \in [1 .. n -> Seq(S)] :
              /\ \A k \in 1 .. n : f[k] = IF k = 1 THEN seqs[k] ELSE f[k - 1] \o seqs[k]
              /\ FlattenSeq(seqs) = f[n]
            BY <1>2, FlattenEquation
      <2> DEFINE off == [k \in 0 .. n |-> IF k = 0 THEN 0 ELSE Len(f[k])]
      <2>3. off \in [0 .. n -> Nat] /\ off[0] = 0
            BY <2>1
      <2>4. \A k \in 1 .. n : off[k] = Len(f[k])
            BY <2>1
      <2>5. \A k \in 1 .. n : off[k] = off[k - 1] + Len(seqs[k])
            <3>1. TAKE k \in 1 .. n
            <3>2. seqs[k] \in Seq(S) /\ f[k] \in Seq(S) /\ k - 1 \in 0 .. n
                  <4>1. seqs[k] \in Seq(S) /\ k - 1 \in 0 .. n
                        OBVIOUS
                  <4> QED BY <4>1
            <3>3. CASE k = 1
                  <4>1. f[1] = seqs[1]
                        BY <2>2, <3>3
                  <4> QED BY <2>3, <2>4, <3>2, <3>3, <4>1
            <3>4. CASE k # 1
                  <4>1. k - 1 \in 1 .. n
                        BY <2>1, <3>4
                  <4>2. f[k] = f[k - 1] \o seqs[k] /\ f[k - 1] \in Seq(S)
                        BY <2>2, <3>4, <4>1
                  <4>3. off[k] = Len(f[k]) /\ off[k - 1] = Len(f[k - 1])
                        BY <2>4, <4>1
                  <4> HIDE DEF off, n
                  <4> QED BY <3>2, <4>2, <4>3
            <3> QED BY <3>3, <3>4
      <2>6. AreOffsets(seqs, off)
            BY <2>3, <2>5 DEF AreOffsets
      <2>7. f[n] \in Seq(S) /\ Len(f[n]) = off[n]
            BY <2>1, <2>4
      <2> DEFINE Laid(m) == \A k \in 1 .. m : \A j \in 1 .. Len(seqs[k]) :
                              /\ off[k - 1] + j \in 1 .. off[m]
                              /\ f[m][off[k - 1] + j] = seqs[k][j]
                 Good == { m \in 0 .. n : Laid(m) }
      <2>8. 0 \in Good
            BY <2>1
      <2> HIDE DEF off
      <2>9. ASSUME NEW m \in 0 .. n - 1, m \in Good PROVE m + 1 \in Good
            <3>1. m \in Nat /\ m + 1 \in 1 .. n /\ m + 1 \in 0 .. n /\ (m + 1) - 1 = m
                  BY <2>1
            <3>2. Laid(m)
                  BY <2>9
            <3> HIDE DEF Laid
            <3>3. seqs[m + 1] \in Seq(S) /\ off[m + 1] = off[m] + Len(seqs[m + 1])
                  BY <2>5, <3>1
            <3>4. off[m] \in Nat /\ off[m + 1] \in Nat
                  <4>1. m \in 0 .. n
                        BY <2>1
                  <4> HIDE DEF n
                  <4> QED BY <2>3, <3>1, <4>1
            <3>5. ASSUME m # 0
                  PROVE  f[m + 1] = f[m] \o seqs[m + 1] /\ f[m] \in Seq(S) /\ Len(f[m]) = off[m]
                  <4>1. m \in 1 .. n /\ m + 1 # 1
                        BY <3>1, <3>5
                  <4> QED BY <2>2, <2>4, <3>1, <4>1
            <3>6. ASSUME m = 0 PROVE f[m + 1] = seqs[m + 1] /\ off[m] = 0
                  <4>1. m + 1 = 1 /\ 1 \in 1 .. n
                        BY <3>1, <3>6
                  <4> HIDE DEF n
                  <4> QED BY <2>2, <2>3, <3>6, <4>1
            <3>7. ASSUME NEW k \in 1 .. m, NEW j \in 1 .. Len(seqs[k])
                  PROVE  /\ off[k - 1] + j \in 1 .. off[m + 1]
                         /\ f[m + 1][off[k - 1] + j] = seqs[k][j]
                  <4>1. m # 0 /\ k \in 1 .. n
                        BY <3>1
                  <4>2. off[k - 1] + j \in 1 .. off[m] /\ f[m][off[k - 1] + j] = seqs[k][j]
                        BY <3>2 DEF Laid
                  <4>3. off[k - 1] + j \in 1 .. off[m + 1]
                        BY <3>3, <3>4, <4>2
                  <4>4. f[m + 1][off[k - 1] + j] = f[m][off[k - 1] + j]
                        BY <3>3, <3>5, <4>1, <4>2
                  <4> QED BY <4>2, <4>3, <4>4
            <3>8. ASSUME NEW j \in 1 .. Len(seqs[m + 1])
                  PROVE  /\ off[m] + j \in 1 .. off[m + 1]
                         /\ f[m + 1][off[m] + j] = seqs[m + 1][j]
                  <4>1. off[m] + j \in 1 .. off[m + 1]
                        BY <3>3, <3>4
                  <4>2. CASE m = 0
                        <5>1. f[m + 1] = seqs[m + 1] /\ off[m] + j = j
                              BY <3>6, <4>2
                        <5> QED BY <4>1, <5>1
                  <4>3. CASE m # 0
                        BY <3>3, <3>4, <3>5, <4>3
                  <4> QED BY <4>1, <4>2, <4>3
            <3>9. \A k \in 1 .. m + 1 : k \in 1 .. m \/ k = m + 1
                  BY <3>1
            <3>10. Laid(m + 1)
                  BY <3>1, <3>7, <3>8, <3>9 DEF Laid
            <3> HIDE DEF n
            <3> QED BY <3>1, <3>10
      <2>10. Laid(n)
            <3> HIDE DEF Good, n
            <3>1. 0 .. n \subseteq Good
                  BY <2>1, <2>8, <2>9, BoundedInduction
            <3>2. n \in Good
                  BY <2>1, <3>1
            <3> QED BY <3>2 DEF Good
      <2>11. \A k \in 1 .. n : \A j \in 1 .. Len(seqs[k]) : f[n][off[k - 1] + j] = seqs[k][j]
            BY <2>10
      <2> HIDE DEF Laid
      <2>12. FlattenSeq(seqs) \in Seq(S) /\ FlatAt(seqs, off)
             BY <2>2, <2>6, <2>7, <2>11 DEF FlatAt
      <2> QED BY <2>12
<1> QED BY <1>1, <1>2

\* Offsets are what the two conditions of AreOffsets determine.
LEMMA OffsetsUnique ==
  ASSUME NEW S, NEW seqs \in Seq(Seq(S)), NEW a, NEW b,
         AreOffsets(seqs, a), AreOffsets(seqs, b)
  PROVE  a = b
<1> DEFINE n == Len(seqs)
           Same == { k \in 0 .. n : a[k] = b[k] }
<1>1. n \in Nat
      OBVIOUS
<1>2. 0 \in Same
      BY <1>1 DEF AreOffsets
<1>3. ASSUME NEW k \in 0 .. n - 1, k \in Same PROVE k + 1 \in Same
      <2>1. k + 1 \in 1 .. n /\ k + 1 \in 0 .. n /\ (k + 1) - 1 = k
            BY <1>1
      <2>2. a[k + 1] = b[k + 1]
            BY <1>3, <2>1 DEF AreOffsets
      <2> QED BY <2>1, <2>2
<1>4. 0 .. n \subseteq Same
      <2> HIDE DEF Same, n
      <2> QED BY <1>1, <1>2, <1>3, BoundedInduction
<1>5. a \in [0 .. n -> Nat] /\ b \in [0 .. n -> Nat]
      BY DEF AreOffsets
<1>6. \A k \in 0 .. n : a[k] = b[k]
      BY <1>4
<1>7. a = [k \in 0 .. n |-> a[k]] /\ b = [k \in 0 .. n |-> b[k]]
      BY <1>5
<1> HIDE DEF Same, n
<1> QED BY <1>6, <1>7

\* The offsets of a sequence of sequences, and what lies at them.
LEMMA FlattenOffsets ==
  ASSUME NEW S, NEW seqs \in Seq(Seq(S))
  PROVE  /\ AreOffsets(seqs, Offsets(seqs))
         /\ FlattenSeq(seqs) \in Seq(S)
         /\ Len(FlattenSeq(seqs)) = Offsets(seqs)[Len(seqs)]
         /\ \A k \in 1 .. Len(seqs) : \A j \in 1 .. Len(seqs[k]) :
              FlattenSeq(seqs)[Offsets(seqs)[k - 1] + j] = seqs[k][j]
<1>1. FlattenSeq(seqs) \in Seq(S) /\ \E off : FlatAt(seqs, off)
      BY FlattenAt
<1>2. PICK off : FlatAt(seqs, off)
      BY <1>1
<1>3. AreOffsets(seqs, off)
      BY <1>2 DEF FlatAt
<1>4. AreOffsets(seqs, Offsets(seqs))
      BY <1>3 DEF Offsets
<1>5. Offsets(seqs) = off
      BY <1>3, <1>4, OffsetsUnique
<1> QED BY <1>1, <1>2, <1>4, <1>5 DEF FlatAt

\* Offsets grow; with no empty sequence among seqs, by at least one each.
LEMMA OffsetsGrow ==
  ASSUME NEW S, NEW seqs \in Seq(Seq(S)), NEW j \in 0 .. Len(seqs), NEW k \in j .. Len(seqs)
  PROVE  /\ Offsets(seqs)[j] <= Offsets(seqs)[k]
         /\ (\A i \in 1 .. Len(seqs) : seqs[i] # << >>) => Offsets(seqs)[j] + (k - j) <= Offsets(seqs)[k]
<1> DEFINE n == Len(seqs)
           off == Offsets(seqs)
           some == \A i \in 1 .. Len(seqs) : seqs[i] # << >>
           Good == { d \in 0 .. n - j : /\ off[j] <= off[j + d]
                                        /\ some => off[j] + d <= off[j + d] }
<1>1. n \in Nat /\ j \in Nat /\ n - j \in Nat /\ k \in Nat
      OBVIOUS
<1>2. off \in [0 .. n -> Nat] /\ \A i \in 1 .. n : off[i] = off[i - 1] + Len(seqs[i])
      BY FlattenOffsets DEF AreOffsets
<1> HIDE DEF off
<1>3. 0 \in Good
      <2>1. j \in 0 .. n /\ j + 0 = j /\ off[j] \in Nat
            BY <1>1, <1>2
      <2> QED BY <1>1, <2>1
<1>4. ASSUME NEW d \in 0 .. (n - j) - 1, d \in Good PROVE d + 1 \in Good
      <2>1. /\ j + d \in 0 .. n /\ j + (d + 1) \in 1 .. n /\ (j + (d + 1)) - 1 = j + d
            /\ d + 1 \in 0 .. n - j /\ j \in 0 .. n
            BY <1>1
      <2>2. off[j + (d + 1)] = off[j + d] + Len(seqs[j + (d + 1)])
            BY <1>2, <2>1
      <2>3. off[j] \in Nat /\ off[j + d] \in Nat
            BY <1>2, <2>1
      <2>4. seqs[j + (d + 1)] \in Seq(S)
            BY <2>1
      <2>5. Len(seqs[j + (d + 1)]) \in Nat /\ (some => Len(seqs[j + (d + 1)]) >= 1)
            BY <2>1, <2>4
      <2>6. off[j] <= off[j + d] /\ (some => off[j] + d <= off[j + d])
            BY <1>4
      <2>7. d \in Nat
            BY <1>1
      <2> DEFINE from == off[j]
                 at == off[j + d]
                 size == Len(seqs[j + (d + 1)])
      <2> HIDE DEF some, n, from, at, size
      <2>8. /\ from <= at + size
            /\ some => from + (d + 1) <= at + size
            <3>1. from \in Nat /\ at \in Nat /\ size \in Nat /\ from <= at
                  BY <2>3, <2>5, <2>6 DEF from, at, size
            <3>2. some => from + d <= at /\ size >= 1
                  BY <2>5, <2>6 DEF from, at, size
            <3> QED BY <2>7, <3>1, <3>2
      <2> QED BY <2>1, <2>2, <2>8 DEF from, at, size
<1>5. k - j \in Good
      <2>1. k - j \in 0 .. n - j
            BY <1>1
      <2> HIDE DEF Good, n
      <2>2. 0 .. n - j \subseteq Good
            BY <1>1, <1>3, <1>4, BoundedInduction
      <2> QED BY <2>1, <2>2
<1>6. j + (k - j) = k
      BY <1>1
<1>7. off[j] <= off[k] /\ (some => off[j] + (k - j) <= off[k])
      BY <1>5, <1>6
<1> QED BY <1>7 DEF off

\* The first sequences end at their offset.
LEMMA FlattenPrefix ==
  ASSUME NEW S, NEW seqs \in Seq(Seq(S)), NEW k \in 0 .. Len(seqs)
  PROVE  Len(FlattenSeq(SubSeq(seqs, 1, k))) = Offsets(seqs)[k]
<1> DEFINE first == SubSeq(seqs, 1, k)
           off == Offsets(seqs)
           cut == [i \in 0 .. k |-> off[i]]
<1>1. first \in Seq(Seq(S)) /\ Len(first) = k /\ \A i \in 1 .. k : first[i] = seqs[i]
      OBVIOUS
<1>2. /\ off \in [0 .. Len(seqs) -> Nat] /\ off[0] = 0
      /\ \A i \in 1 .. Len(seqs) : off[i] = off[i - 1] + Len(seqs[i])
      BY FlattenOffsets DEF AreOffsets
<1> HIDE DEF off, first
<1>3. AreOffsets(first, cut)
      <2>1. \A i \in 0 .. k : i \in 0 .. Len(seqs)
            OBVIOUS
      <2>2. cut \in [0 .. k -> Nat] /\ cut[0] = 0
            BY <1>2, <2>1
      <2>3. ASSUME NEW i \in 1 .. k PROVE cut[i] = cut[i - 1] + Len(first[i])
            <3>1. i \in 1 .. Len(seqs) /\ i \in 0 .. k /\ i - 1 \in 0 .. k
                  OBVIOUS
            <3> QED BY <1>1, <1>2, <3>1
      <2> HIDE DEF cut
      <2> QED BY <1>1, <2>2, <2>3 DEF AreOffsets
<1>4. AreOffsets(first, Offsets(first)) /\ Len(FlattenSeq(first)) = Offsets(first)[Len(first)]
      BY <1>1, FlattenOffsets
<1>5. Offsets(first) = cut
      BY <1>1, <1>3, <1>4, OffsetsUnique
<1>6. Len(FlattenSeq(first)) = off[k]
      BY <1>1, <1>4, <1>5
<1> QED BY <1>6 DEF off, first

\* FlattenSeq of sequences of one element each.
LEMMA FlattenSingletons ==
  ASSUME NEW S, NEW s \in Seq(S)
  PROVE  FlattenSeq([k \in DOMAIN s |-> << s[k] >>]) = s
<1> DEFINE n == Len(s)
           seqs == [k \in DOMAIN s |-> << s[k] >>]
           off == Offsets(seqs)
           Good == { k \in 0 .. n : off[k] = k }
<1>1. n \in Nat /\ DOMAIN s = 1 .. n
      OBVIOUS
<1>2. seqs \in Seq(Seq(S)) /\ Len(seqs) = n /\ \A k \in 1 .. n : seqs[k] = << s[k] >>
      <2>1. \A k \in 1 .. n : << s[k] >> \in Seq(S)
            OBVIOUS
      <2>2. seqs \in [1 .. n -> Seq(S)]
            BY <1>1, <2>1
      <2> QED BY <1>1, <2>2
<1> HIDE DEF seqs
<1>3. /\ AreOffsets(seqs, off) /\ FlattenSeq(seqs) \in Seq(S) /\ Len(FlattenSeq(seqs)) = off[n]
      /\ \A k \in 1 .. n : \A j \in 1 .. Len(seqs[k]) : FlattenSeq(seqs)[off[k - 1] + j] = seqs[k][j]
      BY <1>2, FlattenOffsets
<1> HIDE DEF off
<1>4. 0 \in Good
      BY <1>1, <1>2, <1>3 DEF AreOffsets
<1>5. ASSUME NEW k \in 0 .. n - 1, k \in Good PROVE k + 1 \in Good
      <2>1. k \in Nat /\ k + 1 \in 1 .. n /\ k + 1 \in 0 .. n /\ (k + 1) - 1 = k /\ off[k] = k
            BY <1>1, <1>5
      <2>2. Len(seqs[k + 1]) = 1
            <3> HIDE DEF n
            <3>1. seqs[k + 1] = << s[k + 1] >>
                  BY <1>2, <2>1
            <3> QED BY <3>1
      <2>3. off[k + 1] = off[k] + Len(seqs[k + 1])
            <3> HIDE DEF n
            <3> QED BY <1>2, <1>3, <2>1 DEF AreOffsets
      <2> HIDE DEF n
      <2> QED BY <2>1, <2>2, <2>3
<1>6. \A k \in 0 .. n : off[k] = k
      <2> HIDE DEF Good, n
      <2>1. 0 .. n \subseteq Good
            BY <1>1, <1>4, <1>5, BoundedInduction
      <2> QED BY <2>1 DEF Good
<1>7. \A k \in 1 .. n : FlattenSeq(seqs)[k] = s[k]
      <2>1. TAKE k \in 1 .. n
      <2>2. k - 1 \in 0 .. n /\ (k - 1) + 1 = k
            BY <1>1
      <2>3. 1 \in 1 .. Len(seqs[k]) /\ seqs[k][1] = s[k]
            BY <1>2
      <2>4. off[k - 1] = k - 1
            BY <1>6, <2>2
      <2>5. FlattenSeq(seqs)[off[k - 1] + 1] = s[k]
            BY <1>3, <2>3
      <2> HIDE DEF n
      <2> QED BY <2>2, <2>4, <2>5
<1>8. Len(FlattenSeq(seqs)) = n
      BY <1>1, <1>3, <1>6
<1>9. FlattenSeq(seqs) = s
      BY <1>3, <1>7, <1>8
<1> QED BY <1>9 DEF seqs

\* Sequences are joined in any order.
LEMMA JoinAssociative ==
  ASSUME NEW S, NEW x \in Seq(S), NEW y \in Seq(S), NEW z \in Seq(S)
  PROVE  (x \o y) \o z = x \o (y \o z)
BY ConcatAssociative

\* One more sequence at the end,
LEMMA FlattenAppend ==
  ASSUME NEW S, NEW seqs \in Seq(Seq(S)), NEW s \in Seq(S)
  PROVE  FlattenSeq(Append(seqs, s)) = FlattenSeq(seqs) \o s
<1> DEFINE all == Append(seqs, s)
           n == Len(seqs)
<1>1. /\ all \in Seq(Seq(S)) /\ Len(all) = n + 1 /\ all # << >> /\ n \in Nat
      /\ \A k \in 1 .. n : all[k] = seqs[k]
      /\ all[n + 1] = s
      BY AppendProperties
<1> HIDE DEF all
<1>2. PICK f \in [1 .. n + 1 -> Seq(S)] :
        /\ \A k \in 1 .. n + 1 : f[k] = IF k = 1 THEN all[k] ELSE f[k - 1] \o all[k]
        /\ FlattenSeq(all) = f[n + 1]
      BY <1>1, FlattenEquation
<1>3. CASE n = 0
      <2>1. seqs = << >> /\ FlattenSeq(seqs) = << >>
            BY <1>3 DEF FlattenSeq
      <2>2. f[1] = s
            BY <1>1, <1>2, <1>3
      <2> QED BY <1>2, <1>3, <2>1, <2>2, ConcatEmptySeq DEF all
<1>4. CASE n # 0
      <2>1. seqs # << >>
            BY <1>4
      <2>2. PICK g \in [1 .. n -> Seq(S)] :
              /\ \A k \in 1 .. n : g[k] = IF k = 1 THEN seqs[k] ELSE g[k - 1] \o seqs[k]
              /\ FlattenSeq(seqs) = g[n]
            BY <2>1, FlattenEquation
      <2> DEFINE Same == { k \in 0 .. n : k > 0 => f[k] = g[k] }
      <2>3. 0 \in Same
            BY <1>1
      <2>4. ASSUME NEW k \in 0 .. n - 1, k \in Same PROVE k + 1 \in Same
            <3>1. k + 1 \in 1 .. n /\ k + 1 \in 1 .. n + 1 /\ (k + 1) - 1 = k /\ k + 1 \in 0 .. n
                  BY <1>1
            <3>2. f[k + 1] = g[k + 1]
                  <4>1. k # 0 => f[k] = g[k]
                        BY <2>4
                  <4> DEFINE i == k + 1
                  <4>2. /\ all[i] = seqs[i] /\ i \in 1 .. n /\ i \in 1 .. n + 1
                        /\ i = 1 <=> k = 0
                        /\ i - 1 = k
                        BY <1>1, <3>1
                  <4> HIDE DEF i, n, Same
                  <4>3. f[i] = IF k = 0 THEN seqs[i] ELSE f[k] \o seqs[i]
                        BY <1>2, <4>2
                  <4>4. g[i] = IF k = 0 THEN seqs[i] ELSE g[k] \o seqs[i]
                        BY <2>2, <4>2
                  <4>5. f[i] = g[i]
                        BY <4>1, <4>3, <4>4
                  <4> QED BY <4>5 DEF i
            <3> QED BY <3>1, <3>2
      <2>5. n \in Same
            <3> HIDE DEF Same
            <3>1. 0 .. n \subseteq Same
                  BY <1>1, <2>3, <2>4, BoundedInduction
            <3> QED BY <1>1, <3>1
      <2>6. f[n] = g[n]
            BY <1>1, <1>4, <2>5
      <2>7. f[n + 1] = f[n] \o s
            <3>1. n + 1 \in 1 .. n + 1 /\ n + 1 # 1 /\ (n + 1) - 1 = n
                  BY <1>1, <1>4
            <3> QED BY <1>1, <1>2, <3>1
      <2> QED BY <1>2, <2>2, <2>6, <2>7 DEF all
<1> QED BY <1>3, <1>4

\* several of them,
LEMMA FlattenConcat ==
  ASSUME NEW S, NEW a \in Seq(Seq(S)), NEW b \in Seq(Seq(S))
  PROVE  FlattenSeq(a \o b) = FlattenSeq(a) \o FlattenSeq(b)
<1> DEFINE n == Len(b)
           Lead(k) == SubSeq(b, 1, k)
           Good == { k \in 0 .. n : FlattenSeq(a \o Lead(k)) = FlattenSeq(a) \o FlattenSeq(Lead(k)) }
<1>1. n \in Nat /\ Lead(n) = b /\ FlattenSeq(a) \in Seq(S)
      BY SubSeqFull, FlattenOffsets
<1>2. 0 \in Good
      <2>1. Lead(0) = << >> /\ FlattenSeq(<< >>) = << >>
            BY SubSeqEmpty DEF FlattenSeq
      <2>2. a \o << >> = a /\ FlattenSeq(a) \o << >> = FlattenSeq(a)
            BY <1>1, ConcatEmptySeq
      <2>3. FlattenSeq(a \o Lead(0)) = FlattenSeq(a) \o FlattenSeq(Lead(0))
            BY <2>1, <2>2
      <2> HIDE DEF Lead
      <2> QED BY <1>1, <2>3
<1>3. ASSUME NEW k \in 0 .. n - 1, k \in Good PROVE k + 1 \in Good
      <2> DEFINE front == Lead(k)
                 next == b[k + 1]
      <2>1. front \in Seq(Seq(S)) /\ next \in Seq(S) /\ Lead(k + 1) = Append(front, next)
            <3>1. k + 1 \in 1 .. Len(b) /\ k + 1 \in 1 .. n /\ k \in 0 .. n /\ (k + 1) - 1 = k /\ 1 \in 1 .. Len(b)
                  BY <1>1
            <3>2. b[k + 1] \in Seq(S)
                  BY <3>1, ElementOfSeq
            <3>3. SubSeq(b, 1, k + 1) = SubSeq(b, 1, k) \o << b[k + 1] >>
                  <4>1. k + 1 \in 1 .. Len(b) /\ 1 \in 1 .. Len(b)
                        BY <3>1
                  <4>2. SubSeq(b, 1, k + 1) = SubSeq(b, 1, (k + 1) - 1) \o << b[k + 1] >>
                        BY <4>1, SubSeqRecursiveSecond
                  <4> QED BY <3>1, <4>2
            <3>4. SubSeq(b, 1, k) \in Seq(Seq(S))
                  <4>1. \A i \in 1 .. k : b[i] \in Seq(S)
                        BY <1>1, ElementOfSeq
                  <4>2. k \in Int /\ 1 \in Int
                        BY <1>1
                  <4> QED BY <4>1, <4>2, SubSeqProperties
            <3> QED BY <3>2, <3>3, <3>4, AppendIsConcat
      <2> HIDE DEF Lead, front, next
      <2>2. FlattenSeq(a \o front) = FlattenSeq(a) \o FlattenSeq(front)
            BY <1>3 DEF front
      <2>3. a \o Append(front, next) = Append(a \o front, next)
            <3>1. << next >> \in Seq(Seq(S)) /\ a \o front \in Seq(Seq(S))
                  BY <2>1, ConcatProperties
            <3>2. Append(front, next) = front \o << next >> /\ Append(a \o front, next) = (a \o front) \o << next >>
                  BY <2>1, <3>1, AppendIsConcat
            <3>3. (a \o front) \o << next >> = a \o (front \o << next >>)
                  <4> DEFINE T == Seq(S)
                      last == << next >>
                  <4>1. a \in Seq(T) /\ front \in Seq(T) /\ last \in Seq(T)
                        BY <2>1, <3>1
                  <4> HIDE DEF T, last
                  <4>2. (a \o front) \o last = a \o (front \o last)
                        BY <4>1, ConcatAssociative
                  <4> QED BY <4>2 DEF last
            <3> QED BY <3>2, <3>3
      <2>4. FlattenSeq(Append(a \o front, next)) = (FlattenSeq(a) \o FlattenSeq(front)) \o next
            <3>1. a \o front \in Seq(Seq(S))
                  BY <2>1, ConcatProperties
            <3>2. FlattenSeq(Append(a \o front, next)) = FlattenSeq(a \o front) \o next
                  BY <2>1, <3>1, FlattenAppend
            <3> QED BY <2>2, <3>2
      <2>5. FlattenSeq(Append(front, next)) = FlattenSeq(front) \o next
            BY <2>1, FlattenAppend
      <2>6. FlattenSeq(front) \in Seq(S)
            BY <2>1, FlattenOffsets
      <2>7. (FlattenSeq(a) \o FlattenSeq(front)) \o next = FlattenSeq(a) \o (FlattenSeq(front) \o next)
            <3>1. ASSUME NEW s \in Seq(S), NEW r \in Seq(S), NEW u \in Seq(S)
                  PROVE  (s \o r) \o u = s \o (r \o u)
                  BY JoinAssociative
            <3>2. next \in Seq(S)
                  BY <2>1
            <3> QED BY <1>1, <2>6, <3>1, <3>2
      <2>8. FlattenSeq(a \o Lead(k + 1)) = FlattenSeq(a) \o FlattenSeq(Lead(k + 1))
            BY <2>1, <2>3, <2>4, <2>5, <2>7
      <2> QED BY <1>1, <2>8
<1>4. n \in Good
      <2> HIDE DEF Good, n
      <2>1. 0 .. n \subseteq Good
            BY <1>1, <1>2, <1>3, BoundedInduction
      <2> QED BY <1>1, <2>1
<1> HIDE DEF Lead, n
<1> QED BY <1>1, <1>4

\* a single one,
LEMMA FlattenOne ==
  ASSUME NEW S, NEW s \in Seq(S)
  PROVE  FlattenSeq(<< s >>) = s
<1>1. << >> \in Seq(Seq(S)) /\ Append(<< >>, s) = << s >> /\ FlattenSeq(<< >>) = << >>
      BY DEF FlattenSeq
<1>2. FlattenSeq(Append(<< >>, s)) = FlattenSeq(<< >>) \o s
      BY <1>1, FlattenAppend
<1> QED BY <1>1, <1>2, ConcatEmptySeq

\* and empty ones.
LEMMA FlattenEmpty ==
  ASSUME NEW S, NEW seqs \in Seq(Seq(S)), \A k \in 1 .. Len(seqs) : seqs[k] = << >>
  PROVE  FlattenSeq(seqs) = << >>
<1> DEFINE n == Len(seqs)
           off == Offsets(seqs)
           Good == { k \in 0 .. n : off[k] = 0 }
<1>1. n \in Nat /\ off[0] = 0 /\ \A k \in 1 .. n : off[k] = off[k - 1] + Len(seqs[k])
      BY FlattenOffsets DEF AreOffsets
<1>2. FlattenSeq(seqs) \in Seq(S) /\ Len(FlattenSeq(seqs)) = off[n]
      BY FlattenOffsets
<1> HIDE DEF off
<1>3. 0 \in Good
      BY <1>1
<1>4. ASSUME NEW k \in 0 .. n - 1, k \in Good PROVE k + 1 \in Good
      <2>1. k + 1 \in 1 .. n /\ (k + 1) - 1 = k /\ k + 1 \in 0 .. n
            <3> HIDE DEF n
            <3> QED BY <1>1
      <2>2. Len(seqs[k + 1]) = 0
            BY <2>1
      <2>3. off[k] = 0
            BY <1>4
      <2> HIDE DEF n
      <2>4. off[k + 1] = 0 + 0
            BY <1>1, <2>1, <2>2, <2>3
      <2> QED BY <2>1, <2>4
<1>5. n \in Good
      <2> HIDE DEF Good, n
      <2>1. 0 .. n \subseteq Good
            BY <1>1, <1>3, <1>4, BoundedInduction
      <2> QED BY <1>1, <2>1
<1> QED BY <1>2, <1>5, EmptySeq

\* A beginning of a sequence, and the next one.
LEMMA Beginning ==
  ASSUME NEW S, NEW s \in Seq(S), NEW k \in 0 .. Len(s)
  PROVE  /\ SubSeq(s, 1, k) \in Seq(S) /\ Len(SubSeq(s, 1, k)) = k
         /\ \A i \in 1 .. k : SubSeq(s, 1, k)[i] = s[i]
         /\ k < Len(s) => SubSeq(s, 1, k + 1) = Append(SubSeq(s, 1, k), s[k + 1])
<1>1. Len(s) \in Nat /\ k \in Nat
      OBVIOUS
<1>2. \A i \in 1 .. k : s[i] \in S
      BY <1>1, ElementOfSeq
<1>3. /\ SubSeq(s, 1, k) \in Seq(S) /\ Len(SubSeq(s, 1, k)) = k
      /\ \A i \in 1 .. k : SubSeq(s, 1, k)[i] = s[i]
      <2>1. 1 \in Int /\ k \in Int
            BY <1>1
      <2>2. /\ SubSeq(s, 1, k) \in Seq(S)
            /\ Len(SubSeq(s, 1, k)) = IF 1 <= k THEN k - 1 + 1 ELSE 0
            /\ \A i \in 1 .. k - 1 + 1 : SubSeq(s, 1, k)[i] = s[1 + i - 1]
            BY <1>2, <2>1, SubSeqProperties
      <2>3. k - 1 + 1 = k /\ \A i \in 1 .. k : 1 + i - 1 = i
            BY <1>1
      <2> QED BY <1>1, <2>2, <2>3
<1>4. ASSUME k < Len(s) PROVE SubSeq(s, 1, k + 1) = Append(SubSeq(s, 1, k), s[k + 1])
      <2>1. 1 \in 1 .. Len(s) /\ k + 1 \in 1 .. Len(s) /\ (k + 1) - 1 = k
            BY <1>1, <1>4
      <2>2. s[k + 1] \in S
            BY <2>1, ElementOfSeq
      <2>3. SubSeq(s, 1, k + 1) = SubSeq(s, 1, (k + 1) - 1) \o << s[k + 1] >>
            BY <2>1, SubSeqRecursiveSecond
      <2>4. SubSeq(s, 1, k + 1) = SubSeq(s, 1, k) \o << s[k + 1] >>
            BY <2>1, <2>3
      <2> QED BY <1>3, <2>2, <2>4, AppendIsConcat
<1> QED BY <1>3, <1>4

\* A recursive function that joins some sequences one by one
Joins(f, parts) ==
  f = [k \in 0 .. Len(parts) |-> IF k = 0 THEN << >> ELSE f[k - 1] \o parts[k]]

\* exists,
LEMMA JoinsExist ==
  ASSUME NEW S, NEW parts \in Seq(Seq(S)) PROVE \E f : Joins(f, parts)
<1> DEFINE n == Len(parts)
           f == [k \in 0 .. n |-> FlattenSeq(SubSeq(parts, 1, k))]
<1>1. n \in Nat
      OBVIOUS
<1>2. ASSUME NEW k \in 0 .. n PROVE f[k] = IF k = 0 THEN << >> ELSE f[k - 1] \o parts[k]
      <2>1. CASE k = 0
            <3>1. SubSeq(parts, 1, 0) = << >>
                  BY SubSeqEmpty
            <3>2. FlattenSeq(<< >>) = << >>
                  BY DEF FlattenSeq
            <3> QED BY <2>1, <3>1, <3>2
      <2>2. CASE k # 0
            <3> DEFINE j == k - 1
            <3>1. j \in 0 .. n /\ j + 1 = k /\ j < n /\ k \in 1 .. n
                  BY <1>1, <2>2
            <3> HIDE DEF j, n
            <3>2. SubSeq(parts, 1, j) \in Seq(Seq(S)) /\ parts[k] \in Seq(S)
                  BY <3>1, Beginning, ElementOfSeq DEF n
            <3>3. SubSeq(parts, 1, k) = Append(SubSeq(parts, 1, j), parts[k])
                  <4>1. SubSeq(parts, 1, j + 1) = Append(SubSeq(parts, 1, j), parts[j + 1])
                        BY <3>1, Beginning DEF n
                  <4> QED BY <3>1, <4>1
            <3>4. FlattenSeq(SubSeq(parts, 1, k)) = FlattenSeq(SubSeq(parts, 1, j)) \o parts[k]
                  BY <3>2, <3>3, FlattenAppend
            <3>5. f[k] = f[j] \o parts[k]
                  BY <3>1, <3>4
            <3> QED BY <2>2, <3>5 DEF j
      <2> QED BY <2>1, <2>2
<1>3. f = [k \in 0 .. n |-> IF k = 0 THEN << >> ELSE f[k - 1] \o parts[k]]
      <2>1. f = [k \in 0 .. n |-> f[k]]
            OBVIOUS
      <2> HIDE DEF f
      <2> QED BY <1>2, <2>1
<1> HIDE DEF f
<1> QED BY <1>3 DEF Joins

\* and it does what FlattenSeq does.
LEMMA JoinsFlatten ==
  ASSUME NEW S, NEW parts \in Seq(Seq(S)), NEW f, Joins(f, parts)
  PROVE  f[Len(parts)] = FlattenSeq(parts)
<1> DEFINE n == Len(parts)
           Good == { k \in 0 .. n : f[k] = FlattenSeq(SubSeq(parts, 1, k)) }
<1>1. n \in Nat
      OBVIOUS
<1>2. \A k \in 0 .. n : f[k] = IF k = 0 THEN << >> ELSE f[k - 1] \o parts[k]
      BY DEF Joins
<1>3. 0 \in Good
      <2>1. SubSeq(parts, 1, 0) = << >>
            BY SubSeqEmpty
      <2>2. FlattenSeq(<< >>) = << >>
            BY DEF FlattenSeq
      <2>3. 0 \in 0 .. n
            BY <1>1
      <2>4. f[0] = FlattenSeq(SubSeq(parts, 1, 0))
            BY <1>2, <2>1, <2>2, <2>3
      <2> QED BY <2>3, <2>4
<1>4. ASSUME NEW k \in 0 .. n - 1, k \in Good PROVE k + 1 \in Good
      <2>1. k \in 0 .. n /\ k + 1 \in 0 .. n /\ k + 1 # 0 /\ (k + 1) - 1 = k /\ k < n /\ k + 1 \in 1 .. n
            <3> HIDE DEF n
            <3> QED BY <1>1
      <2>2. f[k + 1] = f[k] \o parts[k + 1]
            BY <1>2, <2>1
      <2>3. f[k] = FlattenSeq(SubSeq(parts, 1, k))
            BY <1>4
      <2>4. SubSeq(parts, 1, k) \in Seq(Seq(S)) /\ parts[k + 1] \in Seq(S)
            BY <2>1, Beginning, ElementOfSeq
      <2>5. SubSeq(parts, 1, k + 1) = Append(SubSeq(parts, 1, k), parts[k + 1])
            BY <2>1, Beginning
      <2>6. f[k + 1] = FlattenSeq(SubSeq(parts, 1, k + 1))
            BY <2>2, <2>3, <2>4, <2>5, FlattenAppend
      <2> HIDE DEF n
      <2> QED BY <2>1, <2>6
<1>5. n \in Good
      <2> HIDE DEF Good, n
      <2>1. 0 .. n \subseteq Good
            BY <1>1, <1>3, <1>4, BoundedInduction
      <2> QED BY <1>1, <2>1
<1> QED BY <1>5, SubSeqFull

\* A bounded set of numbers has a greatest one.
LEMMA GreatestNumber ==
  ASSUME NEW n \in Nat, NEW T \in SUBSET (0 .. n), T # {}
  PROVE  Max(T) \in T /\ \A y \in T : y <= Max(T)
<1> DEFINE D == { n - x : x \in T }
<1>1. D \in SUBSET Nat /\ D # {}
      <2>1. \A x \in T : n - x \in Nat
            OBVIOUS
      <2> QED BY <2>1
<1>2. PICK d \in D : \A y \in D : d <= y
      BY <1>1, LeastNumber
<1>3. PICK x \in T : d = n - x
      BY <1>2
<1>4. \A y \in T : x >= y
      <2>1. \A y \in T : n - x <= n - y
            BY <1>2, <1>3
      <2> QED BY <2>1
<1>5. Max(T) \in T /\ \A y \in T : Max(T) >= y
      BY <1>4 DEF Max
<1> QED BY <1>5

\* The least number of a set, as Min gives it.
LEMMA MinIsLeast ==
  ASSUME NEW T \in SUBSET Nat, T # {}
  PROVE  Min(T) \in T /\ \A y \in T : Min(T) <= y
<1>1. \E x \in T : \A y \in T : x <= y
      BY LeastNumber
<1> QED BY <1>1 DEF Min

\* One sequence of many, and those in front of it and behind it.
LEMMA FlattenAround ==
  ASSUME NEW S, NEW seqs \in Seq(Seq(S)), NEW m \in 1 .. Len(seqs)
  PROVE  /\ SubSeq(seqs, 1, m - 1) \in Seq(Seq(S)) /\ SubSeq(seqs, m + 1, Len(seqs)) \in Seq(Seq(S))
         /\ FlattenSeq(seqs) = (FlattenSeq(SubSeq(seqs, 1, m - 1)) \o seqs[m])
                                 \o FlattenSeq(SubSeq(seqs, m + 1, Len(seqs)))
<1> DEFINE n == Len(seqs)
           j == m - 1
           front == SubSeq(seqs, 1, j)
           back == SubSeq(seqs, m + 1, n)
<1>1. n \in Nat /\ j \in 0 .. n /\ j < n /\ j + 1 = m /\ m \in 0 .. n /\ m \in Nat
      OBVIOUS
<1>2. \A k \in m + 1 .. n : seqs[k] \in Seq(S)
      <2>1. \A k \in m + 1 .. n : k \in 1 .. n
            OBVIOUS
      <2> QED BY <2>1, ElementOfSeq
<1>3. back \in Seq(Seq(S))
      <2> HIDE DEF n
      <2> QED BY <1>1, <1>2, SubSeqProperties
<1>4. front \in Seq(Seq(S)) /\ SubSeq(seqs, 1, m) = Append(front, seqs[m])
      <2> HIDE DEF j
      <2> QED BY <1>1, Beginning
<1>5. seqs = SubSeq(seqs, 1, m) \o back
      <2>1. SubSeq(seqs, 1, n) = seqs
            BY SubSeqFull
      <2>2. SubSeq(seqs, 1, m) \o back = SubSeq(seqs, 1, n)
            BY ConcatAdjacentSubSeq
      <2> QED BY <2>1, <2>2
<1>6. seqs[m] \in Seq(S) /\ SubSeq(seqs, 1, m) \in Seq(Seq(S))
      BY <1>1, Beginning, ElementOfSeq
<1>7. FlattenSeq(seqs) = FlattenSeq(SubSeq(seqs, 1, m)) \o FlattenSeq(back)
      <2> HIDE DEF back
      <2>1. FlattenSeq(SubSeq(seqs, 1, m) \o back) = FlattenSeq(SubSeq(seqs, 1, m)) \o FlattenSeq(back)
            BY <1>3, <1>6, FlattenConcat
      <2> QED BY <1>5, <2>1
<1>8. FlattenSeq(SubSeq(seqs, 1, m)) = FlattenSeq(front) \o seqs[m]
      <2> HIDE DEF front
      <2> QED BY <1>4, <1>6, FlattenAppend
<1> QED BY <1>3, <1>4, <1>7, <1>8

\* The first of two joined sequences has the head.
LEMMA HeadOfJoin ==
  ASSUME NEW S, NEW a \in Seq(S), NEW b \in Seq(S), a # << >>
  PROVE  a \o b # << >> /\ Head(a \o b) = Head(a) /\ Tail(a \o b) = Tail(a) \o b
<1> DEFINE s == a \o b
           t == Tail(a) \o b
<1>1. Len(a) \in Nat /\ Len(a) > 0 /\ Len(b) \in Nat
      BY EmptySeq
<1>2. /\ s \in Seq(S) /\ Len(s) = Len(a) + Len(b)
      /\ \A k \in 1 .. Len(a) + Len(b) : s[k] = IF k <= Len(a) THEN a[k] ELSE b[k - Len(a)]
      BY ConcatProperties
<1> HIDE DEF s
<1>3. s # << >>
      BY <1>1, <1>2
<1>4. /\ Tail(a) \in Seq(S) /\ Len(Tail(a)) = Len(a) - 1
      /\ \A k \in 1 .. Len(Tail(a)) : Tail(a)[k] = a[k + 1]
      BY HeadTailProperties
<1>5. /\ Tail(s) \in Seq(S) /\ Len(Tail(s)) = Len(s) - 1
      /\ \A k \in 1 .. Len(Tail(s)) : Tail(s)[k] = s[k + 1]
      BY <1>2, <1>3, HeadTailProperties
<1>6. /\ t \in Seq(S) /\ Len(t) = Len(Tail(a)) + Len(b)
      /\ \A k \in 1 .. Len(Tail(a)) + Len(b) :
           t[k] = IF k <= Len(Tail(a)) THEN Tail(a)[k] ELSE b[k - Len(Tail(a))]
      BY <1>4, ConcatProperties
<1> HIDE DEF t
<1>7. Len(Tail(s)) = Len(t)
      BY <1>1, <1>2, <1>4, <1>5, <1>6
<1>8. ASSUME NEW k \in 1 .. Len(Tail(s)) PROVE Tail(s)[k] = t[k]
      <2>1. k \in Nat /\ k + 1 \in 1 .. Len(a) + Len(b) /\ k \in 1 .. Len(Tail(a)) + Len(b)
            BY <1>1, <1>2, <1>4, <1>5
      <2>2. CASE k <= Len(Tail(a))
            <3>1. k \in 1 .. Len(Tail(a)) /\ k + 1 <= Len(a)
                  BY <1>1, <1>4, <2>1, <2>2
            <3> QED BY <1>2, <1>4, <1>5, <1>6, <2>1, <2>2, <3>1
      <2>3. CASE ~(k <= Len(Tail(a)))
            <3>1. ~(k + 1 <= Len(a)) /\ (k + 1) - Len(a) = k - Len(Tail(a))
                  BY <1>1, <1>4, <2>1, <2>3
            <3> QED BY <1>2, <1>5, <1>6, <2>1, <2>3, <3>1
      <2> QED BY <2>2, <2>3
<1>9. Tail(s) = t
      BY <1>5, <1>6, <1>7, <1>8, SeqEqual
<1>10. Head(s) = Head(a)
       <2>1. 1 \in 1 .. Len(a) + Len(b) /\ 1 <= Len(a)
             BY <1>1
       <2>2. s[1] = a[1]
             BY <1>2, <2>1
       <2> QED BY <2>2
<1> QED BY <1>3, <1>9, <1>10 DEF s, t
=============================================================================
