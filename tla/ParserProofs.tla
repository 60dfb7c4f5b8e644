---------------------------- MODULE ParserProofs ----------------------------
(***************************************************************************)
(* Proofs about the parser, for every set of files: it keeps its types on  *)
(* any bytes; its crops end where the sections end, so that a file cut     *)
(* inside a section is refused; and the bytes of a module become the       *)
(* tables of that module.                                                  *)
(*                                                                         *)
(* First where the binary format puts the bytes of a module: its numbers,  *)
(* its entries, the vectors of entries and the sections.  Nothing there    *)
(* depends on a state of the parser.                                       *)
(***************************************************************************)
EXTENDS ParsedModules, DataLemmas

ValType == {"i", "l", "f", "d"}

\* The phase in which the parser reads a section.
PhaseOf(id) == IF id \in DOMAIN HandlerOf THEN HandlerOf[id] ELSE "skipping"

\* Offset in terms of Offsets (DataLemmas).
LEMMA OffsetFacts ==
  ASSUME NEW S, NEW items \in Seq(Seq(S))
  PROVE  /\ FlattenSeq(items) \in Seq(S)
         /\ Offset(items, 0) = 0 /\ Offset(items, Len(items)) = Len(FlattenSeq(items))
         /\ \A k \in 0 .. Len(items) :
              Offset(items, k) \in Nat /\ Offset(items, k) <= Len(FlattenSeq(items))
         /\ \A k \in 1 .. Len(items) :
              /\ Offset(items, k) = Offset(items, k - 1) + Len(items[k])
              /\ \A j \in 1 .. Len(items[k]) :
                   FlattenSeq(items)[Offset(items, k - 1) + j] = items[k][j]
         /\ (\A i \in 1 .. Len(items) : items[i] # << >>) => Len(items) <= Len(FlattenSeq(items))
<1> DEFINE n == Len(items)
           off == Offsets(items)
<1>1. n \in Nat
      OBVIOUS
<1>2. \A k \in 0 .. n : Offset(items, k) = off[k]
      BY FlattenPrefix DEF Offset
<1>3. /\ FlattenSeq(items) \in Seq(S) /\ Len(FlattenSeq(items)) = off[n]
      /\ off \in [0 .. n -> Nat] /\ off[0] = 0
      /\ \A k \in 1 .. n : off[k] = off[k - 1] + Len(items[k])
      /\ \A k \in 1 .. n : \A j \in 1 .. Len(items[k]) : FlattenSeq(items)[off[k - 1] + j] = items[k][j]
      BY FlattenOffsets DEF AreOffsets
<1>4. ASSUME NEW k \in 0 .. n PROVE off[k] <= off[n]
      <2>1. n \in k .. n
            BY <1>1
      <2> QED BY <2>1, OffsetsGrow
<1>5. (\A i \in 1 .. Len(items) : items[i] # << >>) => off[0] + (n - 0) <= off[n]
      <2>1. 0 \in 0 .. n /\ n \in 0 .. n
            BY <1>1
      <2> QED BY <2>1, OffsetsGrow
<1> HIDE DEF off
<1>6. 0 \in 0 .. n /\ n \in 0 .. n /\ \A k \in 1 .. n : k \in 0 .. n /\ k - 1 \in 0 .. n
      BY <1>1
<1>7. Offset(items, 0) = 0 /\ Offset(items, n) = Len(FlattenSeq(items))
      BY <1>2, <1>3, <1>6
<1>8. \A k \in 0 .. n : Offset(items, k) \in Nat /\ Offset(items, k) <= Len(FlattenSeq(items))
      BY <1>2, <1>3, <1>4
<1>9. ASSUME NEW k \in 1 .. n
      PROVE  /\ Offset(items, k) = Offset(items, k - 1) + Len(items[k])
             /\ \A j \in 1 .. Len(items[k]) :
                  FlattenSeq(items)[Offset(items, k - 1) + j] = items[k][j]
      <2>1. Offset(items, k) = off[k] /\ Offset(items, k - 1) = off[k - 1]
            BY <1>2, <1>6
      <2> QED BY <1>3, <2>1
<1>10. (\A i \in 1 .. Len(items) : items[i] # << >>) => n <= Len(FlattenSeq(items))
       BY <1>1, <1>3, <1>5
<1> QED BY <1>3, <1>7, <1>8, <1>9, <1>10

\* A number is written in at least one byte; one below 128 in itself.
LEMMA U32Facts ==
  ASSUME NEW n \in Nat
  PROVE  /\ U32(n) \in Seq(Nat) /\ Len(U32(n)) >= 1
         /\ n < 128 => U32(n) = << n >>
<1>1. n % 128 \in Nat /\ n \div 128 \in Nat
      OBVIOUS
<1>2. CASE n < 128
      BY <1>2 DEF U32
<1>3. CASE ~(n < 128)
      <2>1. U32(n) = << 128 + (n % 128), n \div 128 >>
            BY <1>3 DEF U32
      <2>2. 128 + (n % 128) \in Nat
            BY <1>1
      <2> QED BY <1>1, <1>3, <2>1, <2>2
<1> QED BY <1>2, <1>3

\* A vector is the number of its items, then their bytes.
LEMMA VecFacts ==
  ASSUME NEW items \in Seq(Seq(Nat))
  PROVE  /\ Vec(items) \in Seq(Nat) /\ Len(Vec(items)) >= 1 + Len(FlattenSeq(items))
         /\ Len(items) < 128 => Vec(items) = << Len(items) >> \o FlattenSeq(items)
<1>1. Len(items) \in Nat /\ FlattenSeq(items) \in Seq(Nat)
      BY OffsetFacts
<1>2. /\ U32(Len(items)) \in Seq(Nat) /\ Len(U32(Len(items))) >= 1
      /\ Len(items) < 128 => U32(Len(items)) = << Len(items) >>
      BY <1>1, U32Facts
<1> DEFINE count == U32(Len(items))
           flat == FlattenSeq(items)
<1>3. Vec(items) = count \o flat
      BY DEF Vec
<1> HIDE DEF count, flat
<1>4. count \in Seq(Nat) /\ flat \in Seq(Nat)
      BY <1>1, <1>2 DEF count, flat
<1>5. Vec(items) \in Seq(Nat) /\ Len(Vec(items)) = Len(count) + Len(flat) /\ Len(flat) \in Nat
      BY <1>3, <1>4
<1>6. Len(items) < 128 => Vec(items) = << Len(items) >> \o flat
      BY <1>2, <1>3 DEF count
<1>7. Len(count) >= 1
      BY <1>2 DEF count
<1>8. Len(Vec(items)) >= 1 + Len(flat)
      <2>1. Len(count) \in Nat
            BY <1>4
      <2> QED BY <1>5, <1>7, <2>1
<1> QED BY <1>5, <1>6, <1>8 DEF flat

\* The exports and the bodies of modules.
ExportEntries == [name : Seq(Bytes), kind : 0 .. 3, index : 0 .. 2^14 - 1]
CodeEntries == [locals : Seq((0 .. 2^14 - 1) \X Bytes), body : Seq(Bytes)]

\* What WellFormed says, without its abbreviations.
LEMMA WellFormedParts ==
  ASSUME NEW m, WellFormed(m)
  PROVE  /\ m.types \in Seq([params : Seq(ValType), results : Seq(ValType)])
         /\ m.funcs \in Seq(0 .. Len(m.types) - 1)
         /\ m.exports \in Seq(ExportEntries)
         /\ \A j, k \in DOMAIN m.exports : m.exports[j].name = m.exports[k].name => j = k
         /\ m.codes \in Seq(CodeEntries)
         /\ m.extra \in Seq([id : Bytes \ {1, 3, 7, 10}, content : Seq(Bytes)])
BY DEF WellFormed, ValType, Bytes, ExportEntries, CodeEntries

\* A vector of value types: their number, then one byte for each.
LEMMA ValTypesFacts ==
  ASSUME NEW t \in Seq(ValType)
  PROVE  /\ ValTypes(t) \in Seq(Nat) /\ Len(ValTypes(t)) >= 1 + Len(t)
         /\ Len(t) < 128 => ValTypes(t) = << Len(t) >> \o [k \in DOMAIN t |-> TypeByte[t[k]]]
<1> DEFINE bytes == [k \in DOMAIN t |-> TypeByte[t[k]]]
           items == [k \in DOMAIN t |-> << TypeByte[t[k]] >>]
<1>1. Len(t) \in Nat /\ DOMAIN t = 1 .. Len(t)
      OBVIOUS
<1>2. \A k \in 1 .. Len(t) : TypeByte[t[k]] \in Nat
      <2>1. \A v \in ValType : TypeByte[v] \in Nat
            BY DEF ValType, TypeByte
      <2>2. \A k \in 1 .. Len(t) : t[k] \in ValType
            BY ElementType
      <2> QED BY <2>1, <2>2
<1>3. bytes \in Seq(Nat) /\ Len(bytes) = Len(t) /\ DOMAIN bytes = DOMAIN t
      <2>1. bytes \in [1 .. Len(t) -> Nat]
            BY <1>1, <1>2
      <2> QED BY <1>1, <2>1
<1>4. items \in Seq(Seq(Nat)) /\ Len(items) = Len(t)
      <2>1. \A k \in 1 .. Len(t) : << TypeByte[t[k]] >> \in Seq(Nat)
            BY <1>2
      <2>2. items \in [1 .. Len(t) -> Seq(Nat)]
            BY <1>1, <2>1
      <2> QED BY <1>1, <2>2
<1>5. items = [k \in DOMAIN bytes |-> << bytes[k] >>]
      BY <1>3
<1> HIDE DEF items, bytes
<1>6. FlattenSeq(items) = bytes
      BY <1>3, <1>5, FlattenSingletons
<1>7. ValTypes(t) = Vec(items)
      BY DEF ValTypes, items
<1> QED BY <1>1, <1>3, <1>4, <1>6, <1>7, VecFacts DEF bytes

\* Two sequences behind one another.
LEMMA Behind ==
  ASSUME NEW S, NEW a \in Seq(S), NEW b \in Seq(S)
  PROVE  /\ a \o b \in Seq(S) /\ Len(a \o b) = Len(a) + Len(b)
         /\ \A j \in 1 .. Len(a) : (a \o b)[j] = a[j]
         /\ \A j \in 1 .. Len(b) : (a \o b)[Len(a) + j] = b[j]
OBVIOUS

\* What follows a counted sequence may be joined to it first.
LEMMA CountedFront ==
  ASSUME NEW n, NEW S, n \in S, NEW x \in Seq(S), NEW y \in Seq(S)
  PROVE  (<< n >> \o x) \o y = << n >> \o (x \o y)
<1>1. << n >> \in Seq(S)
      OBVIOUS
<1> QED BY <1>1

\* A sequence of two elements.
LEMMA SequenceOfTwo ==
  ASSUME NEW S, NEW s \in Seq(S), Len(s) = 2 PROVE s = << s[1], s[2] >>
OBVIOUS

\* Two sequences of one element make one of two.
LEMMA TwoElements ==
  ASSUME NEW a, NEW b PROVE << a >> \o << b >> = << a, b >>
<1> DEFINE S == {a, b}
           one == << a >>
           two == << b >>
           both == one \o two
<1>1. one \in Seq(S) /\ two \in Seq(S)
      OBVIOUS
<1>2. Len(one) = 1 /\ Len(two) = 1 /\ one[1] = a /\ two[1] = b
      OBVIOUS
<1> HIDE DEF one, two, S
<1>3. /\ both \in Seq(S) /\ Len(both) = Len(one) + Len(two)
      /\ \A j \in 1 .. Len(one) : both[j] = one[j]
      /\ \A j \in 1 .. Len(two) : both[Len(one) + j] = two[j]
      BY <1>1, Behind
<1> HIDE DEF both
<1>4. both[1] = a /\ both[2] = b /\ Len(both) = 2
      <2>1. 1 \in 1 .. 1 /\ 1 + 1 = 2
            OBVIOUS
      <2> QED BY <1>2, <1>3, <2>1
<1>5. both = << both[1], both[2] >>
      BY <1>3, <1>4, SequenceOfTwo
<1>6. both = << a, b >>
      BY <1>4, <1>5, Zenon
<1> QED BY <1>6 DEF both, one, two

\* The parts of a pair.
LEMMA PairParts ==
  ASSUME NEW A, NEW B, NEW p \in A \X B
  PROVE  p[1] \in A /\ p[2] \in B /\ p = << p[1], p[2] >>
OBVIOUS

\* A counted sequence.
LEMMA Counted ==
  ASSUME NEW n \in Nat, NEW a \in Seq(Nat)
  PROVE  /\ << n >> \o a \in Seq(Nat) /\ Len(<< n >> \o a) = 1 + Len(a)
         /\ (<< n >> \o a)[1] = n
         /\ \A j \in 1 .. Len(a) : (<< n >> \o a)[1 + j] = a[j]
<1> DEFINE one == << n >>
           both == one \o a
<1>1. one \in Seq(Nat)
      OBVIOUS
<1>2. Len(one) = 1 /\ one[1] = n
      OBVIOUS
<1> HIDE DEF one
<1>3. /\ both \in Seq(Nat) /\ Len(both) = Len(one) + Len(a)
      /\ \A j \in 1 .. Len(one) : both[j] = one[j]
      /\ \A j \in 1 .. Len(a) : both[Len(one) + j] = a[j]
      BY <1>1, Behind
<1> HIDE DEF both
<1>4. /\ both \in Seq(Nat) /\ Len(both) = 1 + Len(a) /\ both[1] = n
      /\ \A j \in 1 .. Len(a) : both[1 + j] = a[j]
      BY <1>2, <1>3
<1> QED BY <1>4 DEF both, one

TypeBytes(t) == [k \in DOMAIN t |-> TypeByte[t[k]]]

\* One byte for each value type.
LEMMA TypeBytesType ==
  ASSUME NEW t \in Seq(ValType)
  PROVE  /\ TypeBytes(t) \in Seq(Nat) /\ Len(TypeBytes(t)) = Len(t)
         /\ \A k \in 1 .. Len(t) : TypeBytes(t)[k] = TypeByte[t[k]]
<1>1. Len(t) \in Nat /\ DOMAIN t = 1 .. Len(t)
      OBVIOUS
<1>2. \A v \in ValType : TypeByte[v] \in Nat
      BY DEF ValType, TypeByte
<1>3. \A k \in 1 .. Len(t) : TypeByte[t[k]] \in Nat
      BY <1>2, ElementType
<1>4. TypeBytes(t) \in [1 .. Len(t) -> Nat]
      BY <1>1, <1>3 DEF TypeBytes
<1>5. \A k \in 1 .. Len(t) : TypeBytes(t)[k] = TypeByte[t[k]]
      BY <1>1 DEF TypeBytes
<1> QED BY <1>1, <1>4, <1>5

\* Where the bytes of a function type are, when it is shorter than 128 bytes:
\* the numbers that parse_type adds up are at offsets 1 and 2 + P.
LEMMA FuncTypeFacts ==
  ASSUME NEW t \in [params : Seq(ValType), results : Seq(ValType)]
  PROVE  /\ FuncType(t) \in Seq(Nat) /\ Len(FuncType(t)) >= 3
         /\ Len(FuncType(t)) < 128 =>
              /\ Len(FuncType(t)) = 3 + Len(t.params) + Len(t.results)
              /\ FuncType(t)[2] = Len(t.params)
              /\ \A j \in 1 .. Len(t.params) : FuncType(t)[2 + j] = TypeByte[t.params[j]]
              /\ FuncType(t)[3 + Len(t.params)] = Len(t.results)
              /\ \A j \in 1 .. Len(t.results) :
                   FuncType(t)[3 + Len(t.params) + j] = TypeByte[t.results[j]]
<1> DEFINE p == ValTypes(t.params)
           r == ValTypes(t.results)
           P == Len(t.params)
           R == Len(t.results)
           bp == TypeBytes(t.params)
           br == TypeBytes(t.results)
<1>1. t.params \in Seq(ValType) /\ t.results \in Seq(ValType) /\ P \in Nat /\ R \in Nat
      OBVIOUS
<1>2. /\ p \in Seq(Nat) /\ r \in Seq(Nat) /\ Len(p) >= 1 + P /\ Len(r) >= 1 + R
      /\ P < 128 => p = << P >> \o bp
      /\ R < 128 => r = << R >> \o br
      BY <1>1, ValTypesFacts DEF TypeBytes
<1>3. /\ bp \in Seq(Nat) /\ br \in Seq(Nat) /\ Len(bp) = P /\ Len(br) = R
      /\ \A j \in 1 .. P : bp[j] = TypeByte[t.params[j]]
      /\ \A j \in 1 .. R : br[j] = TypeByte[t.results[j]]
      BY <1>1, TypeBytesType
<1> DEFINE q == << \h60 >> \o p
<1>4. FuncType(t) = q \o r
      BY DEF FuncType
<1> HIDE DEF p, r, bp, br, P, R
<1>5. /\ q \in Seq(Nat) /\ Len(q) = 1 + Len(p)
      /\ \A j \in 1 .. Len(p) : q[1 + j] = p[j]
      <2>1. p \in Seq(Nat)
            BY <1>2
      <2> QED BY <2>1, Counted
<1> HIDE DEF q
<1>6. /\ FuncType(t) \in Seq(Nat) /\ Len(FuncType(t)) = Len(q) + Len(r)
      /\ \A j \in 1 .. Len(q) : FuncType(t)[j] = q[j]
      /\ \A j \in 1 .. Len(r) : FuncType(t)[Len(q) + j] = r[j]
      <2>1. q \in Seq(Nat) /\ r \in Seq(Nat)
            BY <1>2, <1>5
      <2> QED BY <1>4, <2>1, Behind
<1>7. Len(p) \in Nat /\ Len(r) \in Nat
      BY <1>2
<1>8. Len(FuncType(t)) >= 3 + P + R
      BY <1>1, <1>2, <1>5, <1>6, <1>7
<1>9. ASSUME Len(FuncType(t)) < 128
      PROVE  /\ Len(FuncType(t)) = 3 + P + R
             /\ FuncType(t)[2] = P
             /\ \A j \in 1 .. P : FuncType(t)[2 + j] = bp[j]
             /\ FuncType(t)[3 + P] = R
             /\ \A j \in 1 .. R : FuncType(t)[3 + P + j] = br[j]
      <2>1. P < 128 /\ R < 128
            BY <1>1, <1>8, <1>9
      <2>2. p = << P >> \o bp /\ r = << R >> \o br
            BY <1>2, <2>1
      <2>3. /\ Len(p) = 1 + P /\ p[1] = P /\ \A j \in 1 .. P : p[1 + j] = bp[j]
            /\ Len(r) = 1 + R /\ r[1] = R /\ \A j \in 1 .. R : r[1 + j] = br[j]
            <3>1. bp \in Seq(Nat) /\ br \in Seq(Nat) /\ Len(bp) = P /\ Len(br) = R
                  BY <1>3
            <3>2. /\ Len(p) = 1 + Len(bp) /\ p[1] = P /\ \A j \in 1 .. Len(bp) : p[1 + j] = bp[j]
                  BY <1>1, <2>2, <3>1, Counted
            <3>3. /\ Len(r) = 1 + Len(br) /\ r[1] = R /\ \A j \in 1 .. Len(br) : r[1 + j] = br[j]
                  BY <1>1, <2>2, <3>1, Counted
            <3> QED BY <3>1, <3>2, <3>3
      <2>4. Len(FuncType(t)) = 3 + P + R
            BY <1>1, <1>5, <1>6, <2>3
      <2>5. FuncType(t)[2] = P
            <3>1. 1 \in 1 .. Len(p) /\ 2 \in 1 .. Len(q) /\ 2 = 1 + 1
                  BY <1>1, <1>5, <2>3
            <3>2. q[1 + 1] = p[1] /\ FuncType(t)[2] = q[2]
                  BY <1>5, <1>6, <3>1
            <3> QED BY <2>3, <3>1, <3>2
      <2>6. ASSUME NEW j \in 1 .. P PROVE FuncType(t)[2 + j] = bp[j]
            <3>1. 1 + j \in 1 .. Len(p) /\ 2 + j \in 1 .. Len(q) /\ 2 + j = 1 + (1 + j)
                  BY <1>1, <1>5, <2>3
            <3>2. q[1 + (1 + j)] = p[1 + j] /\ FuncType(t)[2 + j] = q[2 + j]
                  BY <1>5, <1>6, <3>1
            <3> QED BY <2>3, <3>1, <3>2
      <2>7. FuncType(t)[3 + P] = R
            <3>1. 1 \in 1 .. Len(r) /\ Len(q) + 1 = 3 + P
                  BY <1>1, <1>5, <2>3
            <3> QED BY <1>6, <2>3, <3>1
      <2>8. ASSUME NEW j \in 1 .. R PROVE FuncType(t)[3 + P + j] = br[j]
            <3>1. 1 + j \in 1 .. Len(r) /\ Len(q) + (1 + j) = 3 + P + j
                  BY <1>1, <1>5, <2>3
            <3> QED BY <1>6, <2>3, <3>1
      <2> QED BY <2>4, <2>5, <2>6, <2>7, <2>8
<1>10. FuncType(t) \in Seq(Nat) /\ Len(FuncType(t)) >= 3
       <2>1. Len(FuncType(t)) \in Nat
             BY <1>6
       <2> QED BY <1>1, <1>6, <1>8, <2>1
<1>11. ASSUME Len(FuncType(t)) < 128
       PROVE  /\ \A j \in 1 .. P : FuncType(t)[2 + j] = TypeByte[t.params[j]]
              /\ \A j \in 1 .. R : FuncType(t)[3 + P + j] = TypeByte[t.results[j]]
       BY <1>3, <1>9, <1>11
<1> QED BY <1>9, <1>10, <1>11 DEF P, R

\* Where the bytes of an export are: length, name, kind, index.
LEMMA ExportFacts ==
  ASSUME NEW e \in ExportEntries
  PROVE  /\ Export(e) \in Seq(Nat) /\ Len(Export(e)) >= 3
         /\ Len(Export(e)) < 128 /\ e.index < 128 =>
              /\ Len(Export(e)) = 3 + Len(e.name)
              /\ Export(e)[1] = Len(e.name)
              /\ \A j \in 1 .. Len(e.name) : Export(e)[1 + j] = e.name[j]
              /\ Export(e)[3 + Len(e.name)] = e.index
<1> DEFINE name == e.name
           N == Len(e.name)
           u == U32(Len(e.name))
           index == U32(e.index)
           front == u \o name
           kind == << e.kind >>
           middle == front \o kind
<1>1. name \in Seq(Nat) /\ N \in Nat /\ N = Len(name) /\ e.kind \in Nat /\ e.index \in Nat
      <2>1. name \in Seq(Bytes) /\ e.kind \in 0 .. 3 /\ e.index \in 0 .. 2^14 - 1
            BY DEF ExportEntries
      <2>2. name \in Seq(Nat)
            <3>1. \A b \in Bytes : b \in Nat
                  BY DEF Bytes
            <3> HIDE DEF name
            <3> QED BY <2>1, <3>1
      <2>3. 2^14 - 1 \in Nat
            OBVIOUS
      <2> QED BY <2>1, <2>2, <2>3
<1>2. /\ u \in Seq(Nat) /\ Len(u) >= 1 /\ (N < 128 => u = << N >>)
      /\ index \in Seq(Nat) /\ Len(index) >= 1 /\ (e.index < 128 => index = << e.index >>)
      BY <1>1, U32Facts
<1>3. Export(e) = middle \o index
      BY DEF Export
<1> HIDE DEF u, index, name, N
<1>4. /\ front \in Seq(Nat) /\ Len(front) = Len(u) + N
      /\ \A j \in 1 .. Len(u) : front[j] = u[j]
      /\ \A j \in 1 .. N : front[Len(u) + j] = name[j]
      <2>1. u \in Seq(Nat) /\ name \in Seq(Nat)
            BY <1>1, <1>2
      <2>2. /\ u \o name \in Seq(Nat) /\ Len(u \o name) = Len(u) + Len(name)
            /\ \A j \in 1 .. Len(u) : (u \o name)[j] = u[j]
            /\ \A j \in 1 .. Len(name) : (u \o name)[Len(u) + j] = name[j]
            BY <2>1, Behind
      <2> QED BY <1>1, <2>2
<1> HIDE DEF front
<1>5. kind \in Seq(Nat) /\ Len(kind) = 1
      BY <1>1
<1> HIDE DEF kind
<1>6. /\ middle \in Seq(Nat) /\ Len(middle) = Len(front) + 1
      /\ \A j \in 1 .. Len(front) : middle[j] = front[j]
      <2>1. front \in Seq(Nat) /\ kind \in Seq(Nat)
            BY <1>4, <1>5
      <2>2. /\ middle \in Seq(Nat) /\ Len(middle) = Len(front) + Len(kind)
            /\ \A j \in 1 .. Len(front) : middle[j] = front[j]
            BY <2>1, Behind
      <2> HIDE DEF middle
      <2> QED BY <1>5, <2>2
<1> HIDE DEF middle
<1>7. /\ Export(e) \in Seq(Nat) /\ Len(Export(e)) = Len(middle) + Len(index)
      /\ \A j \in 1 .. Len(middle) : Export(e)[j] = middle[j]
      /\ \A j \in 1 .. Len(index) : Export(e)[Len(middle) + j] = index[j]
      <2> DEFINE whole == middle \o index
      <2>1. middle \in Seq(Nat) /\ index \in Seq(Nat)
            BY <1>2, <1>6
      <2>2. /\ whole \in Seq(Nat) /\ Len(whole) = Len(middle) + Len(index)
            /\ \A j \in 1 .. Len(middle) : whole[j] = middle[j]
            /\ \A j \in 1 .. Len(index) : whole[Len(middle) + j] = index[j]
            BY <2>1, Behind
      <2>3. Export(e) = whole
            BY <1>3
      <2> HIDE DEF whole
      <2> QED BY <2>2, <2>3
<1>8. Len(Export(e)) = Len(u) + N + 1 + Len(index)
      <2>1. Len(u) \in Nat /\ Len(index) \in Nat
            BY <1>2
      <2> QED BY <1>1, <1>4, <1>6, <1>7, <2>1
<1>9. ASSUME Len(Export(e)) < 128, e.index < 128
      PROVE  /\ Len(Export(e)) = 3 + N /\ Export(e)[1] = N
             /\ \A j \in 1 .. N : Export(e)[1 + j] = name[j]
             /\ Export(e)[3 + N] = e.index
      <2>1. N < 128
            BY <1>1, <1>2, <1>8, <1>9
      <2>2. /\ u = << N >> /\ index = << e.index >> /\ Len(u) = 1 /\ Len(index) = 1
            /\ u[1] = N /\ index[1] = e.index
            BY <1>2, <1>9, <2>1
      <2>3. Len(Export(e)) = 3 + N /\ Len(front) = 1 + N /\ Len(middle) = 2 + N
            <3>1. Len(u) = 1 /\ Len(index) = 1
                  BY <2>2
            <3>2. Len(front) = Len(u) + N /\ Len(middle) = Len(front) + 1
                  BY <1>4, <1>6
            <3> QED BY <1>1, <1>8, <3>1, <3>2
      <2>4. Export(e)[1] = N
            <3>1. 1 \in 1 .. Len(u) /\ 1 \in 1 .. Len(front) /\ 1 \in 1 .. Len(middle)
                  BY <1>1, <2>2, <2>3
            <3>2. front[1] = u[1] /\ middle[1] = front[1] /\ Export(e)[1] = middle[1]
                  BY <1>4, <1>6, <1>7, <3>1
            <3> QED BY <2>2, <3>2
      <2>5. ASSUME NEW j \in 1 .. N PROVE Export(e)[1 + j] = name[j]
            <3>1. Len(u) + j = 1 + j /\ 1 + j \in 1 .. Len(front) /\ 1 + j \in 1 .. Len(middle)
                  BY <1>1, <2>2, <2>3
            <3>2. front[Len(u) + j] = name[j] /\ middle[1 + j] = front[1 + j] /\ Export(e)[1 + j] = middle[1 + j]
                  BY <1>4, <1>6, <1>7, <3>1
            <3> QED BY <3>1, <3>2
      <2>6. Export(e)[3 + N] = e.index
            <3>1. 1 \in 1 .. Len(index) /\ Len(middle) + 1 = 3 + N
                  BY <1>1, <2>2, <2>3
            <3> QED BY <1>7, <2>2, <3>1
      <2> QED BY <2>3, <2>4, <2>5, <2>6
<1>10. Len(Export(e)) >= 3
       <2>1. Len(u) >= 1 /\ Len(index) >= 1
             BY <1>2
       <2>2. Len(u) \in Nat /\ Len(index) \in Nat
             BY <1>2
       <2> QED BY <1>1, <1>8, <2>1, <2>2
<1> QED BY <1>7, <1>9, <1>10 DEF N, name

\* The bytes of a body behind the number of its declarations.
CodeVec(c) == FlattenSeq(c.locals) \o c.body

\* Where the bytes of a body are: size, number of declarations, and then the
\* bytes that parse_code copies.
LEMMA CodeFacts ==
  ASSUME NEW c \in CodeEntries
  PROVE  /\ Code(c) \in Seq(Nat) /\ Len(Code(c)) >= 2
         /\ Len(Code(c)) < 128 /\ (\A j \in DOMAIN c.locals : c.locals[j][1] < 128) =>
              /\ Len(c.locals) \in Nat /\ CodeVec(c) \in Seq(Nat)
              /\ Len(Code(c)) = 2 + Len(CodeVec(c))
              /\ Code(c)[1] = 1 + Len(CodeVec(c))
              /\ Code(c)[2] = Len(c.locals)
              /\ \A j \in 1 .. Len(CodeVec(c)) : Code(c)[2 + j] = CodeVec(c)[j]
<1> DEFINE L == c.locals
           D == Len(L)
           pair == [k \in DOMAIN L |-> U32(L[k][1]) \o << L[k][2] >>]
           decls == Vec(pair)
           content == decls \o c.body
           size == U32(Len(content))
<1>1. L \in Seq((0 .. 2^14 - 1) \X Bytes) /\ D \in Nat /\ DOMAIN L = 1 .. D /\ c.body \in Seq(Nat)
      <2>1. L \in Seq((0 .. 2^14 - 1) \X Bytes) /\ c.body \in Seq(Bytes)
            BY DEF CodeEntries
      <2>2. \A x \in Bytes : x \in Nat
            BY DEF Bytes
      <2> HIDE DEF L
      <2> QED BY <2>1, <2>2
<1>2. ASSUME NEW k \in 1 .. D
      PROVE  L[k][1] \in Nat /\ L[k][2] \in Nat /\ L[k] = << L[k][1], L[k][2] >>
      <2>1. L[k] \in (0 .. 2^14 - 1) \X Bytes
            BY <1>1, ElementType
      <2>2. \A x \in (0 .. 2^14 - 1) : x \in Nat
            OBVIOUS
      <2>3. \A x \in Bytes : x \in Nat
            BY DEF Bytes
      <2> DEFINE p == L[k]
      <2> HIDE DEF L, p
      <2> DEFINE A == 0 .. 2^14 - 1
      <2> HIDE DEF A
      <2>4. p \in A \X Bytes
            BY <2>1 DEF p, A
      <2>5. p[1] \in A /\ p[2] \in Bytes /\ p = << p[1], p[2] >>
            BY <2>4, PairParts
      <2> QED BY <2>2, <2>3, <2>5 DEF p, A
<1> HIDE DEF L, D
<1>3. ASSUME NEW k \in 1 .. D
      PROVE  /\ U32(L[k][1]) \o << L[k][2] >> \in Seq(Nat)
             /\ L[k][1] < 128 => U32(L[k][1]) \o << L[k][2] >> = L[k]
      <2>1. /\ U32(L[k][1]) \in Seq(Nat)
            /\ L[k][1] < 128 => U32(L[k][1]) = << L[k][1] >>
            BY <1>2, U32Facts
      <2>2. << L[k][2] >> \in Seq(Nat)
            BY <1>2
      <2>3. << L[k][1] >> \o << L[k][2] >> = << L[k][1], L[k][2] >>
            BY TwoElements, Zenon
      <2>4. U32(L[k][1]) \o << L[k][2] >> \in Seq(Nat)
            BY <2>1, <2>2
      <2>5. ASSUME L[k][1] < 128 PROVE U32(L[k][1]) \o << L[k][2] >> = L[k]
            <3>1. U32(L[k][1]) = << L[k][1] >>
                  BY <2>1, <2>5
            <3> QED BY <1>2, <2>3, <3>1
      <2> QED BY <2>4, <2>5
<1>4. pair \in Seq(Seq(Nat)) /\ Len(pair) = D
      <2>1. pair \in [1 .. D -> Seq(Nat)]
            BY <1>1, <1>3
      <2> HIDE DEF pair
      <2> QED BY <1>1, <2>1
<1>5. ASSUME \A j \in 1 .. D : L[j][1] < 128 PROVE pair = L
      <2>1. \A k \in 1 .. D : U32(L[k][1]) \o << L[k][2] >> = L[k]
            BY <1>3, <1>5
      <2>2. L = [k \in 1 .. D |-> L[k]]
            BY <1>1
      <2> QED BY <1>1, <2>1, <2>2
<1> HIDE DEF pair
<1>6. /\ decls \in Seq(Nat) /\ Len(decls) >= 1 + Len(FlattenSeq(pair))
      /\ D < 128 => decls = << D >> \o FlattenSeq(pair)
      BY <1>4, VecFacts
<1>7. FlattenSeq(pair) \in Seq(Nat) /\ Len(FlattenSeq(pair)) \in Nat
      BY <1>4, OffsetFacts
<1>8. ASSUME \A j \in 1 .. D : L[j][1] < 128 PROVE D <= Len(FlattenSeq(pair))
      <2>1. \A k \in 1 .. D : pair[k] # << >>
            <3>1. TAKE k \in 1 .. D
            <3>2. pair[k] = << L[k][1], L[k][2] >>
                  BY <1>2, <1>5, <1>8
            <3> QED BY <3>2
      <2> QED BY <1>4, <2>1, OffsetFacts
<1> HIDE DEF decls
<1>9. content \in Seq(Nat) /\ Len(content) = Len(decls) + Len(c.body)
      BY <1>1, <1>6
<1>10. Len(decls) \in Nat /\ Len(c.body) \in Nat /\ Len(content) \in Nat
       BY <1>1, <1>6, <1>9
<1>11. Code(c) = size \o content
       BY DEF Code, content, decls, pair, L
<1> HIDE DEF content
<1>12. /\ size \in Seq(Nat) /\ Len(size) >= 1 /\ Len(size) \in Nat
       /\ Len(content) < 128 => size = << Len(content) >>
       <2> DEFINE n == Len(content)
       <2>1. n \in Nat
             BY <1>10
       <2> HIDE DEF n
       <2>2. U32(n) \in Seq(Nat) /\ Len(U32(n)) >= 1 /\ (n < 128 => U32(n) = << n >>)
             BY <2>1, U32Facts
       <2>3. Len(U32(n)) \in Nat
             BY <2>2
       <2> QED BY <2>2, <2>3 DEF n
<1> HIDE DEF size
<1> DEFINE whole == size \o content
<1>13. Code(c) \in Seq(Nat) /\ Len(Code(c)) = Len(size) + Len(content)
       <2>1. content \in Seq(Nat) /\ size \in Seq(Nat)
             BY <1>9, <1>12
       <2>2. whole \in Seq(Nat) /\ Len(whole) = Len(size) + Len(content)
             BY <2>1, Behind
       <2> HIDE DEF whole
       <2> QED BY <1>11, <2>2 DEF whole
<1>14. Len(Code(c)) >= 2
       BY <1>6, <1>7, <1>9, <1>10, <1>12, <1>13
<1>15. ASSUME Len(Code(c)) < 128, \A j \in 1 .. D : L[j][1] < 128
       PROVE  /\ CodeVec(c) \in Seq(Nat)
              /\ Len(Code(c)) = 2 + Len(CodeVec(c))
              /\ Code(c)[1] = 1 + Len(CodeVec(c))
              /\ Code(c)[2] = D
              /\ \A j \in 1 .. Len(CodeVec(c)) : Code(c)[2 + j] = CodeVec(c)[j]
       <2> DEFINE flat == FlattenSeq(L)
                  vec == CodeVec(c)
       <2>1. Len(content) < 128 /\ D < 128
             <3> DEFINE n == Len(content)
                        z == Len(size)
                        d == Len(decls)
                        b == Len(c.body)
                        p == Len(FlattenSeq(pair))
             <3>1. z + n < 128 /\ z >= 1 /\ z \in Nat
                   BY <1>12, <1>13, <1>15
             <3>2. n = d + b /\ n \in Nat /\ d \in Nat /\ b \in Nat
                   BY <1>9, <1>10
             <3>3. d >= 1 + p /\ p \in Nat
                   BY <1>6, <1>7
             <3>4. D <= p /\ D \in Nat
                   BY <1>1, <1>8, <1>15
             <3> HIDE DEF n, z, d, b, p, D
             <3>5. n < 128 /\ D < 128
                   BY <3>1, <3>2, <3>3, <3>4
             <3> QED BY <3>5 DEF n
       <2>2. flat \in Seq(Nat) /\ vec = flat \o c.body /\ decls = << D >> \o flat
             BY <1>5, <1>6, <1>7, <1>15, <2>1 DEF CodeVec, L
       <2> HIDE DEF flat, vec
       <2>3. vec \in Seq(Nat)
             BY <1>1, <2>2
       <2>4. content = << D >> \o vec
             <3>1. content = (<< D >> \o flat) \o c.body
                   BY <2>2 DEF content
             <3> DEFINE body == c.body
             <3>2. D \in Nat /\ flat \in Seq(Nat) /\ body \in Seq(Nat)
                   BY <1>1, <2>2
             <3> HIDE DEF body
             <3>3. (<< D >> \o flat) \o body = << D >> \o (flat \o body)
                   BY <3>2, CountedFront
             <3> QED BY <2>2, <3>1, <3>3 DEF body
       <2>5. /\ Len(content) = 1 + Len(vec) /\ content[1] = D
             /\ \A j \in 1 .. Len(vec) : content[1 + j] = vec[j]
             BY <1>1, <2>3, <2>4, Counted
       <2>6. Code(c) = << Len(content) >> \o content
             BY <1>11, <1>12, <2>1
       <2>7. /\ Len(Code(c)) = 1 + Len(content) /\ Code(c)[1] = Len(content)
             /\ \A j \in 1 .. Len(content) : Code(c)[1 + j] = content[j]
             <3> DEFINE n == Len(content)
             <3>1. n \in Nat /\ content \in Seq(Nat) /\ Code(c) = << n >> \o content
                   BY <1>9, <1>10, <2>6
             <3> HIDE DEF n
             <3>2. /\ Len(Code(c)) = 1 + Len(content) /\ Code(c)[1] = n
                   /\ \A j \in 1 .. Len(content) : Code(c)[1 + j] = content[j]
                   BY <3>1, Counted
             <3> QED BY <3>2 DEF n
       <2>8. Len(vec) \in Nat
             BY <2>3
       <2>9. Code(c)[2] = D
             <3>1. 1 \in 1 .. Len(content) /\ 1 + 1 = 2
                   BY <2>5, <2>8
             <3> QED BY <2>5, <2>7, <3>1
       <2>10. ASSUME NEW j \in 1 .. Len(vec) PROVE Code(c)[2 + j] = vec[j]
             <3>1. 1 + j \in 1 .. Len(content) /\ 1 + (1 + j) = 2 + j
                   BY <2>5, <2>8
             <3> QED BY <2>5, <2>7, <3>1
       <2>11. Len(Code(c)) = 2 + Len(vec) /\ Code(c)[1] = 1 + Len(vec)
             BY <2>5, <2>7, <2>8
       <2> QED BY <2>3, <2>9, <2>10, <2>11 DEF vec
<1> QED BY <1>1, <1>13, <1>14, <1>15 DEF L, D

\* A function that gives each of 1 .. n some bytes is a sequence of them.
LEMMA EntriesBytes ==
  ASSUME NEW n \in Nat, NEW items, DOMAIN items = 1 .. n, items = [k \in DOMAIN items |-> items[k]],
         \A k \in 1 .. n : items[k] \in Seq(Nat) /\ Len(items[k]) >= 1
  PROVE  /\ items \in Seq(Seq(Nat)) /\ Len(items) = n
         /\ \A k \in 1 .. n : items[k] # << >>
<1>1. items \in [1 .. n -> Seq(Nat)]
      OBVIOUS
<1> QED BY <1>1

\* One non-empty sequence of bytes for each entry of the four sections.
LEMMA ItemsFacts ==
  ASSUME NEW m, WellFormed(m)
  PROVE  /\ Len(m.types) \in Nat /\ Len(m.funcs) \in Nat
         /\ Len(m.exports) \in Nat /\ Len(m.codes) \in Nat
         /\ TypeItems(m) \in Seq(Seq(Nat)) /\ Len(TypeItems(m)) = Len(m.types)
         /\ \A k \in 1 .. Len(m.types) :
              TypeItems(m)[k] = FuncType(m.types[k]) /\ TypeItems(m)[k] # << >>
         /\ FuncItems(m) \in Seq(Seq(Nat)) /\ Len(FuncItems(m)) = Len(m.funcs)
         /\ \A k \in 1 .. Len(m.funcs) :
              FuncItems(m)[k] = U32(m.funcs[k]) /\ FuncItems(m)[k] # << >>
         /\ ExportItems(m) \in Seq(Seq(Nat)) /\ Len(ExportItems(m)) = Len(m.exports)
         /\ \A k \in 1 .. Len(m.exports) :
              ExportItems(m)[k] = Export(m.exports[k]) /\ ExportItems(m)[k] # << >>
         /\ CodeItems(m) \in Seq(Seq(Nat)) /\ Len(CodeItems(m)) = Len(m.codes)
         /\ \A k \in 1 .. Len(m.codes) :
              CodeItems(m)[k] = Code(m.codes[k]) /\ CodeItems(m)[k] # << >>
<1> DEFINE T == m.types
           F == m.funcs
           X == m.exports
           C == m.codes
<1>1. /\ T \in Seq([params : Seq(ValType), results : Seq(ValType)])
      /\ F \in Seq(0 .. Len(T) - 1)
      /\ X \in Seq(ExportEntries)
      /\ C \in Seq(CodeEntries)
      BY WellFormedParts
<1>2. /\ TypeItems(m) = [k \in DOMAIN T |-> FuncType(T[k])]
      /\ FuncItems(m) = [k \in DOMAIN F |-> U32(F[k])]
      /\ ExportItems(m) = [k \in DOMAIN X |-> Export(X[k])]
      /\ CodeItems(m) = [k \in DOMAIN C |-> Code(C[k])]
      BY DEF TypeItems, FuncItems, ExportItems, CodeItems
<1> HIDE DEF T, F, X, C
<1>3. /\ Len(T) \in Nat /\ DOMAIN T = 1 .. Len(T) /\ Len(F) \in Nat /\ DOMAIN F = 1 .. Len(F)
      /\ Len(X) \in Nat /\ DOMAIN X = 1 .. Len(X) /\ Len(C) \in Nat /\ DOMAIN C = 1 .. Len(C)
      <2>1. Len(T) \in Nat /\ DOMAIN T = 1 .. Len(T)
            BY <1>1, LenProperties
      <2>2. Len(F) \in Nat /\ DOMAIN F = 1 .. Len(F)
            BY <1>1, LenProperties
      <2>3. Len(X) \in Nat /\ DOMAIN X = 1 .. Len(X)
            BY <1>1, LenProperties
      <2>4. Len(C) \in Nat /\ DOMAIN C = 1 .. Len(C)
            BY <1>1, LenProperties
      <2> QED BY <2>1, <2>2, <2>3, <2>4
<1>4. \A k \in 1 .. Len(T) : FuncType(T[k]) \in Seq(Nat) /\ Len(FuncType(T[k])) >= 3
      <2>1. \A k \in 1 .. Len(T) : T[k] \in [params : Seq(ValType), results : Seq(ValType)]
            BY <1>1, ElementType
      <2> QED BY <2>1, FuncTypeFacts
<1>5. \A k \in 1 .. Len(F) : U32(F[k]) \in Seq(Nat) /\ Len(U32(F[k])) >= 1
      <2>1. \A k \in 1 .. Len(F) : F[k] \in 0 .. Len(T) - 1
            BY <1>1, ElementType
      <2>2. \A k \in 1 .. Len(F) : F[k] \in Nat
            BY <1>3, <2>1
      <2> QED BY <2>2, U32Facts
<1>6. \A k \in 1 .. Len(X) : Export(X[k]) \in Seq(Nat) /\ Len(Export(X[k])) >= 3
      <2>1. \A k \in 1 .. Len(X) : X[k] \in ExportEntries
            BY <1>1, ElementType
      <2> QED BY <2>1, ExportFacts
<1>7. \A k \in 1 .. Len(C) : Code(C[k]) \in Seq(Nat) /\ Len(Code(C[k])) >= 2
      <2>1. \A k \in 1 .. Len(C) : C[k] \in CodeEntries
            BY <1>1, ElementType
      <2> QED BY <2>1, CodeFacts
<1>8. /\ TypeItems(m) \in Seq(Seq(Nat)) /\ Len(TypeItems(m)) = Len(T)
      /\ \A k \in 1 .. Len(T) : TypeItems(m)[k] = FuncType(T[k]) /\ TypeItems(m)[k] # << >>
      <2>1. DOMAIN TypeItems(m) = 1 .. Len(T) /\ \A k \in 1 .. Len(T) : TypeItems(m)[k] = FuncType(T[k])
            BY <1>2, <1>3
      <2>2. TypeItems(m) = [k \in DOMAIN TypeItems(m) |-> TypeItems(m)[k]]
            BY <1>2, <1>3
      <2>3. \A k \in 1 .. Len(T) : TypeItems(m)[k] \in Seq(Nat) /\ Len(TypeItems(m)[k]) >= 1
            BY <1>4, <2>1
      <2> QED BY <1>3, <2>1, <2>2, <2>3, EntriesBytes
<1>9. /\ FuncItems(m) \in Seq(Seq(Nat)) /\ Len(FuncItems(m)) = Len(F)
      /\ \A k \in 1 .. Len(F) : FuncItems(m)[k] = U32(F[k]) /\ FuncItems(m)[k] # << >>
      <2>1. DOMAIN FuncItems(m) = 1 .. Len(F) /\ \A k \in 1 .. Len(F) : FuncItems(m)[k] = U32(F[k])
            BY <1>2, <1>3
      <2>2. FuncItems(m) = [k \in DOMAIN FuncItems(m) |-> FuncItems(m)[k]]
            BY <1>2, <1>3
      <2>3. \A k \in 1 .. Len(F) : FuncItems(m)[k] \in Seq(Nat) /\ Len(FuncItems(m)[k]) >= 1
            BY <1>5, <2>1
      <2> QED BY <1>3, <2>1, <2>2, <2>3, EntriesBytes
<1>10. /\ ExportItems(m) \in Seq(Seq(Nat)) /\ Len(ExportItems(m)) = Len(X)
       /\ \A k \in 1 .. Len(X) : ExportItems(m)[k] = Export(X[k]) /\ ExportItems(m)[k] # << >>
       <2>1. DOMAIN ExportItems(m) = 1 .. Len(X) /\ \A k \in 1 .. Len(X) : ExportItems(m)[k] = Export(X[k])
             BY <1>2, <1>3
       <2>2. ExportItems(m) = [k \in DOMAIN ExportItems(m) |-> ExportItems(m)[k]]
             BY <1>2, <1>3
       <2>3. \A k \in 1 .. Len(X) : ExportItems(m)[k] \in Seq(Nat) /\ Len(ExportItems(m)[k]) >= 1
             BY <1>6, <2>1
       <2> QED BY <1>3, <2>1, <2>2, <2>3, EntriesBytes
<1>11. /\ CodeItems(m) \in Seq(Seq(Nat)) /\ Len(CodeItems(m)) = Len(C)
       /\ \A k \in 1 .. Len(C) : CodeItems(m)[k] = Code(C[k]) /\ CodeItems(m)[k] # << >>
       <2>1. DOMAIN CodeItems(m) = 1 .. Len(C) /\ \A k \in 1 .. Len(C) : CodeItems(m)[k] = Code(C[k])
             BY <1>2, <1>3
       <2>2. CodeItems(m) = [k \in DOMAIN CodeItems(m) |-> CodeItems(m)[k]]
             BY <1>2, <1>3
       <2>3. \A k \in 1 .. Len(C) : CodeItems(m)[k] \in Seq(Nat) /\ Len(CodeItems(m)[k]) >= 1
             BY <1>7, <2>1
       <2> QED BY <1>3, <2>1, <2>2, <2>3, EntriesBytes
<1> QED BY <1>3, <1>8, <1>9, <1>10, <1>11 DEF T, F, X, C

\* The sections of a module that the parser is to find.
LEMMA SectionsFacts ==
  ASSUME NEW m, MayFind(m)
  PROVE  /\ Sections(m) \in Seq([id : Nat, content : Seq(Nat)])
         /\ Len(Sections(m)) \in Nat /\ Len(Sections(m)) >= 4
         /\ Sections(m)[1] = [id |-> 1, content |-> Vec(TypeItems(m))]
         /\ Sections(m)[2] = [id |-> 3, content |-> Vec(FuncItems(m))]
         /\ Sections(m)[Len(Sections(m)) - 1] = [id |-> 7, content |-> Vec(ExportItems(m))]
         /\ Sections(m)[Len(Sections(m))] = [id |-> 10, content |-> Vec(CodeItems(m))]
         /\ \A k \in 3 .. Len(Sections(m)) - 2 : Sections(m)[k].id \notin {1, 3, 7, 10}
         /\ \A k \in 1 .. Len(Sections(m)) : Len(Sections(m)[k].content) < 128
<1> DEFINE Section == [id : Nat, content : Seq(Nat)]
           s1 == [id |-> 1, content |-> Vec(TypeItems(m))]
           s3 == [id |-> 3, content |-> Vec(FuncItems(m))]
           s7 == [id |-> 7, content |-> Vec(ExportItems(m))]
           s10 == [id |-> 10, content |-> Vec(CodeItems(m))]
           extra == m.extra
           E == Len(extra)
           front == << s1, s3 >> \o extra
           all == front \o << s7, s10 >>
<1>1. WellFormed(m) /\ OneByteSizes(m)
      BY DEF MayFind
<1>2. s1 \in Section /\ s3 \in Section /\ s7 \in Section /\ s10 \in Section
      <2>1. /\ Vec(TypeItems(m)) \in Seq(Nat) /\ Vec(FuncItems(m)) \in Seq(Nat)
            /\ Vec(ExportItems(m)) \in Seq(Nat) /\ Vec(CodeItems(m)) \in Seq(Nat)
            BY <1>1, ItemsFacts, VecFacts
      <2> QED BY <2>1
<1>3. /\ extra \in Seq(Section)
      /\ E \in Nat /\ \A k \in 1 .. E : extra[k].id \notin {1, 3, 7, 10}
      <2>1. extra \in Seq([id : Bytes \ {1, 3, 7, 10}, content : Seq(Bytes)])
            BY <1>1, WellFormedParts
      <2>2. \A b \in Bytes : b \in Nat
            BY DEF Bytes
      <2>3. E \in Nat
            BY <2>1
      <2>4. \A k \in 1 .. E : extra[k] \in [id : Bytes \ {1, 3, 7, 10}, content : Seq(Bytes)]
            BY <2>1, ElementType
      <2>5. \A s \in Seq(Bytes) : s \in Seq(Nat)
            BY <2>2
      <2>6. \A k \in 1 .. E : extra[k] \in Section /\ extra[k].id \notin {1, 3, 7, 10}
            <3> HIDE DEF extra, E
            <3> QED BY <2>2, <2>4, <2>5
      <2>7. extra \in Seq(Section)
            <3>1. extra = [k \in 1 .. E |-> extra[k]]
                  BY <2>1
            <3> HIDE DEF Section, extra
            <3>2. extra \in [1 .. E -> Section]
                  BY <2>6, <3>1
            <3> QED BY <2>3, <3>2
      <2> QED BY <2>3, <2>6, <2>7
<1>4. Sections(m) = all
      BY DEF Sections
<1> DEFINE head == << s1, s3 >>
           tail == << s7, s10 >>
<1> HIDE DEF Section, s1, s3, s7, s10, extra, E
<1>5. /\ head \in Seq(Section) /\ Len(head) = 2 /\ head[1] = s1 /\ head[2] = s3
      /\ tail \in Seq(Section) /\ Len(tail) = 2 /\ tail[1] = s7 /\ tail[2] = s10
      BY <1>2
<1> HIDE DEF head, tail
<1>6. /\ front \in Seq(Section) /\ Len(front) = 2 + E /\ front[1] = s1 /\ front[2] = s3
      /\ \A k \in 1 .. E : front[2 + k] = extra[k]
      <2> DEFINE both == head \o extra
      <2>1. head \in Seq(Section) /\ extra \in Seq(Section)
            BY <1>3, <1>5
      <2>2. /\ both \in Seq(Section) /\ Len(both) = Len(head) + Len(extra)
            /\ \A j \in 1 .. Len(head) : both[j] = head[j]
            /\ \A j \in 1 .. Len(extra) : both[Len(head) + j] = extra[j]
            BY <2>1, Behind
      <2>3. both = front
            BY DEF head
      <2> HIDE DEF both, front
      <2>4. 1 \in 1 .. 2 /\ 2 \in 1 .. 2
            OBVIOUS
      <2> QED BY <1>3, <1>5, <2>2, <2>3, <2>4 DEF E
<1>7. /\ all \in Seq(Section) /\ Len(all) = 4 + E
      /\ \A k \in 1 .. 2 + E : all[k] = front[k]
      /\ all[3 + E] = s7 /\ all[4 + E] = s10
      <2> DEFINE both == front \o tail
      <2>1. front \in Seq(Section) /\ tail \in Seq(Section)
            BY <1>5, <1>6
      <2> HIDE DEF front
      <2>2. /\ both \in Seq(Section) /\ Len(both) = Len(front) + Len(tail)
            /\ \A j \in 1 .. Len(front) : both[j] = front[j]
            /\ \A j \in 1 .. Len(tail) : both[Len(front) + j] = tail[j]
            BY <2>1, Behind
      <2>3. both = all
            BY DEF tail, front
      <2> HIDE DEF both, all
      <2>4. 1 \in 1 .. 2 /\ 2 \in 1 .. 2 /\ (2 + E) + 1 = 3 + E /\ (2 + E) + 2 = 4 + E
            BY <1>3
      <2>5. Len(all) = 4 + E /\ Len(front) = 2 + E /\ Len(tail) = 2
            BY <1>3, <1>5, <1>6, <2>2, <2>3
      <2>6. all[3 + E] = tail[1] /\ all[4 + E] = tail[2]
            BY <2>2, <2>3, <2>4, <2>5
      <2> QED BY <1>5, <2>2, <2>3, <2>5, <2>6
<1> HIDE DEF front, all
<1>8. /\ all[1] = s1 /\ all[2] = s3
      /\ \A k \in 3 .. 2 + E : all[k].id \notin {1, 3, 7, 10}
      <2>1. 1 \in 1 .. 2 + E /\ 2 \in 1 .. 2 + E
            BY <1>3
      <2>2. ASSUME NEW k \in 3 .. 2 + E PROVE all[k].id \notin {1, 3, 7, 10}
            <3>1. k - 2 \in 1 .. E /\ k \in 1 .. 2 + E /\ 2 + (k - 2) = k
                  BY <1>3
            <3>2. all[k] = extra[k - 2]
                  BY <1>6, <1>7, <3>1
            <3> QED BY <1>3, <3>1, <3>2
      <2> QED BY <1>6, <1>7, <2>1, <2>2
<1>9. \A k \in 1 .. Len(all) : Len(all[k].content) < 128
      <2>1. DOMAIN all = 1 .. Len(all)
            BY <1>7
      <2> QED BY <1>1, <1>4, <2>1 DEF OneByteSizes
<1>10. Len(all) \in Nat /\ Len(all) >= 4 /\ Len(all) - 1 = 3 + E /\ Len(all) - 2 = 2 + E /\ Len(all) = 4 + E
       BY <1>3, <1>7
<1>11. all[Len(all) - 1] = s7 /\ all[Len(all)] = s10
       BY <1>7, <1>10
<1>12. \A k \in 3 .. Len(all) - 2 : all[k].id \notin {1, 3, 7, 10}
       BY <1>8, <1>10
<1> QED BY <1>4, <1>7, <1>8, <1>9, <1>10, <1>11, <1>12 DEF Section, s1, s3, s7, s10

\* Which handler each section has.
LEMMA PhaseFacts ==
  ASSUME NEW m, MayFind(m), NEW k \in 0 .. Len(Sections(m)) - 1
  PROVE  LET L == Len(Sections(m))
             id == Sections(m)[k + 1].id
         IN /\ id \in Nat
            /\ id \in DOMAIN HandlerOf => HandlerOf[id] \in Handler
            /\ PhaseOf(id) \in Handler \cup {"skipping"}
            /\ PhaseOf(id) = "types" <=> k = 0
            /\ PhaseOf(id) = "functions" <=> k = 1
            /\ PhaseOf(id) = "exports" <=> k = L - 2
            /\ PhaseOf(id) = "codes" <=> k = L - 1
            /\ id = 1 <=> k = 0
            /\ id \in DOMAIN HandlerOf <=> PhaseOf(id) # "skipping"
<1> DEFINE S == Sections(m)
           L == Len(S)
           id == S[k + 1].id
<1>1. /\ S \in Seq([id : Nat, content : Seq(Nat)]) /\ L \in Nat /\ L >= 4
      /\ S[1].id = 1 /\ S[2].id = 3 /\ S[L - 1].id = 7 /\ S[L].id = 10
      /\ \A j \in 3 .. L - 2 : S[j].id \notin {1, 3, 7, 10}
      <2>1. /\ S \in Seq([id : Nat, content : Seq(Nat)]) /\ Len(S) \in Nat /\ Len(S) >= 4
            /\ S[1] = [id |-> 1, content |-> Vec(TypeItems(m))]
            /\ S[2] = [id |-> 3, content |-> Vec(FuncItems(m))]
            /\ S[Len(S) - 1] = [id |-> 7, content |-> Vec(ExportItems(m))]
            /\ S[Len(S)] = [id |-> 10, content |-> Vec(CodeItems(m))]
            /\ \A j \in 3 .. Len(S) - 2 : S[j].id \notin {1, 3, 7, 10}
            BY SectionsFacts
      <2> HIDE DEF S
      <2> QED BY <2>1
<1> HIDE DEF S
<1>2. L \in Nat /\ k \in 0 .. L - 1
      BY <1>1 DEF S
<1> HIDE DEF L
<1>3. k \in Nat /\ k + 1 \in 1 .. L /\ 2 <= L - 2
      BY <1>1, <1>2
<1>4. id \in Nat
      <2>1. S[k + 1] \in [id : Nat, content : Seq(Nat)]
            BY <1>1, <1>3, ElementType DEF L
      <2> QED BY <2>1
<1>5. \/ k = 0 /\ id = 1
      \/ k = 1 /\ id = 3
      \/ k = L - 2 /\ id = 7
      \/ k = L - 1 /\ id = 10
      \/ k \notin {0, 1, L - 2, L - 1} /\ id \notin {1, 3, 7, 10}
      <2>1. CASE k = 0
            <3>1. k + 1 = 1
                  BY <2>1
            <3> QED BY <1>1, <2>1, <3>1
      <2>2. CASE k = 1
            <3>1. k + 1 = 2
                  BY <2>2
            <3> QED BY <1>1, <2>2, <3>1
      <2>3. CASE k = L - 2
            <3>1. k + 1 = L - 1
                  BY <1>2, <2>3
            <3> QED BY <1>1, <2>3, <3>1
      <2>4. CASE k = L - 1
            <3>1. k + 1 = L
                  BY <1>2, <2>4
            <3> QED BY <1>1, <2>4, <3>1
      <2>5. CASE k \notin {0, 1, L - 2, L - 1}
            <3>1. k + 1 \in 3 .. L - 2
                  BY <1>2, <1>3, <2>5
            <3> QED BY <1>1, <2>5, <3>1
      <2> QED BY <2>1, <2>2, <2>3, <2>4, <2>5
<1> HIDE DEF id
<1>6. /\ DOMAIN HandlerOf = {1, 3, 7, 10}
      /\ HandlerOf[1] = "types" /\ HandlerOf[3] = "functions"
      /\ HandlerOf[7] = "exports" /\ HandlerOf[10] = "codes"
      BY DEF HandlerOf
<1>7. L - 2 # 0 /\ L - 2 # 1 /\ L - 1 # 0 /\ L - 1 # 1 /\ L - 2 # L - 1
      BY <1>2, <1>3
<1>8. \/ k = 0 /\ id = 1 /\ PhaseOf(id) = "types"
      \/ k = 1 /\ id = 3 /\ PhaseOf(id) = "functions"
      \/ k = L - 2 /\ id = 7 /\ PhaseOf(id) = "exports"
      \/ k = L - 1 /\ id = 10 /\ PhaseOf(id) = "codes"
      \/ k \notin {0, 1, L - 2, L - 1} /\ id \notin {1, 3, 7, 10} /\ PhaseOf(id) = "skipping"
      BY <1>5, <1>6 DEF PhaseOf
<1>9. \A h \in {1, 3, 7, 10} : HandlerOf[h] \in Handler
      BY <1>6 DEF Handler
<1>10. /\ id \in DOMAIN HandlerOf => HandlerOf[id] \in Handler
       /\ PhaseOf(id) \in Handler \cup {"skipping"}
       /\ PhaseOf(id) = "types" <=> k = 0
       /\ PhaseOf(id) = "functions" <=> k = 1
       /\ PhaseOf(id) = "exports" <=> k = L - 2
       /\ PhaseOf(id) = "codes" <=> k = L - 1
       /\ id = 1 <=> k = 0
       /\ id \in DOMAIN HandlerOf <=> PhaseOf(id) # "skipping"
       BY <1>6, <1>7, <1>8, <1>9 DEF Handler
<1> QED BY <1>4, <1>10 DEF id, L, S

\* Where the bytes of the sections are.
LEMMA BytesFacts ==
  ASSUME NEW m, MayFind(m)
  PROVE  /\ Encode(m) \in Seq(Nat) /\ Len(Encode(m)) = SectionEnd(m, Len(Sections(m)))
         /\ SectionEnd(m, 0) = 8
         /\ \A k \in 0 .. Len(Sections(m)) :
              /\ SectionEnd(m, k) \in Nat /\ 8 <= SectionEnd(m, k)
              /\ SectionEnd(m, k) <= Len(Encode(m))
         /\ \A k \in 0 .. Len(Sections(m)) - 1 :
              LET s == Sections(m)[k + 1]
              IN /\ s.content \in Seq(Nat) /\ Len(s.content) \in Nat
                 /\ SectionEnd(m, k + 1) = SectionEnd(m, k) + 2 + Len(s.content)
                 /\ Encode(m)[SectionEnd(m, k) + 1] = s.id
                 /\ Encode(m)[SectionEnd(m, k) + 2] = Len(s.content)
                 /\ \A j \in 1 .. Len(s.content) :
                      Encode(m)[SectionEnd(m, k) + 2 + j] = s.content[j]
         /\ \A i \in 1 .. 8 : Encode(m)[i] = Header[i]
<1> DEFINE S == Sections(m)
           L == Len(S)
           seqs == SectionBytes(m)
           flat == FlattenSeq(seqs)
           bytes == Encode(m)
           E == [k \in 0 .. L |-> Offset(seqs, k)]
<1>1. /\ S \in Seq([id : Nat, content : Seq(Nat)]) /\ L \in Nat
      /\ \A k \in 1 .. L : Len(S[k].content) < 128
      BY SectionsFacts
<1>2. seqs = [k \in DOMAIN S |-> << S[k].id >> \o U32(Len(S[k].content)) \o S[k].content]
      BY DEF SectionBytes
<1> HIDE DEF S
<1>3. \A k \in 1 .. L : S[k].id \in Nat /\ S[k].content \in Seq(Nat) /\ Len(S[k].content) \in Nat
      <2>1. \A k \in 1 .. L : S[k] \in [id : Nat, content : Seq(Nat)]
            BY <1>1, ElementType
      <2> QED BY <2>1
<1>4. DOMAIN S = 1 .. L
      BY <1>1
<1> HIDE DEF L, seqs
<1>5. ASSUME NEW k \in 1 .. L
      PROVE  /\ seqs[k] \in Seq(Nat) /\ Len(seqs[k]) = 2 + Len(S[k].content)
             /\ seqs[k][1] = S[k].id /\ seqs[k][2] = Len(S[k].content)
             /\ \A j \in 1 .. Len(S[k].content) : seqs[k][2 + j] = S[k].content[j]
      <2> DEFINE id == S[k].id
                 content == S[k].content
                 n == Len(content)
      <2>1. id \in Nat /\ content \in Seq(Nat) /\ n \in Nat /\ n < 128
            BY <1>1, <1>3 DEF L
      <2>2. seqs[k] = << id >> \o U32(n) \o content
            BY <1>2, <1>4
      <2> HIDE DEF id, n
      <2>3. U32(n) = << n >>
            BY <2>1, U32Facts
      <2>4. seqs[k] = << id >> \o << n >> \o content
            BY <2>2, <2>3
      <2> HIDE DEF content
      <2>5. << n >> \in Seq(Nat)
            BY <2>1
      <2>6. seqs[k] = << id >> \o (<< n >> \o content)
            BY <2>1, <2>4, <2>5, CountedFront
      <2> DEFINE rest == << n >> \o content
      <2>7. /\ rest \in Seq(Nat) /\ Len(rest) = 1 + Len(content) /\ rest[1] = n
            /\ \A j \in 1 .. Len(content) : rest[1 + j] = content[j]
            BY <2>1, Counted
      <2>8. seqs[k] = << id >> \o rest
            BY <2>6
      <2> HIDE DEF rest
      <2>9. /\ seqs[k] \in Seq(Nat) /\ Len(seqs[k]) = 1 + Len(rest) /\ seqs[k][1] = id
            /\ \A j \in 1 .. Len(rest) : seqs[k][1 + j] = rest[j]
            BY <2>1, <2>7, <2>8, Counted
      <2>10. Len(content) \in Nat
             BY <2>1
      <2>11. seqs[k][2] = n
             <3>1. 1 \in 1 .. Len(rest) /\ 1 + 1 = 2
                   BY <2>7, <2>10
             <3> QED BY <2>7, <2>9, <3>1
      <2>12. ASSUME NEW j \in 1 .. Len(content) PROVE seqs[k][2 + j] = content[j]
             <3>1. 1 + j \in 1 .. Len(rest) /\ 1 + (1 + j) = 2 + j
                   BY <2>7, <2>10
             <3> QED BY <2>7, <2>9, <3>1
      <2>13. Len(seqs[k]) = 2 + Len(content)
             BY <2>7, <2>9, <2>10
      <2> QED BY <2>9, <2>11, <2>12, <2>13 DEF id, content, n
<1>6. seqs \in Seq(Seq(Nat)) /\ Len(seqs) = L
      <2>1. DOMAIN seqs = 1 .. L
            BY <1>2, <1>4
      <2>2. seqs = [k \in 1 .. L |-> seqs[k]]
            BY <1>2, <1>4
      <2>3. seqs \in [1 .. L -> Seq(Nat)]
            BY <1>5, <2>2
      <2>4. L \in Nat
            BY <1>1 DEF L
      <2> QED BY <2>3, <2>4
<1>7. L \in Nat
      BY <1>1 DEF L
<1>8. \A k \in 0 .. L : E[k] = Offset(seqs, k)
      OBVIOUS
<1>9. /\ flat \in Seq(Nat) /\ E[0] = 0 /\ E[L] = Len(flat) /\ E \in [0 .. L -> Nat]
      /\ \A k \in 0 .. L : E[k] <= Len(flat)
      /\ \A k \in 1 .. L : /\ E[k] = E[k - 1] + Len(seqs[k])
                           /\ \A j \in 1 .. Len(seqs[k]) : flat[E[k - 1] + j] = seqs[k][j]
      <2>1. /\ flat \in Seq(Nat) /\ Offset(seqs, 0) = 0 /\ Offset(seqs, L) = Len(flat)
            /\ \A k \in 0 .. L : Offset(seqs, k) \in Nat /\ Offset(seqs, k) <= Len(flat)
            /\ \A k \in 1 .. L :
                 /\ Offset(seqs, k) = Offset(seqs, k - 1) + Len(seqs[k])
                 /\ \A j \in 1 .. Len(seqs[k]) : flat[Offset(seqs, k - 1) + j] = seqs[k][j]
            BY <1>6, OffsetFacts
      <2>2. 0 \in 0 .. L /\ L \in 0 .. L /\ \A k \in 1 .. L : k \in 0 .. L /\ k - 1 \in 0 .. L
            BY <1>7
      <2>3. E \in [0 .. L -> Nat]
            BY <2>1
      <2> HIDE DEF E, flat
      <2> QED BY <1>8, <2>1, <2>2, <2>3
<1> HIDE DEF flat
<1> DEFINE head == Header
<1>10. head \in Seq(Nat) /\ Len(head) = 8
      BY DEF Header
<1>11. bytes = head \o flat
      BY DEF Encode, flat, seqs
<1>12. \A k \in 0 .. L : SectionEnd(m, k) = 8 + E[k]
       BY <1>8, <1>10 DEF SectionEnd, seqs
<1> HIDE DEF E, head
<1>13. /\ bytes \in Seq(Nat) /\ Len(bytes) = 8 + Len(flat)
       /\ \A i \in 1 .. 8 : bytes[i] = head[i]
       /\ \A j \in 1 .. Len(flat) : bytes[8 + j] = flat[j]
       <2> DEFINE both == head \o flat
       <2>1. head \in Seq(Nat) /\ flat \in Seq(Nat)
             BY <1>9, <1>10
       <2>2. /\ both \in Seq(Nat) /\ Len(both) = Len(head) + Len(flat)
             /\ \A j \in 1 .. Len(head) : both[j] = head[j]
             /\ \A j \in 1 .. Len(flat) : both[Len(head) + j] = flat[j]
             BY <2>1, Behind
       <2> HIDE DEF both, bytes
       <2> QED BY <1>10, <1>11, <2>2 DEF both
<1> HIDE DEF bytes
<1>14. L \in Nat /\ Len(flat) \in Nat
       BY <1>1, <1>9 DEF L
<1>15. ASSUME NEW k \in 0 .. L - 1
       PROVE  /\ S[k + 1].content \in Seq(Nat) /\ Len(S[k + 1].content) \in Nat
              /\ E[k + 1] = E[k] + 2 + Len(S[k + 1].content)
              /\ bytes[8 + E[k] + 1] = S[k + 1].id
              /\ bytes[8 + E[k] + 2] = Len(S[k + 1].content)
              /\ \A j \in 1 .. Len(S[k + 1].content) :
                   bytes[8 + E[k] + 2 + j] = S[k + 1].content[j]
       <2> DEFINE content == S[k + 1].content
                  item == seqs[k + 1]
       <2>1. k + 1 \in 1 .. L /\ (k + 1) - 1 = k /\ k + 1 \in 0 .. L /\ k \in 0 .. L
             BY <1>14
       <2>2. /\ item \in Seq(Nat) /\ Len(item) = 2 + Len(content)
             /\ item[1] = S[k + 1].id /\ item[2] = Len(content)
             /\ \A j \in 1 .. Len(content) : item[2 + j] = content[j]
             BY <1>5, <2>1
       <2>3. content \in Seq(Nat) /\ Len(content) \in Nat
             BY <1>3, <2>1
       <2>4. /\ E[k + 1] = E[k] + Len(item)
             /\ \A j \in 1 .. Len(item) : flat[E[k] + j] = item[j]
             BY <1>9, <2>1
       <2>5. E[k] \in Nat /\ E[k + 1] \in Nat /\ E[k + 1] <= Len(flat)
             BY <1>9, <2>1
       <2> HIDE DEF content, item
       <2>6. ASSUME NEW j \in 1 .. Len(item) PROVE bytes[8 + E[k] + j] = item[j]
             <3> DEFINE e == E[k]
                        n == Len(item)
                        all == Len(flat)
             <3>1. e \in Nat /\ n \in Nat /\ all \in Nat /\ e + n <= all /\ j \in 1 .. n
                   <4>1. n \in Nat
                         BY <2>2
                   <4>2. E[k + 1] = e + n
                         BY <2>4
                   <4> HIDE DEF n, e
                   <4> QED BY <1>14, <2>5, <4>1, <4>2 DEF e, n
             <3> HIDE DEF e, n, all
             <3>2. e + j \in 1 .. all /\ 8 + (e + j) = 8 + e + j
                   BY <3>1
             <3>3. bytes[8 + (e + j)] = flat[e + j] /\ flat[e + j] = item[j]
                   BY <1>13, <2>4, <3>2 DEF e, all
             <3> QED BY <3>2, <3>3 DEF e
       <2>7. 1 \in 1 .. Len(item) /\ 2 \in 1 .. Len(item)
             BY <2>2, <2>3
       <2>8. ASSUME NEW j \in 1 .. Len(content) PROVE bytes[8 + E[k] + 2 + j] = content[j]
             <3> DEFINE e == E[k]
             <3>1. 2 + j \in 1 .. Len(item)
                   BY <2>2, <2>3
             <3>2. e \in Nat /\ j \in Nat
                   BY <2>3, <2>5
             <3> HIDE DEF e
             <3>3. 8 + e + (2 + j) = 8 + e + 2 + j
                   BY <3>2
             <3>4. bytes[8 + e + (2 + j)] = item[2 + j]
                   BY <2>6, <3>1 DEF e
             <3> QED BY <2>2, <3>3, <3>4 DEF e
       <2>9. E[k + 1] = E[k] + 2 + Len(content)
             BY <2>2, <2>3, <2>4, <2>5
       <2> QED BY <2>2, <2>3, <2>6, <2>7, <2>8, <2>9 DEF content
<1>16. ASSUME NEW k \in 0 .. L
       PROVE  SectionEnd(m, k) \in Nat /\ 8 <= SectionEnd(m, k) /\ SectionEnd(m, k) <= Len(bytes)
       <2> DEFINE e == E[k]
       <2>1. e \in Nat /\ e <= Len(flat) /\ SectionEnd(m, k) = 8 + e
             BY <1>9, <1>12
       <2>2. Len(bytes) = 8 + Len(flat)
             BY <1>13
       <2> HIDE DEF e
       <2> QED BY <1>14, <2>1, <2>2
<1>17. Len(bytes) = SectionEnd(m, L) /\ SectionEnd(m, 0) = 8
       <2>1. 0 \in 0 .. L /\ L \in 0 .. L
             BY <1>14
       <2>2. SectionEnd(m, 0) = 8 + E[0] /\ SectionEnd(m, L) = 8 + E[L]
             BY <1>12, <2>1
       <2>3. E[0] = 0 /\ E[L] = Len(flat) /\ Len(bytes) = 8 + Len(flat)
             BY <1>9, <1>13
       <2> QED BY <2>2, <2>3
<1>18. ASSUME NEW k \in 0 .. L - 1
       PROVE  LET s == S[k + 1]
              IN /\ s.content \in Seq(Nat) /\ Len(s.content) \in Nat
                 /\ SectionEnd(m, k + 1) = SectionEnd(m, k) + 2 + Len(s.content)
                 /\ bytes[SectionEnd(m, k) + 1] = s.id
                 /\ bytes[SectionEnd(m, k) + 2] = Len(s.content)
                 /\ \A j \in 1 .. Len(s.content) : bytes[SectionEnd(m, k) + 2 + j] = s.content[j]
       <2>1. k \in 0 .. L /\ k + 1 \in 0 .. L
             BY <1>14
       <2>2. /\ SectionEnd(m, k) = 8 + E[k] /\ SectionEnd(m, k + 1) = 8 + E[k + 1]
             /\ E[k] \in Nat /\ E[k + 1] \in Nat
             BY <1>9, <1>12, <2>1
       <2> DEFINE n == Len(S[k + 1].content)
       <2>3. n \in Nat /\ E[k + 1] = E[k] + 2 + n
             BY <1>15
       <2>4. SectionEnd(m, k + 1) = SectionEnd(m, k) + 2 + n
             <3> HIDE DEF n
             <3> QED BY <2>2, <2>3
       <2> QED BY <1>15, <2>2, <2>3, <2>4
<1>19. \A i \in 1 .. 8 : bytes[i] = Header[i]
       BY <1>13 DEF head
<1> QED BY <1>13, <1>16, <1>17, <1>18, <1>19 DEF S, L, bytes

\* The bytes of a vector of less than 128 bytes.
LEMMA ShortVec ==
  ASSUME NEW items \in Seq(Seq(Nat)), \A i \in 1 .. Len(items) : items[i] # << >>,
         Len(Vec(items)) < 128
  PROVE  /\ Len(items) \in Nat /\ Len(items) < 128
         /\ Vec(items) \in Seq(Nat) /\ Len(Vec(items)) = 1 + Offset(items, Len(items))
         /\ Vec(items)[1] = Len(items)
         /\ \A e \in 1 .. Len(items) :
              /\ items[e] \in Seq(Nat) /\ Len(items[e]) \in Nat
              /\ Offset(items, e - 1) \in Nat /\ Offset(items, e) \in Nat
              /\ Offset(items, e) = Offset(items, e - 1) + Len(items[e])
              /\ 1 + Offset(items, e) <= Len(Vec(items))
              /\ \A j \in 1 .. Len(items[e]) :
                   Vec(items)[1 + (Offset(items, e - 1) + j)] = items[e][j]
<1> DEFINE n == Len(items)
           flat == FlattenSeq(items)
           E == [i \in 0 .. n |-> Offset(items, i)]
           vec == Vec(items)
<1>1. n \in Nat
      OBVIOUS
<1>2. /\ flat \in Seq(Nat) /\ Len(flat) = E[n] /\ n <= Len(flat)
      /\ \A i \in 0 .. n : E[i] \in Nat /\ E[i] <= Len(flat)
      /\ \A i \in 1 .. n :
           /\ E[i] = E[i - 1] + Len(items[i])
           /\ \A j \in 1 .. Len(items[i]) : flat[E[i - 1] + j] = items[i][j]
      <2>1. 0 \in 0 .. n /\ n \in 0 .. n /\ \A i \in 1 .. n : i \in 0 .. n /\ i - 1 \in 0 .. n
            BY <1>1
      <2> QED BY <2>1, OffsetFacts
<1>3. vec \in Seq(Nat) /\ Len(vec) >= 1 + Len(flat) /\ (n < 128 => vec = << n >> \o flat)
      BY VecFacts
<1>4. \A i \in 1 .. n : items[i] \in Seq(Nat)
      BY ElementType
<1> HIDE DEF flat, n, E
<1>5. Len(flat) \in Nat /\ Len(vec) < 128
      BY <1>2
<1>6. n < 128
      <2>1. Len(vec) \in Nat
            BY <1>3
      <2> HIDE DEF vec
      <2> QED BY <1>1, <1>2, <1>3, <1>5, <2>1
<1> DEFINE whole == << n >> \o flat
<1>7. /\ Len(whole) = 1 + Len(flat) /\ whole[1] = n
      /\ \A j \in 1 .. Len(flat) : whole[1 + j] = flat[j]
      BY <1>1, <1>2, Counted
<1>8. vec = whole
      BY <1>3, <1>6
<1> HIDE DEF whole, vec
<1>9. ASSUME NEW e \in 1 .. n
      PROVE  /\ Len(items[e]) \in Nat /\ E[e - 1] \in Nat /\ E[e] \in Nat
             /\ E[e] = E[e - 1] + Len(items[e]) /\ 1 + E[e] <= Len(vec)
             /\ \A j \in 1 .. Len(items[e]) : vec[1 + (E[e - 1] + j)] = items[e][j]
      <2>1. Len(items[e]) \in Nat
            BY <1>4
      <2>2. e \in 0 .. n /\ e - 1 \in 0 .. n
            BY <1>1
      <2>3. E[e] \in Nat /\ E[e - 1] \in Nat /\ E[e] <= Len(flat) /\ E[e] = E[e - 1] + Len(items[e])
            BY <1>2, <2>2
      <2>4. ASSUME NEW j \in 1 .. Len(items[e]) PROVE vec[1 + (E[e - 1] + j)] = items[e][j]
            <3>1. E[e - 1] + j \in 1 .. Len(flat)
                  <4> DEFINE l == Len(items[e])
                             a == E[e - 1]
                             b == E[e]
                             all == Len(flat)
                  <4>1. l \in Nat /\ a \in Nat /\ all \in Nat /\ b <= all /\ b = a + l /\ j \in 1 .. l
                        BY <1>5, <2>1, <2>3
                  <4> HIDE DEF l, a, b, all
                  <4>2. a + j \in 1 .. all
                        BY <4>1
                  <4> QED BY <4>2 DEF a, all
            <3>2. vec[1 + (E[e - 1] + j)] = flat[E[e - 1] + j]
                  BY <1>7, <1>8, <3>1
            <3> QED BY <1>2, <3>2
      <2>5. 1 + E[e] <= Len(vec)
            BY <1>5, <1>7, <1>8, <2>3
      <2> QED BY <2>1, <2>3, <2>4, <2>5
<1>10. \A i \in 0 .. n : E[i] = Offset(items, i)
       BY DEF E
<1>11. n \in 0 .. n /\ \A i \in 1 .. n : i \in 0 .. n /\ i - 1 \in 0 .. n
       BY <1>1
<1>12. Len(vec) = 1 + Offset(items, n)
       BY <1>2, <1>7, <1>8, <1>10, <1>11
<1>13. \A e \in 1 .. n :
         /\ items[e] \in Seq(Nat) /\ Len(items[e]) \in Nat
         /\ Offset(items, e - 1) \in Nat /\ Offset(items, e) \in Nat
         /\ Offset(items, e) = Offset(items, e - 1) + Len(items[e])
         /\ 1 + Offset(items, e) <= Len(vec)
         /\ \A j \in 1 .. Len(items[e]) : vec[1 + (Offset(items, e - 1) + j)] = items[e][j]
       BY <1>4, <1>9, <1>10, <1>11
<1> QED BY <1>1, <1>3, <1>6, <1>7, <1>8, <1>12, <1>13 DEF n, vec

\* The entries of a section that has a handler.
LEMMA SectionItems ==
  ASSUME NEW m, MayFind(m), NEW k \in 0 .. Len(Sections(m)) - 1,
         PhaseOf(Sections(m)[k + 1].id) \in Handler
  PROVE  LET handler == PhaseOf(Sections(m)[k + 1].id)
         IN \E items \in Seq(Seq(Nat)) :
              /\ Sections(m)[k + 1].content = Vec(items)
              /\ \A i \in 1 .. Len(items) : items[i] # << >>
              /\ handler = "types" => items = TypeItems(m)
              /\ handler = "functions" => items = FuncItems(m)
              /\ handler = "exports" => items = ExportItems(m)
              /\ handler = "codes" => items = CodeItems(m)
<1> DEFINE S == Sections(m)
           L == Len(S)
           handler == PhaseOf(Sections(m)[k + 1].id)
<1>1. /\ S \in Seq([id : Nat, content : Seq(Nat)]) /\ L \in Nat
      /\ S[1].content = Vec(TypeItems(m)) /\ S[2].content = Vec(FuncItems(m))
      /\ S[L - 1].content = Vec(ExportItems(m)) /\ S[L].content = Vec(CodeItems(m))
      <2>1. /\ S \in Seq([id : Nat, content : Seq(Nat)]) /\ Len(S) \in Nat
            /\ S[1] = [id |-> 1, content |-> Vec(TypeItems(m))]
            /\ S[2] = [id |-> 3, content |-> Vec(FuncItems(m))]
            /\ S[Len(S) - 1] = [id |-> 7, content |-> Vec(ExportItems(m))]
            /\ S[Len(S)] = [id |-> 10, content |-> Vec(CodeItems(m))]
            BY SectionsFacts
      <2> HIDE DEF S
      <2> QED BY <2>1
<1>2. /\ handler = "types" => k = 0
      /\ handler = "functions" => k = 1
      /\ handler = "exports" => k = L - 2
      /\ handler = "codes" => k = L - 1
      BY PhaseFacts
<1>3. k \in 0 .. L - 1 /\ WellFormed(m) /\ handler \in Handler
      BY DEF MayFind
<1> HIDE DEF handler
<1> DEFINE items == CASE handler = "types" -> TypeItems(m) [] handler = "functions" -> FuncItems(m)
                      [] handler = "exports" -> ExportItems(m) [] handler = "codes" -> CodeItems(m)
<1>4. /\ handler = "types" => items = TypeItems(m)
      /\ handler = "functions" => items = FuncItems(m)
      /\ handler = "exports" => items = ExportItems(m)
      /\ handler = "codes" => items = CodeItems(m)
      OBVIOUS
<1> HIDE DEF S, L, items
<1>5. S[k + 1].content = Vec(items)
      <2>1. CASE handler = "types"
            <3>1. k + 1 = 1
                  BY <1>2, <2>1
            <3> QED BY <1>1, <1>4, <2>1, <3>1
      <2>2. CASE handler = "functions"
            <3>1. k + 1 = 2
                  BY <1>2, <2>2
            <3> QED BY <1>1, <1>4, <2>2, <3>1
      <2>3. CASE handler = "exports"
            <3>1. k + 1 = L - 1
                  BY <1>1, <1>2, <2>3
            <3> QED BY <1>1, <1>4, <2>3, <3>1
      <2>4. CASE handler = "codes"
            <3>1. k + 1 = L
                  BY <1>1, <1>2, <2>4
            <3> QED BY <1>1, <1>4, <2>4, <3>1
      <2> QED BY <1>3, <2>1, <2>2, <2>3, <2>4 DEF Handler
<1>6. items \in Seq(Seq(Nat)) /\ \A i \in 1 .. Len(items) : items[i] # << >>
      <2>1. CASE handler = "types" BY <1>3, <1>4, <2>1, ItemsFacts
      <2>2. CASE handler = "functions" BY <1>3, <1>4, <2>2, ItemsFacts
      <2>3. CASE handler = "exports" BY <1>3, <1>4, <2>3, ItemsFacts
      <2>4. CASE handler = "codes" BY <1>3, <1>4, <2>4, ItemsFacts
      <2> QED BY <1>3, <2>1, <2>2, <2>3, <2>4 DEF Handler
<1> QED BY <1>4, <1>5, <1>6 DEF S, handler

-----------------------------------------------------------------------------
(***************************************************************************)
(* The states of the parser.                                               *)
(***************************************************************************)
\* The parser has k sections of m behind it: between two sections, or in the
\* one that follows them.
BetweenSections(m, k) == phase = "section" /\ pos = SectionEnd(m, k)

InSection(m, k) ==
  /\ k < Len(Sections(m))
  /\ phase = PhaseOf(Sections(m)[k + 1].id)
  /\ pos = SectionEnd(m, k) + 2
  /\ length = Len(Sections(m)[k + 1].content)

AtSection(m, k) == BetweenSections(m, k) \/ InSection(m, k)

Parsing == Handler \cup {"section", "skipping"}

\* Of a file that is a beginning of m.
CropsSections(m) ==
  /\ phase = "check" => pos = 0
  /\ phase \in Parsing => \E k \in 0 .. Len(Sections(m)) : AtSection(m, k)
  /\ phase = "done" => pos = Len(file.bytes) /\ \E k \in 0 .. Len(Sections(m)) : pos = SectionEnd(m, k)

-----------------------------------------------------------------------------
\* The tables when t types, f functions, x exports and c bodies are read.
TypesRead(m, t) == wasmTypeVec = SubSeq(m.types, 1, t)

FuncsRead(m, f) == funcTypeVec = SubSeq(m.funcs, 1, f)

ExportsRead(m, x) ==
  /\ DOMAIN funcNameIndexMapper = {m.exports[k].name : k \in 1 .. x}
  /\ \A k \in 1 .. x :
       /\ funcNameIndexMapper[m.exports[k].name] = m.exports[k].index
       /\ m.exports[k].index \in DOMAIN funcIndexNameMapper
       /\ \E j \in 1 .. x :
            /\ m.exports[j].index = m.exports[k].index
            /\ funcIndexNameMapper[m.exports[k].index] = m.exports[j].name

CodesRead(m, c) == wasmFunctionVec = [k \in 1 .. c |-> FunctionOf(m.codes[k])]

\* How many of the n entries of a section with this handler are read.
Read(handler, past, n) == IF phase = handler THEN n - todo ELSE IF past THEN n ELSE 0

\* With k sections behind it the parser has the tables of these, and those of
\* the entries in front of its offset.
TablesUpTo(m, k) ==
  LET sections == Len(Sections(m))
  IN /\ TypesRead(m, Read("types", k >= 1, Len(m.types)))
     /\ FuncsRead(m, Read("functions", k >= 2, Len(m.funcs)))
     /\ ExportsRead(m, Read("exports", k >= sections - 1, Len(m.exports)))
     /\ CodesRead(m, Read("codes", k >= sections, Len(m.codes)))

ItemsOf(m) ==
  CASE phase = "types" -> TypeItems(m) [] phase = "functions" -> FuncItems(m)
    [] phase = "exports" -> ExportItems(m) [] phase = "codes" -> CodeItems(m)

\* A handler with todo entries left stands where the next of them begins.
AtEntry(m) ==
  phase \in Handler =>
    /\ todo <= Len(ItemsOf(m))
    /\ NextEntry = 1 + Offset(ItemsOf(m), Len(ItemsOf(m)) - todo)

\* Of a file that holds m.
FollowsModule(m) ==
  /\ phase \in {"check", "done"} \cup Parsing
  /\ phase = "check" => pos = 0 /\ TablesUpTo(m, 0)
  /\ phase \in Parsing =>
       \E k \in 0 .. Len(Sections(m)) : AtSection(m, k) /\ TablesUpTo(m, k) /\ AtEntry(m)
  /\ phase = "done" => HoldsModule(m)

-----------------------------------------------------------------------------
(***************************************************************************)
(* Types                                                                   *)
(***************************************************************************)
LEMMA AddDataType ==
  ASSUME NEW S, NEW bytes \in Seq(S) PROVE AddData(bytes) \in Seq(ValType)
<1> DEFINE known == [k \in DOMAIN bytes |->
             IF bytes[k] \in DOMAIN TypeName THEN << TypeName[bytes[k]] >> ELSE << >>]
<1>1. ASSUME NEW b \in DOMAIN TypeName PROVE TypeName[b] \in ValType
      BY DEF TypeName, ValType
<1>2. DOMAIN bytes = 1 .. Len(bytes) /\ Len(bytes) \in Nat
      OBVIOUS
<1>3. ASSUME NEW k \in 1 .. Len(bytes) PROVE known[k] \in Seq(ValType)
      <2>1. CASE bytes[k] \in DOMAIN TypeName
            <3>1. TypeName[bytes[k]] \in ValType
                  BY <1>1, <2>1
            <3>2. known[k] = << TypeName[bytes[k]] >>
                  BY <2>1
            <3> QED BY <3>1, <3>2
      <2>2. CASE bytes[k] \notin DOMAIN TypeName
            <3>1. known[k] = << >>
                  BY <2>2
            <3> QED BY <3>1
      <2> QED BY <2>1, <2>2
<1>4. known \in [1 .. Len(bytes) -> Seq(ValType)]
      <2>1. known = [k \in 1 .. Len(bytes) |-> known[k]]
            BY <1>2
      <2> HIDE DEF known
      <2> QED BY <1>3, <2>1
<1>5. known \in Seq(Seq(ValType))
      <2> HIDE DEF known
      <2> QED BY <1>2, <1>4
<1>6. FlattenSeq(known) \in Seq(ValType)
      <2> HIDE DEF known
      <2> QED BY <1>5, FlattenOffsets
<1> QED BY <1>6 DEF AddData

\* What the parser reads inside the file is a byte.
LEMMA AtType ==
  ASSUME file \in Files, pos \in Nat, NEW o \in Nat, Has(o)
  PROVE  At(o) \in Bytes
<1>1. file.bytes \in Seq(0 .. 255)
      BY FilesAssumption
<1>2. pos + o + 1 \in 1 .. Len(file.bytes)
      BY <1>1 DEF Has, Remaining
<1>3. file.bytes[pos + o + 1] \in 0 .. 255
      BY <1>1, <1>2, ElementType
<1> QED BY <1>3 DEF At, Bytes

\* What it cuts out of the file is a sequence of bytes.
LEMMA CutType ==
  ASSUME file \in Files, pos \in Nat, NEW o \in Nat, NEW n \in Nat
  PROVE  Cut(o, n) \in Name
<1> DEFINE cut == [j \in 1 .. n |-> IF Has(o + j - 1) THEN At(o + j - 1) ELSE NoByte]
<1>1. ASSUME NEW j \in 1 .. n
      PROVE  (IF Has(o + j - 1) THEN At(o + j - 1) ELSE NoByte) \in Bytes \cup {NoByte}
      <2>1. o + j - 1 \in Nat
            OBVIOUS
      <2>2. Has(o + j - 1) => At(o + j - 1) \in Bytes
            BY <2>1, AtType
      <2> QED BY <2>2
<1>2. cut \in [1 .. n -> Bytes \cup {NoByte}]
      BY <1>1
<1>3. cut \in Seq(Bytes \cup {NoByte})
      <2> HIDE DEF cut
      <2> QED BY <1>2
<1> QED BY <1>3 DEF Cut, Name

\* The tables of the two maps after an update.
LEMMA UpdateType ==
  ASSUME NEW K, NEW V, NEW map, DOMAIN map \subseteq K, map \in [DOMAIN map -> V],
         NEW key \in K, NEW value \in V
  PROVE  /\ DOMAIN Update(map, key, value) = DOMAIN map \cup {key}
         /\ DOMAIN Update(map, key, value) \subseteq K
         /\ Update(map, key, value) \in [DOMAIN Update(map, key, value) -> V]
BY DEF Update

ParserTyped == file \in Files /\ ParserTypeOK

\* The parser begins with its types.
LEMMA InitTyped == ParserInit => ParserTyped
<1> SUFFICES ASSUME ParserInit PROVE ParserTyped
    OBVIOUS
<1>1. Len(file.bytes) \in Nat
      BY FilesAssumption DEF ParserInit
<1>2. << >> \in [DOMAIN << >> -> Bytes] /\ << >> \in [DOMAIN << >> -> Name] /\ DOMAIN << >> = {}
      OBVIOUS
<1>3. /\ file \in Files /\ phase \in ParserPhase /\ pos \in 0 .. Len(file.bytes)
      /\ length \in Bytes /\ todo \in Bytes /\ base_offset \in Nat
      BY <1>1 DEF ParserInit, ParserPhase, Bytes
<1>4. /\ DOMAIN funcNameIndexMapper \subseteq Name
      /\ funcNameIndexMapper \in [DOMAIN funcNameIndexMapper -> Bytes]
      /\ DOMAIN funcIndexNameMapper \subseteq Bytes
      /\ funcIndexNameMapper \in [DOMAIN funcIndexNameMapper -> Name]
      BY <1>2 DEF ParserInit
<1> QED BY <1>3, <1>4 DEF ParserInit, ParserTyped, ParserTypeOK

\* The steps that stop it keep them,
LEMMA StopsTyped ==
  ASSUME ParserTyped, NEW how \in {"done", "exited", "aborted"}, ParserStops(how)
  PROVE  ParserTyped'
BY DEF ParserTyped, ParserTypeOK, ParserStops, ParserPhase, tables

\* What holds of the variables that an entry leaves alone.
LEMMA EntryTyped ==
  ASSUME ParserTyped, NEW handler, Entry(handler)
  PROVE  /\ file' = file /\ file \in Files /\ Len(file.bytes) \in Nat
         /\ pos' = pos /\ pos \in Nat /\ length' = length
         /\ pos' \in 0 .. Len(file'.bytes) /\ length' \in Bytes
         /\ todo \in Nat /\ todo > 0 /\ todo - 1 \in Bytes /\ base_offset \in Nat
<1>1. file \in Files /\ file.bytes \in Seq(0 .. 255)
      BY FilesAssumption DEF ParserTyped
<1>2. Len(file.bytes) \in Nat
      BY <1>1
<1>3. pos \in 0 .. Len(file.bytes) /\ length \in Bytes /\ todo \in Bytes /\ base_offset \in Nat
      BY DEF ParserTyped, ParserTypeOK
<1>4. file' = file /\ pos' = pos /\ length' = length /\ todo > 0
      BY DEF Entry
<1>5. pos \in Nat /\ todo \in Nat /\ todo - 1 \in Bytes
      BY <1>2, <1>3, <1>4 DEF Bytes
<1> QED BY <1>1, <1>2, <1>3, <1>4, <1>5

\* and so does an entry that throws,
LEMMA EntryThrowsTyped ==
  ASSUME ParserTyped, NEW handler, Entry(handler), EntryThrows
  PROVE  ParserTyped'
BY EntryTyped DEF ParserTyped, ParserTypeOK, EntryThrows, ParserPhase, tables

\* and one step of each handler:
LEMMA ParseTypeTyped == ASSUME ParserTyped, ParseType PROVE ParserTyped'
<1>1. Entry("types")
      BY DEF ParseType
<1> DEFINE params == base_offset + 2
           results == params + At(base_offset + 1) + 1
           fits == /\ Has(base_offset + 1) /\ Has(results - 1)
                   /\ At(results - 1) > 0 => MayCut(results + At(results - 1) - 1)
<1>2. CASE fits
      <2>1. /\ file' = file /\ file \in Files /\ pos' = pos /\ pos \in Nat /\ length' = length
            /\ pos' \in 0 .. Len(file'.bytes) /\ length' \in Bytes
            /\ todo - 1 \in Bytes /\ base_offset \in Nat
            BY <1>1, EntryTyped
      <2>2. At(base_offset + 1) \in Bytes
            BY <1>2, <2>1, AtType
      <2>3. params \in Nat /\ results \in Nat /\ results - 1 \in Nat
            <3>1. At(base_offset + 1) \in Nat
                  BY <2>2 DEF Bytes
            <3>2. base_offset \in Nat
                  BY <2>1
            <3> HIDE DEF fits
            <3> QED BY <3>1, <3>2
      <2> HIDE DEF params, results
      <2>4. At(results - 1) \in Bytes
            BY <1>2, <2>1, <2>3, AtType
      <2> DEFINE entry == [params |-> AddData(Cut(params, At(base_offset + 1))),
                           results |-> AddData(Cut(results, At(results - 1)))]
      <2>5. entry \in [params : Seq(ValType), results : Seq(ValType)]
            <3>1. Cut(params, At(base_offset + 1)) \in Name /\ Cut(results, At(results - 1)) \in Name
                  <4>1. At(base_offset + 1) \in Nat /\ At(results - 1) \in Nat
                        BY <2>2, <2>4 DEF Bytes
                  <4>2. file \in Files /\ pos \in Nat
                        BY <2>1
                  <4> QED BY <2>3, <4>1, <4>2, CutType
            <3>2. /\ AddData(Cut(params, At(base_offset + 1))) \in Seq(ValType)
                  /\ AddData(Cut(results, At(results - 1))) \in Seq(ValType)
                  BY <3>1, AddDataType DEF Name
            <3> QED BY <3>2
      <2> HIDE DEF entry
      <2>6. /\ wasmTypeVec' = Append(wasmTypeVec, entry)
            /\ Advance(3 + At(base_offset + 1) + At(results - 1))
            /\ UNCHANGED << funcTypeVec, funcNameIndexMapper, funcIndexNameMapper, wasmFunctionVec >>
            BY <1>2 DEF ParseType, entry, params, results
      <2>7. base_offset' \in Nat /\ todo' \in Bytes /\ phase' = phase
            <3>1. At(base_offset + 1) \in Nat /\ At(results - 1) \in Nat
                  BY <2>2, <2>4 DEF Bytes
            <3> QED BY <2>1, <2>6, <3>1 DEF Advance
      <2>8. wasmTypeVec' \in Seq([params : Seq(ValType), results : Seq(ValType)])
            BY <2>5, <2>6 DEF ParserTyped, ParserTypeOK, ValType
      <2> QED BY <2>1, <2>6, <2>7, <2>8 DEF ParserTyped, ParserTypeOK, ValType
<1>3. CASE ~fits
      <2>1. EntryThrows
            BY <1>3 DEF ParseType
      <2> QED BY <1>1, <2>1, EntryThrowsTyped
<1> QED BY <1>2, <1>3

\* parse_function,
LEMMA ParseFunctionTyped == ASSUME ParserTyped, ParseFunction PROVE ParserTyped'
<1>1. Entry("functions")
      BY DEF ParseFunction
<1>2. CASE Has(base_offset + 1)
      <2>1. /\ file' = file /\ file \in Files /\ pos' = pos /\ pos \in Nat /\ length' = length
            /\ pos' \in 0 .. Len(file'.bytes) /\ length' \in Bytes
            /\ todo - 1 \in Bytes /\ base_offset \in Nat
            BY <1>1, EntryTyped
      <2>2. At(base_offset + 1) \in Bytes
            BY <1>2, <2>1, AtType
      <2>3. /\ funcTypeVec' = Append(funcTypeVec, At(base_offset + 1)) /\ Advance(1)
            /\ UNCHANGED << wasmTypeVec, funcNameIndexMapper, funcIndexNameMapper, wasmFunctionVec >>
            BY <1>2 DEF ParseFunction
      <2>4. base_offset' \in Nat /\ todo' \in Bytes /\ phase' = phase
            BY <2>1, <2>3 DEF Advance
      <2>5. funcTypeVec' \in Seq(Bytes)
            BY <2>2, <2>3 DEF ParserTyped, ParserTypeOK
      <2> QED BY <2>1, <2>3, <2>4, <2>5 DEF ParserTyped, ParserTypeOK
<1>3. CASE ~Has(base_offset + 1)
      <2>1. EntryThrows
            BY <1>3 DEF ParseFunction
      <2> QED BY <1>1, <2>1, EntryThrowsTyped
<1> QED BY <1>2, <1>3

\* parse_export,
LEMMA ParseExportTyped == ASSUME ParserTyped, ParseExport PROVE ParserTyped'
<1> DEFINE size == At(base_offset + 1)
           fits == Has(base_offset + 1) /\ Has(base_offset + size + 3)
<1>1. Entry("exports")
      BY DEF ParseExport
<1>2. CASE fits
      <2>1. /\ file' = file /\ file \in Files /\ pos' = pos /\ pos \in Nat /\ length' = length
            /\ pos' \in 0 .. Len(file'.bytes) /\ length' \in Bytes
            /\ todo - 1 \in Bytes /\ base_offset \in Nat
            BY <1>1, EntryTyped
      <2>2. size \in Bytes
            BY <1>2, <2>1, AtType
      <2> DEFINE name == Cut(base_offset + 2, size)
                 index == At(base_offset + size + 3)
      <2>3. /\ funcNameIndexMapper' = Update(funcNameIndexMapper, name, index)
            /\ funcIndexNameMapper' = Update(funcIndexNameMapper, index, name)
            /\ Advance(size + 3)
            /\ UNCHANGED << wasmTypeVec, funcTypeVec, wasmFunctionVec >>
            BY <1>2 DEF ParseExport
      <2>4. size \in Nat
            BY <2>2 DEF Bytes
      <2>5. Has(base_offset + size + 3)
            BY <1>2
      <2> HIDE DEF size
      <2>6. index \in Bytes
            <3>1. base_offset + size + 3 \in Nat
                  BY <2>1, <2>4
            <3> QED BY <2>1, <2>5, <3>1, AtType
      <2>7. name \in Name
            <3>1. base_offset + 2 \in Nat
                  BY <2>1
            <3> QED BY <2>1, <2>4, <3>1, CutType
      <2> HIDE DEF name, index
      <2>8. /\ DOMAIN funcNameIndexMapper' \subseteq Name
            /\ funcNameIndexMapper' \in [DOMAIN funcNameIndexMapper' -> Bytes]
            BY <2>3, <2>6, <2>7, UpdateType DEF ParserTyped, ParserTypeOK
      <2>9. /\ DOMAIN funcIndexNameMapper' \subseteq Bytes
            /\ funcIndexNameMapper' \in [DOMAIN funcIndexNameMapper' -> Name]
            BY <2>3, <2>6, <2>7, UpdateType DEF ParserTyped, ParserTypeOK
      <2>10. base_offset' \in Nat /\ todo' \in Bytes /\ phase' = phase
             BY <2>1, <2>3, <2>4 DEF Advance
      <2> QED BY <2>1, <2>3, <2>8, <2>9, <2>10 DEF ParserTyped, ParserTypeOK
<1>3. CASE ~fits
      <2>1. EntryThrows
            BY <1>3 DEF ParseExport
      <2> QED BY <1>1, <2>1, EntryThrowsTyped
<1> QED BY <1>2, <1>3

\* parse_code,
LEMMA ParseCodeTyped == ASSUME ParserTyped, ParseCode PROVE ParserTyped'
<1> DEFINE func_size == At(base_offset + 1)
           fits == /\ Has(base_offset + 2) /\ func_size > 0
                   /\ func_size > 1 => MayCut(base_offset + func_size + 1)
<1>1. Entry("codes")
      BY DEF ParseCode
<1>2. CASE fits
      <2>1. /\ file' = file /\ file \in Files /\ pos' = pos /\ pos \in Nat /\ length' = length
            /\ pos' \in 0 .. Len(file'.bytes) /\ length' \in Bytes
            /\ todo - 1 \in Bytes /\ base_offset \in Nat /\ Len(file.bytes) \in Nat
            BY <1>1, EntryTyped
      <2>2. base_offset + 1 \in Nat /\ base_offset + 2 \in Nat /\ base_offset + 3 \in Nat
            BY <2>1
      <2>3. Has(base_offset + 1)
            BY <1>2, <2>1 DEF Has, Remaining
      <2>4. func_size \in Bytes /\ At(base_offset + 2) \in Bytes
            BY <1>2, <2>1, <2>2, <2>3, AtType
      <2> DEFINE entry == [code_vec |-> Cut(base_offset + 3, func_size - 1),
                           local_var_declare_count |-> At(base_offset + 2)]
      <2>5. /\ wasmFunctionVec' = Append(wasmFunctionVec, entry) /\ Advance(func_size + 1)
            /\ UNCHANGED << wasmTypeVec, funcTypeVec, funcNameIndexMapper, funcIndexNameMapper >>
            BY <1>2 DEF ParseCode
      <2>6. func_size \in Nat /\ func_size > 0
            BY <1>2, <2>4 DEF Bytes
      <2> HIDE DEF func_size
      <2>7. Cut(base_offset + 3, func_size - 1) \in Name
            <3>1. func_size - 1 \in Nat
                  BY <2>6
            <3> QED BY <2>1, <2>2, <3>1, CutType
      <2>8. entry \in [code_vec : Name, local_var_declare_count : Bytes]
            BY <2>4, <2>7
      <2> HIDE DEF entry
      <2>9. wasmFunctionVec' \in Seq([code_vec : Name, local_var_declare_count : Bytes])
            BY <2>5, <2>8 DEF ParserTyped, ParserTypeOK
      <2>10. base_offset' \in Nat /\ todo' \in Bytes /\ phase' = phase
             BY <2>1, <2>5, <2>6 DEF Advance
      <2> QED BY <2>1, <2>5, <2>9, <2>10 DEF ParserTyped, ParserTypeOK
<1>3. CASE ~fits
      <2>1. EntryThrows
            BY <1>3 DEF ParseCode
      <2> QED BY <1>1, <2>1, EntryThrowsTyped
<1> QED BY <1>2, <1>3

\* and the steps of parse itself: the crop in front of a section,
LEMMA BeginSectionTyped == ASSUME ParserTyped, BeginSection PROVE ParserTyped'
<1> DEFINE handled == At(0) \in DOMAIN HandlerOf
           fits == Has(1) /\ (handled => Has(2))
<1>1. CASE fits
      <2>1. /\ file \in Files /\ pos \in Nat /\ Len(file.bytes) \in Nat
            BY FilesAssumption DEF ParserTyped, ParserTypeOK
      <2>2. /\ length' = At(1) /\ pos' = pos + 2
            /\ phase' = IF handled THEN HandlerOf[At(0)] ELSE "skipping"
            /\ todo' = IF handled THEN At(2) ELSE 0
            /\ base_offset' = IF At(0) = 1 THEN 1 ELSE 0
            /\ file' = file
            /\ UNCHANGED tables
            BY <1>1 DEF BeginSection
      <2>3. At(1) \in Bytes /\ (handled => At(2) \in Bytes)
            BY <1>1, <2>1, AtType
      <2>4. \A id \in DOMAIN HandlerOf : HandlerOf[id] \in Handler
            BY DEF HandlerOf, Handler
      <2>5. phase' \in ParserPhase
            BY <2>2, <2>4 DEF ParserPhase
      <2>6. pos' \in 0 .. Len(file'.bytes)
            BY <1>1, <2>1, <2>2 DEF Has, Remaining
      <2>7. length' \in Bytes /\ todo' \in Bytes /\ base_offset' \in Nat
            BY <2>2, <2>3 DEF Bytes
      <2> QED BY <2>2, <2>5, <2>6, <2>7 DEF ParserTyped, ParserTypeOK, tables
<1>2. CASE ~fits
      <2>1. ParserStops("aborted")
            BY <1>2 DEF BeginSection
      <2> QED BY <2>1, StopsTyped
<1> QED BY <1>1, <1>2

\* the crop behind it,
LEMMA EndSectionTyped == ASSUME ParserTyped, EndSection PROVE ParserTyped'
<1>1. CASE MayCut(length)
      <2>1. /\ file \in Files /\ pos \in Nat /\ length \in Nat /\ Len(file.bytes) \in Nat
            <3>1. file \in Files /\ Len(file.bytes) \in Nat
                  BY FilesAssumption DEF ParserTyped
            <3>2. pos \in 0 .. Len(file.bytes) /\ length \in Bytes
                  BY DEF ParserTyped, ParserTypeOK
            <3> QED BY <3>1, <3>2 DEF Bytes
      <2>2. /\ pos' = pos + length /\ phase' = "section"
            /\ UNCHANGED << file, length, base_offset, todo, tables >>
            BY <1>1 DEF EndSection
      <2>3. pos' \in 0 .. Len(file'.bytes)
            BY <1>1, <2>1, <2>2 DEF MayCut, Remaining
      <2> QED BY <2>2, <2>3 DEF ParserTyped, ParserTypeOK, ParserPhase, tables
<1>2. CASE ~MayCut(length)
      <2>1. ParserStops("aborted")
            BY <1>2 DEF EndSection
      <2> QED BY <2>1, StopsTyped
<1> QED BY <1>1, <1>2

\* and the check of the header.
LEMMA InitialCheckTyped == ASSUME ParserTyped, InitialCheck PROVE ParserTyped'
<1> DEFINE fits == IsWasm /\ Remaining >= 8
<1>1. CASE fits
      <2>1. /\ file \in Files /\ pos \in Nat /\ Len(file.bytes) \in Nat
            BY FilesAssumption DEF ParserTyped, ParserTypeOK
      <2>2. /\ pos' = 8 /\ phase' = "section"
            /\ UNCHANGED << file, length, base_offset, todo, tables >>
            BY <1>1 DEF InitialCheck
      <2>3. pos' \in 0 .. Len(file'.bytes)
            BY <1>1, <2>1, <2>2 DEF Remaining
      <2> QED BY <2>2, <2>3 DEF ParserTyped, ParserTypeOK, ParserPhase, tables
<1>2. CASE ~fits
      <2>1. ParserStops("aborted") \/ ParserStops("exited")
            BY <1>2 DEF InitialCheck
      <2> QED BY <2>1, StopsTyped
<1> QED BY <1>1, <1>2

\* Every step keeps the types.
LEMMA NextTyped == ASSUME ParserTyped, [ParserNext]_parserVars PROVE ParserTyped'
<1>1. CASE InitialCheck BY <1>1, InitialCheckTyped
<1>2. CASE BeginSection BY <1>2, BeginSectionTyped
<1>3. CASE EndSection BY <1>3, EndSectionTyped
<1>4. CASE Finish BY <1>4, StopsTyped DEF Finish
<1>5. CASE ParseType BY <1>5, ParseTypeTyped
<1>6. CASE ParseFunction BY <1>6, ParseFunctionTyped
<1>7. CASE ParseExport BY <1>7, ParseExportTyped
<1>8. CASE ParseCode BY <1>8, ParseCodeTyped
<1>9. CASE UNCHANGED parserVars
      BY <1>9 DEF parserVars, tables, ParserTyped, ParserTypeOK
<1> QED BY <1>1, <1>2, <1>3, <1>4, <1>5, <1>6, <1>7, <1>8, <1>9 DEF ParserNext

\* Hence they hold in every state.
LEMMA TypedAlways == ParserSpec => []ParserTyped
<1>1. ParserTyped /\ [ParserNext]_parserVars => ParserTyped'
      BY NextTyped
<1> QED BY <1>1, InitTyped, PTL DEF ParserSpec

\* On any bytes at all the parser's variables keep their types: no crop passes
\* the end of the file and no table holds anything but bytes (parse and the
\* four parse_ handlers).
THEOREM ParserTypeCorrect == ParserSpec => []ParserTypeOK
<1>1. ParserTyped => ParserTypeOK
      BY DEF ParserTyped
<1> QED BY <1>1, TypedAlways, PTL

-----------------------------------------------------------------------------
(***************************************************************************)
(* Crops and sections                                                      *)
(***************************************************************************)
\* The file is m, or a beginning of m.
Begins(m) == MayFind(m) /\ BeginningOf(file.bytes, m)

\* What the parser reads of a beginning of m is what m has there.
LEMMA AtBytes ==
  ASSUME ParserTyped, NEW m, Begins(m), NEW o \in Nat, Has(o)
  PROVE  At(o) = Encode(m)[pos + o + 1]
<1> DEFINE n == Len(file.bytes)
           all == Encode(m)
<1>1. file.bytes = SubSeq(all, 1, n) /\ n \in Nat /\ n <= Len(all) /\ all \in Seq(Nat)
      <2>1. n \in Nat
            BY FilesAssumption DEF ParserTyped
      <2> QED BY <2>1, BytesFacts DEF Begins, BeginningOf
<1>2. pos \in Nat
      <2>1. pos \in 0 .. n
            BY DEF ParserTyped, ParserTypeOK
      <2> QED BY <1>1, <2>1
<1>3. pos + o + 1 \in 1 .. n
      BY <1>1, <1>2 DEF Has, Remaining
<1>4. At(o) = file.bytes[pos + o + 1]
      BY DEF At
<1> DEFINE i == pos + o + 1
<1> HIDE DEF n, all, i
<1>5. \A j \in 1 .. n : SubSeq(all, 1, n)[j] = all[j]
      BY <1>1
<1>6. file.bytes[i] = all[i]
      BY <1>1, <1>3, <1>5 DEF i
<1> QED BY <1>4, <1>6 DEF i, all

\* The phases of a parser at a section.
LEMMA AtSectionPhase ==
  ASSUME NEW m, MayFind(m), NEW k \in 0 .. Len(Sections(m)), AtSection(m, k)
  PROVE  /\ phase = "section" => BetweenSections(m, k)
         /\ phase # "section" => InSection(m, k) /\ k \in 0 .. Len(Sections(m)) - 1
<1>1. Len(Sections(m)) \in Nat
      BY SectionsFacts
<1>2. CASE BetweenSections(m, k)
      BY <1>2 DEF BetweenSections
<1>3. CASE InSection(m, k)
      <2>1. k \in 0 .. Len(Sections(m)) - 1
            BY <1>1, <1>3 DEF InSection
      <2>2. phase \in Handler \cup {"skipping"}
            BY <1>3, <2>1, PhaseFacts DEF InSection
      <2> QED BY <1>3, <2>1, <2>2 DEF Handler
<1> QED BY <1>2, <1>3 DEF AtSection

\* The crop in front of a section finds the id and the length of the next
\* section of m.
LEMMA BeginStep ==
  ASSUME ParserTyped, NEW m, Begins(m), NEW k \in 0 .. Len(Sections(m)),
         BetweenSections(m, k), BeginSection
  PROVE  /\ k \in 0 .. Len(Sections(m)) - 1
         /\ At(0) = Sections(m)[k + 1].id
         /\ Has(1) => At(1) = Len(Sections(m)[k + 1].content)
         /\ phase' # "aborted" => Has(1) /\ InSection(m, k)'
<1> DEFINE L == Len(Sections(m))
           s == Sections(m)[k + 1]
           n == Len(file.bytes)
           e == SectionEnd(m, k)
           handled == At(0) \in DOMAIN HandlerOf
           fits == Has(1) /\ (handled => Has(2))
<1>1. MayFind(m) /\ n <= Len(Encode(m))
      BY DEF Begins, BeginningOf
<1>2. pos = e /\ Has(0) /\ n \in Nat /\ e \in Nat /\ L \in Nat /\ Len(Encode(m)) = SectionEnd(m, L)
      <2>1. n \in Nat
            BY FilesAssumption DEF ParserTyped
      <2> QED BY <1>1, <2>1, BytesFacts, SectionsFacts DEF BetweenSections, BeginSection
<1>3. e < n
      BY <1>2 DEF Has, Remaining
<1>4. k # L
      BY <1>1, <1>2, <1>3
<1>5. k \in 0 .. L - 1
      BY <1>2, <1>4
<1>6. /\ Encode(m)[e + 1] = s.id /\ Encode(m)[e + 2] = Len(s.content)
      BY <1>1, <1>5, BytesFacts
<1>7. At(0) = s.id
      <2>1. At(0) = Encode(m)[pos + 0 + 1]
            BY <1>2, AtBytes
      <2>2. pos + 0 + 1 = e + 1
            BY <1>2
      <2> QED BY <1>6, <2>1, <2>2
<1>8. ASSUME Has(1) PROVE At(1) = Len(s.content)
      <2>1. At(1) = Encode(m)[pos + 1 + 1]
            BY <1>8, AtBytes
      <2>2. pos + 1 + 1 = e + 2
            BY <1>2
      <2> QED BY <1>6, <2>1, <2>2
<1>9. ASSUME phase' # "aborted" PROVE fits
      <2>1. ~fits => ParserStops("aborted")
            BY DEF BeginSection
      <2> QED BY <1>9, <2>1 DEF ParserStops
<1>10. ASSUME fits PROVE InSection(m, k)'
       <2>1. /\ length' = At(1) /\ pos' = pos + 2
             /\ phase' = IF handled THEN HandlerOf[At(0)] ELSE "skipping"
             BY <1>10 DEF BeginSection
       <2>2. phase' = PhaseOf(s.id)
             BY <1>7, <2>1 DEF PhaseOf
       <2>3. k < L
             BY <1>2, <1>5
       <2> QED BY <1>2, <1>8, <1>10, <2>1, <2>2, <2>3 DEF InSection
<1> QED BY <1>5, <1>7, <1>8, <1>9, <1>10

\* The crop behind a section moves to where the next one begins.
LEMMA EndStep ==
  ASSUME NEW m, MayFind(m), NEW k \in 0 .. Len(Sections(m)) - 1, InSection(m, k),
         EndSection, phase' # "aborted"
  PROVE  k + 1 \in 0 .. Len(Sections(m)) /\ BetweenSections(m, k + 1)'
<1> DEFINE L == Len(Sections(m))
           n == Len(Sections(m)[k + 1].content)
           e == SectionEnd(m, k)
<1>1. k + 1 \in 0 .. L /\ k \in 0 .. L
      <2>1. L \in Nat
            BY SectionsFacts
      <2> QED BY <2>1
<1>2. e \in Nat /\ n \in Nat /\ SectionEnd(m, k + 1) = e + 2 + n
      BY <1>1, BytesFacts
<1>3. pos = e + 2 /\ length = n
      BY DEF InSection
<1>4. MayCut(length)
      <2>1. ~MayCut(length) => ParserStops("aborted")
            BY DEF EndSection
      <2> QED BY <2>1 DEF ParserStops
<1>5. pos' = pos + length /\ phase' = "section"
      BY <1>4 DEF EndSection
<1> HIDE DEF e, n
<1>6. pos' = SectionEnd(m, k + 1)
      BY <1>2, <1>3, <1>5
<1> QED BY <1>1, <1>5, <1>6 DEF BetweenSections

\* A step of a handler stays where the parser's crops have left it.
Stays == UNCHANGED << file, length, pos >> /\ phase' \in {phase, "aborted"}

\* A step of a handler crops nothing.
LEMMA EntryStays ==
  ASSUME ParseType \/ ParseFunction \/ ParseExport \/ ParseCode PROVE Stays /\ phase \in Handler
<1>1. /\ phase \in Handler /\ UNCHANGED << file, length, pos >>
      BY DEF ParseType, ParseFunction, ParseExport, ParseCode, Entry, Handler
<1>2. ASSUME EntryThrows PROVE phase' = "aborted"
      BY <1>2 DEF EntryThrows
<1>3. ASSUME NEW n, Advance(n) PROVE phase' = phase
      BY <1>3 DEF Advance
<1>4. phase' \in {phase, "aborted"}
      <2>1. CASE ParseType BY <1>2, <1>3, <2>1 DEF ParseType
      <2>2. CASE ParseFunction BY <1>2, <1>3, <2>2 DEF ParseFunction
      <2>3. CASE ParseExport BY <1>2, <1>3, <2>3 DEF ParseExport
      <2>4. CASE ParseCode BY <1>2, <1>3, <2>4 DEF ParseCode
      <2> QED BY <2>1, <2>2, <2>3, <2>4
<1> QED BY <1>1, <1>4 DEF Stays

\* A step that crops nothing stays at its section.
LEMMA AtSectionStays ==
  ASSUME NEW m, NEW k, AtSection(m, k), phase' = phase, pos' = pos, length' = length
  PROVE  AtSection(m, k)'
BY DEF AtSection, BetweenSections, InSection

\* On a beginning of m every step crops at the ends of the sections of m.
LEMMA CropsStep ==
  ASSUME ParserTyped, [ParserNext]_parserVars, NEW m, Begins(m), CropsSections(m)
  PROVE  CropsSections(m)'
<1> DEFINE L == Len(Sections(m))
<1>1. MayFind(m) /\ L \in Nat /\ SectionEnd(m, 0) = 8
      BY BytesFacts, SectionsFacts DEF Begins
<1>2. CASE InitialCheck
      <2>1. CASE IsWasm /\ Remaining >= 8
            <3>1. pos' = 8 /\ phase' = "section"
                  BY <1>2, <2>1 DEF InitialCheck
            <3>2. AtSection(m, 0)' /\ 0 \in 0 .. L
                  BY <1>1, <3>1 DEF AtSection, BetweenSections
            <3> QED BY <3>1, <3>2 DEF CropsSections
      <2>2. CASE ~(IsWasm /\ Remaining >= 8)
            <3>1. phase' \in {"aborted", "exited"}
                  BY <1>2, <2>2 DEF InitialCheck, ParserStops
            <3> QED BY <3>1 DEF CropsSections, Parsing, Handler
      <2> QED BY <2>1, <2>2
<1>3. CASE BeginSection
      <2>1. phase = "section"
            BY <1>3 DEF BeginSection
      <2>2. PICK k \in 0 .. L : AtSection(m, k)
            BY <2>1 DEF CropsSections, Parsing
      <2>3. BetweenSections(m, k)
            BY <1>1, <2>1, <2>2, AtSectionPhase
      <2>4. k \in 0 .. L - 1 /\ (phase' # "aborted" => InSection(m, k)')
            BY <1>3, <2>3, BeginStep
      <2>5. CASE phase' = "aborted"
            BY <2>5 DEF CropsSections, Parsing, Handler
      <2>6. CASE phase' # "aborted"
            <3>1. phase' \in Handler \cup {"skipping"}
                  BY <1>1, <2>4, <2>6, PhaseFacts DEF InSection
            <3> QED BY <2>2, <2>4, <2>6, <3>1 DEF CropsSections, AtSection, Parsing, Handler
      <2> QED BY <2>5, <2>6
<1>4. CASE EndSection
      <2>1. phase \in Handler \cup {"skipping"} /\ phase # "section"
            BY <1>4 DEF EndSection, Handler
      <2>2. PICK k \in 0 .. L : AtSection(m, k)
            BY <2>1 DEF CropsSections, Parsing
      <2>3. InSection(m, k) /\ k \in 0 .. L - 1
            BY <1>1, <2>1, <2>2, AtSectionPhase
      <2>4. CASE phase' = "aborted"
            BY <2>4 DEF CropsSections, Parsing, Handler
      <2>5. CASE phase' # "aborted"
            <3>1. k + 1 \in 0 .. L /\ BetweenSections(m, k + 1)'
                  BY <1>1, <1>4, <2>3, <2>5, EndStep
            <3>2. phase' = "section" /\ AtSection(m, k + 1)'
                  BY <3>1 DEF BetweenSections, AtSection
            <3> QED BY <3>1, <3>2 DEF CropsSections, Parsing, Handler
      <2> QED BY <2>4, <2>5
<1>5. CASE Finish
      <2>1. phase = "section" /\ ~Has(0) /\ phase' = "done" /\ pos' = pos /\ file' = file
            BY <1>5 DEF Finish, ParserStops
      <2>2. PICK k \in 0 .. L : AtSection(m, k)
            BY <2>1 DEF CropsSections, Parsing
      <2>3. pos = SectionEnd(m, k)
            BY <1>1, <2>1, <2>2, AtSectionPhase DEF BetweenSections
      <2>4. pos = Len(file.bytes)
            <3>1. Len(file.bytes) \in Nat
                  BY FilesAssumption DEF ParserTyped
            <3>2. pos \in 0 .. Len(file.bytes)
                  BY DEF ParserTyped, ParserTypeOK
            <3> QED BY <2>1, <3>1, <3>2 DEF Has, Remaining
      <2> QED BY <2>1, <2>3, <2>4 DEF CropsSections, Parsing, Handler
<1>6. CASE Stays /\ phase \in Handler
      <2>1. PICK k \in 0 .. L : AtSection(m, k)
            BY <1>6 DEF CropsSections, Parsing
      <2>2. CASE phase' = "aborted"
            BY <2>2 DEF CropsSections, Parsing, Handler
      <2>3. CASE phase' = phase
            <3>1. AtSection(m, k)'
                  BY <1>6, <2>1, <2>3, AtSectionStays DEF Stays
            <3> QED BY <1>6, <2>3, <3>1 DEF CropsSections, Handler
      <2> QED BY <1>6, <2>2, <2>3 DEF Stays
<1>7. CASE UNCHANGED parserVars
      BY <1>7 DEF parserVars, CropsSections, AtSection, BetweenSections, InSection
<1> QED BY <1>2, <1>3, <1>4, <1>5, <1>6, <1>7, EntryStays DEF ParserNext

\* The parser stays on its file.
LEMMA FileStays == [ParserNext]_parserVars => file' = file
BY DEF ParserNext, parserVars, tables, InitialCheck, BeginSection, EndSection, Finish,
       ParserStops, ParseType, ParseFunction, ParseExport, ParseCode, Entry

\* The state of a parser that is at work on a file of Files, cut or not.
CropsAlways == ParserTyped /\ \A m \in file.cut : CropsSections(m)

\* The parser begins with them,
LEMMA CropsBegin == ParserInit => CropsAlways
<1> SUFFICES ASSUME ParserInit PROVE CropsAlways
    OBVIOUS
<1>1. \A m \in file.cut : CropsSections(m)
      BY DEF ParserInit, CropsSections, Parsing, Handler
<1> QED BY <1>1, InitTyped DEF CropsAlways

\* and keeps them;
LEMMA CropsKept == CropsAlways /\ [ParserNext]_parserVars => CropsAlways'
<1> SUFFICES ASSUME CropsAlways, [ParserNext]_parserVars PROVE CropsAlways'
    OBVIOUS
<1>1. ParserTyped /\ ParserTyped'
      BY NextTyped DEF CropsAlways
<1>2. file' = file /\ file \in Files
      BY <1>1, FileStays DEF ParserTyped
<1>3. ASSUME NEW m \in file.cut PROVE CropsSections(m)'
      <2>1. Begins(m)
            BY <1>2, TruthAssumption DEF Begins, EndsInside
      <2> QED BY <1>1, <2>1, CropsStep DEF CropsAlways
<1> QED BY <1>1, <1>2, <1>3 DEF CropsAlways

\* hence they are there in every state.
LEMMA CropsInvariant == ParserSpec => []CropsAlways
BY CropsBegin, CropsKept, PTL DEF ParserSpec

\* With them a file that ends inside a section is not accepted.
LEMMA CropsNotice == CropsAlways => CutNoticed
<1> SUFFICES ASSUME CropsAlways, NEW m \in file.cut, phase = "done" PROVE FALSE
    BY DEF CutNoticed
<1>1. file \in Files /\ CropsSections(m)
      BY DEF CropsAlways, ParserTyped
<1>2. \A k \in 0 .. Len(Sections(m)) : Len(file.bytes) # SectionEnd(m, k)
      BY <1>1, TruthAssumption DEF EndsInside
<1> QED BY <1>1, <1>2 DEF CropsSections

\* A file that ends inside a section is never accepted, whatever module it is
\* a beginning of and wherever it is cut: the crops of parse stay on the ends
\* of the sections, because the length in front of each is the right one.
THEOREM CutNoticedCorrect == ParserSpec => []CutNoticed
BY CropsNotice, CropsInvariant, PTL

-----------------------------------------------------------------------------
(***************************************************************************)
(* Entries                                                                 *)
(***************************************************************************)
\* The bytes that follow offset o.
Ahead(o, bytes) ==
  /\ bytes \in Seq(Nat)
  /\ \A j \in 1 .. Len(bytes) : Has(o + j - 1) /\ At(o + j - 1) = bytes[j]
  /\ MayCut(o + Len(bytes))

\* A handler's section is the number of its entries and then the entries.
LEMMA ContentFacts ==
  ASSUME NEW m, MayFind(m), NEW k \in 0 .. Len(Sections(m)) - 1,
         phase = PhaseOf(Sections(m)[k + 1].id), phase \in Handler
  PROVE  LET content == Sections(m)[k + 1].content
             items == ItemsOf(m)
         IN /\ items \in Seq(Seq(Nat)) /\ Len(items) \in Nat
            /\ content = Vec(items)
            /\ \A i \in 1 .. Len(items) : items[i] # << >>
<1>1. PICK items \in Seq(Seq(Nat)) :
        /\ Sections(m)[k + 1].content = Vec(items)
        /\ \A i \in 1 .. Len(items) : items[i] # << >>
        /\ phase = "types" => items = TypeItems(m)
        /\ phase = "functions" => items = FuncItems(m)
        /\ phase = "exports" => items = ExportItems(m)
        /\ phase = "codes" => items = CodeItems(m)
      BY SectionItems
<1>2. ItemsOf(m) = items
      BY <1>1 DEF ItemsOf, Handler
<1>3. Len(items) \in Nat
      OBVIOUS
<1> QED BY <1>1, <1>2, <1>3

\* What a handler with entries left reads next, when the file holds m.
LEMMA ItemAhead ==
  ASSUME ParserTyped, NEW m, MayFind(m), file.bytes = Encode(m),
         NEW k \in 0 .. Len(Sections(m)) - 1, InSection(m, k), phase \in Handler,
         AtEntry(m), todo > 0
  PROVE  LET items == ItemsOf(m)
             e == Len(items) - todo + 1
         IN /\ e \in 1 .. Len(items) /\ items \in Seq(Seq(Nat)) /\ Len(items) \in Nat
            /\ Len(items[e]) \in Nat /\ Len(items[e]) < 128 /\ NextEntry \in Nat
            /\ Ahead(NextEntry, items[e])
            /\ NextEntry + Len(items[e]) = 1 + Offset(items, e)
<1>0. todo \in Nat
      <2>1. todo \in Bytes
            BY DEF ParserTyped, ParserTypeOK
      <2> QED BY <2>1 DEF Bytes
<1> DEFINE items == ItemsOf(m)
           content == Sections(m)[k + 1].content
           n == Len(items)
           e == n - todo + 1
           item == items[e]
           size == Len(item)
           start == Offset(items, e - 1)
           stop == Offset(items, e)
           length_ == Len(content)
           base == SectionEnd(m, k)
           all == Len(file.bytes)
           bytes == Encode(m)
<1>1. /\ items \in Seq(Seq(Nat)) /\ n \in Nat /\ content = Vec(items)
      /\ \A i \in 1 .. n : items[i] # << >>
      /\ length_ < 128
      <2>1. phase = PhaseOf(Sections(m)[k + 1].id)
            BY DEF InSection
      <2>2. k + 1 \in 1 .. Len(Sections(m))
            BY SectionsFacts
      <2> QED BY <2>1, <2>2, ContentFacts, SectionsFacts
<1>2. e \in 1 .. n
      <2>1. todo <= n
            BY DEF AtEntry
      <2>2. todo \in Nat
            BY <1>0
      <2> HIDE DEF n
      <2> QED BY <1>1, <2>1, <2>2
<1> HIDE DEF e
<1>3. /\ item \in Seq(Nat) /\ size \in Nat /\ start \in Nat /\ stop \in Nat
      /\ stop = start + size /\ 1 + stop <= length_
      /\ \A j \in 1 .. size : content[1 + (start + j)] = item[j]
      BY <1>1, <1>2, ShortVec
<1>4. NextEntry = 1 + start
      <2>1. NextEntry = 1 + Offset(items, n - todo)
            BY DEF AtEntry
      <2>2. todo \in Nat
            BY <1>0
      <2>3. n - todo = e - 1
            <3> HIDE DEF n
            <3> QED BY <1>1, <2>2 DEF e
      <2> QED BY <2>1, <2>3
<1>5. /\ length_ \in Nat /\ base \in Nat /\ base + 2 + length_ <= all
      /\ all = Len(bytes) /\ pos = base + 2
      /\ \A j \in 1 .. length_ : bytes[base + 2 + j] = content[j]
      <2>1. /\ length_ \in Nat /\ SectionEnd(m, k + 1) = base + 2 + length_
            /\ \A j \in 1 .. length_ : bytes[base + 2 + j] = content[j]
            BY BytesFacts
      <2>2. k \in 0 .. Len(Sections(m)) /\ k + 1 \in 0 .. Len(Sections(m))
            BY SectionsFacts
      <2>3. base \in Nat /\ SectionEnd(m, k + 1) <= Len(bytes)
            BY <2>2, BytesFacts
      <2> QED BY <2>1, <2>3 DEF InSection
<1>6. all \in Nat
      BY FilesAssumption DEF ParserTyped
<1> HIDE DEF items, content, n, item, size, start, stop, length_, base, all, bytes
<1>7. size < 128
      BY <1>1, <1>3, <1>5
<1>8. ASSUME NEW j \in 1 .. size
      PROVE  Has(NextEntry + j - 1) /\ At(NextEntry + j - 1) = item[j]
      <2>1. NextEntry + j - 1 = start + j /\ 1 + (start + j) \in 1 .. length_
            BY <1>3, <1>4, <1>5
      <2>2. start + j < all - pos
            <3>1. start + j < length_ /\ start + j \in Nat
                  BY <1>3, <1>5
            <3>2. length_ <= all - pos
                  BY <1>5, <1>6
            <3> DEFINE d == start + j
            <3> HIDE DEF d
            <3> QED BY <1>5, <1>6, <3>1, <3>2 DEF d
      <2>3. Has(start + j)
            BY <2>2 DEF Has, Remaining, all
      <2>4. At(start + j) = bytes[pos + (start + j) + 1]
            BY DEF At, bytes
      <2>5. pos + (start + j) + 1 = base + 2 + (1 + (start + j))
            BY <1>3, <1>5
      <2>6. bytes[base + 2 + (1 + (start + j))] = content[1 + (start + j)]
            BY <1>5, <2>1
      <2> QED BY <1>3, <2>1, <2>3, <2>4, <2>5, <2>6
<1>9. MayCut(NextEntry + size)
      <2>1. NextEntry + size <= all - pos
            BY <1>3, <1>4, <1>5, <1>6
      <2> QED BY <2>1 DEF MayCut, Remaining, all
<1>10. NextEntry \in Nat /\ NextEntry + size = 1 + stop
       BY <1>3, <1>4
<1>11. Ahead(NextEntry, item)
       BY <1>3, <1>8, <1>9 DEF Ahead, size
<1> QED BY <1>1, <1>2, <1>3, <1>7, <1>10, <1>11 DEF items, n, e, item, size, stop

\* A part of the bytes that are ahead.
LEMMA CutAhead ==
  ASSUME NEW from \in Nat, NEW code, Ahead(from, code), NEW skip \in Nat,
         NEW S, NEW part \in Seq(S), skip + Len(part) <= Len(code),
         \A j \in 1 .. Len(part) : code[skip + j] = part[j]
  PROVE  Cut(from + skip, Len(part)) = part
<1>1. Len(code) \in Nat /\ Len(part) \in Nat
      BY DEF Ahead
<1>2. ASSUME NEW j \in 1 .. Len(part)
      PROVE  (IF Has((from + skip) + j - 1) THEN At((from + skip) + j - 1) ELSE NoByte) = part[j]
      <2>1. skip + j \in 1 .. Len(code) /\ from + (skip + j) - 1 = (from + skip) + j - 1
            BY <1>1
      <2>2. Has(from + (skip + j) - 1) /\ At(from + (skip + j) - 1) = code[skip + j]
            BY <2>1 DEF Ahead
      <2> QED BY <2>1, <2>2
<1>3. part = [j \in 1 .. Len(part) |-> part[j]]
      OBVIOUS
<1> QED BY <1>2, <1>3 DEF Cut

\* One byte of those that are ahead.
LEMMA ByteAhead ==
  ASSUME NEW o \in Nat, NEW bytes, Ahead(o, bytes), NEW i \in Nat, i < Len(bytes)
  PROVE  Has(o + i) /\ At(o + i) = bytes[i + 1]
<1>1. Len(bytes) \in Nat
      BY DEF Ahead
<1>2. i + 1 \in 1 .. Len(bytes) /\ o + (i + 1) - 1 = o + i
      BY <1>1
<1> QED BY <1>2 DEF Ahead

\* What lies in front of the end of known bytes may be cut.
LEMMA CutNear ==
  ASSUME NEW o \in Nat, NEW bytes, Ahead(o, bytes), NEW i \in Nat, i <= o + Len(bytes),
         file \in Files, pos \in Nat
  PROVE  MayCut(i)
<1>1. Len(bytes) \in Nat /\ Len(file.bytes) \in Nat
      BY FilesAssumption DEF Ahead
<1> QED BY <1>1 DEF Ahead, MayCut, Remaining

\* WasmType::add_data reads back the types that a binary names.
LEMMA AddDataOfTypes ==
  ASSUME NEW t \in Seq(ValType) PROVE AddData(TypeBytes(t)) = t
<1> DEFINE bytes == TypeBytes(t)
           named == [k \in DOMAIN bytes |->
             IF bytes[k] \in DOMAIN TypeName THEN << TypeName[bytes[k]] >> ELSE << >>]
<1>1. Len(t) \in Nat /\ DOMAIN t = 1 .. Len(t) /\ DOMAIN bytes = DOMAIN t
      BY DEF TypeBytes
<1>2. \A v \in ValType : TypeByte[v] \in DOMAIN TypeName /\ TypeName[TypeByte[v]] = v
      BY DEF ValType, TypeByte, TypeName
<1>3. \A k \in 1 .. Len(t) : bytes[k] = TypeByte[t[k]] /\ t[k] \in ValType
      BY TypeBytesType, ElementType
<1> HIDE DEF bytes
<1>4. \A k \in DOMAIN t : named[k] = << t[k] >>
      BY <1>1, <1>2, <1>3
<1>5. named = [k \in DOMAIN t |-> << t[k] >>]
      BY <1>1, <1>4
<1> HIDE DEF named
<1>6. FlattenSeq(named) = t
      BY <1>5, FlattenSingletons
<1> QED BY <1>6 DEF AddData, named, bytes

\* parse_type reads a function type where one is ahead.
LEMMA TypeEntry ==
  ASSUME ParserTyped, ParseType, NEW t \in [params : Seq(ValType), results : Seq(ValType)],
         Len(FuncType(t)) < 128, Ahead(base_offset, FuncType(t))
  PROVE  /\ wasmTypeVec' = Append(wasmTypeVec, t) /\ Advance(Len(FuncType(t)))
         /\ UNCHANGED << funcTypeVec, funcNameIndexMapper, funcIndexNameMapper, wasmFunctionVec >>
<1> DEFINE bytes == FuncType(t)
           P == Len(t.params)
           R == Len(t.results)
           n == Len(bytes)
<1>1. /\ file \in Files /\ pos \in Nat /\ base_offset \in Nat
      BY EntryTyped DEF ParseType
<1>2. t.params \in Seq(ValType) /\ t.results \in Seq(ValType) /\ P \in Nat /\ R \in Nat
      OBVIOUS
<1>3. /\ n = 3 + P + R /\ bytes[2] = P /\ bytes[3 + P] = R
      /\ \A j \in 1 .. P : bytes[2 + j] = TypeByte[t.params[j]]
      /\ \A j \in 1 .. R : bytes[3 + P + j] = TypeByte[t.results[j]]
      BY FuncTypeFacts
<1>4. Ahead(base_offset, bytes)
      OBVIOUS
<1> HIDE DEF bytes, P, R, n
<1>5. Has(base_offset + 1) /\ At(base_offset + 1) = P
      <2>1. 1 < n
            BY <1>2, <1>3
      <2> QED BY <1>1, <1>3, <1>4, <2>1, ByteAhead DEF n
<1> DEFINE params == base_offset + 2
           results == params + At(base_offset + 1) + 1
<1>6. results - 1 = base_offset + (2 + P) /\ results = base_offset + (3 + P)
      BY <1>1, <1>2, <1>5
<1>7. Has(results - 1) /\ At(results - 1) = R
      <2>1. 2 + P < n /\ 2 + P \in Nat /\ 2 + P + 1 = 3 + P
            BY <1>2, <1>3
      <2>2. Has(base_offset + (2 + P)) /\ At(base_offset + (2 + P)) = bytes[2 + P + 1]
            BY <1>1, <1>4, <2>1, ByteAhead DEF n
      <2>3. bytes[2 + P + 1] = R
            BY <1>3, <2>1
      <2> HIDE DEF results
      <2> QED BY <1>6, <2>2, <2>3
<1>8. Cut(params, At(base_offset + 1)) = TypeBytes(t.params)
      <2> DEFINE part == TypeBytes(t.params)
      <2>1. part \in Seq(Nat) /\ Len(part) = P /\ \A j \in 1 .. P : part[j] = TypeByte[t.params[j]]
            BY <1>2, TypeBytesType DEF P
      <2> HIDE DEF part
      <2>2. 2 + Len(part) <= n /\ 2 \in Nat /\ \A j \in 1 .. Len(part) : bytes[2 + j] = part[j]
            <3>1. Len(part) = P
                  BY <2>1
            <3>2. 2 + P <= n /\ 2 \in Nat
                  BY <1>2, <1>3
            <3>3. ASSUME NEW j \in 1 .. P PROVE bytes[2 + j] = part[j]
                  <4>1. bytes[2 + j] = TypeByte[t.params[j]]
                        BY <1>3
                  <4>2. part[j] = TypeByte[t.params[j]]
                        BY <2>1
                  <4> QED BY <4>1, <4>2
            <3> QED BY <3>1, <3>2, <3>3
      <2>3. Cut(base_offset + 2, Len(part)) = part
            BY <1>1, <1>4, <2>1, <2>2, CutAhead DEF n
      <2> QED BY <1>5, <2>1, <2>3 DEF part
<1>9. Cut(results, At(results - 1)) = TypeBytes(t.results)
      <2> DEFINE part == TypeBytes(t.results)
                 skip == 3 + P
      <2>1. part \in Seq(Nat) /\ Len(part) = R /\ \A j \in 1 .. R : part[j] = TypeByte[t.results[j]]
            BY <1>2, TypeBytesType DEF R
      <2> HIDE DEF part
      <2>2. skip + Len(part) <= n /\ skip \in Nat /\ \A j \in 1 .. Len(part) : bytes[skip + j] = part[j]
            <3>1. Len(part) = R
                  BY <2>1
            <3>2. skip + R <= n /\ skip \in Nat
                  BY <1>2, <1>3
            <3>3. ASSUME NEW j \in 1 .. R PROVE bytes[skip + j] = part[j]
                  <4>1. bytes[skip + j] = TypeByte[t.results[j]]
                        BY <1>3
                  <4>2. part[j] = TypeByte[t.results[j]]
                        BY <2>1
                  <4> QED BY <4>1, <4>2
            <3> QED BY <3>1, <3>2, <3>3
      <2> HIDE DEF skip
      <2>3. Cut(base_offset + skip, Len(part)) = part
            BY <1>1, <1>4, <2>1, <2>2, CutAhead DEF n
      <2> QED BY <1>6, <1>7, <2>1, <2>3 DEF part, skip
<1>10. MayCut(results + At(results - 1) - 1)
      <2>1. results + At(results - 1) - 1 \in Nat
            BY <1>1, <1>2, <1>6, <1>7
      <2>2. results + At(results - 1) - 1 <= base_offset + n
            BY <1>1, <1>2, <1>3, <1>6, <1>7
      <2> HIDE DEF results
      <2> QED BY <1>1, <1>4, <2>1, <2>2, CutNear DEF n
<1>11. t = [params |-> t.params, results |-> t.results]
      OBVIOUS
<1>12. AddData(TypeBytes(t.params)) = t.params /\ AddData(TypeBytes(t.results)) = t.results
      BY <1>2, AddDataOfTypes
<1> DEFINE entry == [params |-> AddData(Cut(params, At(base_offset + 1))),
                     results |-> AddData(Cut(results, At(results - 1)))]
<1>13. /\ wasmTypeVec' = Append(wasmTypeVec, entry)
       /\ Advance(3 + At(base_offset + 1) + At(results - 1))
       /\ UNCHANGED << funcTypeVec, funcNameIndexMapper, funcIndexNameMapper, wasmFunctionVec >>
       BY <1>5, <1>7, <1>10 DEF ParseType
<1>14. entry = t
       BY <1>8, <1>9, <1>11, <1>12
<1>15. 3 + At(base_offset + 1) + At(results - 1) = n
       BY <1>3, <1>5, <1>7
<1> QED BY <1>13, <1>14, <1>15 DEF n, bytes

\* parse_function reads an index of one byte.
LEMMA FunctionEntry ==
  ASSUME ParserTyped, ParseFunction, NEW f \in Nat, f < 128, Ahead(base_offset + 1, U32(f))
  PROVE  /\ funcTypeVec' = Append(funcTypeVec, f) /\ Advance(Len(U32(f)))
         /\ UNCHANGED << wasmTypeVec, funcNameIndexMapper, funcIndexNameMapper, wasmFunctionVec >>
<1>1. base_offset \in Nat /\ base_offset + 1 \in Nat
      BY EntryTyped DEF ParseFunction
<1>2. U32(f) = << f >>
      BY U32Facts
<1>3. Len(U32(f)) = 1 /\ U32(f)[1] = f
      BY <1>2
<1>4. Has(base_offset + 1) /\ At(base_offset + 1) = f
      <2>1. Has(base_offset + 1 + 0) /\ At(base_offset + 1 + 0) = U32(f)[0 + 1]
            <3>1. 0 < Len(U32(f))
                  BY <1>3
            <3> QED BY <1>1, <3>1, ByteAhead
      <2>2. base_offset + 1 + 0 = base_offset + 1 /\ 0 + 1 = 1
            BY <1>1
      <2> QED BY <1>3, <2>1, <2>2
<1> QED BY <1>3, <1>4 DEF ParseFunction

\* parse_export reads an export where one is ahead.
LEMMA ExportEntry ==
  ASSUME ParserTyped, ParseExport,
         NEW e \in ExportEntries,
         Len(Export(e)) < 128, e.index < 128, Ahead(base_offset + 1, Export(e))
  PROVE  /\ funcNameIndexMapper' = Update(funcNameIndexMapper, e.name, e.index)
         /\ funcIndexNameMapper' = Update(funcIndexNameMapper, e.index, e.name)
         /\ Advance(Len(Export(e)))
         /\ UNCHANGED << wasmTypeVec, funcTypeVec, wasmFunctionVec >>
<1> DEFINE bytes == Export(e)
           N == Len(e.name)
           n == Len(bytes)
           b == base_offset + 1
<1>1. base_offset \in Nat /\ b \in Nat
      BY EntryTyped DEF ParseExport
<1>2. e.name \in Seq(Bytes) /\ N \in Nat
      BY DEF ExportEntries
<1>3. /\ n = 3 + N /\ bytes[1] = N /\ bytes[3 + N] = e.index
      /\ \A j \in 1 .. N : bytes[1 + j] = e.name[j]
      BY ExportFacts
<1>4. Ahead(b, bytes)
      OBVIOUS
<1> HIDE DEF bytes, N, n, b
<1>5. Has(base_offset + 1) /\ At(base_offset + 1) = N
      <2>1. 0 < n /\ b + 0 = base_offset + 1 /\ 0 + 1 = 1
            BY <1>1, <1>2, <1>3 DEF b
      <2>2. Has(b + 0) /\ At(b + 0) = bytes[0 + 1]
            BY <1>1, <1>4, <2>1, ByteAhead DEF n
      <2> QED BY <1>3, <2>1, <2>2
<1>6. Has(base_offset + N + 3) /\ At(base_offset + N + 3) = e.index
      <2>1. 2 + N \in Nat /\ 2 + N < n /\ b + (2 + N) = base_offset + N + 3 /\ (2 + N) + 1 = 3 + N
            BY <1>1, <1>2, <1>3 DEF b
      <2>2. Has(b + (2 + N)) /\ At(b + (2 + N)) = bytes[(2 + N) + 1]
            BY <1>1, <1>4, <2>1, ByteAhead DEF n
      <2> QED BY <1>3, <2>1, <2>2
<1>7. Cut(base_offset + 2, N) = e.name
      <2> DEFINE part == e.name
      <2>1. part \in Seq(Bytes) /\ Len(part) = N
            BY <1>2 DEF N
      <2>2. 1 + N <= n /\ 1 \in Nat /\ b + 1 = base_offset + 2 /\ \A j \in 1 .. N : bytes[1 + j] = part[j]
            BY <1>1, <1>2, <1>3 DEF b
      <2> HIDE DEF part
      <2>3. Cut(b + 1, Len(part)) = part
            BY <1>1, <1>4, <2>1, <2>2, CutAhead DEF n
      <2> QED BY <2>1, <2>2, <2>3 DEF part
<1>8. /\ funcNameIndexMapper' = Update(funcNameIndexMapper, e.name, e.index)
      /\ funcIndexNameMapper' = Update(funcIndexNameMapper, e.index, e.name)
      /\ Advance(N + 3)
      /\ UNCHANGED << wasmTypeVec, funcTypeVec, wasmFunctionVec >>
      BY <1>5, <1>6, <1>7 DEF ParseExport
<1>9. N + 3 = n
      BY <1>2, <1>3
<1> QED BY <1>8, <1>9 DEF n, bytes

\* parse_code reads a body where one is ahead.
LEMMA CodeEntry ==
  ASSUME ParserTyped, ParseCode,
         NEW c \in CodeEntries,
         Len(Code(c)) < 128, \A j \in DOMAIN c.locals : c.locals[j][1] < 128,
         Ahead(base_offset + 1, Code(c))
  PROVE  /\ wasmFunctionVec' = Append(wasmFunctionVec, FunctionOf(c)) /\ Advance(Len(Code(c)))
         /\ UNCHANGED << wasmTypeVec, funcTypeVec, funcNameIndexMapper, funcIndexNameMapper >>
<1> DEFINE bytes == Code(c)
           vec == CodeVec(c)
           V == Len(vec)
           D == Len(c.locals)
           n == Len(bytes)
           b == base_offset + 1
<1>1. base_offset \in Nat /\ b \in Nat /\ file \in Files /\ pos \in Nat
      BY EntryTyped DEF ParseCode
<1>2. /\ D \in Nat /\ vec \in Seq(Nat) /\ n = 2 + V /\ bytes[1] = 1 + V /\ bytes[2] = D
      /\ \A j \in 1 .. V : bytes[2 + j] = vec[j]
      BY CodeFacts
<1>3. V \in Nat
      <2> HIDE DEF vec
      <2> QED BY <1>2
<1>4. Ahead(b, bytes)
      OBVIOUS
<1> HIDE DEF bytes, vec, V, D, n, b
<1>5. Has(base_offset + 1) /\ At(base_offset + 1) = 1 + V
      <2>1. 0 < n /\ b + 0 = base_offset + 1 /\ 0 + 1 = 1
            BY <1>1, <1>2, <1>3 DEF b
      <2>2. Has(b + 0) /\ At(b + 0) = bytes[0 + 1]
            BY <1>1, <1>4, <2>1, ByteAhead DEF n
      <2> QED BY <1>2, <2>1, <2>2
<1>6. Has(base_offset + 2) /\ At(base_offset + 2) = D
      <2>1. 1 < n /\ b + 1 = base_offset + 2 /\ 1 + 1 = 2
            BY <1>1, <1>2, <1>3 DEF b
      <2>2. Has(b + 1) /\ At(b + 1) = bytes[1 + 1]
            BY <1>1, <1>4, <2>1, ByteAhead DEF n
      <2> QED BY <1>2, <2>1, <2>2
<1>7. Cut(base_offset + 3, V) = vec
      <2>1. 2 + V <= n /\ 2 \in Nat /\ b + 2 = base_offset + 3
            BY <1>1, <1>2, <1>3 DEF b
      <2>2. Cut(b + 2, Len(vec)) = vec
            BY <1>1, <1>2, <1>4, <2>1, CutAhead DEF n, V
      <2> QED BY <2>1, <2>2 DEF V
<1>8. MayCut(base_offset + (1 + V) + 1)
      <2>1. base_offset + (1 + V) + 1 \in Nat /\ base_offset + (1 + V) + 1 <= b + n
            BY <1>1, <1>2, <1>3 DEF b
      <2> QED BY <1>1, <1>4, <2>1, CutNear DEF n
<1> DEFINE size == At(base_offset + 1)
           entry == [code_vec |-> Cut(base_offset + 3, size - 1),
                     local_var_declare_count |-> At(base_offset + 2)]
<1>9. size = 1 + V /\ size > 0 /\ size - 1 = V
      BY <1>3, <1>5
<1>10. /\ wasmFunctionVec' = Append(wasmFunctionVec, entry) /\ Advance(size + 1)
       /\ UNCHANGED << wasmTypeVec, funcTypeVec, funcNameIndexMapper, funcIndexNameMapper >>
       BY <1>6, <1>8, <1>9 DEF ParseCode
<1>11. entry = FunctionOf(c)
       BY <1>6, <1>7, <1>9 DEF FunctionOf, CodeVec, vec, D
<1>12. size + 1 = n
       BY <1>2, <1>3, <1>9
<1> QED BY <1>10, <1>11, <1>12 DEF n, bytes

-----------------------------------------------------------------------------
(***************************************************************************)
(* Tables                                                                  *)
(***************************************************************************)
LEMMA OneMore ==
  ASSUME NEW S, NEW s \in Seq(S), NEW e \in 1 .. Len(s)
  PROVE  Append(SubSeq(s, 1, e - 1), s[e]) = SubSeq(s, 1, e)
OBVIOUS

\* The entry that is read next is the next one of the section, and the handler
\* stands behind it when it is read.
LEMMA EntryBehind ==
  ASSUME ParserTyped, NEW m, MayFind(m), file.bytes = Encode(m),
         NEW k \in 0 .. Len(Sections(m)) - 1, InSection(m, k), phase \in Handler,
         AtEntry(m), todo > 0,
         Advance(Len(ItemsOf(m)[Len(ItemsOf(m)) - todo + 1]))
  PROVE  phase' = phase /\ AtEntry(m)' /\ todo' = todo - 1
<1> DEFINE items == ItemsOf(m)
           n == Len(items)
           e == n - todo + 1
           size == Len(items[e])
           start == NextEntry
<1>1. /\ e \in 1 .. n /\ n \in Nat /\ size \in Nat /\ start \in Nat
      /\ start + size = 1 + Offset(items, e)
      BY ItemAhead
<1>2. todo \in Nat /\ base_offset \in Nat
      <2>1. todo \in Bytes /\ base_offset \in Nat
            BY DEF ParserTyped, ParserTypeOK
      <2> QED BY <2>1 DEF Bytes
<1>3. phase' = phase /\ base_offset' = base_offset + size /\ todo' = todo - 1
      BY DEF Advance
<1>4. items' = items
      BY <1>3 DEF ItemsOf
<1>5. start' = start + size
      <2> HIDE DEF size
      <2> QED BY <1>1, <1>2, <1>3 DEF NextEntry
<1> HIDE DEF items, n, size, start
<1>6. n - todo' = e /\ todo' <= n
      BY <1>1, <1>2, <1>3
<1>7. n' = n
      BY <1>4 DEF n
<1>8. start' = 1 + Offset(items', n' - todo')
      BY <1>1, <1>4, <1>5, <1>6, <1>7
<1> QED BY <1>3, <1>6, <1>7, <1>8 DEF AtEntry, start, n, items

\* One step of parse_type reads the next type of m.
LEMMA TypesStep ==
  ASSUME ParserTyped, NEW m, MayFind(m), file.bytes = Encode(m),
         NEW k \in 0 .. Len(Sections(m)) - 1, InSection(m, k), AtEntry(m), TablesUpTo(m, k), ParseType
  PROVE  phase' = phase /\ AtEntry(m)' /\ TablesUpTo(m, k)'
<1> DEFINE T == m.types
           n == Len(T)
           e == n - todo + 1
<1>1. phase = "types" /\ phase \in Handler /\ todo > 0
      BY DEF ParseType, Entry, Handler
<1>2. ItemsOf(m) = TypeItems(m)
      BY <1>1 DEF ItemsOf
<1>3. /\ T \in Seq([params : Seq(ValType), results : Seq(ValType)])
      /\ n \in Nat /\ Len(ItemsOf(m)) = n
      /\ \A i \in 1 .. n : ItemsOf(m)[i] = FuncType(T[i])
      BY <1>2, ItemsFacts, WellFormedParts DEF MayFind
<1>4. e \in 1 .. n /\ Len(ItemsOf(m)[e]) < 128 /\ Ahead(base_offset, ItemsOf(m)[e])
      BY <1>1, <1>3, ItemAhead DEF NextEntry
<1>5. T[e] \in [params : Seq(ValType), results : Seq(ValType)] /\ ItemsOf(m)[e] = FuncType(T[e])
      BY <1>3, <1>4, ElementType
<1>6. /\ wasmTypeVec' = Append(wasmTypeVec, T[e]) /\ Advance(Len(ItemsOf(m)[e]))
      /\ UNCHANGED << funcTypeVec, funcNameIndexMapper, funcIndexNameMapper, wasmFunctionVec >>
      BY <1>4, <1>5, TypeEntry
<1>7. phase' = phase /\ AtEntry(m)' /\ todo' = todo - 1
      BY <1>1, <1>3, <1>6, EntryBehind
<1>8. todo \in Nat
      <2>1. todo \in Bytes
            BY DEF ParserTyped, ParserTypeOK
      <2> QED BY <2>1 DEF Bytes
<1>9. TypesRead(m, n - todo)
      BY <1>1 DEF TablesUpTo, Read
<1> HIDE DEF T, n
<1>10. n - todo = e - 1 /\ n - todo' = e
       BY <1>3, <1>7, <1>8
<1>11. wasmTypeVec' = SubSeq(T, 1, e)
       <2>1. wasmTypeVec = SubSeq(T, 1, e - 1)
             BY <1>9, <1>10 DEF TypesRead, T
       <2> QED BY <1>3, <1>4, <1>6, <2>1, OneMore DEF n
<1>12. TypesRead(m, n - todo)'
       BY <1>10, <1>11 DEF TypesRead, T, n
<1> QED BY <1>1, <1>6, <1>7, <1>12
        DEF TablesUpTo, Read, FuncsRead, ExportsRead, CodesRead, n, T

\* One step of parse_function reads the next type index of m.
LEMMA FunctionsStep ==
  ASSUME ParserTyped, NEW m, MayFind(m), file.bytes = Encode(m),
         NEW k \in 0 .. Len(Sections(m)) - 1, InSection(m, k), AtEntry(m), TablesUpTo(m, k), ParseFunction
  PROVE  phase' = phase /\ AtEntry(m)' /\ TablesUpTo(m, k)'
<1> DEFINE F == m.funcs
           n == Len(F)
           e == n - todo + 1
<1>1. phase = "functions" /\ phase \in Handler /\ todo > 0
      BY DEF ParseFunction, Entry, Handler
<1>2. ItemsOf(m) = FuncItems(m)
      BY <1>1 DEF ItemsOf
<1>3. /\ F \in Seq(0 .. Len(m.types) - 1) /\ Len(m.types) \in Nat
      /\ n \in Nat /\ Len(ItemsOf(m)) = n
      /\ \A i \in 1 .. n : ItemsOf(m)[i] = U32(F[i])
      BY <1>2, ItemsFacts, WellFormedParts DEF MayFind
<1>4. e \in 1 .. n /\ Ahead(base_offset + 1, ItemsOf(m)[e])
      BY <1>1, <1>3, ItemAhead DEF NextEntry
<1>5. Len(m.types) < 128
      <2>1. /\ TypeItems(m) \in Seq(Seq(Nat)) /\ Len(TypeItems(m)) = Len(m.types)
            /\ \A i \in 1 .. Len(TypeItems(m)) : TypeItems(m)[i] # << >>
            BY ItemsFacts DEF MayFind
      <2>2. Sections(m)[1].content = Vec(TypeItems(m)) /\ 1 \in 1 .. Len(Sections(m))
            <3>1. /\ Len(Sections(m)) \in Nat /\ Len(Sections(m)) >= 4
                  /\ Sections(m)[1] = [id |-> 1, content |-> Vec(TypeItems(m))]
                  BY SectionsFacts
            <3> QED BY <3>1
      <2>3. Len(Vec(TypeItems(m))) < 128
            BY <2>2, SectionsFacts
      <2> QED BY <2>1, <2>3, ShortVec
<1>6. F[e] \in Nat /\ F[e] < 128 /\ ItemsOf(m)[e] = U32(F[e])
      <2>1. F[e] \in 0 .. Len(m.types) - 1
            BY <1>3, <1>4, ElementType
      <2> QED BY <1>3, <1>4, <1>5, <2>1
<1>7. /\ funcTypeVec' = Append(funcTypeVec, F[e]) /\ Advance(Len(ItemsOf(m)[e]))
      /\ UNCHANGED << wasmTypeVec, funcNameIndexMapper, funcIndexNameMapper, wasmFunctionVec >>
      BY <1>4, <1>6, FunctionEntry
<1>8. phase' = phase /\ AtEntry(m)' /\ todo' = todo - 1
      BY <1>1, <1>3, <1>7, EntryBehind
<1>9. todo \in Nat
      <2>1. todo \in Bytes
            BY DEF ParserTyped, ParserTypeOK
      <2> QED BY <2>1 DEF Bytes
<1>10. FuncsRead(m, n - todo)
       BY <1>1 DEF TablesUpTo, Read
<1> HIDE DEF F, n
<1>11. n - todo = e - 1 /\ n - todo' = e
       BY <1>3, <1>8, <1>9
<1>12. funcTypeVec' = SubSeq(F, 1, e)
       <2>1. funcTypeVec = SubSeq(F, 1, e - 1)
             BY <1>10, <1>11 DEF FuncsRead, F
       <2> QED BY <1>3, <1>4, <1>7, <2>1, OneMore DEF n
<1>13. FuncsRead(m, n - todo)'
       BY <1>11, <1>12 DEF FuncsRead, F, n
<1> QED BY <1>1, <1>7, <1>8, <1>13
        DEF TablesUpTo, Read, TypesRead, ExportsRead, CodesRead, n, F

\* A table that gets the next element of another.
LEMMA TableGrows ==
  ASSUME NEW all, NEW e \in Nat \ {0}
  PROVE  Append([j \in 1 .. e - 1 |-> all[j]], all[e]) = [j \in 1 .. e |-> all[j]]
<1> DEFINE V == {all[j] : j \in 1 .. e}
           g == [j \in 1 .. e - 1 |-> all[j]]
           last == all[e]
           a == Append(g, last)
<1>1. e - 1 \in Nat /\ e \in 1 .. e /\ \A j \in 1 .. e - 1 : j \in 1 .. e
      OBVIOUS
<1>2. g \in [1 .. e - 1 -> V] /\ last \in V
      BY <1>1
<1> HIDE DEF V
<1>3. g \in Seq(V) /\ Len(g) = e - 1
      <2> HIDE DEF g
      <2> QED BY <1>1, <1>2
<1>4. \A j \in 1 .. e - 1 : g[j] = all[j]
      OBVIOUS
<1> HIDE DEF g, last
<1>5. /\ a \in Seq(V) /\ Len(a) = e /\ a[e] = last
      /\ \A j \in 1 .. e - 1 : a[j] = g[j]
      BY <1>1, <1>2, <1>3
<1> HIDE DEF a
<1>6. a = [j \in 1 .. e |-> a[j]]
      BY <1>5
<1>7. \A j \in 1 .. e : a[j] = all[j]
      BY <1>1, <1>4, <1>5 DEF last
<1>8. a = [j \in 1 .. e |-> all[j]]
      BY <1>6, <1>7
<1> QED BY <1>8 DEF a, g, last

\* One step of parse_code reads the next body of m.
LEMMA CodesStep ==
  ASSUME ParserTyped, NEW m, MayFind(m), file.bytes = Encode(m),
         NEW k \in 0 .. Len(Sections(m)) - 1, InSection(m, k), AtEntry(m), TablesUpTo(m, k), ParseCode
  PROVE  phase' = phase /\ AtEntry(m)' /\ TablesUpTo(m, k)'
<1> DEFINE C == m.codes
           n == Len(C)
           e == n - todo + 1
<1>1. phase = "codes" /\ phase \in Handler /\ todo > 0
      BY DEF ParseCode, Entry, Handler
<1>2. ItemsOf(m) = CodeItems(m)
      BY <1>1 DEF ItemsOf
<1>3. /\ C \in Seq(CodeEntries)
      /\ n \in Nat /\ Len(ItemsOf(m)) = n
      /\ \A i \in 1 .. n : ItemsOf(m)[i] = Code(C[i])
      BY <1>2, ItemsFacts, WellFormedParts DEF MayFind
<1>4. e \in 1 .. n /\ Len(ItemsOf(m)[e]) < 128 /\ Ahead(base_offset + 1, ItemsOf(m)[e])
      BY <1>1, <1>3, ItemAhead DEF NextEntry
<1>5. C[e] \in CodeEntries /\ ItemsOf(m)[e] = Code(C[e])
      BY <1>3, <1>4, ElementType
<1>6. \A j \in DOMAIN C[e].locals : C[e].locals[j][1] < 128
      <2>1. e \in DOMAIN C
            BY <1>3, <1>4
      <2> QED BY <2>1 DEF MayFind, OneByteSizes
<1>7. /\ wasmFunctionVec' = Append(wasmFunctionVec, FunctionOf(C[e])) /\ Advance(Len(ItemsOf(m)[e]))
      /\ UNCHANGED << wasmTypeVec, funcTypeVec, funcNameIndexMapper, funcIndexNameMapper >>
      BY <1>4, <1>5, <1>6, CodeEntry
<1>8. phase' = phase /\ AtEntry(m)' /\ todo' = todo - 1
      BY <1>1, <1>3, <1>7, EntryBehind
<1>9. todo \in Nat
      <2>1. todo \in Bytes
            BY DEF ParserTyped, ParserTypeOK
      <2> QED BY <2>1 DEF Bytes
<1>10. CodesRead(m, n - todo)
       BY <1>1 DEF TablesUpTo, Read
<1> HIDE DEF C, n
<1>11. n - todo = e - 1 /\ n - todo' = e
       BY <1>3, <1>8, <1>9
<1>12. wasmFunctionVec' = [j \in 1 .. e |-> FunctionOf(C[j])]
       <2> DEFINE f == [j \in 1 .. e |-> FunctionOf(C[j])]
                  g == [j \in 1 .. e - 1 |-> FunctionOf(C[j])]
       <2>1. wasmFunctionVec = g
             BY <1>10, <1>11 DEF CodesRead, C
       <2>2. Append(g, FunctionOf(C[e])) = f
             <3> DEFINE all == [j \in 1 .. n |-> FunctionOf(C[j])]
             <3>1. e \in Nat \ {0} /\ \A j \in 1 .. e : j \in 1 .. n
                   BY <1>3, <1>4
             <3>2. e \in 1 .. e /\ \A j \in 1 .. e - 1 : j \in 1 .. e
                   BY <3>1
             <3>3. all[e] = FunctionOf(C[e]) /\ g = [j \in 1 .. e - 1 |-> all[j]] /\ f = [j \in 1 .. e |-> all[j]]
                   BY <3>1, <3>2
             <3> HIDE DEF all, f, g
             <3> QED BY <3>1, <3>3, TableGrows
       <2> QED BY <1>7, <2>1, <2>2
<1>13. CodesRead(m, n - todo)'
       BY <1>11, <1>12 DEF CodesRead, C, n
<1> QED BY <1>1, <1>7, <1>8, <1>13
        DEF TablesUpTo, Read, TypesRead, FuncsRead, ExportsRead, n, C

\* The two maps take one more export.
LEMMA ExportsGrow ==
  ASSUME NEW m, WellFormed(m), NEW e \in 1 .. Len(m.exports), ExportsRead(m, e - 1),
         funcNameIndexMapper' = Update(funcNameIndexMapper, m.exports[e].name, m.exports[e].index),
         funcIndexNameMapper' = Update(funcIndexNameMapper, m.exports[e].index, m.exports[e].name)
  PROVE  ExportsRead(m, e)'
<1> DEFINE X == m.exports
           n == Len(X)
           index == funcNameIndexMapper
           name == funcIndexNameMapper
<1>1. /\ X \in Seq(ExportEntries) /\ n \in Nat
      /\ \A j, k \in 1 .. n : X[j].name = X[k].name => j = k
      <2>1. /\ X \in Seq(ExportEntries)
            /\ \A j, k \in DOMAIN X : X[j].name = X[k].name => j = k
            BY WellFormedParts
      <2> HIDE DEF X
      <2>2. DOMAIN X = 1 .. n /\ n \in Nat
            BY <2>1
      <2> QED BY <2>1, <2>2
<1>2. e \in 1 .. n
      OBVIOUS
<1>3. /\ DOMAIN index = {X[k].name : k \in 1 .. e - 1}
      /\ \A k \in 1 .. e - 1 :
           /\ index[X[k].name] = X[k].index /\ X[k].index \in DOMAIN name
           /\ \E j \in 1 .. e - 1 : X[j].index = X[k].index /\ name[X[k].index] = X[j].name
      BY DEF ExportsRead
<1>4. /\ DOMAIN index' = DOMAIN index \cup {X[e].name}
      /\ DOMAIN name' = DOMAIN name \cup {X[e].index}
      /\ index' = [k \in DOMAIN index \cup {X[e].name} |-> IF k = X[e].name THEN X[e].index ELSE index[k]]
      /\ name' = [k \in DOMAIN name \cup {X[e].index} |-> IF k = X[e].index THEN X[e].name ELSE name[k]]
      BY DEF Update
<1> HIDE DEF X, n, index, name
<1>5. \A k \in 1 .. e : k \in 1 .. e - 1 \/ k = e
      BY <1>1, <1>2
<1>6. \A k \in 1 .. e - 1 : k \in 1 .. e /\ k # e /\ k \in 1 .. n
      BY <1>1, <1>2
<1>7. e \in 1 .. e
      BY <1>1, <1>2
<1>8. DOMAIN index' = {X[k].name : k \in 1 .. e}
      <2>1. \A y : y \in DOMAIN index' <=> \E k \in 1 .. e : y = X[k].name
            BY <1>3, <1>4, <1>5, <1>6, <1>7
      <2> QED BY <2>1
<1>9. ASSUME NEW k \in 1 .. e
      PROVE  /\ index'[X[k].name] = X[k].index /\ X[k].index \in DOMAIN name'
             /\ \E j \in 1 .. e : X[j].index = X[k].index /\ name'[X[k].index] = X[j].name
      <2>1. CASE k = e
            <3>1. index'[X[k].name] = X[k].index /\ X[k].index \in DOMAIN name'
                  BY <1>4, <2>1
            <3>2. name'[X[k].index] = X[k].name
                  BY <1>4, <2>1
            <3> QED BY <3>1, <3>2
      <2>2. CASE k \in 1 .. e - 1
            <3>1. X[k].name # X[e].name
                  BY <1>1, <1>2, <1>6, <2>2
            <3>2. X[k].name \in DOMAIN index /\ index[X[k].name] = X[k].index /\ X[k].index \in DOMAIN name
                  BY <1>3, <2>2
            <3>3. index'[X[k].name] = X[k].index /\ X[k].index \in DOMAIN name'
                  BY <1>4, <3>1, <3>2
            <3>4. PICK j \in 1 .. e - 1 : X[j].index = X[k].index /\ name[X[k].index] = X[j].name
                  BY <1>3, <2>2
            <3>5. CASE X[k].index = X[e].index
                  <4>1. name'[X[k].index] = X[e].name
                        BY <1>4, <3>5
                  <4> QED BY <1>7, <3>3, <3>5, <4>1
            <3>6. CASE X[k].index # X[e].index
                  <4>1. name'[X[k].index] = X[j].name
                        BY <1>4, <3>2, <3>4, <3>6
                  <4>2. j \in 1 .. e
                        BY <1>6
                  <4> QED BY <3>3, <3>4, <4>1, <4>2
            <3> QED BY <3>5, <3>6
      <2> QED BY <1>5, <2>1, <2>2
<1> QED BY <1>8, <1>9 DEF ExportsRead, X, index, name

\* One step of parse_export reads the next export of m.
LEMMA ExportsStep ==
  ASSUME ParserTyped, NEW m, MayFind(m), file.bytes = Encode(m),
         NEW k \in 0 .. Len(Sections(m)) - 1, InSection(m, k), AtEntry(m), TablesUpTo(m, k), ParseExport
  PROVE  phase' = phase /\ AtEntry(m)' /\ TablesUpTo(m, k)'
<1> DEFINE X == m.exports
           n == Len(X)
<1>1. phase = "exports" /\ phase \in Handler /\ todo > 0
      BY DEF ParseExport, Entry, Handler
<1>2. ItemsOf(m) = ExportItems(m)
      BY <1>1 DEF ItemsOf
<1>3. /\ X \in Seq(ExportEntries)
      /\ n \in Nat /\ Len(ItemsOf(m)) = n
      /\ \A i \in 1 .. n : ItemsOf(m)[i] = Export(X[i])
      BY <1>2, ItemsFacts, WellFormedParts DEF MayFind
<1>4. PICK e \in 1 .. n : e = n - todo + 1
      BY <1>1, <1>3, ItemAhead
<1> HIDE DEF n
<1>5. Len(ItemsOf(m)[e]) < 128 /\ Ahead(base_offset + 1, ItemsOf(m)[e])
      <2>1. NextEntry = base_offset + 1
            BY <1>1 DEF NextEntry
      <2> QED BY <1>1, <1>3, <1>4, <2>1, ItemAhead
<1>6. /\ X[e] \in ExportEntries
      /\ ItemsOf(m)[e] = Export(X[e])
      BY <1>3, <1>4, ElementType DEF n
<1>7. X[e].index < 128
      <2>1. e \in DOMAIN X
            BY <1>3, <1>4 DEF n
      <2> QED BY <2>1 DEF MayFind, OneByteSizes
<1>8. /\ funcNameIndexMapper' = Update(funcNameIndexMapper, X[e].name, X[e].index)
      /\ funcIndexNameMapper' = Update(funcIndexNameMapper, X[e].index, X[e].name)
      /\ Advance(Len(ItemsOf(m)[e]))
      /\ UNCHANGED << wasmTypeVec, funcTypeVec, wasmFunctionVec >>
      BY <1>6, <1>7, <1>5, ExportEntry
<1>9. phase' = phase /\ AtEntry(m)' /\ todo' = todo - 1
      BY <1>1, <1>3, <1>4, <1>8, EntryBehind
<1>10. todo \in Nat
      <2>1. todo \in Bytes
            BY DEF ParserTyped, ParserTypeOK
      <2> QED BY <2>1 DEF Bytes
<1>11. ExportsRead(m, n - todo)
       BY <1>1 DEF TablesUpTo, Read, n, X
<1> HIDE DEF X, n
<1>12. n - todo = e - 1 /\ n - todo' = e
       BY <1>3, <1>4, <1>9, <1>10
<1>13. ExportsRead(m, e)'
       <2>1. WellFormed(m) /\ ExportsRead(m, e - 1) /\ e \in 1 .. Len(m.exports)
             BY <1>4, <1>11, <1>12 DEF MayFind, n, X
       <2> QED BY <1>8, <2>1, ExportsGrow DEF X
<1>14. ExportsRead(m, n - todo)'
       <2>1. (n - todo)' = e
             BY <1>12 DEF X, n
       <2> QED BY <1>13, <2>1 DEF ExportsRead
<1> QED BY <1>1, <1>8, <1>9, <1>14
        DEF TablesUpTo, Read, TypesRead, FuncsRead, CodesRead, n, X

-----------------------------------------------------------------------------
(***************************************************************************)
(* A file that holds a module                                              *)
(***************************************************************************)
FollowsAt(m, k) == AtSection(m, k) /\ TablesUpTo(m, k) /\ AtEntry(m)

\* Which counts the parser has read, entering and leaving a section.
LEMMA BeginTables ==
  ASSUME NEW m, MayFind(m), NEW k \in 0 .. Len(Sections(m)) - 1, TablesUpTo(m, k),
         phase = "section", phase' = PhaseOf(Sections(m)[k + 1].id), UNCHANGED tables,
         phase' = "types" => todo' = Len(m.types), phase' = "functions" => todo' = Len(m.funcs),
         phase' = "exports" => todo' = Len(m.exports), phase' = "codes" => todo' = Len(m.codes)
  PROVE  TablesUpTo(m, k)'
<1> DEFINE L == Len(Sections(m))
<1>1. /\ Len(m.types) \in Nat /\ Len(m.funcs) \in Nat
      /\ Len(m.exports) \in Nat /\ Len(m.codes) \in Nat
      BY ItemsFacts DEF MayFind
<1>2. L \in Nat /\ L >= 4
      BY SectionsFacts
<1>3. /\ phase' = "types" <=> k = 0
      /\ phase' = "functions" <=> k = 1
      /\ phase' = "exports" <=> k = L - 2
      /\ phase' = "codes" <=> k = L - 1
      BY PhaseFacts
<1>4. k \in 0 .. L - 1
      OBVIOUS
<1> HIDE DEF L
<1>5. Read("types", k >= 1, Len(m.types))' = Read("types", k >= 1, Len(m.types))
      <2>1. phase' = "types" => ~(k >= 1)
            BY <1>2, <1>3
      <2> QED BY <1>1, <2>1 DEF Read
<1>6. Read("functions", k >= 2, Len(m.funcs))' = Read("functions", k >= 2, Len(m.funcs))
      <2>1. phase' = "functions" => ~(k >= 2)
            BY <1>2, <1>3
      <2> QED BY <1>1, <2>1 DEF Read
<1>7. Read("exports", k >= L - 1, Len(m.exports))' = Read("exports", k >= L - 1, Len(m.exports))
      <2>1. phase' = "exports" => ~(k >= L - 1)
            BY <1>2, <1>3
      <2> QED BY <1>1, <2>1 DEF Read
<1>8. Read("codes", k >= L, Len(m.codes))' = Read("codes", k >= L, Len(m.codes))
      <2>1. phase' = "codes" => ~(k >= L)
            BY <1>2, <1>3
      <2> QED BY <1>1, <2>1 DEF Read
<1> QED BY <1>5, <1>6, <1>7, <1>8
        DEF TablesUpTo, TypesRead, FuncsRead, ExportsRead, CodesRead, tables, L

\* With its last entry read a section counts as one of those behind.
LEMMA EndTables ==
  ASSUME NEW m, MayFind(m), NEW k \in 0 .. Len(Sections(m)) - 1, TablesUpTo(m, k),
         phase = PhaseOf(Sections(m)[k + 1].id), phase' = "section", UNCHANGED tables, todo = 0
  PROVE  TablesUpTo(m, k + 1)'
<1> DEFINE L == Len(Sections(m))
<1>1. /\ Len(m.types) \in Nat /\ Len(m.funcs) \in Nat
      /\ Len(m.exports) \in Nat /\ Len(m.codes) \in Nat
      BY ItemsFacts DEF MayFind
<1>2. L \in Nat /\ L >= 4
      BY SectionsFacts
<1>3. /\ phase = "types" <=> k = 0
      /\ phase = "functions" <=> k = 1
      /\ phase = "exports" <=> k = L - 2
      /\ phase = "codes" <=> k = L - 1
      BY PhaseFacts
<1>4. k \in 0 .. L - 1
      OBVIOUS
<1> HIDE DEF L
<1>5. Read("types", k + 1 >= 1, Len(m.types))' = Read("types", k >= 1, Len(m.types))
      <2>1. phase # "types" => (k >= 1 /\ k + 1 >= 1)
            BY <1>2, <1>3, <1>4
      <2>2. k + 1 >= 1
            BY <1>2, <1>4
      <2> QED BY <1>1, <2>1, <2>2 DEF Read
<1>6. Read("functions", k + 1 >= 2, Len(m.funcs))' = Read("functions", k >= 2, Len(m.funcs))
      <2>1. phase # "functions" => (k >= 2 <=> k + 1 >= 2)
            BY <1>2, <1>3, <1>4
      <2>2. phase = "functions" => k + 1 >= 2
            BY <1>2, <1>3
      <2> QED BY <1>1, <2>1, <2>2 DEF Read
<1>7. Read("exports", k + 1 >= L - 1, Len(m.exports))' = Read("exports", k >= L - 1, Len(m.exports))
      <2>1. phase # "exports" => (k >= L - 1 <=> k + 1 >= L - 1)
            BY <1>2, <1>3, <1>4
      <2>2. phase = "exports" => k + 1 >= L - 1
            BY <1>2, <1>3
      <2> QED BY <1>1, <2>1, <2>2 DEF Read
<1>8. Read("codes", k + 1 >= L, Len(m.codes))' = Read("codes", k >= L, Len(m.codes))
      <2>1. phase # "codes" => (k >= L <=> k + 1 >= L)
            BY <1>2, <1>3, <1>4
      <2>2. phase = "codes" => k + 1 >= L
            BY <1>2, <1>3
      <2> QED BY <1>1, <2>1, <2>2 DEF Read
<1> QED BY <1>5, <1>6, <1>7, <1>8
        DEF TablesUpTo, TypesRead, FuncsRead, ExportsRead, CodesRead, tables, L

\* A sequence is its own beginning of full length.
LEMMA WholeSequence ==
  ASSUME NEW S, NEW s \in Seq(S)
  PROVE  DOMAIN s = 1 .. Len(s) /\ SubSeq(s, 1, Len(s)) = s
OBVIOUS

\* The tables when every section is read.
LEMMA AllTables ==
  ASSUME NEW m, MayFind(m), phase = "section", TablesUpTo(m, Len(Sections(m))), UNCHANGED tables
  PROVE  HoldsModule(m)'
<1> DEFINE L == Len(Sections(m))
           T == m.types
           F == m.funcs
           X == m.exports
           C == m.codes
<1>1. /\ T \in Seq([params : Seq(ValType), results : Seq(ValType)])
      /\ F \in Seq(0 .. Len(T) - 1)
      /\ X \in Seq(ExportEntries)
      /\ C \in Seq(CodeEntries)
      BY WellFormedParts DEF MayFind
<1>2. L \in Nat /\ L >= 4
      BY SectionsFacts
<1>3. /\ TypesRead(m, Len(T)) /\ FuncsRead(m, Len(F)) /\ ExportsRead(m, Len(X)) /\ CodesRead(m, Len(C))
      <2>1. L >= 1 /\ L >= 2 /\ L >= L - 1 /\ L >= L
            <3> HIDE DEF L
            <3> QED BY <1>2
      <2> QED BY <2>1 DEF TablesUpTo, Read
<1> HIDE DEF T, F, X, C
<1>4. DOMAIN X = 1 .. Len(X) /\ DOMAIN C = 1 .. Len(C)
      BY <1>1, WholeSequence
<1>5. SubSeq(T, 1, Len(T)) = T /\ SubSeq(F, 1, Len(F)) = F
      BY <1>1, WholeSequence
<1>6. wasmTypeVec' = T /\ funcTypeVec' = F
      BY <1>3, <1>5 DEF TypesRead, FuncsRead, tables, T, F
<1>7. wasmFunctionVec' = [j \in DOMAIN C |-> FunctionOf(C[j])]
      BY <1>3, <1>4 DEF CodesRead, tables, C
<1>8. /\ DOMAIN funcNameIndexMapper = {X[j].name : j \in DOMAIN X}
      /\ \A j \in DOMAIN X :
           /\ funcNameIndexMapper[X[j].name] = X[j].index
           /\ \E i \in DOMAIN X : X[i].index = X[j].index /\ funcIndexNameMapper[X[j].index] = X[i].name
      BY <1>3, <1>4 DEF ExportsRead, X
<1>9. funcNameIndexMapper' = funcNameIndexMapper /\ funcIndexNameMapper' = funcIndexNameMapper
      BY DEF tables
<1> QED BY <1>6, <1>7, <1>8, <1>9 DEF HoldsModule, T, F, X, C

\* The first step finds the magic number and starts at the first section.
LEMMA FollowsCheck ==
  ASSUME ParserTyped, NEW m, MayFind(m), file.bytes = Encode(m), FollowsModule(m), InitialCheck
  PROVE  FollowsModule(m)'
<1> DEFINE bytes == Encode(m)
           L == Len(Sections(m))
<1>1. phase = "check" /\ pos = 0 /\ TablesUpTo(m, 0)
      BY DEF InitialCheck, FollowsModule
<1>2. /\ bytes \in Seq(Nat) /\ SectionEnd(m, 0) = 8 /\ 8 <= Len(bytes)
      /\ \A i \in 1 .. 8 : bytes[i] = Header[i]
      <2>1. 0 \in 0 .. L
            BY SectionsFacts
      <2> QED BY <2>1, BytesFacts
<1>3. Remaining = Len(bytes) /\ Len(bytes) \in Nat
      BY <1>1, <1>2 DEF Remaining
<1>4. SubSeq(bytes, 1, 4) = Magic
      <2> DEFINE four == SubSeq(bytes, 1, 4)
      <2>1. bytes[1] = 0 /\ bytes[2] = 97 /\ bytes[3] = 115 /\ bytes[4] = 109
            BY <1>2 DEF Header
      <2> HIDE DEF bytes
      <2>2. /\ four \in Seq(Nat) /\ Len(four) = 4
            /\ four[1] = bytes[1] /\ four[2] = bytes[2] /\ four[3] = bytes[3] /\ four[4] = bytes[4]
            BY <1>2, <1>3
      <2> HIDE DEF four
      <2>3. four = << four[1], four[2], four[3], four[4] >>
            BY <2>2
      <2>4. four = << 0, 97, 115, 109 >>
            BY <2>1, <2>2, <2>3
      <2> QED BY <2>4 DEF Magic, four
<1>5. IsWasm /\ Remaining >= 8
      BY <1>2, <1>3, <1>4 DEF IsWasm
<1>6. pos' = 8 /\ phase' = "section" /\ todo' = todo /\ UNCHANGED tables
      BY <1>1, <1>5 DEF InitialCheck
<1>7. AtSection(m, 0)'
      BY <1>2, <1>6 DEF AtSection, BetweenSections
<1>8. TablesUpTo(m, 0)'
      BY <1>1, <1>6 DEF TablesUpTo, Read, TypesRead, FuncsRead, ExportsRead, CodesRead, tables
<1>9. AtEntry(m)'
      BY <1>6 DEF AtEntry, Handler
<1>10. 0 \in 0 .. L
       BY SectionsFacts
<1> QED BY <1>6, <1>7, <1>8, <1>9, <1>10 DEF FollowsModule, Parsing

\* The crop in front of a section keeps to m, and the handler begins at the
\* first entry.
LEMMA FollowsBegin ==
  ASSUME ParserTyped, NEW m, MayFind(m), file.bytes = Encode(m),
         NEW k \in 0 .. Len(Sections(m)), BetweenSections(m, k), TablesUpTo(m, k), BeginSection
  PROVE  phase' \in Parsing /\ AtSection(m, k)' /\ TablesUpTo(m, k)' /\ AtEntry(m)'
<1> DEFINE bytes == Encode(m)
           L == Len(Sections(m))
           content == Sections(m)[k + 1].content
           id == Sections(m)[k + 1].id
           n == Len(content)
           base == SectionEnd(m, k)
           handled == At(0) \in DOMAIN HandlerOf
<1>1. Begins(m)
      <2>1. bytes \in Seq(Nat)
            BY BytesFacts
      <2>2. bytes = SubSeq(bytes, 1, Len(bytes)) /\ Len(bytes) \in Nat
            <3> HIDE DEF bytes
            <3> QED BY <2>1
      <2> QED BY <2>2 DEF Begins, BeginningOf
<1>2. k \in 0 .. L - 1 /\ At(0) = id
      BY <1>1, BeginStep
<1>3. /\ content \in Seq(Nat) /\ n \in Nat /\ base \in Nat /\ base + 2 + n <= Len(bytes)
      /\ \A j \in 1 .. n : bytes[base + 2 + j] = content[j]
      <2>1. /\ content \in Seq(Nat) /\ n \in Nat /\ SectionEnd(m, k + 1) = base + 2 + n
            /\ \A j \in 1 .. n : bytes[base + 2 + j] = content[j]
            BY <1>2, BytesFacts
      <2>2. k \in 0 .. L /\ k + 1 \in 0 .. L
            BY <1>2, SectionsFacts
      <2>3. base \in Nat /\ SectionEnd(m, k + 1) <= Len(bytes)
            BY <2>2, BytesFacts
      <2> QED BY <2>1, <2>3
<1>4. pos = base /\ Len(file.bytes) = Len(bytes) /\ Len(bytes) \in Nat
      <2>1. Len(file.bytes) \in Nat
            BY FilesAssumption DEF ParserTyped
      <2> QED BY <2>1 DEF BetweenSections
<1>5. handled => PhaseOf(id) \in Handler /\ PhaseOf(id) = HandlerOf[id]
      BY <1>2, PhaseFacts DEF PhaseOf
<1>6. ASSUME handled
      PROVE  /\ n >= 1 /\ n < 128
             /\ PhaseOf(id) = "types" => content[1] = Len(TypeItems(m))
             /\ PhaseOf(id) = "functions" => content[1] = Len(FuncItems(m))
             /\ PhaseOf(id) = "exports" => content[1] = Len(ExportItems(m))
             /\ PhaseOf(id) = "codes" => content[1] = Len(CodeItems(m))
      <2>1. n < 128
            <3>1. k + 1 \in 1 .. L
                  BY <1>2, SectionsFacts
            <3> QED BY <3>1, SectionsFacts
      <2>2. PICK items \in Seq(Seq(Nat)) :
              /\ content = Vec(items) /\ \A i \in 1 .. Len(items) : items[i] # << >>
              /\ PhaseOf(id) = "types" => items = TypeItems(m)
              /\ PhaseOf(id) = "functions" => items = FuncItems(m)
              /\ PhaseOf(id) = "exports" => items = ExportItems(m)
              /\ PhaseOf(id) = "codes" => items = CodeItems(m)
            BY <1>2, <1>5, <1>6, SectionItems
      <2>3. n = 1 + Offset(items, Len(items)) /\ content[1] = Len(items)
            BY <2>1, <2>2, ShortVec
      <2>4. Offset(items, Len(items)) \in Nat
            <3>1. Len(items) \in 0 .. Len(items)
                  OBVIOUS
            <3> QED BY <3>1, OffsetFacts
      <2>5. n >= 1
            <3> HIDE DEF n
            <3> QED BY <2>3, <2>4
      <2> QED BY <2>1, <2>2, <2>3, <2>5
<1> HIDE DEF content, n, base, bytes, handled, id, L
<1>7. Has(1)
      BY <1>3, <1>4 DEF Has, Remaining
<1>8. ASSUME handled PROVE Has(2) /\ At(2) = content[1]
      <2>1. Has(2)
            BY <1>3, <1>4, <1>6, <1>8 DEF Has, Remaining
      <2>2. At(2) = bytes[pos + 2 + 1]
            BY DEF At, bytes
      <2>3. pos + 2 + 1 = base + 2 + 1 /\ 1 \in 1 .. n
            BY <1>3, <1>4, <1>6, <1>8
      <2> QED BY <1>3, <2>1, <2>2, <2>3
<1>9. /\ phase' = IF handled THEN HandlerOf[At(0)] ELSE "skipping"
      /\ todo' = IF handled THEN At(2) ELSE 0
      /\ base_offset' = IF At(0) = 1 THEN 1 ELSE 0
      /\ UNCHANGED tables
      BY <1>7, <1>8 DEF BeginSection, handled
<1>10. phase' = PhaseOf(id)
       BY <1>2, <1>9 DEF PhaseOf, handled
<1>11. phase' \in Handler \cup {"skipping"}
       BY <1>2, <1>10, PhaseFacts DEF id, L
<1>12. InSection(m, k)'
       <2>1. phase' # "aborted"
             BY <1>11 DEF Handler
       <2> QED BY <1>1, <2>1, BeginStep
<1>13. phase' \in Handler => handled
       BY <1>9 DEF Handler
<1>14. /\ phase' = "types" => todo' = Len(TypeItems(m))
       /\ phase' = "functions" => todo' = Len(FuncItems(m))
       /\ phase' = "exports" => todo' = Len(ExportItems(m))
       /\ phase' = "codes" => todo' = Len(CodeItems(m))
       <2>1. phase' \in Handler => todo' = content[1]
             BY <1>8, <1>9, <1>13
       <2> QED BY <1>6, <1>10, <1>13, <2>1 DEF Handler
<1>15. TablesUpTo(m, k)'
       <2>1. /\ Len(TypeItems(m)) = Len(m.types) /\ Len(FuncItems(m)) = Len(m.funcs)
             /\ Len(ExportItems(m)) = Len(m.exports) /\ Len(CodeItems(m)) = Len(m.codes)
             BY ItemsFacts DEF MayFind
       <2>2. phase = "section"
             BY DEF BetweenSections
       <2> QED BY <1>2, <1>9, <1>10, <1>14, <2>1, <2>2, BeginTables DEF id, L
<1>16. AtEntry(m)'
       <2>1. SUFFICES ASSUME phase' \in Handler
             PROVE  todo' = Len(ItemsOf(m)') /\ NextEntry' = 1 /\ Len(ItemsOf(m)') \in Nat
                    /\ Offset(ItemsOf(m)', 0) = 0
             BY DEF AtEntry
       <2>2. todo' = Len(ItemsOf(m)')
             BY <1>14, <2>1 DEF ItemsOf, Handler
       <2>3. NextEntry' = 1
             <3>1. phase' = "types" <=> At(0) = 1
                   BY <1>2, <1>10, PhaseFacts DEF id, L
             <3> QED BY <1>9, <3>1 DEF NextEntry
       <2>4. ItemsOf(m)' \in Seq(Seq(Nat))
             <3>1. /\ TypeItems(m) \in Seq(Seq(Nat)) /\ FuncItems(m) \in Seq(Seq(Nat))
                   /\ ExportItems(m) \in Seq(Seq(Nat)) /\ CodeItems(m) \in Seq(Seq(Nat))
                   BY ItemsFacts DEF MayFind
             <3> QED BY <2>1, <3>1 DEF ItemsOf, Handler
       <2>5. Len(ItemsOf(m)') \in Nat /\ Offset(ItemsOf(m)', 0) = 0
             BY <2>4, OffsetFacts
       <2> QED BY <2>2, <2>3, <2>5
<1> QED BY <1>11, <1>12, <1>15, <1>16 DEF AtSection, Parsing

\* Where the parser is in a file that holds m.
LEMMA FollowsWhere ==
  ASSUME NEW m, MayFind(m), FollowsModule(m), phase \in Parsing
  PROVE  \E k \in 0 .. Len(Sections(m)) :
           /\ TablesUpTo(m, k) /\ AtEntry(m)
           /\ phase = "section" => BetweenSections(m, k)
           /\ phase # "section" => InSection(m, k) /\ k \in 0 .. Len(Sections(m)) - 1
                                   /\ phase = PhaseOf(Sections(m)[k + 1].id)
<1>1. PICK k \in 0 .. Len(Sections(m)) : AtSection(m, k) /\ TablesUpTo(m, k) /\ AtEntry(m)
      BY DEF FollowsModule
<1>2. /\ phase = "section" => BetweenSections(m, k)
      /\ phase # "section" => InSection(m, k) /\ k \in 0 .. Len(Sections(m)) - 1
      BY <1>1, AtSectionPhase
<1> QED BY <1>1, <1>2 DEF InSection

\* The crop behind a section keeps to m.
LEMMA FollowsEnd ==
  ASSUME ParserTyped, NEW m, MayFind(m), file.bytes = Encode(m),
         NEW k \in 0 .. Len(Sections(m)) - 1, InSection(m, k), TablesUpTo(m, k), EndSection
  PROVE  /\ phase' = "section" /\ k + 1 \in 0 .. Len(Sections(m))
         /\ AtSection(m, k + 1)' /\ TablesUpTo(m, k + 1)' /\ AtEntry(m)'
<1> DEFINE n == Len(Sections(m)[k + 1].content)
           base == SectionEnd(m, k)
           all == Len(Encode(m))
<1>1. n \in Nat /\ base \in Nat /\ base + 2 + n <= all /\ all \in Nat
      <2>1. n \in Nat /\ SectionEnd(m, k + 1) = base + 2 + n
            BY BytesFacts
      <2>2. k \in 0 .. Len(Sections(m)) /\ k + 1 \in 0 .. Len(Sections(m))
            BY SectionsFacts
      <2>3. base \in Nat /\ SectionEnd(m, k + 1) <= all
            BY <2>2, BytesFacts
      <2>4. all \in Nat
            BY FilesAssumption DEF ParserTyped
      <2> QED BY <2>1, <2>3, <2>4
<1>2. pos = base + 2 /\ length = n /\ Len(file.bytes) = all
      BY DEF InSection
<1> HIDE DEF n, base, all
<1>3. MayCut(length)
      BY <1>1, <1>2 DEF MayCut, Remaining
<1>4. phase' = "section" /\ todo = 0 /\ UNCHANGED tables
      BY <1>3 DEF EndSection, tables
<1>5. k + 1 \in 0 .. Len(Sections(m)) /\ AtSection(m, k + 1)'
      BY <1>4, EndStep DEF AtSection
<1>6. TablesUpTo(m, k + 1)'
      BY <1>4, EndTables DEF InSection
<1>7. AtEntry(m)'
      BY <1>4 DEF AtEntry, Handler
<1> QED BY <1>4, <1>5, <1>6, <1>7

\* Nothing is left behind the last section.
LEMMA FollowsFinish ==
  ASSUME ParserTyped, NEW m, MayFind(m), file.bytes = Encode(m),
         NEW k \in 0 .. Len(Sections(m)), BetweenSections(m, k), TablesUpTo(m, k), Finish
  PROVE  phase' = "done" /\ HoldsModule(m)'
<1> DEFINE all == Len(Encode(m))
           L == Len(Sections(m))
<1>1. phase = "section" /\ ~Has(0) /\ phase' = "done" /\ UNCHANGED tables
      BY DEF Finish, ParserStops, tables
<1>2. pos \in 0 .. all /\ all \in Nat /\ pos = SectionEnd(m, k)
      <2>1. pos \in 0 .. all
            BY DEF ParserTyped, ParserTypeOK
      <2>2. all \in Nat
            BY FilesAssumption DEF ParserTyped
      <2> QED BY <2>1, <2>2 DEF BetweenSections
<1>3. pos = all
      BY <1>1, <1>2 DEF Has, Remaining
<1>4. k = L
      <2>1. SUFFICES ASSUME k # L PROVE FALSE
            OBVIOUS
      <2>2. k \in 0 .. L - 1 /\ k + 1 \in 0 .. L
            BY <2>1, SectionsFacts
      <2> DEFINE n == Len(Sections(m)[k + 1].content)
      <2>3. n \in Nat /\ SectionEnd(m, k + 1) = SectionEnd(m, k) + 2 + n
            BY <2>2, BytesFacts
      <2>4. SectionEnd(m, k + 1) <= all
            BY <2>2, BytesFacts
      <2> HIDE DEF n, all
      <2> QED BY <1>2, <1>3, <2>3, <2>4
<1> QED BY <1>1, <1>4, AllTables

\* A step of any handler keeps to m.
LEMMA FollowsEntry ==
  ASSUME ParserTyped, NEW m, MayFind(m), file.bytes = Encode(m),
         NEW k \in 0 .. Len(Sections(m)) - 1, InSection(m, k), AtEntry(m), TablesUpTo(m, k),
         ParseType \/ ParseFunction \/ ParseExport \/ ParseCode
  PROVE  phase' = phase /\ AtSection(m, k)' /\ TablesUpTo(m, k)' /\ AtEntry(m)'
<1>1. phase' = phase /\ AtEntry(m)' /\ TablesUpTo(m, k)'
      BY TypesStep, FunctionsStep, ExportsStep, CodesStep
<1>2. pos' = pos /\ length' = length
      BY EntryStays DEF Stays
<1> QED BY <1>1, <1>2, AtSectionStays DEF AtSection

\* On the bytes of m every step keeps to m.
LEMMA FollowsStep ==
  ASSUME ParserTyped, [ParserNext]_parserVars, NEW m, MayFind(m), file.bytes = Encode(m),
         FollowsModule(m)
  PROVE  FollowsModule(m)'
<1> DEFINE L == Len(Sections(m))
<1>1. CASE InitialCheck
      BY <1>1, FollowsCheck
<1>2. CASE BeginSection
      <2>1. phase = "section" /\ phase \in Parsing
            BY <1>2 DEF BeginSection, Parsing
      <2>2. PICK k \in 0 .. L : TablesUpTo(m, k) /\ AtEntry(m) /\ BetweenSections(m, k)
            BY <2>1, FollowsWhere
      <2>3. phase' \in Parsing /\ AtSection(m, k)' /\ TablesUpTo(m, k)' /\ AtEntry(m)'
            BY <1>2, <2>2, FollowsBegin
      <2> QED BY <2>3 DEF FollowsModule, Parsing, Handler
<1>3. CASE EndSection
      <2>1. phase # "section" /\ phase \in Parsing
            BY <1>3 DEF EndSection, Parsing, Handler
      <2>2. PICK k \in 0 .. L - 1 : TablesUpTo(m, k) /\ InSection(m, k)
            BY <2>1, FollowsWhere
      <2>3. /\ phase' = "section" /\ k + 1 \in 0 .. L
            /\ AtSection(m, k + 1)' /\ TablesUpTo(m, k + 1)' /\ AtEntry(m)'
            BY <1>3, <2>2, FollowsEnd
      <2> QED BY <2>3 DEF FollowsModule, Parsing, Handler
<1>4. CASE Finish
      <2>1. phase = "section" /\ phase \in Parsing
            BY <1>4 DEF Finish, Parsing
      <2>2. PICK k \in 0 .. L : TablesUpTo(m, k) /\ BetweenSections(m, k)
            BY <2>1, FollowsWhere
      <2>3. phase' = "done" /\ HoldsModule(m)'
            BY <1>4, <2>2, FollowsFinish
      <2> QED BY <2>3 DEF FollowsModule, Parsing, Handler
<1>5. CASE ParseType \/ ParseFunction \/ ParseExport \/ ParseCode
      <2>1. phase \in Handler /\ phase \in Parsing /\ phase # "section" /\ phase \notin {"check", "done"}
            BY <1>5, EntryStays DEF Parsing, Handler
      <2>2. PICK k \in 0 .. L - 1 : TablesUpTo(m, k) /\ AtEntry(m) /\ InSection(m, k)
            BY <2>1, FollowsWhere
      <2>3. phase' = phase /\ AtSection(m, k)' /\ TablesUpTo(m, k)' /\ AtEntry(m)'
            BY <1>5, <2>2, FollowsEntry
      <2>4. k \in 0 .. L
            BY SectionsFacts
      <2> QED BY <2>1, <2>3, <2>4 DEF FollowsModule
<1>6. CASE UNCHANGED parserVars
      <2>1. /\ file' = file /\ phase' = phase /\ pos' = pos /\ length' = length
            /\ base_offset' = base_offset /\ todo' = todo /\ UNCHANGED tables
            BY <1>6 DEF parserVars
      <2>2. ASSUME NEW k, AtSection(m, k) PROVE AtSection(m, k)'
            BY <2>1, <2>2, AtSectionStays
      <2>3. ASSUME NEW k, TablesUpTo(m, k) PROVE TablesUpTo(m, k)'
            BY <2>1, <2>3 DEF TablesUpTo, Read, TypesRead, FuncsRead, ExportsRead, CodesRead, tables
      <2>4. AtEntry(m) => AtEntry(m)'
            BY <2>1 DEF AtEntry, ItemsOf, NextEntry
      <2>5. HoldsModule(m) => HoldsModule(m)'
            BY <2>1 DEF HoldsModule, tables
      <2> QED BY <2>1, <2>2, <2>3, <2>4, <2>5 DEF FollowsModule
<1> QED BY <1>1, <1>2, <1>3, <1>4, <1>5, <1>6 DEF ParserNext

\* The tables are those of the sections and entries behind the parser.
FollowsAlways == ParserTyped /\ \A m \in file.module : FollowsModule(m)

\* The parser begins with nothing read.
LEMMA FollowsInit == ASSUME ParserInit, NEW m, MayFind(m) PROVE FollowsModule(m)
<1>1. phase = "check" /\ pos = 0
      BY DEF ParserInit
<1>2. /\ wasmTypeVec = << >> /\ funcTypeVec = << >> /\ wasmFunctionVec = << >>
      /\ funcNameIndexMapper = << >> /\ funcIndexNameMapper = << >>
      BY DEF ParserInit
<1>3. /\ Read("types", 0 >= 1, Len(m.types)) = 0
      /\ Read("functions", 0 >= 2, Len(m.funcs)) = 0
      /\ Read("exports", 0 >= Len(Sections(m)) - 1, Len(m.exports)) = 0
      /\ Read("codes", 0 >= Len(Sections(m)), Len(m.codes)) = 0
      <2>1. ~(0 >= 1) /\ ~(0 >= 2) /\ ~(0 >= Len(Sections(m)) - 1) /\ ~(0 >= Len(Sections(m)))
            <3>1. Len(Sections(m)) \in Nat /\ Len(Sections(m)) >= 4
                  BY SectionsFacts
            <3> DEFINE all == Len(Sections(m))
            <3> HIDE DEF all
            <3>2. ~(0 >= 1) /\ ~(0 >= 2) /\ ~(0 >= all - 1) /\ ~(0 >= all)
                  BY <3>1 DEF all
            <3> QED BY <3>2 DEF all
      <2> QED BY <1>1, <2>1 DEF Read
<1>4. TypesRead(m, 0) /\ FuncsRead(m, 0)
      <2>1. \A s : SubSeq(s, 1, 0) = << >>
            OBVIOUS
      <2> QED BY <1>2, <2>1 DEF TypesRead, FuncsRead
<1>5. ExportsRead(m, 0)
      <2>1. 1 .. 0 = {} /\ DOMAIN << >> = {}
            OBVIOUS
      <2> QED BY <1>2, <2>1 DEF ExportsRead
<1>6. CodesRead(m, 0)
      <2>1. << >> = [k \in 1 .. 0 |-> FunctionOf(m.codes[k])]
            OBVIOUS
      <2> QED BY <1>2, <2>1 DEF CodesRead
<1>7. TablesUpTo(m, 0)
      BY <1>3, <1>4, <1>5, <1>6 DEF TablesUpTo
<1> QED BY <1>1, <1>7 DEF FollowsModule, Parsing, Handler

LEMMA FollowsBegins == ParserInit => FollowsAlways
<1> SUFFICES ASSUME ParserInit PROVE FollowsAlways
    OBVIOUS
<1>1. ParserTyped
      BY InitTyped
<1>2. \A m \in file.module : MayFind(m)
      BY <1>1, TruthAssumption DEF ParserTyped
<1> QED BY <1>1, <1>2, FollowsInit DEF FollowsAlways

\* It keeps to m,
LEMMA FollowsKept == FollowsAlways /\ [ParserNext]_parserVars => FollowsAlways'
<1> SUFFICES ASSUME FollowsAlways, [ParserNext]_parserVars PROVE FollowsAlways'
    OBVIOUS
<1>1. ParserTyped /\ ParserTyped'
      BY NextTyped DEF FollowsAlways
<1>2. file' = file /\ file \in Files
      BY <1>1, FileStays DEF ParserTyped
<1>3. ASSUME NEW m \in file.module PROVE FollowsModule(m)'
      <2>1. MayFind(m) /\ file.bytes = Encode(m)
            BY <1>2, TruthAssumption
      <2> QED BY <1>1, <2>1, FollowsStep DEF FollowsAlways
<1> QED BY <1>1, <1>2, <1>3 DEF FollowsAlways

\* hence in every state,
LEMMA FollowsInvariant == ParserSpec => []FollowsAlways
BY FollowsBegins, FollowsKept, PTL DEF ParserSpec

\* and ends with the tables of m.
LEMMA FollowsFinds == FollowsAlways => ParsedAsEncoded
BY DEF FollowsAlways, FollowsModule, ParsedAsEncoded, Parsing, Handler

\* The bytes of every module whose numbers take one byte are accepted and
\* become its own tables: types, signatures, exports and bodies, each entry cut
\* where the format puts it (parse and the four parse_ handlers).
THEOREM ParsedAsEncodedCorrect == ParserSpec => []ParsedAsEncoded
BY FollowsFinds, FollowsInvariant, PTL

\* In such a file a handler never passes the end of its section, and stands on
\* it when its last entry is read, though parse does not ask it where it is.
THEOREM CursorMeetsSectionEndCorrect == ParserSpec => []CursorMeetsSectionEnd
<1>1. FollowsAlways => CursorMeetsSectionEnd
      <2> SUFFICES ASSUME FollowsAlways, NEW m \in file.module, phase \in Handler
          PROVE  NextEntry <= length /\ (todo = 0 => NextEntry = length)
          BY DEF CursorMeetsSectionEnd
      <2>1. MayFind(m) /\ file.bytes = Encode(m) /\ FollowsModule(m)
            BY TruthAssumption DEF FollowsAlways, ParserTyped
      <2>2. PICK k \in 0 .. Len(Sections(m)) - 1 :
              AtEntry(m) /\ InSection(m, k) /\ phase = PhaseOf(Sections(m)[k + 1].id)
            BY <2>1, FollowsWhere DEF Parsing, Handler
      <2> DEFINE items == ItemsOf(m)
                 n == Len(items)
                 stop == Offset(items, n - todo)
                 last == Offset(items, n)
      <2>3. items \in Seq(Seq(Nat)) /\ n \in Nat /\ length = 1 + last
            <3>1. /\ items \in Seq(Seq(Nat)) /\ n \in Nat /\ Sections(m)[k + 1].content = Vec(items)
                  /\ \A i \in 1 .. n : items[i] # << >>
                  BY <2>1, <2>2, ContentFacts
            <3>2. k + 1 \in 1 .. Len(Sections(m))
                  BY <2>1, SectionsFacts
            <3>3. Len(Vec(items)) < 128
                  BY <2>1, <3>1, <3>2, SectionsFacts
            <3> QED BY <2>2, <3>1, <3>3, ShortVec DEF InSection
      <2>4. todo \in Nat
            <3>1. todo \in Bytes
                  BY DEF FollowsAlways, ParserTyped, ParserTypeOK
            <3> QED BY <3>1 DEF Bytes
      <2>5. todo <= n /\ NextEntry = 1 + stop
            BY <2>2 DEF AtEntry
      <2>6. stop \in Nat /\ last \in Nat /\ stop <= last
            <3> HIDE DEF items
            <3>1. n - todo \in 0 .. n /\ n \in 0 .. n
                  <4> HIDE DEF n
                  <4> QED BY <2>3, <2>4, <2>5
            <3> QED BY <2>3, <3>1, OffsetFacts
      <2>7. todo = 0 => stop = last
            <3>1. todo = 0 => n - todo = n
                  <4> HIDE DEF n
                  <4> QED BY <2>3
            <3> QED BY <3>1
      <2> HIDE DEF stop, last
      <2> QED BY <2>3, <2>5, <2>6, <2>7
<1> QED BY <1>1, FollowsInvariant, PTL
=============================================================================
