---------------------------- MODULE DriverProofs ----------------------------
(***************************************************************************)
(* Proofs about the driver, for all scripts, tables and outcomes: it keeps *)
(* its types, it calls what the script asks for, and its steps are steps   *)
(* of TestRun.                                                             *)
(***************************************************************************)
EXTENDS JudgedRuns, DataLemmas

Assertions == { c \in AllCommands : IsAssertion(c) }

Entries == [file : 0 .. FileCount, command : Assertions]

-----------------------------------------------------------------------------
(***************************************************************************)
(* Scripts                                                                 *)
(***************************************************************************)
\* What the k-th command puts into the entries of file f.
EntryOf(script, f, k) ==
  IF IsAssertion(script[k]) /\ FileAt(script, k) = f
    THEN << [file |-> f, command |-> script[k]] >> ELSE << >>

Parts(script, f) == [k \in 1 .. Len(script) |-> EntryOf(script, f, k)]

\* The file of a position: that of the command, when it names one, else that
\* of the position before.
LEMMA FileAtStep ==
  ASSUME NEW script \in Seq(AllCommands)
  PROVE  /\ FileAt(script, 0) = 0
         /\ \A k \in 1 .. Len(script) :
              FileAt(script, k) = IF IsAssertion(script[k]) THEN FileAt(script, k - 1)
                                  ELSE script[k].filename
<1> DEFINE modules(k) == { j \in 1 .. k : ~IsAssertion(script[j]) }
<1>1. \A k : FileAt(script, k) = IF modules(k) = {} THEN 0 ELSE script[Max(modules(k))].filename
      BY DEF FileAt
<1>2. FileAt(script, 0) = 0
      <2>1. modules(0) = {}
            OBVIOUS
      <2> QED BY <1>1, <2>1
<1>3. ASSUME NEW k \in 1 .. Len(script), IsAssertion(script[k])
      PROVE  FileAt(script, k) = FileAt(script, k - 1)
      <2>1. modules(k) = modules(k - 1)
            <3>1. \A j : j \in 1 .. k <=> (j \in 1 .. k - 1 \/ j = k)
                  OBVIOUS
            <3> QED BY <1>3, <3>1
      <2> HIDE DEF modules
      <2> QED BY <1>1, <2>1
<1>4. ASSUME NEW k \in 1 .. Len(script), ~IsAssertion(script[k])
      PROVE  FileAt(script, k) = script[k].filename
      <2>1. k \in modules(k) /\ \A j \in modules(k) : k >= j /\ (j >= k => j = k)
            BY <1>4
      <2> HIDE DEF modules
      <2>2. Max(modules(k)) = k
            BY <2>1 DEF Max
      <2> QED BY <1>1, <2>1, <2>2
<1> QED BY <1>2, <1>3, <1>4

\* It is a file, or 0.
LEMMA FileAtType ==
  ASSUME NEW script \in Seq(AllCommands), NEW k \in 0 .. Len(script)
  PROVE  FileAt(script, k) \in 0 .. FileCount
<1> DEFINE n == Len(script)
           Good == { j \in 0 .. n : FileAt(script, j) \in 0 .. FileCount }
<1>1. n \in Nat /\ FileCount \in Nat
      BY DriverAssumption
<1>2. 0 \in Good
      BY <1>1, FileAtStep
<1>3. ASSUME NEW j \in 0 .. n - 1, j \in Good PROVE j + 1 \in Good
      <2>1. j + 1 \in 1 .. n /\ (j + 1) - 1 = j /\ j + 1 \in 0 .. n
            <3> HIDE DEF n
            <3> QED BY <1>1
      <2>2. script[j + 1] \in AllCommands
            BY <2>1, ElementOfSeq
      <2>3. ~IsAssertion(script[j + 1]) => script[j + 1].filename \in 1 .. FileCount
            BY <2>2, ScriptsAssumption
      <2>4. FileAt(script, j + 1) = IF IsAssertion(script[j + 1]) THEN FileAt(script, j)
                                    ELSE script[j + 1].filename
            BY <2>1, FileAtStep
      <2>5. FileAt(script, j) \in 0 .. FileCount
            BY <1>3
      <2>6. FileAt(script, j + 1) \in 0 .. FileCount
            BY <1>1, <2>3, <2>4, <2>5
      <2> QED BY <2>1, <2>6
<1>4. 0 .. n \subseteq Good
      <2> HIDE DEF Good, n
      <2> QED BY <1>1, <1>2, <1>3, BoundedInduction
<1> QED BY <1>4

\* One part for each command.
LEMMA PartsType ==
  ASSUME NEW script \in Seq(AllCommands), NEW f \in 0 .. FileCount
  PROVE  Parts(script, f) \in Seq(Seq(Entries)) /\ Len(Parts(script, f)) = Len(script)
<1>1. Len(script) \in Nat
      OBVIOUS
<1>2. ASSUME NEW k \in 1 .. Len(script) PROVE EntryOf(script, f, k) \in Seq(Entries)
      <2>1. script[k] \in AllCommands
            BY ElementOfSeq
      <2>2. CASE IsAssertion(script[k]) /\ FileAt(script, k) = f
            <3>1. [file |-> f, command |-> script[k]] \in Entries
                  BY <2>1, <2>2 DEF Entries, Assertions
            <3>2. << [file |-> f, command |-> script[k]] >> \in Seq(Entries)
                  BY <3>1
            <3> QED BY <2>2, <3>2 DEF EntryOf
      <2>3. CASE ~(IsAssertion(script[k]) /\ FileAt(script, k) = f)
            BY <2>3 DEF EntryOf
      <2> QED BY <2>2, <2>3
<1>3. Parts(script, f) \in [1 .. Len(script) -> Seq(Entries)]
      BY <1>2 DEF Parts
<1> QED BY <1>1, <1>3

\* AssertionsOn joins the parts.
LEMMA AssertionsFlatten ==
  ASSUME NEW script \in Seq(AllCommands), NEW f \in 0 .. FileCount
  PROVE  AssertionsOn(script, f) = FlattenSeq(Parts(script, f))
<1> DEFINE n == Len(script)
           parts == Parts(script, f)
           Recursive(g) ==
             g = [k \in 0 .. n |->
                    IF k = 0 THEN << >>
                    ELSE g[k - 1] \o
                           (IF IsAssertion(script[k]) /\ FileAt(script, k) = f
                              THEN << [file |-> f, command |-> script[k]] >> ELSE << >>)]
           upTo == CHOOSE g : Recursive(g)
<1>1. n \in Nat /\ parts \in Seq(Seq(Entries)) /\ Len(parts) = n
      BY PartsType
<1>2. \A k \in 1 .. n :
        parts[k] = IF IsAssertion(script[k]) /\ FileAt(script, k) = f
                     THEN << [file |-> f, command |-> script[k]] >> ELSE << >>
      BY DEF Parts, EntryOf
<1>3. AssertionsOn(script, f) = upTo[n]
      BY DEF AssertionsOn
<1> HIDE DEF n, parts
<1>4. ASSUME NEW g PROVE Recursive(g) <=> Joins(g, parts)
      <2>1. \A k \in 0 .. n : k # 0 => k \in 1 .. n
            BY <1>1
      <2>2. \A k \in 0 .. n :
              (IF k = 0 THEN << >> ELSE g[k - 1] \o parts[k])
              = (IF k = 0 THEN << >>
                 ELSE g[k - 1] \o
                        (IF IsAssertion(script[k]) /\ FileAt(script, k) = f
                           THEN << [file |-> f, command |-> script[k]] >> ELSE << >>))
            BY <1>2, <2>1
      <2>3. [k \in 0 .. n |-> IF k = 0 THEN << >> ELSE g[k - 1] \o parts[k]]
            = [k \in 0 .. n |->
                 IF k = 0 THEN << >>
                 ELSE g[k - 1] \o
                        (IF IsAssertion(script[k]) /\ FileAt(script, k) = f
                           THEN << [file |-> f, command |-> script[k]] >> ELSE << >>)]
            BY <2>2
      <2> QED BY <1>1, <2>3 DEF Joins
<1> HIDE DEF Recursive
<1>5. \E g : Recursive(g)
      BY <1>1, <1>4, JoinsExist
<1>6. Recursive(upTo)
      BY <1>5
<1> HIDE DEF upTo
<1> QED BY <1>1, <1>3, <1>4, <1>6, JoinsFlatten DEF parts

\* It depends on the commands up to the position.
LEMMA FileAtSame ==
  ASSUME NEW script, NEW other, NEW k \in Nat, \A j \in 1 .. k : other[j] = script[j]
  PROVE  FileAt(other, k) = FileAt(script, k)
<1> DEFINE modules == { j \in 1 .. k : ~IsAssertion(script[j]) }
<1>1. { j \in 1 .. k : ~IsAssertion(other[j]) } = modules
      OBVIOUS
<1>2. CASE modules = {}
      BY <1>1, <1>2 DEF FileAt
<1>3. CASE modules # {}
      <2>1. modules \in SUBSET (0 .. k)
            OBVIOUS
      <2>2. Max(modules) \in modules
            BY <1>3, <2>1, GreatestNumber
      <2>3. other[Max(modules)] = script[Max(modules)]
            BY <2>2
      <2> QED BY <1>1, <1>3, <2>3 DEF FileAt
<1> QED BY <1>2, <1>3

\* The parts of the first commands.
LEMMA PartsPrefix ==
  ASSUME NEW script \in Seq(AllCommands), NEW k \in 0 .. Len(script), NEW f \in 0 .. FileCount
  PROVE  Parts(SubSeq(script, 1, k), f) = SubSeq(Parts(script, f), 1, k)
<1> DEFINE first == SubSeq(script, 1, k)
           parts == Parts(script, f)
<1>1. /\ first \in Seq(AllCommands) /\ Len(first) = k
      /\ \A j \in 1 .. k : first[j] = script[j]
      BY Beginning
<1>2. parts \in Seq(Seq(Entries)) /\ Len(parts) = Len(script)
      BY PartsType
<1>3. /\ SubSeq(parts, 1, k) \in Seq(Seq(Entries)) /\ Len(SubSeq(parts, 1, k)) = k
      /\ \A j \in 1 .. k : SubSeq(parts, 1, k)[j] = parts[j]
      BY <1>2, Beginning
<1>4. Parts(first, f) \in Seq(Seq(Entries)) /\ Len(Parts(first, f)) = k
      BY <1>1, PartsType
<1> HIDE DEF first
<1>5. ASSUME NEW j \in 1 .. k PROVE Parts(first, f)[j] = parts[j]
      <2>1. j \in Nat /\ j \in 1 .. Len(script) /\ \A l \in 1 .. j : l \in 1 .. k
            OBVIOUS
      <2>2. first[j] = script[j] /\ \A l \in 1 .. j : first[l] = script[l]
            BY <1>1, <2>1
      <2>3. FileAt(first, j) = FileAt(script, j)
            BY <2>1, <2>2, FileAtSame
      <2>4. EntryOf(first, f, j) = EntryOf(script, f, j)
            BY <2>2, <2>3 DEF EntryOf
      <2>5. Parts(first, f)[j] = EntryOf(first, f, j) /\ parts[j] = EntryOf(script, f, j)
            BY <1>1, <2>1 DEF Parts
      <2> QED BY <2>4, <2>5
<1> HIDE DEF parts
<1>6. \A j \in 1 .. Len(Parts(first, f)) : Parts(first, f)[j] = SubSeq(parts, 1, k)[j]
      BY <1>3, <1>4, <1>5
<1>7. Parts(first, f) = SubSeq(parts, 1, k)
      BY <1>3, <1>4, <1>6, SeqEqual
<1> QED BY <1>7 DEF first, parts

\* One command more adds its entry.
LEMMA AssertionsStep ==
  ASSUME NEW script \in Seq(AllCommands), NEW k \in 1 .. Len(script), NEW f \in 0 .. FileCount
  PROVE  AssertionsOn(SubSeq(script, 1, k), f)
           = AssertionsOn(SubSeq(script, 1, k - 1), f) \o EntryOf(script, f, k)
<1> DEFINE parts == Parts(script, f)
           j == k - 1
<1>1. j \in 0 .. Len(script) /\ j + 1 = k /\ j < Len(script) /\ k \in 0 .. Len(script)
      OBVIOUS
<1>2. parts \in Seq(Seq(Entries)) /\ Len(parts) = Len(script)
      BY PartsType
<1>3. parts[k] = EntryOf(script, f, k) /\ parts[k] \in Seq(Entries)
      BY <1>2, ElementOfSeq DEF Parts
<1> HIDE DEF parts, j
<1>4. /\ SubSeq(parts, 1, j) \in Seq(Seq(Entries))
      /\ SubSeq(parts, 1, j + 1) = Append(SubSeq(parts, 1, j), parts[j + 1])
      BY <1>1, <1>2, Beginning
<1>5. FlattenSeq(SubSeq(parts, 1, k)) = FlattenSeq(SubSeq(parts, 1, j)) \o parts[k]
      BY <1>1, <1>3, <1>4, FlattenAppend
<1>6. /\ SubSeq(script, 1, k) \in Seq(AllCommands)
      /\ SubSeq(script, 1, j) \in Seq(AllCommands)
      BY <1>1, Beginning
<1>7. /\ AssertionsOn(SubSeq(script, 1, k), f) = FlattenSeq(SubSeq(parts, 1, k))
      /\ AssertionsOn(SubSeq(script, 1, j), f) = FlattenSeq(SubSeq(parts, 1, j))
      BY <1>1, <1>6, AssertionsFlatten, PartsPrefix DEF parts
<1> QED BY <1>3, <1>5, <1>7 DEF j

EntriesOf(f) == { e \in Entries : e.file = f }

\* The assertions on a file are entries of it.
LEMMA AssertionsType ==
  ASSUME NEW script \in Seq(AllCommands), NEW f \in 0 .. FileCount
  PROVE  AssertionsOn(script, f) \in Seq(EntriesOf(f))
<1>1. ASSUME NEW k \in 1 .. Len(script) PROVE EntryOf(script, f, k) \in Seq(EntriesOf(f))
      <2>1. script[k] \in AllCommands
            BY ElementOfSeq
      <2>2. CASE IsAssertion(script[k]) /\ FileAt(script, k) = f
            <3>1. [file |-> f, command |-> script[k]] \in EntriesOf(f)
                  BY <2>1, <2>2 DEF EntriesOf, Entries, Assertions
            <3>2. << [file |-> f, command |-> script[k]] >> \in Seq(EntriesOf(f))
                  BY <3>1
            <3> QED BY <2>2, <3>2 DEF EntryOf
      <2>3. CASE ~(IsAssertion(script[k]) /\ FileAt(script, k) = f)
            BY <2>3 DEF EntryOf
      <2> QED BY <2>2, <2>3
<1>2. Parts(script, f) \in [1 .. Len(script) -> Seq(EntriesOf(f))]
      BY <1>1 DEF Parts
<1>3. Parts(script, f) \in Seq(Seq(EntriesOf(f)))
      BY <1>2
<1>4. FlattenSeq(Parts(script, f)) \in Seq(EntriesOf(f))
      BY <1>3, FlattenOffsets
<1> QED BY <1>4, AssertionsFlatten

-----------------------------------------------------------------------------
(***************************************************************************)
(* The multimap                                                            *)
(***************************************************************************)
Groups(script) == [n \in 1 .. FileCount + 1 |-> AssertionsOn(script, n - 1)]

Grouped(script) == FlattenSeq(Groups(script))

\* One group for each file, and for the assertions in front of any.
LEMMA GroupsType ==
  ASSUME NEW script \in Seq(AllCommands)
  PROVE  /\ Groups(script) \in Seq(Seq(Entries)) /\ Len(Groups(script)) = FileCount + 1
         /\ \A n \in 1 .. FileCount + 1 :
              /\ Groups(script)[n] = AssertionsOn(script, n - 1)
              /\ Groups(script)[n] \in Seq(EntriesOf(n - 1))
<1>1. FileCount \in Nat
      BY DriverAssumption
<1>2. ASSUME NEW n \in 1 .. FileCount + 1
      PROVE  /\ Groups(script)[n] = AssertionsOn(script, n - 1)
             /\ Groups(script)[n] \in Seq(EntriesOf(n - 1))
             /\ Groups(script)[n] \in Seq(Entries)
      <2>1. n - 1 \in 0 .. FileCount
            BY <1>1
      <2>2. AssertionsOn(script, n - 1) \in Seq(EntriesOf(n - 1))
            BY <2>1, AssertionsType
      <2>3. EntriesOf(n - 1) \subseteq Entries
            BY DEF EntriesOf
      <2>4. AssertionsOn(script, n - 1) \in Seq(Entries)
            BY <2>2, <2>3, SeqMonotonic
      <2> QED BY <2>2, <2>4 DEF Groups
<1>3. Groups(script) \in [1 .. FileCount + 1 -> Seq(Entries)]
      <2>1. Groups(script) = [n \in 1 .. FileCount + 1 |-> Groups(script)[n]]
            BY DEF Groups
      <2> QED BY <1>2, <2>1
<1> QED BY <1>1, <1>2, <1>3

\* A new entry goes behind those with its file or a lower one.
LEMMA InsertBetween ==
  ASSUME NEW f \in 0 .. FileCount, NEW entry \in EntriesOf(f),
         NEW x \in Seq({ e \in Entries : e.file <= f }),
         NEW y \in Seq({ e \in Entries : e.file > f })
  PROVE  InsertCommand(x \o y, entry) = (x \o << entry >>) \o y
<1> DEFINE map == x \o y
           m == Len(x)
           n == Len(map)
           greater == { k \in DOMAIN map : map[k].file > entry.file }
           T == greater \cup {n + 1}
<1>1. x \in Seq(Entries) /\ y \in Seq(Entries)
      <2>1. { e \in Entries : e.file <= f } \subseteq Entries /\ { e \in Entries : e.file > f } \subseteq Entries
            OBVIOUS
      <2> QED BY <2>1, SeqMonotonic
<1>2. /\ map \in Seq(Entries) /\ n = m + Len(y) /\ m \in Nat /\ Len(y) \in Nat
      /\ DOMAIN map = 1 .. n
      /\ \A k \in 1 .. n : map[k] = IF k <= m THEN x[k] ELSE y[k - m]
      BY <1>1, ConcatProperties, LenProperties
<1>3. entry.file = f /\ f \in Nat /\ \A e \in Entries : e.file \in Nat
      BY DriverAssumption DEF EntriesOf, Entries
<1> HIDE DEF map, m, n
<1>4. ASSUME NEW k \in 1 .. n PROVE map[k].file > entry.file <=> k > m
      <2>1. CASE k <= m
            <3>1. k \in 1 .. Len(x)
                  BY <1>2, <2>1 DEF m
            <3>2. x[k] \in { e \in Entries : e.file <= f }
                  BY <3>1, ElementOfSeq
            <3> QED BY <1>2, <1>3, <2>1, <3>2
      <2>2. CASE k > m
            <3>1. k - m \in 1 .. Len(y)
                  BY <1>2, <2>2
            <3>2. y[k - m] \in { e \in Entries : e.file > f }
                  BY <3>1, ElementOfSeq
            <3> QED BY <1>2, <1>3, <2>2, <3>2
      <2> QED BY <1>2, <2>1, <2>2
<1>5. T \in SUBSET Nat /\ m + 1 \in T /\ \A k \in T : m + 1 <= k
      <2>1. greater = { k \in 1 .. n : k > m }
            BY <1>2, <1>4
      <2> HIDE DEF greater
      <2> QED BY <1>2, <2>1
<1>6. Min(T) = m + 1
      <2>1. Min(T) \in T /\ \A k \in T : Min(T) <= k
            BY <1>5, MinIsLeast
      <2>2. Min(T) \in Nat /\ m + 1 <= Min(T) /\ Min(T) <= m + 1
            <3> HIDE DEF T
            <3> QED BY <1>5, <2>1
      <2> HIDE DEF T
      <2> QED BY <1>2, <2>2
<1>7. SubSeq(map, 1, m) = x
      <2>1. /\ SubSeq(map, 1, m) \in Seq(Entries) /\ Len(SubSeq(map, 1, m)) = m
            /\ \A k \in 1 .. m : SubSeq(map, 1, m)[k] = map[k]
            BY <1>2, Beginning DEF n
      <2>2. \A k \in 1 .. m : map[k] = x[k]
            BY <1>2
      <2> QED BY <1>1, <2>1, <2>2, SeqEqual DEF m
<1>8. SubSeq(map, m + 1, n) = y
      <2> DEFINE rest == SubSeq(map, m + 1, n)
      <2>1. m + 1 \in Int /\ n \in Int /\ \A k \in m + 1 .. n : map[k] \in Entries
            <3>1. \A k \in m + 1 .. n : k \in 1 .. Len(map)
                  BY <1>2 DEF n
            <3> QED BY <1>2, <3>1, ElementOfSeq
      <2>2. /\ rest \in Seq(Entries) /\ Len(rest) = IF m + 1 <= n THEN n - (m + 1) + 1 ELSE 0
            /\ \A k \in 1 .. n - (m + 1) + 1 : rest[k] = map[(m + 1) + k - 1]
            BY <2>1, SubSeqProperties
      <2> HIDE DEF rest
      <2>3. Len(rest) = Len(y)
            BY <1>2, <2>2
      <2>4. ASSUME NEW k \in 1 .. Len(rest) PROVE rest[k] = y[k]
            <3>1. /\ k \in 1 .. n - (m + 1) + 1 /\ (m + 1) + k - 1 = m + k
                  /\ m + k \in 1 .. n /\ ~(m + k <= m) /\ (m + k) - m = k
                  BY <1>2, <2>3
            <3>2. rest[k] = map[m + k]
                  BY <2>2, <3>1
            <3>3. map[m + k] = y[(m + k) - m]
                  BY <1>2, <3>1
            <3> QED BY <3>1, <3>2, <3>3
      <2>5. rest = y
            BY <1>1, <2>2, <2>3, <2>4, SeqEqual
      <2> QED BY <2>5 DEF rest
<1>9. InsertCommand(map, entry) = InsertAt(map, m + 1, entry)
      BY <1>6 DEF InsertCommand, n
<1>10. InsertAt(map, m + 1, entry) = (x \o << entry >>) \o y
       <2>1. (m + 1) - 1 = m
             BY <1>2
       <2> QED BY <1>7, <1>8, <2>1 DEF InsertAt, n
<1> QED BY <1>9, <1>10 DEF map

\* One command more: the groups change in that of its file.
LEMMA GroupsStep ==
  ASSUME NEW script \in Seq(AllCommands), NEW k \in 1 .. Len(script),
         NEW n \in 1 .. FileCount + 1
  PROVE  Groups(SubSeq(script, 1, k))[n]
           = IF IsAssertion(script[k]) /\ FileAt(script, k) = n - 1
               THEN Groups(SubSeq(script, 1, k - 1))[n]
                      \o << [file |-> n - 1, command |-> script[k]] >>
               ELSE Groups(SubSeq(script, 1, k - 1))[n]
<1> DEFINE j == k - 1
           f == n - 1
<1>1. k \in 0 .. Len(script) /\ j \in 0 .. Len(script)
      OBVIOUS
<1>2. f \in 0 .. FileCount
      BY DriverAssumption
<1>3. SubSeq(script, 1, k) \in Seq(AllCommands) /\ SubSeq(script, 1, j) \in Seq(AllCommands)
      BY <1>1, Beginning
<1>4. /\ Groups(SubSeq(script, 1, k))[n] = AssertionsOn(SubSeq(script, 1, k), f)
      /\ Groups(SubSeq(script, 1, j))[n] = AssertionsOn(SubSeq(script, 1, j), f)
      /\ Groups(SubSeq(script, 1, j))[n] \in Seq(EntriesOf(f))
      BY <1>3, GroupsType
<1>5. AssertionsOn(SubSeq(script, 1, k), f) = AssertionsOn(SubSeq(script, 1, j), f) \o EntryOf(script, f, k)
      BY <1>2, AssertionsStep
<1> HIDE DEF j
<1>6. Groups(SubSeq(script, 1, j))[n] \o << >> = Groups(SubSeq(script, 1, j))[n]
      BY <1>4, ConcatEmptySeq
<1>7. Groups(SubSeq(script, 1, k))[n]
        = IF IsAssertion(script[k]) /\ FileAt(script, k) = f
            THEN Groups(SubSeq(script, 1, j))[n] \o << [file |-> f, command |-> script[k]] >>
            ELSE Groups(SubSeq(script, 1, j))[n]
      BY <1>4, <1>5, <1>6 DEF EntryOf
<1> QED BY <1>7 DEF j

\* A module command leaves them alone.
LEMMA GroupedStays ==
  ASSUME NEW script \in Seq(AllCommands), NEW k \in 1 .. Len(script), ~IsAssertion(script[k])
  PROVE  Grouped(SubSeq(script, 1, k)) = Grouped(SubSeq(script, 1, k - 1))
<1> DEFINE j == k - 1
           a == Groups(SubSeq(script, 1, j))
           b == Groups(SubSeq(script, 1, k))
<1>1. k \in 0 .. Len(script) /\ j \in 0 .. Len(script)
      OBVIOUS
<1>2. SubSeq(script, 1, k) \in Seq(AllCommands) /\ SubSeq(script, 1, j) \in Seq(AllCommands)
      BY <1>1, Beginning
<1>3. \A n \in 1 .. FileCount + 1 : b[n] = a[n]
      BY GroupsStep
<1>4. /\ a \in Seq(Seq(Entries)) /\ Len(a) = FileCount + 1
      /\ b \in Seq(Seq(Entries)) /\ Len(b) = FileCount + 1
      BY <1>2, GroupsType
<1> HIDE DEF a, b
<1>5. a = b
      BY <1>3, <1>4, SeqEqual
<1> QED BY <1>5 DEF a, b, Grouped

\* An assertion is inserted as the multimap does it.
LEMMA GroupedGrows ==
  ASSUME NEW script \in Seq(AllCommands), NEW k \in 1 .. Len(script), IsAssertion(script[k])
  PROVE  /\ Grouped(SubSeq(script, 1, k))
              = InsertCommand(Grouped(SubSeq(script, 1, k - 1)),
                              [file |-> FileAt(script, k - 1), command |-> script[k]])
         /\ Len(Grouped(SubSeq(script, 1, k))) = Len(Grouped(SubSeq(script, 1, k - 1))) + 1
<1> DEFINE j == k - 1
           n == FileCount + 1
           f == FileAt(script, k)
           m == f + 1
           e == [file |-> f, command |-> script[k]]
           a == Groups(SubSeq(script, 1, j))
           b == Groups(SubSeq(script, 1, k))
           x == FlattenSeq(SubSeq(a, 1, m - 1)) \o a[m]
           y == FlattenSeq(SubSeq(a, m + 1, n))
           Low == { l \in Entries : l.file <= f }
           High == { l \in Entries : l.file > f }
<1>1. /\ k \in 0 .. Len(script) /\ j \in 0 .. Len(script)
      /\ FileAt(script, j) = f
      BY FileAtStep
<1>2. f \in 0 .. FileCount /\ FileCount \in Nat
      BY <1>1, FileAtType, DriverAssumption
<1>3. SubSeq(script, 1, k) \in Seq(AllCommands) /\ SubSeq(script, 1, j) \in Seq(AllCommands)
      BY <1>1, Beginning
<1>4. e \in EntriesOf(f)
      <2>1. script[k] \in AllCommands
            BY ElementOfSeq
      <2> QED BY <1>2, <2>1 DEF EntriesOf, Entries, Assertions
<1>5. /\ a \in Seq(Seq(Entries)) /\ Len(a) = n
      /\ b \in Seq(Seq(Entries)) /\ Len(b) = n
      /\ \A l \in 1 .. n : a[l] \in Seq(EntriesOf(l - 1))
      BY <1>3, GroupsType
<1>6. \A l \in 1 .. n : b[l] = IF f = l - 1 THEN a[l] \o << e >> ELSE a[l]
      BY GroupsStep
<1>7. /\ m \in 1 .. n /\ n \in Nat /\ m - 1 \in 0 .. n /\ f = m - 1
      /\ \A l \in 1 .. n : f = l - 1 <=> l = m
      BY <1>2
<1> HIDE DEF a, b, e, m, n
<1>8. b[m] = a[m] \o << e >> /\ \A l \in 1 .. n : l # m => b[l] = a[l]
      BY <1>6, <1>7
<1>9. SubSeq(b, 1, m - 1) = SubSeq(a, 1, m - 1)
      <2>1. /\ SubSeq(b, 1, m - 1) \in Seq(Seq(Entries)) /\ Len(SubSeq(b, 1, m - 1)) = m - 1
            /\ \A l \in 1 .. m - 1 : SubSeq(b, 1, m - 1)[l] = b[l]
            BY <1>5, <1>7, Beginning
      <2>2. /\ SubSeq(a, 1, m - 1) \in Seq(Seq(Entries)) /\ Len(SubSeq(a, 1, m - 1)) = m - 1
            /\ \A l \in 1 .. m - 1 : SubSeq(a, 1, m - 1)[l] = a[l]
            BY <1>5, <1>7, Beginning
      <2>3. \A l \in 1 .. m - 1 : b[l] = a[l]
            BY <1>7, <1>8
      <2> QED BY <2>1, <2>2, <2>3, SeqEqual
<1>10. SubSeq(b, m + 1, n) = SubSeq(a, m + 1, n)
       <2>1. \A l \in m + 1 .. n : l \in 1 .. n /\ l # m
             BY <1>7
       <2>2. \A l \in m + 1 .. n : a[l] \in Seq(Entries) /\ b[l] \in Seq(Entries) /\ b[l] = a[l]
             BY <1>5, <1>8, <2>1, ElementOfSeq
       <2>3. m + 1 \in Int /\ n \in Int
             BY <1>7
       <2>4. /\ SubSeq(a, m + 1, n) \in Seq(Seq(Entries))
             /\ Len(SubSeq(a, m + 1, n)) = IF m + 1 <= n THEN n - (m + 1) + 1 ELSE 0
             /\ \A l \in 1 .. n - (m + 1) + 1 : SubSeq(a, m + 1, n)[l] = a[m + 1 + l - 1]
             BY <2>2, <2>3, SubSeqProperties
       <2>5. /\ SubSeq(b, m + 1, n) \in Seq(Seq(Entries))
             /\ Len(SubSeq(b, m + 1, n)) = IF m + 1 <= n THEN n - (m + 1) + 1 ELSE 0
             /\ \A l \in 1 .. n - (m + 1) + 1 : SubSeq(b, m + 1, n)[l] = b[m + 1 + l - 1]
             BY <2>2, <2>3, SubSeqProperties
       <2>6. \A l \in 1 .. n - (m + 1) + 1 : m + 1 + l - 1 \in m + 1 .. n
             BY <1>7
       <2>7. \A l \in 1 .. Len(SubSeq(a, m + 1, n)) : l \in 1 .. n - (m + 1) + 1
             BY <1>7, <2>4
       <2>8. \A l \in 1 .. Len(SubSeq(a, m + 1, n)) : SubSeq(b, m + 1, n)[l] = SubSeq(a, m + 1, n)[l]
             BY <2>2, <2>4, <2>5, <2>6, <2>7
       <2> QED BY <2>4, <2>5, <2>8, SeqEqual
<1>11. a[m] \in Seq(Low)
       <2>1. EntriesOf(m - 1) \subseteq Low
             BY <1>2, <1>7 DEF EntriesOf
       <2>2. a[m] \in Seq(EntriesOf(m - 1))
             BY <1>5, <1>7
       <2> HIDE DEF Low
       <2> QED BY <2>1, <2>2, SeqMonotonic
<1>12. SubSeq(a, 1, m - 1) \in Seq(Seq(Low))
       <2>1. ASSUME NEW l \in 1 .. m - 1 PROVE a[l] \in Seq(Low)
             <3>1. l \in 1 .. n
                   BY <1>7
             <3>2. EntriesOf(l - 1) \subseteq Low
                   BY <1>2, <1>7 DEF EntriesOf
             <3>3. a[l] \in Seq(EntriesOf(l - 1))
                   BY <1>5, <3>1
             <3> HIDE DEF Low
             <3> QED BY <3>2, <3>3, SeqMonotonic
       <2> HIDE DEF Low
       <2>2. 1 \in Int /\ m - 1 \in Int
             BY <1>7
       <2> QED BY <2>1, <2>2, SubSeqProperties
<1>13. SubSeq(a, m + 1, n) \in Seq(Seq(High))
       <2>1. ASSUME NEW l \in m + 1 .. n PROVE a[l] \in Seq(High)
             <3>1. l \in 1 .. n
                   BY <1>7
             <3>2. EntriesOf(l - 1) \subseteq High
                   BY <1>2, <1>7 DEF EntriesOf
             <3>3. a[l] \in Seq(EntriesOf(l - 1))
                   BY <1>5, <3>1
             <3> HIDE DEF High
             <3> QED BY <3>2, <3>3, SeqMonotonic
       <2> HIDE DEF High
       <2>2. m + 1 \in Int /\ n \in Int
             BY <1>7
       <2> QED BY <2>1, <2>2, SubSeqProperties
<1> HIDE DEF Low, High
<1>14. FlattenSeq(SubSeq(a, 1, m - 1)) \in Seq(Low) /\ y \in Seq(High)
       BY <1>12, <1>13, FlattenOffsets
<1>15. x \in Seq(Low)
       BY <1>11, <1>14, ConcatProperties
<1>16. FlattenSeq(a) = x \o y
       BY <1>5, <1>7, FlattenAround
<1>17. FlattenSeq(b) = (FlattenSeq(SubSeq(a, 1, m - 1)) \o (a[m] \o << e >>)) \o y
       <2>1. FlattenSeq(b) = (FlattenSeq(SubSeq(b, 1, m - 1)) \o b[m]) \o FlattenSeq(SubSeq(b, m + 1, n))
             BY <1>5, <1>7, FlattenAround
       <2> QED BY <1>8, <1>9, <1>10, <2>1
<1>18. << e >> \in Seq(Low)
       <2>1. e \in Low
             BY <1>2, <1>4 DEF Low, EntriesOf
       <2> QED BY <2>1
<1>19. FlattenSeq(SubSeq(a, 1, m - 1)) \o (a[m] \o << e >>) = x \o << e >>
       <2> DEFINE r == FlattenSeq(SubSeq(a, 1, m - 1))
       <2>1. r \in Seq(Low) /\ x = r \o a[m]
             BY <1>14
       <2> HIDE DEF r, x, y
       <2>2. ASSUME NEW q \in Seq(Low), NEW s \in Seq(Low), NEW t \in Seq(Low)
             PROVE  (q \o s) \o t = q \o (s \o t)
             BY JoinAssociative, SMTT(60)
       <2>3. r \o (a[m] \o << e >>) = (r \o a[m]) \o << e >>
             BY <1>11, <1>18, <2>1, <2>2
       <2> QED BY <2>1, <2>3 DEF r
<1>20. InsertCommand(x \o y, e) = (x \o << e >>) \o y
       <2> HIDE DEF x, y
       <2> QED BY <1>2, <1>4, <1>14, <1>15, InsertBetween DEF Low, High, y
<1>21. FlattenSeq(b) = InsertCommand(FlattenSeq(a), e)
       BY <1>16, <1>17, <1>19, <1>20
<1>22. Len(FlattenSeq(b)) = Len(FlattenSeq(a)) + 1
       <2>1. Low \subseteq Entries /\ High \subseteq Entries
             BY DEF Low, High
       <2> HIDE DEF x, y
       <2>2. x \in Seq(Entries) /\ y \in Seq(Entries) /\ << e >> \in Seq(Entries)
             BY <1>14, <1>15, <1>18, <2>1, SeqMonotonic DEF y
       <2>3. Len(x \o y) = Len(x) + Len(y) /\ Len(x) \in Nat /\ Len(y) \in Nat
             BY <2>2, ConcatProperties
       <2>4. x \o << e >> \in Seq(Entries) /\ Len(x \o << e >>) = Len(x) + 1
             BY <2>2, ConcatProperties
       <2>5. Len((x \o << e >>) \o y) = Len(x) + 1 + Len(y)
             BY <2>2, <2>4, ConcatProperties
       <2>6. FlattenSeq(b) = (x \o << e >>) \o y /\ FlattenSeq(a) = x \o y
             BY <1>16, <1>17, <1>19 DEF x, y
       <2> QED BY <2>3, <2>5, <2>6
<1> QED BY <1>1, <1>21, <1>22 DEF Grouped, a, b, e

\* The order of the judgement is that of the groups.
LEMMA InOrderGrouped ==
  ASSUME NEW script \in Seq(AllCommands)
  PROVE  InOrder(script) = Grouped(script) /\ Grouped(script) \in Seq(Entries)
<1> DEFINE of == { FileAt(script, k) : k \in DOMAIN script }
           files == Max({0} \cup of)
           groups == Groups(script)
           n == FileCount + 1
           m == files + 1
           parts == SubSeq(groups, 1, m)
           Recursive(g) ==
             g = [l \in 0 .. m |->
                    IF l = 0 THEN << >> ELSE g[l - 1] \o AssertionsOn(script, l - 1)]
           below == CHOOSE g : Recursive(g)
<1>1. DOMAIN script = 1 .. Len(script) /\ FileCount \in Nat
      BY DriverAssumption
<1>2. of \subseteq 0 .. FileCount
      <2>1. \A k \in 1 .. Len(script) : k \in 0 .. Len(script)
            OBVIOUS
      <2> QED BY <1>1, <2>1, FileAtType
<1>3. files \in {0} \cup of /\ \A f \in of : f <= files
      <2>1. {0} \cup of \in SUBSET (0 .. FileCount) /\ {0} \cup of # {}
            BY <1>1, <1>2
      <2> HIDE DEF of
      <2> QED BY <1>1, <2>1, GreatestNumber
<1>4. files \in 0 .. FileCount
      BY <1>1, <1>2, <1>3
<1>5. /\ groups \in Seq(Seq(Entries)) /\ Len(groups) = n
      /\ \A l \in 1 .. n : groups[l] = AssertionsOn(script, l - 1)
      BY GroupsType
<1>6. Grouped(script) = FlattenSeq(groups)
      BY DEF Grouped
<1>7. InOrder(script) = below[m]
      BY DEF InOrder
<1> HIDE DEF of, files, groups
<1>8. m \in 0 .. n /\ n \in Nat /\ m \in Nat
      BY <1>1, <1>4
<1> HIDE DEF n, m
<1>9. /\ parts \in Seq(Seq(Entries)) /\ Len(parts) = m
      /\ \A l \in 1 .. m : parts[l] = groups[l]
      BY <1>5, <1>8, Beginning
<1>10. \A l \in 1 .. m : parts[l] = AssertionsOn(script, l - 1)
       <2>1. \A l \in 1 .. m : l \in 1 .. n
             BY <1>8
       <2> QED BY <1>5, <1>9, <2>1
<1> HIDE DEF parts
<1>11. ASSUME NEW g PROVE Recursive(g) <=> Joins(g, parts)
       <2>1. \A l \in 0 .. m : l # 0 => l \in 1 .. m
             BY <1>8
       <2>2. \A l \in 0 .. m :
               (IF l = 0 THEN << >> ELSE g[l - 1] \o parts[l])
               = (IF l = 0 THEN << >> ELSE g[l - 1] \o AssertionsOn(script, l - 1))
             BY <1>10, <2>1
       <2>3. [l \in 0 .. m |-> IF l = 0 THEN << >> ELSE g[l - 1] \o parts[l]]
             = [l \in 0 .. m |->
                  IF l = 0 THEN << >> ELSE g[l - 1] \o AssertionsOn(script, l - 1)]
             BY <2>2
       <2> QED BY <1>9, <2>3 DEF Joins
<1> HIDE DEF Recursive
<1>12. Recursive(below)
       <2>1. \E g : Recursive(g)
             BY <1>9, <1>11, JoinsExist
       <2> QED BY <2>1
<1> HIDE DEF below
<1>13. InOrder(script) = FlattenSeq(parts)
       BY <1>7, <1>9, <1>11, <1>12, JoinsFlatten
<1> DEFINE rest == SubSeq(groups, m + 1, n)
<1>14. ASSUME NEW l \in m + 1 .. n PROVE groups[l] = << >>
       <2>1. l \in 1 .. n /\ l - 1 \in 0 .. FileCount /\ l - 1 > files
             BY <1>1, <1>4, <1>8 DEF n, m
       <2>2. \A k \in 1 .. Len(script) : FileAt(script, k) # l - 1
             <3>1. \A k \in 1 .. Len(script) : FileAt(script, k) \in of
                   BY <1>1 DEF of
             <3> QED BY <1>1, <1>2, <1>3, <1>4, <2>1, <3>1
       <2>3. \A k \in 1 .. Len(script) : Parts(script, l - 1)[k] = << >>
             BY <2>2 DEF Parts, EntryOf
       <2>4. FlattenSeq(Parts(script, l - 1)) = << >>
             BY <2>1, <2>3, PartsType, FlattenEmpty
       <2> QED BY <1>5, <2>1, <2>4, AssertionsFlatten
<1>15. rest \in Seq(Seq(Entries)) /\ \A l \in 1 .. Len(rest) : rest[l] = << >>
       <2>1. m + 1 \in Int /\ n \in Int /\ << >> \in Seq(Entries)
             BY <1>8
       <2>2. \A l \in m + 1 .. n : groups[l] \in Seq(Entries)
             BY <1>14, <2>1
       <2>3. /\ rest \in Seq(Seq(Entries))
             /\ Len(rest) = IF m + 1 <= n THEN n - (m + 1) + 1 ELSE 0
             /\ \A l \in 1 .. n - (m + 1) + 1 : rest[l] = groups[m + 1 + l - 1]
             BY <2>1, <2>2, SubSeqProperties
       <2> HIDE DEF rest
       <2>4. \A l \in 1 .. Len(rest) : l \in 1 .. n - (m + 1) + 1 /\ m + 1 + l - 1 \in m + 1 .. n
             BY <1>8, <2>3
       <2> QED BY <1>14, <2>3, <2>4
<1>16. FlattenSeq(rest) = << >>
       <2> HIDE DEF rest
       <2> QED BY <1>15, FlattenEmpty
<1>17. groups = parts \o rest
       <2>1. SubSeq(groups, 1, n) = groups
             BY <1>5, SubSeqFull
       <2>2. SubSeq(groups, 1, m) \o SubSeq(groups, m + 1, n) = SubSeq(groups, 1, n)
             <3>1. /\ 1 \in 1 .. Len(groups) + 1 /\ m \in 1 - 1 .. Len(groups)
                   /\ n \in m .. Len(groups)
                   BY <1>5, <1>8
             <3> QED BY <1>5, <3>1, ConcatAdjacentSubSeq
       <2> QED BY <2>1, <2>2 DEF parts
<1>18. FlattenSeq(parts) \in Seq(Entries)
       BY <1>9, FlattenOffsets
<1> HIDE DEF rest
<1>19. FlattenSeq(groups) = FlattenSeq(parts)
       <2>1. FlattenSeq(parts \o rest) = FlattenSeq(parts) \o FlattenSeq(rest)
             BY <1>9, <1>15, FlattenConcat
       <2>2. FlattenSeq(parts) \o << >> = FlattenSeq(parts)
             BY <1>18, ConcatEmptySeq
       <2> QED BY <1>16, <1>17, <2>1, <2>2
<1> QED BY <1>6, <1>13, <1>18, <1>19

\* The assertions of a suite, from a chapter on.
LEMMA InOrderFromStep ==
  ASSUME NEW scripts \in Seq(Seq(AllCommands)), NEW k \in 1 .. Len(scripts)
  PROVE  /\ InOrderFrom(scripts, k) = InOrder(scripts[k]) \o InOrderFrom(scripts, k + 1)
         /\ InOrderFrom(scripts, k) \in Seq(Entries)
         /\ InOrderFrom(scripts, k + 1) \in Seq(Entries)
<1> DEFINE n == Len(scripts)
           from(c) == [l \in 1 .. n - c + 1 |-> InOrder(scripts[c + l - 1])]
<1>1. n \in Nat /\ k \in 1 .. n
      OBVIOUS
<1>2. \A c \in 1 .. n : InOrder(scripts[c]) \in Seq(Entries)
      <2>1. \A c \in 1 .. n : scripts[c] \in Seq(AllCommands)
            BY ElementOfSeq
      <2> QED BY <2>1, InOrderGrouped
<1>3. ASSUME NEW c \in 1 .. n + 1
      PROVE  /\ from(c) \in Seq(Seq(Entries)) /\ Len(from(c)) = n - c + 1
             /\ InOrderFrom(scripts, c) = FlattenSeq(from(c))
             /\ InOrderFrom(scripts, c) \in Seq(Entries)
      <2>1. \A l \in 1 .. n - c + 1 : c + l - 1 \in 1 .. n
            <3> HIDE DEF n
            <3> QED BY <1>1
      <2>2. from(c) \in [1 .. n - c + 1 -> Seq(Entries)]
            BY <1>2, <2>1
      <2>3. n - c + 1 \in Nat
            <3> HIDE DEF n
            <3> QED BY <1>1
      <2>4. from(c) \in Seq(Seq(Entries)) /\ Len(from(c)) = n - c + 1
            <3>1. ASSUME NEW m \in Nat, NEW g \in [1 .. m -> Seq(Entries)]
                  PROVE  g \in Seq(Seq(Entries)) /\ Len(g) = m
                  OBVIOUS
            <3> HIDE DEF from, n
            <3> QED BY <2>2, <2>3, <3>1
      <2>5. InOrderFrom(scripts, c) = FlattenSeq(from(c))
            BY DEF InOrderFrom
      <2>6. FlattenSeq(from(c)) \in Seq(Entries)
            <3> HIDE DEF from
            <3> QED BY <2>4, FlattenOffsets
      <2> QED BY <2>4, <2>5, <2>6
<1> DEFINE first == << InOrder(scripts[k]) >>
<1>4. /\ first \in Seq(Seq(Entries)) /\ Len(first) = 1 /\ first[1] = InOrder(scripts[k])
      /\ InOrder(scripts[k]) \in Seq(Entries)
      BY <1>1, <1>2
<1>5. from(k) = first \o from(k + 1)
      <2>1. /\ k \in 1 .. n + 1 /\ k + 1 \in 1 .. n + 1 /\ n - k + 1 = 1 + (n - (k + 1) + 1)
            /\ n - (k + 1) + 1 \in Nat
            <3> HIDE DEF n
            <3> QED BY <1>1
      <2>2. ASSUME NEW l \in 1 .. n - k + 1
            PROVE  from(k)[l] = IF l <= 1 THEN first[l] ELSE from(k + 1)[l - 1]
            <3>1. from(k)[l] = InOrder(scripts[k + l - 1])
                  OBVIOUS
            <3>2. CASE l = 1
                  <4>1. k + l - 1 = k
                        BY <3>2
                  <4> QED BY <1>4, <3>1, <3>2, <4>1
            <3>3. CASE l # 1
                  <4>1. l - 1 \in 1 .. n - (k + 1) + 1 /\ (k + 1) + (l - 1) - 1 = k + l - 1 /\ ~(l <= 1)
                        <5> HIDE DEF n
                        <5> QED BY <1>1, <3>3
                  <4>2. from(k + 1)[l - 1] = InOrder(scripts[(k + 1) + (l - 1) - 1])
                        BY <4>1
                  <4> QED BY <3>1, <4>1, <4>2
            <3> QED BY <3>2, <3>3
      <2>3. /\ from(k) \in Seq(Seq(Entries)) /\ Len(from(k)) = n - k + 1
            /\ from(k + 1) \in Seq(Seq(Entries)) /\ Len(from(k + 1)) = n - (k + 1) + 1
            <3> HIDE DEF from
            <3> QED BY <1>3, <2>1
      <2>4. ASSUME NEW s \in Seq(Seq(Entries)), Len(s) = n - (k + 1) + 1
            PROVE  /\ first \o s \in Seq(Seq(Entries)) /\ Len(first \o s) = n - k + 1
                   /\ \A l \in 1 .. n - k + 1 :
                        (first \o s)[l] = IF l <= 1 THEN first[l] ELSE s[l - 1]
            <3>1. /\ first \o s \in Seq(Seq(Entries)) /\ Len(first \o s) = Len(first) + Len(s)
                  /\ \A l \in 1 .. Len(first) + Len(s) :
                       (first \o s)[l] = IF l <= Len(first) THEN first[l] ELSE s[l - Len(first)]
                  <4> HIDE DEF first
                  <4> QED BY <1>4, ConcatProperties
            <3>2. Len(first) = 1 /\ Len(first) + Len(s) = n - k + 1
                  BY <1>4, <2>1, <2>4
            <3> HIDE DEF first, n
            <3> QED BY <3>1, <3>2
      <2> HIDE DEF from, first, n
      <2>5. /\ first \o from(k + 1) \in Seq(Seq(Entries))
            /\ Len(first \o from(k + 1)) = n - k + 1
            /\ \A l \in 1 .. n - k + 1 :
                 (first \o from(k + 1))[l] = IF l <= 1 THEN first[l] ELSE from(k + 1)[l - 1]
            BY <2>3, <2>4
      <2>6. \A l \in 1 .. Len(from(k)) : from(k)[l] = (first \o from(k + 1))[l]
            BY <2>2, <2>3, <2>5
      <2> QED BY <2>3, <2>5, <2>6, SeqEqual
<1>6. k \in 1 .. n + 1 /\ k + 1 \in 1 .. n + 1
      <2> HIDE DEF n
      <2> QED BY <1>1
<1>7. FlattenSeq(first) = InOrder(scripts[k])
      BY <1>4, FlattenOne
<1> HIDE DEF from, first
<1>8. FlattenSeq(first \o from(k + 1)) = FlattenSeq(first) \o FlattenSeq(from(k + 1))
      BY <1>3, <1>4, <1>6, FlattenConcat
<1> QED BY <1>3, <1>5, <1>6, <1>7, <1>8

\* Behind the last chapter there are none.
LEMMA InOrderFromEnd ==
  ASSUME NEW scripts \in Seq(Seq(AllCommands))
  PROVE  InOrderFrom(scripts, Len(scripts) + 1) = << >>
<1> DEFINE n == Len(scripts)
           none == [l \in 1 .. n - (n + 1) + 1 |-> InOrder(scripts[n + 1 + l - 1])]
<1>1. n \in Nat /\ n - (n + 1) + 1 = 0
      OBVIOUS
<1>2. InOrderFrom(scripts, n + 1) = FlattenSeq(none)
      BY DEF InOrderFrom
<1> HIDE DEF n
<1>3. none = << >>
      <2>1. 1 .. n - (n + 1) + 1 = {}
            BY <1>1
      <2> QED BY <2>1
<1> HIDE DEF none
<1>4. FlattenSeq(<< >>) = << >>
      BY DEF FlattenSeq
<1> QED BY <1>2, <1>3, <1>4 DEF n

-----------------------------------------------------------------------------
(***************************************************************************)
(* The tables                                                              *)
(***************************************************************************)

\* Before the first command there is no entry.
LEMMA GroupedNone == Grouped(<< >>) = << >>
<1>1. << >> \in Seq(AllCommands) /\ Len(<< >>) = 0
      OBVIOUS
<1>2. \A f \in 0 .. FileCount : AssertionsOn(<< >>, f) = << >>
      <2>1. ASSUME NEW f \in 0 .. FileCount PROVE AssertionsOn(<< >>, f) = << >>
            <3>1. /\ Parts(<< >>, f) \in Seq(Seq(Entries)) /\ Len(Parts(<< >>, f)) = 0
                  /\ AssertionsOn(<< >>, f) = FlattenSeq(Parts(<< >>, f))
                  BY <1>1, PartsType, AssertionsFlatten
            <3>2. \A k \in 1 .. Len(Parts(<< >>, f)) : Parts(<< >>, f)[k] = << >>
                  BY <3>1
            <3> QED BY <3>1, <3>2, FlattenEmpty
      <2> QED BY <2>1
<1>3. \A n \in 1 .. FileCount + 1 : Groups(<< >>)[n] = << >>
      <2>1. \A n \in 1 .. FileCount + 1 : n - 1 \in 0 .. FileCount
            BY DriverAssumption
      <2> QED BY <1>2, <2>1 DEF Groups
<1>4. Groups(<< >>) \in Seq(Seq(Entries)) /\ Len(Groups(<< >>)) = FileCount + 1
      BY <1>1, GroupsType
<1> QED BY <1>3, <1>4, FlattenEmpty DEF Grouped

Sorted(map) == \A k, l \in DOMAIN map : k < l => map[k].file <= map[l].file

\* The entries are in the order of their files.
LEMMA GroupedSorted == ASSUME NEW script \in Seq(AllCommands) PROVE Sorted(Grouped(script))
<1> DEFINE groups == Groups(script)
           n == FileCount + 1
           upTo(m) == FlattenSeq(SubSeq(groups, 1, m))
           Below(m) == { e \in Entries : e.file < m }
           Good == { m \in 0 .. n : upTo(m) \in Seq(Below(m)) /\ Sorted(upTo(m)) }
<1>1. /\ FileCount \in Nat /\ n \in Nat
      /\ groups \in Seq(Seq(Entries)) /\ Len(groups) = n
      /\ \A m \in 1 .. n : groups[m] \in Seq(EntriesOf(m - 1))
      BY GroupsType, DriverAssumption
<1>2. \A e \in Entries : e.file \in Nat
      BY <1>1 DEF Entries
<1> HIDE DEF groups, n
<1>3. 0 \in Good
      <2>1. upTo(0) = << >>
            <3>1. SubSeq(groups, 1, 0) = << >>
                  BY <1>1, SubSeqEmpty
            <3>2. FlattenSeq(<< >>) = << >>
                  BY DEF FlattenSeq
            <3> QED BY <3>1, <3>2
      <2>2. << >> \in Seq(Below(0)) /\ Sorted(<< >>)
            BY DEF Sorted
      <2>3. 0 \in 0 .. n /\ upTo(0) \in Seq(Below(0)) /\ Sorted(upTo(0))
            <3>1. 0 \in 0 .. n
                  BY <1>1
            <3>2. upTo(0) \in Seq(Below(0))
                  BY <2>1, <2>2
            <3>3. Sorted(upTo(0))
                  BY <2>1, <2>2
            <3> QED BY <3>1, <3>2, <3>3
      <2> HIDE DEF Below, upTo
      <2> QED BY <2>3
<1>4. ASSUME NEW m \in 0 .. n - 1, m \in Good PROVE m + 1 \in Good
      <2> DEFINE s == upTo(m)
                 t == groups[m + 1]
                 all == s \o t
      <2>1. m \in Nat /\ m \in 0 .. n /\ m < n /\ m + 1 \in 1 .. n /\ m + 1 \in 0 .. n /\ (m + 1) - 1 = m
            BY <1>1
      <2>2. s \in Seq(Below(m)) /\ Sorted(s)
            BY <1>4
      <2>3. t \in Seq(EntriesOf(m)) /\ t \in Seq(Entries)
            BY <1>1, <2>1, ElementOfSeq
      <2>4. upTo(m + 1) = all
            <3>1. /\ SubSeq(groups, 1, m) \in Seq(Seq(Entries))
                  /\ SubSeq(groups, 1, m + 1) = Append(SubSeq(groups, 1, m), groups[m + 1])
                  BY <1>1, <2>1, Beginning
            <3> QED BY <2>3, <3>1, FlattenAppend
      <2>5. s \in Seq(Below(m + 1)) /\ t \in Seq(Below(m + 1))
            <3>1. Below(m) \subseteq Below(m + 1) /\ EntriesOf(m) \subseteq Below(m + 1)
                  BY <1>2, <2>1 DEF EntriesOf
            <3> HIDE DEF Below, s, t
            <3> QED BY <2>2, <2>3, <3>1, SeqMonotonic
      <2> HIDE DEF s, t, Below
      <2>6. /\ all \in Seq(Below(m + 1)) /\ Len(all) = Len(s) + Len(t)
            /\ DOMAIN all = 1 .. Len(all) /\ Len(s) \in Nat /\ Len(t) \in Nat
            /\ \A k \in 1 .. Len(all) : all[k] = IF k <= Len(s) THEN s[k] ELSE t[k - Len(s)]
            BY <2>5, ConcatProperties, LenProperties
      <2> HIDE DEF all
      <2>7. ASSUME NEW k \in DOMAIN all, k <= Len(s)
            PROVE  k \in DOMAIN s /\ all[k] = s[k] /\ s[k].file \in Nat /\ s[k].file < m
            <3>1. k \in 1 .. Len(s) /\ DOMAIN s = 1 .. Len(s)
                  BY <2>2, <2>6, <2>7
            <3>2. s[k] \in Below(m)
                  BY <2>2, <3>1, ElementOfSeq
            <3> QED BY <1>2, <2>6, <2>7, <3>1, <3>2 DEF Below
      <2>8. ASSUME NEW k \in DOMAIN all, ~(k <= Len(s)) PROVE all[k].file = m
            <3>1. k - Len(s) \in 1 .. Len(t)
                  BY <2>6, <2>8
            <3>2. t[k - Len(s)] \in EntriesOf(m)
                  BY <2>3, <3>1, ElementOfSeq
            <3> QED BY <2>6, <2>8, <3>2 DEF EntriesOf
      <2>9. ASSUME NEW k \in DOMAIN all, NEW l \in DOMAIN all, k < l
            PROVE  all[k].file <= all[l].file
            <3>1. k \in Nat /\ l \in Nat
                  BY <2>6
            <3>2. CASE l <= Len(s)
                  <4>1. k <= Len(s)
                        BY <2>6, <2>9, <3>1, <3>2
                  <4>2. /\ k \in DOMAIN s /\ all[k] = s[k]
                        /\ l \in DOMAIN s /\ all[l] = s[l]
                        BY <2>7, <3>2, <4>1
                  <4>3. s[k].file <= s[l].file
                        BY <2>2, <2>9, <4>2 DEF Sorted
                  <4> QED BY <4>2, <4>3
            <3>3. CASE ~(l <= Len(s))
                  <4>1. all[l].file = m
                        BY <2>8, <3>3
                  <4>2. CASE k <= Len(s)
                        BY <2>1, <2>7, <4>1, <4>2
                  <4>3. CASE ~(k <= Len(s))
                        BY <2>1, <2>8, <4>1, <4>3
                  <4> QED BY <4>2, <4>3
            <3> QED BY <3>2, <3>3
      <2>10. Sorted(all)
             BY <2>9 DEF Sorted
      <2> HIDE DEF upTo
      <2> QED BY <2>1, <2>4, <2>6, <2>10
<1>5. n \in Good
      <2>1. 0 .. n \subseteq Good
            <3> HIDE DEF Good
            <3> QED BY <1>1, <1>3, <1>4, BoundedInduction
      <2> HIDE DEF Good
      <2> QED BY <1>1, <2>1
<1>6. SubSeq(groups, 1, n) = groups
      BY <1>1, SubSeqFull
<1> QED BY <1>5, <1>6 DEF Grouped, groups

-----------------------------------------------------------------------------
(***************************************************************************)
(* The invariant                                                           *)
(***************************************************************************)
Running == {"arguments", "process", "execute", "judge"}

\* Where the driver is in the suite, the script and the entries.
Positioned ==
  /\ suite \in TestSuites /\ chapter \in 1 .. Len(suite)
  /\ step \in Stopped \cup Running \cup {"collect", "parse", "lookup"}
  /\ i \in 1 .. Len(Script) + 1
  /\ judging \in 0 .. Len(command_map) + 1
  /\ judging = 0 => step \in {"collect", "parse", "aborted"}
  /\ judging # 0 => step \notin {"collect", "parse"} /\ i = Len(Script) + 1
  /\ step \in Running => judging <= Len(command_map)
  /\ exceptionThrown \in BOOLEAN

\* The file is that of the position: of the command itself while it is parsed.
Reading ==
  /\ cur_wasm_file \in 0 .. FileCount
  /\ IF step = "parse"
       THEN i <= Len(Script) /\ ~IsAssertion(Script[i]) /\ Script[i].filename = cur_wasm_file
       ELSE step # "aborted" => cur_wasm_file = FileAt(Script, i - 1)

\* The multimap holds the assertions in front of the position, file by file.
Entered ==
  /\ command_map = Grouped(SubSeq(Script, 1, i - 1))
  /\ Len(command_map) < i

\* Parser p holds the tables m; names that were looked up and not found are
\* the index 0, and a function may have its types.
FilledFrom(p, m) ==
  /\ DOMAIN p = DOMAIN EmptyParser
  /\ p.wasmTypeVec = m.wasmTypeVec /\ p.funcTypeVec = m.funcTypeVec
  /\ DOMAIN m.funcNameIndexMapper \subseteq DOMAIN p.funcNameIndexMapper
  /\ \A name \in DOMAIN p.funcNameIndexMapper :
       p.funcNameIndexMapper[name] = IF name \in DOMAIN m.funcNameIndexMapper
                                       THEN m.funcNameIndexMapper[name] ELSE 0
  /\ DOMAIN p.wasmFunctionVec = 1 .. Len(m.wasmFunctionVec)
  /\ \A k \in 1 .. Len(m.wasmFunctionVec) :
       /\ p.wasmFunctionVec[k].code_vec = m.wasmFunctionVec[k].code_vec
       /\ p.wasmFunctionVec[k].local_var_declare_count = m.wasmFunctionVec[k].local_var_declare_count

\* Every parser holds the tables of its file.
Filled ==
  step \notin Stopped =>
    \A f \in DOMAIN parser_map :
      /\ f \in 1 .. FileCount
      /\ (step = "parse" /\ f = cur_wasm_file) \/ FilledFrom(parser_map[f], Modules[f])

FunctionWith(m, index, params) ==
  [code_vec |-> m.wasmFunctionVec[index + 1].code_vec,
   local_var_declare_count |-> m.wasmFunctionVec[index + 1].local_var_declare_count,
   param_data |-> params,
   result_data |-> SignatureOf(m, index).results]

Given(args, types) ==
  [k \in DOMAIN types |-> Argument(args, k, [type |-> types[k], value |-> 0])]

\* The function at work is the one asked for, with its types, and with its
\* arguments once they are set.
Calling ==
  step \in Running =>
    LET m == Modules[File]
        types == SignatureOf(m, function_index).params
    IN /\ File \in DOMAIN parser_map
       /\ function_index = IF Command.field \in DOMAIN m.funcNameIndexMapper
                             THEN m.funcNameIndexMapper[Command.field] ELSE 0
       /\ HasFunction(m, function_index)
       /\ CurFunction = FunctionWith(m, function_index,
                          IF step = "arguments" THEN Zero(types) ELSE Given(Command.args, types))

DriverInv == Positioned /\ Reading /\ Entered /\ Filled /\ Calling

\* The suite is a sequence of scripts, and the chapter one of them.
LEMMA SuiteTyped ==
  ASSUME suite \in TestSuites, chapter \in 1 .. Len(suite)
  PROVE  /\ suite \in Seq(Seq(AllCommands)) /\ Len(suite) \in Nat
         /\ Script \in Seq(AllCommands) /\ Len(Script) \in Nat
<1>1. suite \in Seq(Seq(AllCommands))
      BY ScriptsAssumption
<1>2. Script \in Seq(AllCommands)
      BY <1>1, ElementOfSeq DEF Script
<1> QED BY <1>1, <1>2

\* The entries are assertions of the script, sorted by file.
LEMMA EntriesTyped ==
  ASSUME Positioned, Entered
  PROVE  /\ command_map \in Seq(Entries) /\ Len(command_map) \in Nat
         /\ DOMAIN command_map = 1 .. Len(command_map) /\ Sorted(command_map)
<1>1. Script \in Seq(AllCommands) /\ i - 1 \in 0 .. Len(Script)
      BY SuiteTyped DEF Positioned
<1>2. SubSeq(Script, 1, i - 1) \in Seq(AllCommands)
      BY <1>1, Beginning
<1>3. command_map \in Seq(Entries) /\ Sorted(command_map)
      BY <1>2, InOrderGrouped, GroupedSorted DEF Entered
<1> QED BY <1>3

\* The command at the position is a module or an assertion.
LEMMA CommandAt ==
  ASSUME Positioned, i <= Len(Script)
  PROVE  /\ i \in 1 .. Len(Script) /\ Script[i] \in AllCommands
         /\ i + 1 \in 1 .. Len(Script) + 1 /\ (i + 1) - 1 = i
         /\ "filename" \in DOMAIN Script[i] => ~IsAssertion(Script[i])
         /\ "field" \in DOMAIN Script[i] => IsAssertion(Script[i])
         /\ ~IsAssertion(Script[i]) => Script[i].filename \in 1 .. FileCount
<1>1. i \in 1 .. Len(Script) /\ i + 1 \in 1 .. Len(Script) + 1 /\ (i + 1) - 1 = i
      BY SuiteTyped DEF Positioned
<1>2. Script[i] \in AllCommands
      BY <1>1, SuiteTyped, ElementOfSeq DEF Positioned
<1> QED BY <1>1, <1>2, ScriptsAssumption

\* The entry that is judged.
LEMMA EntryAt ==
  ASSUME Positioned, Entered, judging # 0, judging <= Len(command_map)
  PROVE  /\ judging \in 1 .. Len(command_map)
         /\ File \in 0 .. FileCount /\ Command \in Assertions
         /\ command_map[judging] = [file |-> File, command |-> Command]
<1>1. judging \in 1 .. Len(command_map)
      BY EntriesTyped DEF Positioned
<1>2. command_map[judging] \in Entries
      BY <1>1, EntriesTyped, ElementOfSeq
<1> QED BY <1>1, <1>2 DEF Entries, File, Command

\* The tables the parser leaves are filled from themselves.
LEMMA FilledByItself ==
  ASSUME NEW f \in 1 .. FileCount PROVE FilledFrom(Modules[f], Modules[f])
BY ModulesAssumption DEF FilledFrom

\* The driver begins in its invariant.
LEMMA InvInit == DriverInit => DriverInv
<1> SUFFICES ASSUME DriverInit PROVE DriverInv
    OBVIOUS
<1>1. suite \in TestSuites /\ suite # << >> /\ suite \in Seq(Seq(AllCommands))
      BY ScriptsAssumption DEF DriverInit
<1>2. chapter \in 1 .. Len(suite)
      BY <1>1 DEF DriverInit
<1>3. Script \in Seq(AllCommands) /\ Len(Script) \in Nat
      BY <1>1, <1>2, SuiteTyped
<1>4. SubSeq(Script, 1, 0) = << >> /\ FileAt(Script, 0) = 0
      BY <1>3, SubSeqEmpty, FileAtStep
<1>5. /\ step = "collect" /\ i = 1 /\ cur_wasm_file = 0 /\ parser_map = << >>
      /\ command_map = << >> /\ judging = 0 /\ exceptionThrown = FALSE
      BY DEF DriverInit
<1>6. Positioned
      <2>1. i \in 1 .. Len(Script) + 1
            BY <1>3, <1>5
      <2>2. judging \in 0 .. Len(command_map) + 1
            <3>1. Len(<< >>) = 0
                  OBVIOUS
            <3> QED BY <1>5, <3>1
      <2>3. step \notin Running
            BY <1>5 DEF Running
      <2> QED BY <1>1, <1>2, <1>5, <2>1, <2>2, <2>3 DEF Positioned
<1>7. Reading
      BY <1>4, <1>5, DriverAssumption DEF Reading
<1>8. Entered
      <2>1. i - 1 = 0 /\ Len(<< >>) < 1
            BY <1>5
      <2> QED BY <1>4, <1>5, <2>1, GroupedNone DEF Entered
<1>9. Filled
      BY <1>5 DEF Filled
<1>10. Calling
       BY <1>5 DEF Calling, Running
<1> QED BY <1>6, <1>7, <1>8, <1>9, <1>10 DEF DriverInv

\* A program that stops keeps what it had.
LEMMA StopsKeep ==
  ASSUME DriverInv, NEW how \in Stopped, DriverStops(how),
         step \notin Stopped, judging # 0 \/ how = "aborted"
  PROVE  DriverInv'
<1>1. /\ suite' = suite /\ chapter' = chapter /\ Script' = Script /\ i' = i
      /\ cur_wasm_file' = cur_wasm_file /\ command_map' = command_map
      /\ judging' = judging /\ exceptionThrown' = exceptionThrown /\ step' = how
      BY DEF DriverStops, locals, Script
<1>2. how \notin Running /\ how \notin {"collect", "parse"}
      BY DEF Stopped, Running
<1>3. Positioned'
      BY <1>1, <1>2 DEF DriverInv, Positioned
<1>4. Reading'
      BY <1>1, <1>2 DEF DriverInv, Reading, Positioned, Stopped
<1>5. Entered'
      BY <1>1 DEF DriverInv, Entered
<1>6. Filled'
      BY <1>1 DEF Filled
<1>7. Calling'
      BY <1>1, <1>2 DEF Calling
<1> QED BY <1>3, <1>4, <1>5, <1>6, <1>7 DEF DriverInv

\* A file is opened,
LEMMA NewFileKeeps == ASSUME DriverInv, NewFile PROVE DriverInv'
<1>1. /\ suite' = suite /\ chapter' = chapter /\ Script' = Script /\ i' = i
      /\ command_map' = command_map /\ judging' = judging
      /\ exceptionThrown' = exceptionThrown /\ step' = "parse"
      /\ cur_wasm_file' = Script[i].filename
      /\ parser_map' = Update(parser_map, cur_wasm_file', EmptyParser)
      BY DEF NewFile, Script
<1>2. step = "collect" /\ i <= Len(Script) /\ ~IsAssertion(Script[i])
      /\ Script[i].filename \in 1 .. FileCount
      BY CommandAt DEF NewFile, HasFilename, Collecting, DriverInv
<1>3. Positioned'
      BY <1>1, <1>2 DEF DriverInv, Positioned, Running
<1>4. Reading'
      BY <1>1, <1>2, DriverAssumption DEF DriverInv, Reading
<1>5. Entered'
      BY <1>1 DEF DriverInv, Entered
<1>6. Filled'
      <2>1. /\ DOMAIN parser_map' = DOMAIN parser_map \cup {cur_wasm_file'}
            /\ \A f \in DOMAIN parser_map :
                 f # cur_wasm_file' => parser_map'[f] = parser_map[f]
            BY <1>1 DEF Update
      <2> SUFFICES ASSUME NEW f \in DOMAIN parser_map'
                   PROVE  /\ f \in 1 .. FileCount
                          /\ f = cur_wasm_file' \/ FilledFrom(parser_map'[f], Modules[f])
          BY <1>1 DEF Filled
      <2>2. CASE f = cur_wasm_file'
            BY <1>1, <1>2, <2>2
      <2>3. CASE f # cur_wasm_file'
            <3>1. f \in DOMAIN parser_map /\ parser_map'[f] = parser_map[f]
                  BY <2>1, <2>3
            <3> QED BY <1>2, <3>1 DEF DriverInv, Filled, Stopped
      <2> QED BY <2>2, <2>3
<1>7. Calling'
      BY <1>1 DEF Calling, Running
<1> QED BY <1>3, <1>4, <1>5, <1>6, <1>7 DEF DriverInv

\* or known;
LEMMA KnownFileKeeps == ASSUME DriverInv, KnownFile PROVE DriverInv'
<1>1. /\ suite' = suite /\ chapter' = chapter /\ Script' = Script /\ i' = i + 1
      /\ command_map' = command_map /\ judging' = judging
      /\ exceptionThrown' = exceptionThrown /\ step' = step
      /\ cur_wasm_file' = Script[i].filename /\ parser_map' = parser_map
      BY DEF KnownFile, Script
<1>2. /\ step = "collect" /\ i <= Len(Script) /\ ~IsAssertion(Script[i])
      /\ Script[i].filename \in 1 .. FileCount
      /\ i \in 1 .. Len(Script) /\ i + 1 \in 1 .. Len(Script) + 1 /\ (i + 1) - 1 = i
      BY CommandAt DEF KnownFile, HasFilename, Collecting, DriverInv
<1>3. Script \in Seq(AllCommands)
      BY SuiteTyped DEF DriverInv, Positioned
<1>4. judging = 0
      BY <1>2 DEF DriverInv, Positioned
<1>5. Positioned'
      BY <1>1, <1>2, <1>4 DEF DriverInv, Positioned, Running
<1>6. Reading'
      <2>1. FileAt(Script, i) = Script[i].filename
            BY <1>2, <1>3, FileAtStep
      <2> QED BY <1>1, <1>2, <2>1, DriverAssumption DEF Reading
<1>7. Entered'
      <2>1. Grouped(SubSeq(Script, 1, i)) = Grouped(SubSeq(Script, 1, i - 1))
            BY <1>2, <1>3, GroupedStays
      <2>2. Len(command_map) < i + 1
            BY <1>2, EntriesTyped DEF DriverInv, Entered
      <2> QED BY <1>1, <1>2, <2>1, <2>2 DEF DriverInv, Entered
<1>8. Filled'
      BY <1>1, <1>2 DEF DriverInv, Filled
<1>9. Calling'
      BY <1>1, <1>2 DEF Calling, Running
<1> QED BY <1>5, <1>6, <1>7, <1>8, <1>9 DEF DriverInv

\* its tables come back;
LEMMA ParsedKeeps == ASSUME DriverInv, Parsed(Modules[cur_wasm_file]) PROVE DriverInv'
<1>1. /\ suite' = suite /\ chapter' = chapter /\ Script' = Script /\ i' = i + 1
      /\ command_map' = command_map /\ judging' = judging
      /\ exceptionThrown' = exceptionThrown /\ step = "parse" /\ step' = "collect"
      /\ cur_wasm_file' = cur_wasm_file
      /\ parser_map' = Update(parser_map, cur_wasm_file, Modules[cur_wasm_file])
      BY DEF Parsed, Script
<1>2. /\ i <= Len(Script) /\ ~IsAssertion(Script[i]) /\ Script[i].filename = cur_wasm_file
      /\ i \in 1 .. Len(Script) /\ i + 1 \in 1 .. Len(Script) + 1 /\ (i + 1) - 1 = i
      /\ cur_wasm_file \in 1 .. FileCount
      BY <1>1, CommandAt DEF DriverInv, Reading
<1>3. Script \in Seq(AllCommands)
      BY SuiteTyped DEF DriverInv, Positioned
<1>4. judging = 0
      BY <1>1 DEF DriverInv, Positioned
<1>5. Positioned'
      BY <1>1, <1>2, <1>4 DEF DriverInv, Positioned, Running
<1>6. Reading'
      <2>1. FileAt(Script, i) = cur_wasm_file
            BY <1>2, <1>3, FileAtStep
      <2> QED BY <1>1, <1>2, <2>1, DriverAssumption DEF Reading
<1>7. Entered'
      <2>1. Grouped(SubSeq(Script, 1, i)) = Grouped(SubSeq(Script, 1, i - 1))
            BY <1>2, <1>3, GroupedStays
      <2>2. Len(command_map) < i + 1
            BY <1>2, EntriesTyped DEF DriverInv, Entered
      <2> QED BY <1>1, <1>2, <2>1, <2>2 DEF DriverInv, Entered
<1>8. Filled'
      <2>1. /\ DOMAIN parser_map' = DOMAIN parser_map \cup {cur_wasm_file}
            /\ parser_map'[cur_wasm_file] = Modules[cur_wasm_file]
            /\ \A f \in DOMAIN parser_map :
                 f # cur_wasm_file => parser_map'[f] = parser_map[f]
            BY <1>1 DEF Update
      <2> SUFFICES ASSUME NEW f \in DOMAIN parser_map'
                   PROVE  f \in 1 .. FileCount /\ FilledFrom(parser_map'[f], Modules[f])
          BY <1>1 DEF Filled
      <2>2. CASE f = cur_wasm_file
            BY <1>2, <2>1, <2>2, FilledByItself
      <2>3. CASE f # cur_wasm_file
            <3>1. f \in DOMAIN parser_map /\ parser_map'[f] = parser_map[f]
                  BY <2>1, <2>3
            <3> QED BY <1>1, <2>3, <3>1 DEF DriverInv, Filled, Stopped
      <2> QED BY <2>2, <2>3
<1>9. Calling'
      BY <1>1 DEF Calling, Running
<1> QED BY <1>5, <1>6, <1>7, <1>8, <1>9 DEF DriverInv

\* an assertion is entered;
LEMMA CollectActionKeeps == ASSUME DriverInv, CollectAction PROVE DriverInv'
<1>1. /\ suite' = suite /\ chapter' = chapter /\ Script' = Script /\ i' = i + 1
      /\ judging' = judging /\ exceptionThrown' = exceptionThrown /\ step' = step
      /\ cur_wasm_file' = cur_wasm_file /\ parser_map' = parser_map
      /\ command_map' = InsertCommand(command_map,
                          [file |-> cur_wasm_file, command |-> Script[i]])
      BY DEF CollectAction, Script
<1>2. /\ step = "collect" /\ i <= Len(Script) /\ IsAssertion(Script[i])
      /\ i \in 1 .. Len(Script) /\ i + 1 \in 1 .. Len(Script) + 1 /\ (i + 1) - 1 = i
      BY CommandAt DEF CollectAction, Collecting, DriverInv
<1>3. Script \in Seq(AllCommands)
      BY SuiteTyped DEF DriverInv, Positioned
<1>4. judging = 0 /\ cur_wasm_file = FileAt(Script, i - 1)
      BY <1>2 DEF DriverInv, Positioned, Reading
<1>5. /\ command_map' = Grouped(SubSeq(Script, 1, i))
      /\ Len(command_map') = Len(command_map) + 1
      BY <1>1, <1>2, <1>3, <1>4, GroupedGrows DEF DriverInv, Entered
<1>6. Len(command_map) \in Nat /\ Len(command_map) < i
      BY EntriesTyped DEF DriverInv, Entered
<1>7. Positioned'
      <2>1. judging' \in 0 .. Len(command_map') + 1
            BY <1>1, <1>4, <1>5, <1>6
      <2> QED BY <1>1, <1>2, <1>4, <2>1 DEF DriverInv, Positioned, Running
<1>8. Reading'
      <2>1. FileAt(Script, i) = cur_wasm_file
            BY <1>2, <1>3, <1>4, FileAtStep
      <2> QED BY <1>1, <1>2, <2>1 DEF DriverInv, Reading
<1>9. Entered'
      BY <1>1, <1>2, <1>5, <1>6 DEF Entered
<1>10. Filled'
       BY <1>1, <1>2 DEF DriverInv, Filled
<1>11. Calling'
       BY <1>1, <1>2 DEF Calling, Running
<1> QED BY <1>7, <1>8, <1>9, <1>10, <1>11 DEF DriverInv

\* and the last command is behind.
LEMMA CollectedKeeps == ASSUME DriverInv, Collected PROVE DriverInv'
<1>1. /\ suite' = suite /\ chapter' = chapter /\ Script' = Script /\ i' = i
      /\ judging' = 1 /\ exceptionThrown' = exceptionThrown
      /\ step = "collect" /\ step' = "lookup" /\ i > Len(Script)
      /\ cur_wasm_file' = cur_wasm_file /\ parser_map' = parser_map
      /\ command_map' = command_map
      BY DEF Collected, Script
<1>2. i = Len(Script) + 1
      BY <1>1, SuiteTyped DEF DriverInv, Positioned
<1>3. 1 \in 0 .. Len(command_map) + 1
      BY EntriesTyped DEF DriverInv
<1>4. Positioned'
      BY <1>1, <1>2, <1>3 DEF DriverInv, Positioned, Running
<1>5. Reading'
      BY <1>1 DEF DriverInv, Reading
<1>6. Entered'
      BY <1>1 DEF DriverInv, Entered
<1>7. Filled'
      BY <1>1 DEF DriverInv, Filled, Stopped
<1>8. Calling'
      BY <1>1 DEF Calling, Running
<1> QED BY <1>4, <1>5, <1>6, <1>7, <1>8 DEF DriverInv

\* What a lookup leaves: the tables of the file, and the function asked for
\* with the types of its signature.
LEMMA LookupFills ==
  ASSUME NEW f \in 1 .. FileCount, NEW p, FilledFrom(p, Modules[f]), NEW name, NEW index, NEW q,
         index = IF name \in DOMAIN p.funcNameIndexMapper THEN p.funcNameIndexMapper[name] ELSE 0,
         q = [p EXCEPT !.funcNameIndexMapper = Update(@, name, index)],
         HasFunction(q, index)
  PROVE  /\ index = IF name \in DOMAIN Modules[f].funcNameIndexMapper
                      THEN Modules[f].funcNameIndexMapper[name] ELSE 0
         /\ HasFunction(Modules[f], index)
         /\ FilledFrom(FunctionTypes(q, index), Modules[f])
         /\ FunctionTypes(q, index).wasmFunctionVec[index + 1]
              = FunctionWith(Modules[f], index, Zero(SignatureOf(Modules[f], index).params))
<1> DEFINE m == Modules[f]
           n == Len(m.wasmFunctionVec)
           named == Update(p.funcNameIndexMapper, name, index)
           filled == [p.wasmFunctionVec EXCEPT ![index + 1] =
                        FunctionWith(m, index, Zero(SignatureOf(m, index).params))]
           r == FunctionTypes(q, index)
<1>1. /\ n \in Nat /\ m.wasmTypeVec \in Seq([params : Seq(WasmType), results : Seq(WasmType)])
      /\ \A other \in DOMAIN m.funcNameIndexMapper : m.funcNameIndexMapper[other] \in Nat
      <2>1. /\ m.wasmTypeVec \in Seq([params : Seq(WasmType), results : Seq(WasmType)])
            /\ m.wasmFunctionVec \in Seq([code_vec : DOMAIN Answers, local_var_declare_count : Nat])
            BY ModulesAssumption
      <2>2. \A other \in DOMAIN m.funcNameIndexMapper : m.funcNameIndexMapper[other] \in Nat
            BY ModulesAssumption
      <2>3. n \in Nat
            BY <2>1
      <2> QED BY <2>1, <2>2, <2>3
<1>2. /\ DOMAIN p = {"wasmTypeVec", "funcTypeVec", "funcNameIndexMapper", "wasmFunctionVec"}
      /\ p.wasmTypeVec = m.wasmTypeVec /\ p.funcTypeVec = m.funcTypeVec
      /\ DOMAIN m.funcNameIndexMapper \subseteq DOMAIN p.funcNameIndexMapper
      /\ \A other \in DOMAIN p.funcNameIndexMapper :
           p.funcNameIndexMapper[other] = IF other \in DOMAIN m.funcNameIndexMapper
                                            THEN m.funcNameIndexMapper[other] ELSE 0
      /\ DOMAIN p.wasmFunctionVec = 1 .. n
      /\ \A k \in 1 .. n :
           /\ p.wasmFunctionVec[k].code_vec = m.wasmFunctionVec[k].code_vec
           /\ p.wasmFunctionVec[k].local_var_declare_count = m.wasmFunctionVec[k].local_var_declare_count
      BY DEF FilledFrom, EmptyParser
<1>3. index = IF name \in DOMAIN m.funcNameIndexMapper THEN m.funcNameIndexMapper[name] ELSE 0
      BY <1>2
<1>4. index \in Nat
      BY <1>1, <1>3
<1>5. /\ DOMAIN q = DOMAIN p /\ q.wasmTypeVec = m.wasmTypeVec /\ q.funcTypeVec = m.funcTypeVec
      /\ q.wasmFunctionVec = p.wasmFunctionVec /\ q.funcNameIndexMapper = named
      BY <1>2
<1>6. Len(p.wasmFunctionVec) = n
      BY <1>1, <1>2
<1>7. HasFunction(m, index)
      BY <1>5, <1>6 DEF HasFunction
<1>8. index + 1 \in 1 .. n
      BY <1>1, <1>4, <1>7 DEF HasFunction
<1>9. /\ DOMAIN r = DOMAIN p /\ r.wasmTypeVec = m.wasmTypeVec /\ r.funcTypeVec = m.funcTypeVec
      /\ r.funcNameIndexMapper = named /\ r.wasmFunctionVec = filled
      <2>1. [code_vec |-> p.wasmFunctionVec[index + 1].code_vec,
             local_var_declare_count |-> p.wasmFunctionVec[index + 1].local_var_declare_count,
             param_data |-> Zero(m.wasmTypeVec[m.funcTypeVec[index + 1] + 1].params),
             result_data |-> m.wasmTypeVec[m.funcTypeVec[index + 1] + 1].results]
            = FunctionWith(m, index, Zero(SignatureOf(m, index).params))
            BY <1>2, <1>8 DEF FunctionWith, SignatureOf
      <2>2. r = [q EXCEPT !.wasmFunctionVec = filled]
            BY <1>5, <2>1 DEF FunctionTypes, InitFunctionByType
      <2> HIDE DEF filled, r, named
      <2> QED BY <1>2, <1>5, <2>2
<1>10. /\ DOMAIN filled = 1 .. n
       /\ filled[index + 1] = FunctionWith(m, index, Zero(SignatureOf(m, index).params))
       /\ \A k \in 1 .. n : k # index + 1 => filled[k] = p.wasmFunctionVec[k]
       BY <1>2, <1>8
<1>11. \A k \in 1 .. n :
         /\ filled[k].code_vec = m.wasmFunctionVec[k].code_vec
         /\ filled[k].local_var_declare_count = m.wasmFunctionVec[k].local_var_declare_count
       <2> HIDE DEF filled
       <2> QED BY <1>2, <1>10 DEF FunctionWith
<1>12. /\ DOMAIN named = DOMAIN p.funcNameIndexMapper \cup {name}
       /\ \A other \in DOMAIN named :
            named[other] = IF other \in DOMAIN m.funcNameIndexMapper
                             THEN m.funcNameIndexMapper[other] ELSE 0
       BY <1>2, <1>3 DEF Update
<1> HIDE DEF named, filled, r
<1>13. FilledFrom(r, m)
       BY <1>2, <1>9, <1>10, <1>11, <1>12 DEF FilledFrom, EmptyParser
<1> QED BY <1>3, <1>7, <1>9, <1>10, <1>13 DEF r

\* The function is looked up;
LEMMA LookupKeeps == ASSUME DriverInv, Lookup PROVE DriverInv'
<1> DEFINE found == IF File \in DOMAIN parser_map THEN parser_map[File] ELSE EmptyParser
           index == IF Command.field \in DOMAIN found.funcNameIndexMapper
                      THEN found.funcNameIndexMapper[Command.field] ELSE 0
           parser == [found EXCEPT !.funcNameIndexMapper = Update(@, Command.field, index)]
<1>1. step = "lookup" /\ judging <= Len(command_map)
      BY DEF Lookup
<1>2. judging # 0
      BY <1>1 DEF DriverInv, Positioned
<1>3. CASE ~HasFunction(parser, index)
      <2>1. DriverStops("undefined")
            BY <1>3 DEF Lookup
      <2>2. "undefined" \in Stopped /\ step \notin Stopped
            BY <1>1 DEF Stopped
      <2> QED BY <1>2, <2>1, <2>2, StopsKeep
<1>4. CASE HasFunction(parser, index)
      <2>1. /\ function_index' = index
            /\ parser_map' = Update(parser_map, File, FunctionTypes(parser, index))
            /\ step' = "arguments"
            /\ UNCHANGED << suite, chapter, i, cur_wasm_file, command_map, judging, ans,
                            exceptionThrown >>
            BY <1>4 DEF Lookup
      <2>2. /\ Script' = Script /\ File' = File /\ Command' = Command
            BY <2>1 DEF Script, File, Command
      <2>3. File \in DOMAIN parser_map
            <3> SUFFICES ASSUME File \notin DOMAIN parser_map PROVE FALSE
                OBVIOUS
            <3>1. found = EmptyParser /\ index = 0
                  BY DEF EmptyParser
            <3>2. parser.funcTypeVec = << >>
                  BY <3>1 DEF EmptyParser
            <3>3. ~(0 < Len(<< >>))
                  OBVIOUS
            <3> QED BY <1>4, <3>1, <3>2, <3>3 DEF HasFunction
      <2>4. File \in 1 .. FileCount /\ FilledFrom(parser_map[File], Modules[File])
            BY <1>1, <2>3 DEF DriverInv, Filled, Stopped
      <2>5. found = parser_map[File]
            BY <2>3
      <2>6. /\ index = IF Command.field \in DOMAIN Modules[File].funcNameIndexMapper
                         THEN Modules[File].funcNameIndexMapper[Command.field] ELSE 0
            /\ HasFunction(Modules[File], index)
            /\ FilledFrom(FunctionTypes(parser, index), Modules[File])
            /\ FunctionTypes(parser, index).wasmFunctionVec[index + 1]
                 = FunctionWith(Modules[File], index, Zero(SignatureOf(Modules[File], index).params))
            <3> HIDE DEF parser, index, found
            <3>1. parser = [found EXCEPT !.funcNameIndexMapper = Update(@, Command.field, index)]
                  BY DEF parser
            <3>2. index = IF Command.field \in DOMAIN found.funcNameIndexMapper
                            THEN found.funcNameIndexMapper[Command.field] ELSE 0
                  BY DEF index
            <3>3. FilledFrom(found, Modules[File])
                  BY <2>4, <2>5
            <3> QED BY <1>4, <2>4, <3>1, <3>2, <3>3, LookupFills
      <2> HIDE DEF parser, index, found
      <2>7. /\ DOMAIN parser_map' = DOMAIN parser_map
            /\ parser_map'[File] = FunctionTypes(parser, index)
            /\ \A f \in DOMAIN parser_map : f # File => parser_map'[f] = parser_map[f]
            BY <2>1, <2>3 DEF Update
      <2>8. Positioned'
            BY <1>1, <1>2, <2>1, <2>2 DEF DriverInv, Positioned, Running
      <2>9. Reading'
            BY <1>1, <2>1, <2>2 DEF DriverInv, Reading
      <2>10. Entered'
             BY <2>1, <2>2 DEF DriverInv, Entered
      <2>11. Filled'
             <3> SUFFICES ASSUME NEW f \in DOMAIN parser_map'
                          PROVE  f \in 1 .. FileCount /\ FilledFrom(parser_map'[f], Modules[f])
                 BY <2>1 DEF Filled
             <3>1. CASE f = File
                   BY <2>4, <2>6, <2>7, <3>1
             <3>2. CASE f # File
                   BY <1>1, <2>7, <3>2 DEF DriverInv, Filled, Stopped
             <3> QED BY <3>1, <3>2
      <2>12. CurFunction' = FunctionTypes(parser, index).wasmFunctionVec[index + 1]
             BY <2>1, <2>2, <2>7 DEF CurFunction
      <2>13. Calling'
             BY <2>1, <2>2, <2>3, <2>6, <2>7, <2>12 DEF Calling
      <2> QED BY <2>8, <2>9, <2>10, <2>11, <2>13 DEF DriverInv
<1> QED BY <1>3, <1>4

\* the arguments are set;
LEMMA SetArgumentsKeeps == ASSUME DriverInv, SetArguments PROVE DriverInv'
<1> DEFINE m == Modules[File]
           types == SignatureOf(m, function_index).params
           k == function_index + 1
           p == parser_map[File]
           n == Len(m.wasmFunctionVec)
           params == [l \in DOMAIN CurFunction.param_data |->
                        Argument(Command.args, l, CurFunction.param_data[l])]
           vec == [p.wasmFunctionVec EXCEPT ![k] = [CurFunction EXCEPT !.param_data = params]]
<1>1. /\ step = "arguments" /\ step' = "process"
      /\ parser_map' = [parser_map EXCEPT ![File] = [p EXCEPT !.wasmFunctionVec = vec]]
      /\ UNCHANGED << suite, chapter, i, cur_wasm_file, command_map, judging,
                      function_index, ans, exceptionThrown >>
      BY DEF SetArguments, CurFunction
<1>2. Script' = Script /\ File' = File /\ Command' = Command
      BY <1>1 DEF Script, File, Command
<1>3. /\ File \in DOMAIN parser_map /\ HasFunction(m, function_index)
      /\ function_index = IF Command.field \in DOMAIN m.funcNameIndexMapper
                            THEN m.funcNameIndexMapper[Command.field] ELSE 0
      /\ CurFunction = FunctionWith(m, function_index, Zero(types))
      BY <1>1 DEF DriverInv, Calling, Running
<1>4. File \in 1 .. FileCount /\ FilledFrom(p, m)
      BY <1>1, <1>3 DEF DriverInv, Filled, Stopped
<1>5. k \in 1 .. n
      <2>1. /\ m.wasmFunctionVec \in Seq([code_vec : DOMAIN Answers, local_var_declare_count : Nat])
            /\ \A name \in DOMAIN m.funcNameIndexMapper : m.funcNameIndexMapper[name] \in Nat
            BY <1>4, ModulesAssumption
      <2>2. n \in Nat /\ function_index \in Nat
            BY <1>3, <2>1
      <2> QED BY <1>3, <2>2 DEF HasFunction
<1>6. [CurFunction EXCEPT !.param_data = params]
        = FunctionWith(m, function_index, Given(Command.args, types))
      <2>1. CurFunction.param_data = Zero(types)
            BY <1>3 DEF FunctionWith
      <2>2. /\ DOMAIN Zero(types) = DOMAIN types
            /\ \A l \in DOMAIN types : Zero(types)[l] = [type |-> types[l], value |-> 0]
            BY DEF Zero
      <2>3. params = Given(Command.args, types)
            <3> HIDE DEF types
            <3> QED BY <2>1, <2>2 DEF Given
      <2>4. ASSUME NEW code, NEW count, NEW old, NEW new, NEW results
            PROVE  [[code_vec |-> code, local_var_declare_count |-> count,
                     param_data |-> old, result_data |-> results] EXCEPT !.param_data = new]
                   = [code_vec |-> code, local_var_declare_count |-> count,
                      param_data |-> new, result_data |-> results]
            OBVIOUS
      <2>5. \A new : [CurFunction EXCEPT !.param_data = new] = FunctionWith(m, function_index, new)
            <3> HIDE DEF types, m, params, k
            <3> QED BY <1>3, <2>4 DEF FunctionWith
      <2> HIDE DEF params, types
      <2> QED BY <2>3, <2>5
<1>7. /\ DOMAIN p = DOMAIN EmptyParser /\ DOMAIN p.wasmFunctionVec = 1 .. n
      /\ "wasmFunctionVec" \in DOMAIN p
      BY <1>4 DEF FilledFrom, EmptyParser
<1>8. /\ DOMAIN vec = 1 .. n
      /\ vec[k] = FunctionWith(m, function_index, Given(Command.args, types))
      /\ \A l \in 1 .. n : l # k => vec[l] = p.wasmFunctionVec[l]
      <2> HIDE DEF k, n, params, types
      <2> QED BY <1>5, <1>6, <1>7
<1> HIDE DEF vec, params
<1>9. FilledFrom([p EXCEPT !.wasmFunctionVec = vec], m)
      <2> DEFINE q == [p EXCEPT !.wasmFunctionVec = vec]
      <2>1. /\ DOMAIN q = DOMAIN p /\ q.wasmFunctionVec = vec
            /\ q.wasmTypeVec = p.wasmTypeVec /\ q.funcTypeVec = p.funcTypeVec
            /\ q.funcNameIndexMapper = p.funcNameIndexMapper
            BY <1>7
      <2>2. ASSUME NEW l \in 1 .. n
            PROVE  /\ vec[l].code_vec = m.wasmFunctionVec[l].code_vec
                   /\ vec[l].local_var_declare_count = m.wasmFunctionVec[l].local_var_declare_count
            <3>1. CASE l = k
                  BY <1>8, <3>1 DEF FunctionWith
            <3>2. CASE l # k
                  BY <1>4, <1>8, <3>2 DEF FilledFrom
            <3> QED BY <3>1, <3>2
      <2> HIDE DEF q, m, p
      <2> QED BY <1>4, <1>8, <2>1, <2>2 DEF FilledFrom, q
<1>10. /\ DOMAIN parser_map' = DOMAIN parser_map
       /\ parser_map'[File] = [p EXCEPT !.wasmFunctionVec = vec]
       /\ \A f \in DOMAIN parser_map : f # File => parser_map'[f] = parser_map[f]
       BY <1>1, <1>3 DEF vec, params
<1>11. Positioned'
       BY <1>1, <1>2 DEF DriverInv, Positioned, Running
<1>12. Reading'
       BY <1>1, <1>2 DEF DriverInv, Reading
<1>13. Entered'
       BY <1>1, <1>2 DEF DriverInv, Entered
<1>14. Filled'
       <2> SUFFICES ASSUME NEW f \in DOMAIN parser_map'
                    PROVE  f \in 1 .. FileCount /\ FilledFrom(parser_map'[f], Modules[f])
           BY <1>1 DEF Filled
       <2>1. CASE f = File
             BY <1>4, <1>9, <1>10, <2>1
       <2>2. CASE f # File
             BY <1>1, <1>10, <2>2 DEF DriverInv, Filled, Stopped
       <2> QED BY <2>1, <2>2
<1>15. CurFunction' = FunctionWith(m, function_index, Given(Command.args, types))
       <2>1. [p EXCEPT !.wasmFunctionVec = vec].wasmFunctionVec = vec
             BY <1>7
       <2>2. CurFunction' = parser_map'[File].wasmFunctionVec[k]
             BY <1>1, <1>2 DEF CurFunction
       <2> QED BY <1>8, <1>10, <2>1, <2>2
<1>16. Calling'
       BY <1>1, <1>2, <1>3, <1>10, <1>15 DEF Calling
<1> QED BY <1>11, <1>12, <1>13, <1>14, <1>16 DEF DriverInv

\* A step behind the lookup that leaves the tables alone.
LEMMA StepsKeep ==
  ASSUME DriverInv, step \in Running \ {"arguments"}, step' \in Running \ {"arguments"},
         exceptionThrown' \in BOOLEAN,
         UNCHANGED << suite, chapter, i, cur_wasm_file, parser_map, command_map, judging,
                      function_index >>
  PROVE  DriverInv'
<1>1. Script' = Script /\ File' = File /\ Command' = Command /\ CurFunction' = CurFunction
      BY DEF Script, File, Command, CurFunction
<1>2. Positioned'
      BY <1>1 DEF DriverInv, Positioned, Running
<1>3. Reading'
      BY <1>1 DEF DriverInv, Reading, Running
<1>4. Entered'
      BY <1>1 DEF DriverInv, Entered
<1>5. Filled'
      BY DEF DriverInv, Filled, Running, Stopped
<1>6. Calling'
      BY <1>1 DEF DriverInv, Calling
<1> QED BY <1>2, <1>3, <1>4, <1>5, <1>6 DEF DriverInv

\* the function is translated,
LEMMA ProcessKeeps == ASSUME DriverInv, Process \/ ProcessThrows PROVE DriverInv'
<1>1. step = "process" /\ "aborted" \in Stopped /\ step \notin Stopped
      BY DEF Process, ProcessThrows, Stopped
<1>2. CASE DriverStops("aborted")
      BY <1>1, <1>2, StopsKeep
<1>3. CASE step' = "execute" /\ UNCHANGED << suite, chapter, locals >>
      <2>1. step \in Running \ {"arguments"} /\ step' \in Running \ {"arguments"}
            BY <1>1, <1>3 DEF Running
      <2>2. exceptionThrown' \in BOOLEAN
            BY <1>3 DEF DriverInv, Positioned, locals
      <2> QED BY <1>3, <2>1, <2>2, StepsKeep DEF locals
<1> QED BY <1>2, <1>3 DEF Process, ProcessThrows

\* called,
LEMMA ExecuteKeeps ==
  ASSUME DriverInv, step = "execute", NEW outcome, Execute(outcome) PROVE DriverInv'
<1>1. step \in Running \ {"arguments"} /\ step' \in Running \ {"arguments"}
      BY DEF Running, Execute
<1>2. exceptionThrown' \in BOOLEAN
      BY DEF Execute
<1> QED BY <1>1, <1>2, StepsKeep DEF Execute

\* and judged.
LEMMA JudgeKeeps ==
  ASSUME DriverInv, JudgeMatched \/ JudgeUnmatched \/ JudgeThrows PROVE DriverInv'
<1>1. step = "judge" /\ {"aborted", "unmatched"} \subseteq Stopped /\ step \notin Stopped
      BY DEF JudgeMatched, JudgeUnmatched, JudgeThrows, Stopped
<1>2. judging # 0 /\ judging \in 0 .. Len(command_map) + 1 /\ judging <= Len(command_map)
      BY <1>1 DEF DriverInv, Positioned, Running
<1>3. CASE DriverStops("aborted") \/ DriverStops("unmatched")
      BY <1>1, <1>2, <1>3, StopsKeep
<1>4. CASE JudgeMatched
      <2>1. /\ step' = "lookup" /\ judging' = judging + 1
            /\ UNCHANGED << suite, chapter, i, cur_wasm_file, parser_map, command_map,
                            function_index, ans, exceptionThrown >>
            BY <1>4 DEF JudgeMatched
      <2>2. Script' = Script
            BY <2>1 DEF Script
      <2>3. judging' \in 0 .. Len(command_map) + 1 /\ judging' # 0
            BY <1>2, <2>1, EntriesTyped DEF DriverInv
      <2>4. Positioned'
            BY <1>1, <1>2, <2>1, <2>2, <2>3 DEF DriverInv, Positioned, Running
      <2>5. Reading'
            BY <1>1, <2>1, <2>2 DEF DriverInv, Reading
      <2>6. Entered'
            BY <2>1, <2>2 DEF DriverInv, Entered
      <2>7. Filled'
            BY <1>1, <2>1 DEF DriverInv, Filled, Stopped
      <2>8. Calling'
            BY <2>1 DEF Calling, Running
      <2> QED BY <2>4, <2>5, <2>6, <2>7, <2>8 DEF DriverInv
<1> QED BY <1>3, <1>4 DEF JudgeUnmatched, JudgeThrows

\* A chapter begins as the first did.
LEMMA NextChapterKeeps == ASSUME DriverInv, NextChapter PROVE DriverInv'
<1>1. /\ suite' = suite /\ chapter < Len(suite) /\ chapter' = chapter + 1
      /\ step' = "collect" /\ i' = 1 /\ cur_wasm_file' = 0
      /\ parser_map' = << >> /\ command_map' = << >> /\ judging' = 0
      /\ exceptionThrown' = exceptionThrown
      BY DEF NextChapter
<1>2. /\ suite \in TestSuites /\ chapter' \in 1 .. Len(suite')
      BY <1>1, SuiteTyped DEF DriverInv, Positioned
<1>3. Script' \in Seq(AllCommands) /\ Len(Script') \in Nat
      <2>1. suite \in Seq(Seq(AllCommands)) /\ Script' = suite[chapter']
            BY <1>1, <1>2, ScriptsAssumption DEF Script
      <2>2. chapter' \in 1 .. Len(suite)
            BY <1>1, <1>2
      <2>3. suite[chapter'] \in Seq(AllCommands)
            BY <2>1, <2>2, ElementOfSeq
      <2> QED BY <2>1, <2>3
<1>4. SubSeq(Script', 1, 0) = << >> /\ FileAt(Script', 0) = 0
      <2>1. \A script \in Seq(AllCommands) : SubSeq(script, 1, 0) = << >> /\ FileAt(script, 0) = 0
            BY SubSeqEmpty, FileAtStep
      <2> QED BY <1>3, <2>1
<1>5. Positioned'
      <2>1. i' \in 1 .. Len(Script') + 1
            BY <1>1, <1>3
      <2>2. judging' \in 0 .. Len(command_map') + 1
            <3>1. Len(<< >>) = 0
                  OBVIOUS
            <3> QED BY <1>1, <3>1
      <2>3. step' \notin Running
            BY <1>1 DEF Running
      <2>4. exceptionThrown' \in BOOLEAN
            BY <1>1 DEF DriverInv, Positioned
      <2> QED BY <1>1, <1>2, <2>1, <2>2, <2>3, <2>4 DEF Positioned
<1>6. Reading'
      BY <1>1, <1>4, DriverAssumption DEF Reading
<1>7. Entered'
      <2>1. i' - 1 = 0 /\ Len(<< >>) < 1
            BY <1>1
      <2> QED BY <1>1, <1>4, <2>1, GroupedNone DEF Entered
<1>8. Filled'
      BY <1>1 DEF Filled
<1>9. Calling'
      BY <1>1 DEF Calling, Running
<1> QED BY <1>5, <1>6, <1>7, <1>8, <1>9 DEF DriverInv

\* Every step keeps the invariant.
LEMMA InvStep == DriverInv /\ [DriverNext]_driverVars => DriverInv'
<1> SUFFICES ASSUME DriverInv, [DriverNext]_driverVars PROVE DriverInv'
    OBVIOUS
<1>1. CASE UNCHANGED driverVars
      BY <1>1 DEF DriverInv, Positioned, Reading, Entered, Filled, Calling, driverVars, locals,
                  Script, File, Command, CurFunction
<1>2. CASE NewFile
      BY <1>2, NewFileKeeps
<1>3. CASE KnownFile
      BY <1>3, KnownFileKeeps
<1>4. CASE step = "parse" /\ Parsed(Modules[cur_wasm_file])
      BY <1>4, ParsedKeeps
<1>5. CASE ParseThrows
      <2>1. step = "parse" /\ DriverStops("aborted") /\ step \notin Stopped /\ "aborted" \in Stopped
            BY <1>5 DEF ParseThrows, Stopped
      <2> QED BY <2>1, StopsKeep
<1>6. CASE CollectAction
      BY <1>6, CollectActionKeeps
<1>7. CASE Collected
      BY <1>7, CollectedKeeps
<1>8. CASE Lookup
      BY <1>8, LookupKeeps
<1>9. CASE SetArguments
      BY <1>9, SetArgumentsKeeps
<1>10. CASE Process \/ ProcessThrows
       BY <1>10, ProcessKeeps
<1>11. CASE step = "execute" /\ \E outcome \in Answers[CurFunction.code_vec] : Execute(outcome)
       BY <1>11, ExecuteKeeps
<1>12. CASE JudgeMatched \/ JudgeUnmatched \/ JudgeThrows
       BY <1>12, JudgeKeeps
<1>13. CASE NextChapter
       BY <1>13, NextChapterKeeps
<1>14. CASE AllChaptersDone
       <2>1. step = "lookup" /\ DriverStops("passed") /\ step \notin Stopped /\ "passed" \in Stopped
             BY <1>14 DEF AllChaptersDone, ChapterDone, Stopped
       <2>2. judging # 0
             BY <2>1 DEF DriverInv, Positioned
       <2> QED BY <2>1, <2>2, StopsKeep
<1> QED BY <1>1, <1>2, <1>3, <1>4, <1>5, <1>6, <1>7, <1>8, <1>9, <1>10, <1>11, <1>12, <1>13, <1>14
        DEF DriverNext, OwnStep

\* Hence it holds in every state.
LEMMA InvAlways == DriverSpec => []DriverInv
BY InvInit, InvStep, PTL DEF DriverSpec

-----------------------------------------------------------------------------
(***************************************************************************)
(* What the driver promises                                                *)
(***************************************************************************)
\* The driver keeps its types: step, position and entries go together, the
\* multimap stays sorted, and the function at work is one of its file
\* (test_chapter).
THEOREM DriverTypeCorrect == DriverSpec => []DriverTypeOK
<1>1. DriverInv => DriverTypeOK
      <2> SUFFICES ASSUME DriverInv PROVE DriverTypeOK
          OBVIOUS
      <2>1. /\ \A k, l \in DOMAIN command_map : k < l => command_map[k].file <= command_map[l].file
            /\ Len(command_map) < i
            BY EntriesTyped DEF DriverInv, Sorted, Entered
      <2>2. ASSUME step \in Running
            PROVE  function_index + 1 \in DOMAIN parser_map[File].wasmFunctionVec
            <3>1. File \in 1 .. FileCount /\ FilledFrom(parser_map[File], Modules[File])
                  BY <2>2 DEF DriverInv, Calling, Filled, Running, Stopped
            <3>2. /\ HasFunction(Modules[File], function_index)
                  /\ function_index = IF Command.field \in DOMAIN Modules[File].funcNameIndexMapper
                                        THEN Modules[File].funcNameIndexMapper[Command.field] ELSE 0
                  BY <2>2 DEF DriverInv, Calling
            <3>3. /\ Modules[File].wasmFunctionVec \in Seq([code_vec : DOMAIN Answers, local_var_declare_count : Nat])
                  /\ \A name \in DOMAIN Modules[File].funcNameIndexMapper :
                       Modules[File].funcNameIndexMapper[name] \in Nat
                  BY <3>1, ModulesAssumption
            <3>4. function_index \in Nat /\ Len(Modules[File].wasmFunctionVec) \in Nat
                  BY <3>2, <3>3
            <3>5. function_index + 1 \in 1 .. Len(Modules[File].wasmFunctionVec)
                  BY <3>2, <3>4 DEF HasFunction
            <3> QED BY <3>1, <3>5 DEF FilledFrom
      <2> QED BY <2>1, <2>2 DEF DriverInv, Positioned, Reading, Running, DriverTypeOK
<1> QED BY <1>1, InvAlways, PTL

\* What the driver stores is what the assertion means: an argument of the script
\* fits its type, so that nothing of it is cut off.
LEMMA ArgumentMeant ==
  ASSUME NEW c \in Assertions, NEW k, NEW type
  PROVE  Argument(c.args, k, [type |-> type, value |-> 0]) = ParameterMeant(c.args, k, type)
<1>1. /\ c.args \in Seq([type : WasmType, value : Nat])
      /\ \A j \in DOMAIN c.args :
           /\ c.args[j].type = "i" => c.args[j].value < WordSize
           /\ c.args[j].type = "l" => c.args[j].value < XWordSize
      BY ScriptsAssumption DEF Assertions
<1>2. CASE k \notin DOMAIN c.args
      BY <1>2 DEF Argument, ParameterMeant
<1>3. CASE k \in DOMAIN c.args
      <2> DEFINE arg == c.args[k]
      <2>1. arg \in [type : WasmType, value : Nat]
            <3>1. k \in 1 .. Len(c.args)
                  BY <1>1, <1>3
            <3> QED BY <1>1, <3>1, ElementOfSeq
      <2>2. CASE arg.type = "i"
            <3>1. arg.value < WordSize
                  BY <1>1, <1>3, <2>2
            <3>2. arg.value % WordSize = arg.value
                  <4> HIDE DEF arg
                  <4> QED BY <2>1, <3>1, DriverAssumption
            <3>3. arg = [type |-> "i", value |-> arg.value]
                  BY <2>1, <2>2
            <3>4. Argument(c.args, k, [type |-> type, value |-> 0])
                    = [type |-> "i", value |-> arg.value % WordSize]
                  BY <1>3, <2>2 DEF Argument
            <3>5. ParameterMeant(c.args, k, type) = arg
                  BY <1>3, <2>2 DEF ParameterMeant
            <3> QED BY <3>2, <3>3, <3>4, <3>5
      <2>3. CASE arg.type = "l"
            <3>1. arg.value < XWordSize
                  BY <1>1, <1>3, <2>3
            <3>2. arg.value % XWordSize = arg.value
                  <4> HIDE DEF arg
                  <4> QED BY <2>1, <3>1, DriverAssumption
            <3>3. arg = [type |-> "l", value |-> arg.value]
                  BY <2>1, <2>3
            <3>4. Argument(c.args, k, [type |-> type, value |-> 0])
                    = [type |-> "l", value |-> arg.value % XWordSize]
                  BY <1>3, <2>3 DEF Argument
            <3>5. ParameterMeant(c.args, k, type) = arg
                  BY <1>3, <2>3 DEF ParameterMeant
            <3> QED BY <3>2, <3>3, <3>4, <3>5
      <2>4. CASE arg.type \notin {"i", "l"}
            BY <1>3, <2>4 DEF Argument, ParameterMeant
      <2> QED BY <2>2, <2>3, <2>4
<1> QED BY <1>2, <1>3

\* The function at work has the types of a signature.
LEMMA SignatureTyped ==
  ASSUME DriverInv, step \in Running
  PROVE  SignatureOf(Modules[File], function_index) \in [params : Seq(WasmType), results : Seq(WasmType)]
<1> DEFINE m == Modules[File]
<1>1. /\ File \in DOMAIN parser_map /\ HasFunction(m, function_index)
      /\ function_index = IF Command.field \in DOMAIN m.funcNameIndexMapper
                            THEN m.funcNameIndexMapper[Command.field] ELSE 0
      BY DEF DriverInv, Calling
<1>2. File \in 1 .. FileCount
      BY <1>1 DEF DriverInv, Filled, Stopped, Running
<1>3. /\ m.wasmTypeVec \in Seq([params : Seq(WasmType), results : Seq(WasmType)])
      /\ m.funcTypeVec \in Seq(Nat)
      /\ \A name \in DOMAIN m.funcNameIndexMapper : m.funcNameIndexMapper[name] \in Nat
      BY <1>2, ModulesAssumption
<1>4. function_index \in Nat /\ function_index + 1 \in 1 .. Len(m.funcTypeVec)
      <2>1. function_index \in Nat
            BY <1>1, <1>3
      <2>2. function_index < Len(m.funcTypeVec)
            BY <1>1 DEF HasFunction
      <2>3. Len(m.funcTypeVec) \in Nat
            BY <1>3
      <2> HIDE DEF m
      <2> QED BY <2>1, <2>2, <2>3
<1>5. m.funcTypeVec[function_index + 1] \in Nat
      BY <1>3, <1>4, ElementOfSeq
<1>6. m.funcTypeVec[function_index + 1] + 1 \in 1 .. Len(m.wasmTypeVec)
      <2>1. m.funcTypeVec[function_index + 1] < Len(m.wasmTypeVec)
            BY <1>1 DEF HasFunction
      <2>2. Len(m.wasmTypeVec) \in Nat
            BY <1>3
      <2> HIDE DEF m
      <2> QED BY <1>5, <2>1, <2>2
<1> QED BY <1>3, <1>6, ElementOfSeq DEF SignatureOf

\* When a function runs, the script asked for it: the assertion at hand is the
\* next of the script, file by file, about the file of the last module command
\* before it, and the object is what this file exports under the name (the first
\* function for an unknown name), with exactly the parameters that the assertion
\* means (the two loops of test_chapter, initFunctionbyType).
THEOREM CalledAsAssertedCorrect == DriverSpec => []CalledAsAsserted
<1>1. DriverInv => CalledAsAsserted
      <2> SUFFICES ASSUME DriverInv, step = "execute"
                   PROVE  /\ command_map[judging] = InOrder(Script)[judging]
                          /\ File # 0
                          /\ LET exports == Modules[File].funcNameIndexMapper
                                 signature == SignatureOf(Modules[File], function_index)
                             IN /\ function_index = IF Command.field \in DOMAIN exports
                                                       THEN exports[Command.field] ELSE 0
                                /\ CurFunction.code_vec = Modules[File].wasmFunctionVec[function_index + 1].code_vec
                                /\ CurFunction.result_data = signature.results
                                /\ CurFunction.param_data =
                                     [k \in DOMAIN signature.params |->
                                        ParameterMeant(Command.args, k, signature.params[k])]
          BY DEF CalledAsAsserted
      <2> DEFINE m == Modules[File]
                 types == SignatureOf(m, function_index).params
      <2>1. judging # 0 /\ judging <= Len(command_map) /\ i = Len(Script) + 1
            BY DEF DriverInv, Positioned, Running
      <2>2. command_map = InOrder(Script)
            <3>1. Script \in Seq(AllCommands) /\ Len(Script) \in Nat
                  BY SuiteTyped DEF DriverInv, Positioned
            <3>2. SubSeq(Script, 1, i - 1) = Script
                  BY <2>1, <3>1, SubSeqFull
            <3> QED BY <3>1, <3>2, InOrderGrouped DEF DriverInv, Entered
      <2>3. /\ File \in DOMAIN parser_map
            /\ function_index = IF Command.field \in DOMAIN m.funcNameIndexMapper
                                  THEN m.funcNameIndexMapper[Command.field] ELSE 0
            /\ CurFunction = FunctionWith(m, function_index, Given(Command.args, types))
            BY DEF DriverInv, Calling, Running
      <2>4. File \in 1 .. FileCount /\ File # 0
            BY <2>3, DriverAssumption DEF DriverInv, Filled, Stopped
      <2>5. Command \in Assertions
            BY <2>1, EntryAt DEF DriverInv
      <2>6. /\ CurFunction.param_data = Given(Command.args, types)
            /\ CurFunction.result_data = SignatureOf(m, function_index).results
            /\ CurFunction.code_vec = m.wasmFunctionVec[function_index + 1].code_vec
            BY <2>3 DEF FunctionWith
      <2>7. Given(Command.args, types)
              = [k \in DOMAIN types |-> ParameterMeant(Command.args, k, types[k])]
            BY <2>5, ArgumentMeant DEF Given
      <2> QED BY <2>2, <2>3, <2>4, <2>6, <2>7
<1> QED BY <1>1, InvAlways, PTL

-----------------------------------------------------------------------------
(***************************************************************************)
(* The verdicts                                                            *)
(***************************************************************************)
\* A trap shows in what the driver looks at.
TrapSeen ==
  step = "judge" /\ exceptionThrown => CurFunction.result_data # << >> /\ ans \in Garbage

LEMMA TrapSeenInit == DriverInit => TrapSeen
BY DEF DriverInit, TrapSeen

LEMMA TrapSeenStep ==
  ASSUME TrapsShow PROVE DriverInv /\ TrapSeen /\ [DriverNext]_driverVars => TrapSeen'
<1> SUFFICES ASSUME DriverInv, TrapSeen, [DriverNext]_driverVars, step' = "judge", exceptionThrown'
             PROVE  CurFunction'.result_data # << >> /\ ans' \in Garbage
    BY DEF TrapSeen
<1>1. CASE UNCHANGED driverVars
      BY <1>1 DEF TrapSeen, driverVars, locals, CurFunction, File
<1>2. ASSUME step = "execute", NEW outcome \in Answers[CurFunction.code_vec], Execute(outcome)
      PROVE  CurFunction'.result_data # << >> /\ ans' \in Garbage
      <2> DEFINE m == Modules[File]
                 k == function_index + 1
      <2>1. /\ CurFunction' = CurFunction /\ outcome.kind = "trap"
            /\ IF outcome.value = << >> THEN ans' \in Garbage ELSE ans' = outcome.value[1]
            BY <1>2 DEF Execute, CurFunction, File
      <2>2. /\ File \in DOMAIN parser_map /\ HasFunction(m, function_index)
            /\ CurFunction.code_vec = m.wasmFunctionVec[k].code_vec
            /\ CurFunction.result_data = SignatureOf(m, function_index).results
            /\ function_index = IF Command.field \in DOMAIN m.funcNameIndexMapper
                                  THEN m.funcNameIndexMapper[Command.field] ELSE 0
            BY <1>2 DEF DriverInv, Calling, Running, FunctionWith
      <2>3. File \in 1 .. FileCount
            BY <1>2, <2>2 DEF DriverInv, Filled, Stopped
      <2>4. /\ m.wasmFunctionVec \in Seq([code_vec : DOMAIN Answers, local_var_declare_count : Nat])
            /\ \A name \in DOMAIN m.funcNameIndexMapper : m.funcNameIndexMapper[name] \in Nat
            BY <2>3, ModulesAssumption
      <2>5. function_index \in Nat /\ k \in DOMAIN m.wasmFunctionVec /\ k - 1 = function_index
            <3>1. function_index \in Nat /\ Len(m.wasmFunctionVec) \in Nat
                  BY <2>2, <2>4
            <3>2. k \in 1 .. Len(m.wasmFunctionVec)
                  BY <2>2, <3>1 DEF HasFunction
            <3> QED BY <2>4, <3>1, <3>2
      <2>6. CurFunction.code_vec \in DOMAIN Answers
            <3>1. m.wasmFunctionVec[k] \in [code_vec : DOMAIN Answers, local_var_declare_count : Nat]
                  <4>1. k \in 1 .. Len(m.wasmFunctionVec)
                        BY <2>4, <2>5
                  <4> HIDE DEF m, k
                  <4> QED BY <2>4, <4>1, ElementOfSeq
            <3> QED BY <2>2, <3>1
      <2>7. outcome.value = << >>
            BY <2>1, <2>6, ModulesAssumption
      <2>8. CurFunction.result_data # << >>
            <3> SUFFICES ASSUME SignatureOf(m, k - 1).results = << >> PROVE FALSE
                BY <2>2, <2>5
            <3>1. HasFunction(m, k - 1)
                  BY <2>2, <2>5
            <3>2. \A other \in Answers[m.wasmFunctionVec[k].code_vec] : other.kind # "trap"
                  BY <2>3, <2>5, <3>1, TrapsShow DEF TrapsShow
            <3> QED BY <1>2, <2>1, <2>2, <3>2
      <2> QED BY <2>1, <2>7, <2>8
<1>3. CASE step = "execute" /\ \E outcome \in Answers[CurFunction.code_vec] : Execute(outcome)
      BY <1>2, <1>3
<1>4. CASE NewFile \/ KnownFile \/ CollectAction \/ Collected \/ Parsed(Modules[cur_wasm_file]) \/ ParseThrows
      BY <1>4 DEF NewFile, KnownFile, CollectAction, Collected, Parsed, ParseThrows, DriverStops,
                  HasFilename, Collecting
<1>5. CASE Lookup \/ SetArguments \/ Process \/ ProcessThrows
      BY <1>5 DEF Lookup, SetArguments, Process, ProcessThrows, DriverStops
<1>6. CASE JudgeMatched \/ JudgeUnmatched \/ JudgeThrows \/ NextChapter \/ AllChaptersDone
      BY <1>6 DEF JudgeMatched, JudgeUnmatched, JudgeThrows, NextChapter, AllChaptersDone, DriverStops
<1> QED BY <1>1, <1>3, <1>4, <1>5, <1>6 DEF DriverNext, OwnStep

\* The order of the judgement in TestRun is that of the driver's scripts.
LEMMA RunOperators ==
  /\ \A scripts, k : Run!InOrderFrom(scripts, k) = InOrderFrom(scripts, k)
  /\ \A command, outcome : Run!Holds(command, outcome) <=> Holds(command, outcome)
<1>1. \A scripts, k : Run!InOrderFrom(scripts, k) = InOrderFrom(scripts, k)
      BY DEF Run!InOrderFrom, Run!InOrder, Run!AssertionsOn, Run!FileAt, Run!IsAssertion,
             Run!FlattenSeq, Run!Max, InOrderFrom, InOrder, AssertionsOn, FileAt, IsAssertion,
             FlattenSeq, Max
<1>2. \A command, outcome : Run!Holds(command, outcome) <=> Holds(command, outcome)
      BY DEF Run!Holds, Holds
<1> QED BY <1>1, <1>2

\* What is left behind the entry that is judged.
LEMMA LeftTyped ==
  ASSUME DriverInv
  PROVE  /\ InOrderFrom(suite, chapter + 1) \in Seq(Entries)
         /\ judging # 0 => InOrderFrom(suite, chapter) = command_map \o InOrderFrom(suite, chapter + 1)
<1>1. /\ suite \in Seq(Seq(AllCommands)) /\ chapter \in 1 .. Len(suite)
      /\ Script \in Seq(AllCommands) /\ Len(Script) \in Nat
      BY SuiteTyped DEF DriverInv, Positioned
<1>2. /\ InOrderFrom(suite, chapter) = InOrder(Script) \o InOrderFrom(suite, chapter + 1)
      /\ InOrderFrom(suite, chapter + 1) \in Seq(Entries)
      BY <1>1, InOrderFromStep DEF Script
<1>3. judging # 0 => command_map = InOrder(Script)
      <2> SUFFICES ASSUME judging # 0 PROVE command_map = InOrder(Script)
          OBVIOUS
      <2>1. i - 1 = Len(Script)
            BY <1>1 DEF DriverInv, Positioned
      <2>2. SubSeq(Script, 1, i - 1) = Script
            BY <1>1, <2>1, SubSeqFull
      <2> QED BY <1>1, <2>2, InOrderGrouped DEF DriverInv, Entered
<1> QED BY <1>2, <1>3

Called == IF step = "judge" THEN << Returned >> ELSE << >>

Verdict ==
  CASE step = "unmatched" -> "failed" [] step = "passed" -> "passed"
    [] step \in {"aborted", "undefined"} -> "stopped" [] OTHER -> "running"

\* A step TestRun does not see.
LEMMA Unseen ==
  ASSUME suite' = suite, Left' = Left,
         step \notin Stopped \cup {"judge"}, step' \notin Stopped \cup {"judge"}
  PROVE  UNCHANGED Run!testRun
<1>1. Called' = Called /\ Verdict' = Verdict
      BY DEF Called, Verdict, Stopped
<1> QED BY <1>1 DEF Run!testRun, Called, Verdict

\* A step that gives up.
LEMMA GivingUp ==
  ASSUME step \notin Stopped, DriverStops("aborted") \/ DriverStops("undefined")
  PROVE  Run!GiveUp
<1>1. /\ UNCHANGED << suite, chapter, locals >> /\ step' \in {"aborted", "undefined"}
      BY DEF DriverStops
<1>2. suite' = suite /\ Left' = Left
      BY <1>1 DEF Left, locals
<1>3. Verdict = "running" /\ Verdict' = "stopped" /\ Called' = << >>
      BY <1>1 DEF Verdict, Called, Stopped
<1> QED BY <1>2, <1>3 DEF Run!GiveUp, Verdict, Called

\* The driver begins as TestRun does,
LEMMA RunBegins == DriverInit => Run!RunInit
<1> SUFFICES ASSUME DriverInit PROVE Run!RunInit
    OBVIOUS
<1>1. suite \in TestSuites /\ chapter = 1 /\ judging = 0 /\ step = "collect"
      BY DEF DriverInit
<1>2. Left = Run!InOrderFrom(suite, 1)
      BY <1>1, RunOperators DEF Left
<1>3. Called = << >> /\ Verdict = "running"
      BY <1>1 DEF Called, Verdict
<1> QED BY <1>1, <1>2, <1>3 DEF Run!RunInit, Called, Verdict

\* collects what TestRun has from the start,
LEMMA CollectingUnseen ==
  ASSUME DriverInv,
         NewFile \/ KnownFile \/ CollectAction \/ Collected \/ Parsed(Modules[cur_wasm_file])
  PROVE  UNCHANGED Run!testRun
<1>1. /\ suite' = suite /\ chapter' = chapter
      /\ step \in {"collect", "parse"} /\ step' \in {"collect", "parse", "lookup"}
      BY DEF NewFile, KnownFile, CollectAction, Collected, Parsed, HasFilename, Collecting
<1>2. judging = 0
      BY <1>1 DEF DriverInv, Positioned
<1>3. Left' = Left
      <2>1. CASE NewFile \/ KnownFile \/ CollectAction \/ Parsed(Modules[cur_wasm_file])
            <3>1. judging' = 0
                  BY <1>2, <2>1 DEF NewFile, KnownFile, CollectAction, Parsed
            <3> QED BY <1>1, <1>2, <3>1 DEF Left
      <2>2. CASE Collected
            <3>1. DriverInv' /\ judging' = 1 /\ command_map' = command_map
                  BY <2>2, CollectedKeeps DEF Collected
            <3>2. command_map \in Seq(Entries) /\ SubSeq(command_map, 1, Len(command_map)) = command_map
                  BY EntriesTyped, SubSeqFull DEF DriverInv
            <3>3. InOrderFrom(suite, chapter) = command_map \o InOrderFrom(suite, chapter + 1)
                  <4>1. i - 1 = Len(Script) /\ Script \in Seq(AllCommands)
                        BY <2>2, SuiteTyped DEF Collected, DriverInv, Positioned
                  <4>2. SubSeq(Script, 1, i - 1) = Script
                        BY <4>1, SubSeqFull
                  <4>3. command_map = InOrder(Script)
                        BY <4>1, <4>2, InOrderGrouped DEF DriverInv, Entered
                  <4> QED BY <4>3, SuiteTyped, InOrderFromStep DEF DriverInv, Positioned, Script
            <3> QED BY <1>1, <1>2, <3>1, <3>2, <3>3 DEF Left
      <2> QED BY <2>1, <2>2
<1> QED BY <1>1, <1>3, Unseen DEF Stopped

\* looks a function up and gives it its arguments unseen, or gives up,
LEMMA PreparingUnseen ==
  ASSUME DriverInv, Lookup \/ SetArguments \/ Process \/ ProcessThrows
  PROVE  Run!GiveUp \/ UNCHANGED Run!testRun
<1>1. step \in {"lookup", "arguments", "process"} /\ step \notin Stopped
      BY DEF Lookup, SetArguments, Process, ProcessThrows, Stopped
<1>2. CASE DriverStops("aborted") \/ DriverStops("undefined")
      BY <1>1, <1>2, GivingUp
<1>3. CASE /\ step' \in {"arguments", "process", "execute"}
           /\ UNCHANGED << suite, chapter, command_map, judging >>
      <2>1. Left' = Left
            BY <1>3 DEF Left
      <2> QED BY <1>1, <1>3, <2>1, Unseen DEF Stopped
<1> QED BY <1>2, <1>3 DEF Lookup, SetArguments, Process, ProcessThrows, locals

\* and begins the next chapter unseen.
LEMMA NextChapterUnseen == ASSUME DriverInv, NextChapter PROVE UNCHANGED Run!testRun
<1>1. /\ suite' = suite /\ chapter' = chapter + 1 /\ judging' = 0
      /\ step = "lookup" /\ step' = "collect" /\ judging > Len(command_map)
      BY DEF NextChapter, ChapterDone
<1>2. judging # 0
      BY <1>1 DEF DriverInv, Positioned
<1>3. Left = InOrderFrom(suite, chapter + 1)
      <2>1. /\ command_map \in Seq(Entries) /\ InOrderFrom(suite, chapter + 1) \in Seq(Entries)
            BY EntriesTyped, LeftTyped DEF DriverInv
      <2>2. SubSeq(command_map, judging, Len(command_map)) = << >>
            BY <1>1, <2>1, SubSeqEmpty DEF DriverInv, Positioned
      <2>3. << >> \o InOrderFrom(suite, chapter + 1) = InOrderFrom(suite, chapter + 1)
            BY <2>1, ConcatEmptySeq
      <2> QED BY <1>2, <2>2, <2>3 DEF Left
<1>4. Left' = InOrderFrom(suite, chapter + 1)
      BY <1>1 DEF Left
<1> QED BY <1>1, <1>3, <1>4, Unseen DEF Stopped

\* What is left begins with the entry that is judged.
LEMMA LeftAt ==
  ASSUME DriverInv, judging # 0, judging <= Len(command_map)
  PROVE  /\ Left # << >> /\ Head(Left) = command_map[judging] /\ Head(Left).command = Command
         /\ Tail(Left) = SubSeq(command_map, judging + 1, Len(command_map))
                           \o InOrderFrom(suite, chapter + 1)
<1> DEFINE n == Len(command_map)
           a == SubSeq(command_map, judging, n)
           rest == InOrderFrom(suite, chapter + 1)
<1>1. command_map \in Seq(Entries) /\ n \in Nat /\ rest \in Seq(Entries)
      BY EntriesTyped, LeftTyped DEF DriverInv
<1>2. judging \in 1 .. n /\ n \in judging .. n
      BY <1>1, EntryAt DEF DriverInv
<1>3. Head(a) = command_map[judging] /\ Tail(a) = SubSeq(command_map, judging + 1, n)
      BY <1>1, <1>2, HeadTailOfSubSeq
<1>4. a \in Seq(Entries) /\ a # << >>
      <2>1. \A k \in judging .. n : command_map[k] \in Entries
            <3>1. \A k \in judging .. n : k \in 1 .. n
                  <4> HIDE DEF n
                  <4> QED BY <1>2
            <3> QED BY <1>1, <3>1, ElementOfSeq
      <2>2. judging \in Int /\ n \in Int
            BY <1>1, <1>2
      <2>3. a \in Seq(Entries) /\ Len(a) = IF judging <= n THEN n - judging + 1 ELSE 0
            BY <2>1, <2>2, SubSeqProperties
      <2>4. Len(a) > 0
            <3> HIDE DEF a, n
            <3> QED BY <1>2, <2>3
      <2> HIDE DEF a
      <2> QED BY <2>3, <2>4, EmptySeq
<1>5. Left = a \o rest
      BY DEF Left
<1> HIDE DEF a, rest
<1>6. Left # << >> /\ Head(Left) = Head(a) /\ Tail(Left) = Tail(a) \o rest
      BY <1>1, <1>4, <1>5, HeadOfJoin
<1> QED BY <1>3, <1>6 DEF rest, Command

\* The comparison the driver makes is the assertion's.
LEMMA MatchedHolds ==
  ASSUME TrapsShow, TrapSeen, exceptionThrown \in BOOLEAN, Command \in Assertions, step = "judge"
  PROVE  Matched <=> Holds(Command, Returned)
<1>1. Command \in AllCommands /\ Command.type \in {"assert_return", "assert_trap"}
      BY ScriptsAssumption DEF Assertions
<1>2. Returned.kind = IF exceptionThrown THEN "trap" ELSE "value"
      BY DEF Returned
<1>3. CASE Command.type = "assert_trap"
      BY <1>2, <1>3 DEF Matched, Holds
<1>4. CASE Command.type = "assert_return"
      <2>1. CASE exceptionThrown
            <3>1. CurFunction.result_data # << >> /\ ans \in Garbage
                  BY <2>1 DEF TrapSeen
            <3>2. Command.expected # << ans >>
                  BY <1>1, <1>4, <3>1 DEF TrapsShow
            <3> QED BY <1>2, <1>4, <2>1, <3>1, <3>2 DEF Matched, Holds
      <2>2. CASE ~exceptionThrown
            <3>1. Returned.value = IF CurFunction.result_data = << >> THEN << >> ELSE << ans >>
                  BY <2>2 DEF Returned
            <3> QED BY <1>2, <1>4, <2>2, <3>1 DEF Matched, Holds
      <2> QED BY <2>1, <2>2
<1> QED BY <1>1, <1>3, <1>4

\* A call is TestRun's,
LEMMA ExecuteCalls ==
  ASSUME DriverInv, step = "execute", NEW outcome, Execute(outcome) PROVE Run!CallNext
<1>1. /\ step' = "judge" /\ UNCHANGED << suite, chapter, command_map, judging >>
      BY DEF Execute
<1>2. judging # 0 /\ judging <= Len(command_map)
      BY DEF DriverInv, Positioned, Running
<1>3. Left # << >> /\ Left' = Left
      BY <1>1, <1>2, LeftAt DEF Left
<1>4. Called = << >> /\ Called' = << Returned' >> /\ Verdict = "running" /\ Verdict' = "running"
      BY <1>1 DEF Called, Verdict
<1>5. Len(Called') = 1
      BY <1>4
<1> QED BY <1>1, <1>3, <1>4, <1>5 DEF Run!CallNext, Called, Verdict

\* and so is its judgement.
LEMMA JudgementAgrees ==
  ASSUME TrapsShow, DriverInv, TrapSeen, JudgeMatched \/ JudgeUnmatched
  PROVE  Run!JudgeCall
<1>1. step = "judge" /\ (JudgeMatched => Matched) /\ (JudgeUnmatched => ~Matched)
      BY DEF JudgeMatched, JudgeUnmatched
<1>2. /\ judging # 0 /\ judging <= Len(command_map) /\ exceptionThrown \in BOOLEAN
      BY <1>1 DEF DriverInv, Positioned, Running
<1>3. Command \in Assertions
      BY <1>2, EntryAt DEF DriverInv
<1>4. Matched <=> Run!Holds(Command, Returned)
      BY <1>1, <1>2, <1>3, MatchedHolds, RunOperators
<1>5. Called = << Returned >> /\ Called # << >> /\ Called[1] = Returned /\ Verdict = "running"
      BY <1>1 DEF Called, Verdict
<1>6. /\ Left # << >> /\ Head(Left).command = Command
      /\ Tail(Left) = SubSeq(command_map, judging + 1, Len(command_map))
                        \o InOrderFrom(suite, chapter + 1)
      BY <1>2, LeftAt
<1>7. CASE JudgeMatched
      <2>1. /\ step' = "lookup" /\ judging' = judging + 1
            /\ UNCHANGED << suite, chapter, command_map >>
            BY <1>7 DEF JudgeMatched
      <2>2. judging \in Nat /\ judging' # 0
            BY <2>1, EntriesTyped DEF DriverInv, Positioned
      <2>3. Left' = Tail(Left)
            BY <1>6, <2>1, <2>2 DEF Left
      <2>4. Called' = << >> /\ Verdict' = "running"
            BY <2>1 DEF Called, Verdict
      <2>5. Run!Holds(Head(Left).command, Called[1])
            BY <1>1, <1>4, <1>5, <1>6, <1>7
      <2> QED BY <1>5, <2>1, <2>3, <2>4, <2>5 DEF Run!JudgeCall, Called, Verdict
<1>8. CASE JudgeUnmatched
      <2>1. step' = "unmatched" /\ UNCHANGED << suite, chapter, locals >>
            BY <1>8 DEF JudgeUnmatched, DriverStops
      <2>2. Left' = Left
            BY <2>1 DEF Left, locals
      <2>3. Called' = << >> /\ Verdict' = "failed"
            BY <2>1 DEF Called, Verdict
      <2>4. ~Run!Holds(Head(Left).command, Called[1])
            BY <1>1, <1>4, <1>5, <1>6, <1>8
      <2> QED BY <1>5, <2>1, <2>2, <2>3, <2>4 DEF Run!JudgeCall, Called, Verdict
<1> QED BY <1>7, <1>8

\* The driver passes when nothing is left.
LEMMA PassesAtTheEnd == ASSUME DriverInv, AllChaptersDone PROVE Run!Pass
<1>1. /\ step = "lookup" /\ step' = "passed" /\ UNCHANGED << suite, chapter, locals >>
      /\ judging > Len(command_map) /\ chapter = Len(suite)
      BY DEF AllChaptersDone, ChapterDone, DriverStops
<1>2. judging # 0
      BY <1>1 DEF DriverInv, Positioned
<1>3. command_map \in Seq(Entries) /\ suite \in Seq(Seq(AllCommands))
      BY EntriesTyped, SuiteTyped DEF DriverInv, Positioned
<1>4. InOrderFrom(suite, chapter + 1) = << >>
      BY <1>1, <1>3, InOrderFromEnd
<1>5. SubSeq(command_map, judging, Len(command_map)) = << >>
      BY <1>1, <1>3, SubSeqEmpty DEF DriverInv, Positioned
<1>6. Left = << >>
      BY <1>2, <1>4, <1>5, ConcatEmptySeq, EmptySeq DEF Left
<1>7. Left' = Left
      BY <1>1 DEF Left, locals
<1>8. Called = << >> /\ Called' = << >> /\ Verdict = "running" /\ Verdict' = "passed"
      BY <1>1 DEF Called, Verdict
<1> QED BY <1>1, <1>6, <1>7, <1>8 DEF Run!Pass, Called, Verdict

\* Where traps show, every step is one of TestRun.
LEMMA RunStep ==
  ASSUME TrapsShow
  PROVE  DriverInv /\ TrapSeen /\ [DriverNext]_driverVars => [Run!RunNext]_(Run!testRun)
<1> SUFFICES ASSUME DriverInv, TrapSeen, [DriverNext]_driverVars
             PROVE  Run!RunNext \/ UNCHANGED Run!testRun
    OBVIOUS
<1>1. CASE UNCHANGED driverVars
      <2>1. suite' = suite /\ Left' = Left /\ Called' = Called /\ Verdict' = Verdict
            BY <1>1 DEF driverVars, locals, Left, Called, Verdict, Returned, CurFunction, File
      <2> QED BY <2>1 DEF Run!testRun, Called, Verdict
<1>2. CASE NewFile \/ KnownFile \/ CollectAction \/ Collected \/ Parsed(Modules[cur_wasm_file])
      BY <1>2, CollectingUnseen
<1>3. CASE ParseThrows \/ JudgeThrows
      BY <1>3, GivingUp DEF ParseThrows, JudgeThrows, Stopped, Run!RunNext
<1>4. CASE Lookup \/ SetArguments \/ Process \/ ProcessThrows
      BY <1>4, PreparingUnseen DEF Run!RunNext
<1>5. CASE step = "execute" /\ \E outcome \in Answers[CurFunction.code_vec] : Execute(outcome)
      BY <1>5, ExecuteCalls DEF Run!RunNext
<1>6. CASE JudgeMatched \/ JudgeUnmatched
      BY <1>6, TrapsShow, JudgementAgrees DEF Run!RunNext
<1>7. CASE NextChapter
      BY <1>7, NextChapterUnseen
<1>8. CASE AllChaptersDone
      BY <1>8, PassesAtTheEnd DEF Run!RunNext
<1> QED BY <1>1, <1>2, <1>3, <1>4, <1>5, <1>6, <1>7, <1>8 DEF DriverNext, OwnStep

\* Where traps show, the driver's steps are those of TestRun: the regrouping by
\* the multimap loses and doubles no assertion and keeps the order for each
\* file, every assertion is judged by the call made for it, the first that
\* fails ends the program, and it passes when none is left (test_chapter, main).
THEOREM DriverJudges ==
  ASSUME TrapsShow PROVE DriverSpec => Verdicts
<1>1. DriverInit => Run!RunInit
      BY RunBegins
<1>2. DriverInit => TrapSeen
      BY TrapSeenInit
<1>3. DriverInv /\ TrapSeen /\ [DriverNext]_driverVars => TrapSeen'
      BY TrapSeenStep
<1>4. DriverInv /\ TrapSeen /\ [DriverNext]_driverVars => [Run!RunNext]_(Run!testRun)
      BY RunStep
<1> QED BY <1>1, <1>2, <1>3, <1>4, InvAlways, PTL DEF DriverSpec, Verdicts, Run!RunSpec
=============================================================================
