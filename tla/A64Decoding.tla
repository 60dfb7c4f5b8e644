---------------------------- MODULE A64Decoding -----------------------------
(***************************************************************************)
(* How an A64 processor reads an instruction, from the encoding tables of  *)
(* the architecture and not from the repository: four bytes from an        *)
(* address on, the lowest first, then the word by its fixed bits.  Only    *)
(* the instructions of Opcode are told apart; every other word is          *)
(* Unallocated.  A word and a byte are the sets of their bits that are 1.  *)
(***************************************************************************)
EXTENDS Opcode

Fetched(bytes, address) ==
  UNION { { 8 * k + b : b \in bytes[address + k] } : k \in 0 .. 3 }

\* Bits first .. last of a word as a number.
Number(word, last, first) ==
  LET value[k \in first - 1 .. last] ==
        IF k = first - 1 THEN 0
        ELSE value[k - 1] + (IF k \in word THEN 2 ^ (k - first) ELSE 0)
  IN value[last]

SignedNumber(word, last, first) ==
  Number(word, last, first) - (IF last \in word THEN 2 ^ (last - first + 1) ELSE 0)

Unallocated == Ins("unallocated", "W", 0, 0, 0, 0, "none")

ConditionOf ==
  << "eq", "ne", "cs", "cc", "mi", "pl", "vs", "vc",
     "hi", "ls", "ge", "lt", "gt", "le", "al", "nv" >>

Rd(word) == Number(word, 4, 0)
Rn(word) == Number(word, 9, 5)
Rm(word) == Number(word, 20, 16)
Sf(word) == IF 31 \in word THEN "X" ELSE "W"

\* add, sub, cmp: a subtraction that sets the flags into the zero register.
AddOrSub(word, add, sub, compare) ==
  CASE {29, 30} \cap word = {} -> add
    [] {29, 30} \cap word = {30} -> sub
    [] {29, 30} \cap word = {29, 30} /\ Rd(word) = 31 -> compare
    [] OTHER -> "unallocated"

\* Bits 28 to 26 are 100.
DataImmediate(word) ==
  LET op == AddOrSub(word, "add", "sub", "cmpi")
      opc == Number(word, 30, 29)
  IN CASE Number(word, 25, 22) = \b0100 ->
            Ins(op, Sf(word), Rd(word), Rn(word), 0, Number(word, 21, 10), "none")
       [] Number(word, 25, 23) = \b101 /\ opc \in {2, 3} ->
            Ins(IF opc = 2 THEN "movz" ELSE "movk", Sf(word), Rd(word), 0,
                Number(word, 22, 21), Number(word, 20, 5), "none")
       [] OTHER -> Unallocated

\* Bits 27 to 25 are 101.
DataRegister(word) ==
  LET form(op, c) == Ins(op, Sf(word), Rd(word), Rn(word), Rm(word), 0, c)
      class == Number(word, 28, 21)
      low == Number(word, 15, 10)
  IN CASE class = \b01010000 /\ {29, 30} \cap word = {29} /\ low = 0 /\ Rn(word) = 31 ->
            form("mov", "none")
       [] class = \b01011000 /\ low = 0 ->
            form(AddOrSub(word, "addr", "subr", "cmpr"), "none")
       [] class = \b11010110 /\ {29, 30} \cap word = {} /\ low \in {2, 3} ->
            form(IF low = 2 THEN "udiv" ELSE "sdiv", "none")
       [] class = \b11010100 /\ {29, 30} \cap word = {} /\ Number(word, 11, 10) = 0 ->
            form("csel", ConditionOf[1 + Number(word, 15, 12)])
       [] class = \b11011000 /\ {29, 30} \cap word = {} /\ low = \b011111 ->
            form("mul", "none")
       [] OTHER -> Unallocated

\* Bit 27 is 1 and bit 25 is 0.
LoadsStores(word) ==
  LET pair == Number(word, 29, 26) = \b1010
      single == Number(word, 29, 26) = \b1110 /\ 31 \in word /\ 23 \notin word
      load == 22 \in word
      w == IF 30 \in word THEN "X" ELSE "W"
  IN CASE pair /\ 30 \notin word /\ Number(word, 24, 23) # 0 ->
            Ins(IF load THEN "ldp" ELSE "stp", Sf(word), Rd(word), Rn(word),
                Number(word, 14, 10),
                SignedNumber(word, 21, 15) * (IF 31 \in word THEN 8 ELSE 4),
                << "PostIndex", "SignedOffset", "PreIndex" >>[Number(word, 24, 23)])
       [] single /\ 24 \in word ->
            Ins(IF load THEN "ldr" ELSE "str", w, Rd(word), Rn(word), 0,
                Number(word, 21, 10), "none")
       [] single /\ 24 \notin word /\ 21 \in word /\ Number(word, 15, 10) = \b011010 ->
            Ins(IF load THEN "ldrr" ELSE "strr", w, Rd(word), Rn(word), Rm(word), 0, "none")
       [] OTHER -> Unallocated

\* Bits 28 to 26 are 101.
Branches(word) ==
  CASE Number(word, 30, 29) = 0 ->
         Ins(IF 31 \in word THEN "bl" ELSE "b", "X", 0, 0, 0,
             SignedNumber(word, 25, 0), "none")
    [] Number(word, 31, 24) = \b01010100 /\ 4 \notin word ->
         Ins("bcond", "X", 0, 0, 0, SignedNumber(word, 23, 5),
             ConditionOf[1 + Number(word, 3, 0)])
    [] Number(word, 31, 23) = \b110101100 /\ Number(word, 20, 10) = \b11111000000
         /\ Rd(word) = 0 ->
         Ins(CASE Number(word, 22, 21) = 0 -> "br" [] Number(word, 22, 21) = 2 -> "ret"
               [] OTHER -> "unallocated", "X", 0, Rn(word), 0, 0, "none")
    [] Number(word, 31, 16) = \hD503 /\ Number(word, 15, 0) = \h201F -> EncodeNop
    [] OTHER -> Unallocated

Decoded(word) ==
  CASE Number(word, 28, 26) = \b100 -> DataImmediate(word)
    [] Number(word, 28, 26) = \b101 -> Branches(word)
    [] Number(word, 27, 25) = \b101 -> DataRegister(word)
    [] 27 \in word /\ 25 \notin word -> LoadsStores(word)
    [] OTHER -> Unallocated
=============================================================================
