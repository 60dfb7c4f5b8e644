-------------------------- MODULE InstructionWord ---------------------------
(***************************************************************************)
(* class Arm64Opcode of include/Opcode/Base.hpp and the fields that each   *)
(* encoder of include/Opcode sets: the 32-bit word of an instruction, its  *)
(* hexadecimal text, and the bytes getFunctionPointer makes of the text.   *)
(*                                                                         *)
(* A word is the set of its bits that are 1, and | is union: fields that   *)
(* overlap spoil each other as they do in the source.                      *)
(***************************************************************************)
EXTENDS Opcode

\* setField(value, offset, length)
Field(value, offset, length) ==
  [value |-> value, offset |-> offset, length |-> length]

\* A field without a length: a constant, below 2^30 in every encoder.
ConstantBits(value, offset) == Field(value, offset, 30)

\* A flag is a constant 1 where it is set.
Flag(condition, offset) == ConstantBits(IF condition THEN 1 ELSE 0, offset)

FieldThrows(f) == f.value > 2 ^ f.length - 1

\* Two's complement of a negative value, cut at the length.
FieldBits(f) ==
  { f.offset + b : b \in { k \in 0 .. f.length - 1 : (f.value \div 2 ^ k) % 2 = 1 } }

SetRd(r) == Field(r, 0, 5)      \* setRt as well
SetRn(r) == Field(r, 5, 5)
SetRm(r) == Field(r, 16, 5)

\* Mutant: the place of Rm.
SetRt2AsRm(r) == Field(r, 16, 5)

SetRt2(r) == Field(r, 10, 5)
SetSf(ins) == Field(IF ins.w = "X" THEN 1 ELSE 0, 31, 1)

reverse_cond_str_map ==
  [eq |-> 0, ne |-> 1, cs |-> 2, cc |-> 3, hi |-> 8, ls |-> 9, ge |-> 10, lt |-> 11,
   gt |-> 12, le |-> 13]

PairMode == [PreIndex |-> \b1010011, PostIndex |-> \b1010001, SignedOffset |-> \b1010010]

Registers(ins) == { SetRd(ins.d), SetRn(ins.n), SetRm(ins.m) }

MovFields(ins) ==
  { SetSf(ins), SetRm(ins.m), SetRd(ins.d), ConstantBits(\b10101, 25), SetRn(31) }

MovWideFields(ins) ==
  { SetSf(ins), ConstantBits(IF ins.op = "movz" THEN \b10100101 ELSE \b11100101, 23),
    Field(ins.m, 21, 2), Field(ins.imm, 5, 16), SetRd(ins.d) }

AddSubImmFields(ins) ==
  { SetSf(ins), Flag(ins.op # "add", 30), Flag(ins.op = "cmpi", 29), ConstantBits(\b10001, 24),
    Field(0, 22, 1), Field(ins.imm, 10, 12), SetRn(ins.n), SetRd(ins.d) }

AddSubShiftFields(ins) ==
  { SetSf(ins), ConstantBits(\b1011, 24), Flag(ins.op # "addr", 30), Flag(ins.op = "cmpr", 29),
    Field(0, 22, 2), Field(0, 10, 6) } \cup Registers(ins)

MulFields(ins) == { SetSf(ins), ConstantBits(\h1B007C00, 0) } \cup Registers(ins)

DivFields(ins) ==
  { SetSf(ins), ConstantBits(\b1101011, 22), ConstantBits(1, 11), Flag(ins.op = "sdiv", 10) }
  \cup Registers(ins)

CselFields(ins) ==
  { SetSf(ins), ConstantBits(\b110101, 23), Field(reverse_cond_str_map[ins.c], 12, 4) }
  \cup Registers(ins)

LoadStoreFields(ins) ==
  { ConstantBits(1, 31), Flag(ins.w = "X", 30), ConstantBits(\b111, 27), SetRd(ins.d), SetRn(ins.n) }

LoadStoreImmFields(ins) ==
  LoadStoreFields(ins)
  \cup { Flag(ins.op = "ldr", 22), ConstantBits(1, 24), Field(ins.imm, 10, 12) }

LoadStoreRegFields(ins) ==
  LoadStoreFields(ins)
  \cup { Flag(ins.op = "ldrr", 22), ConstantBits(1, 21), ConstantBits(\b011, 13), ConstantBits(1, 11),
         SetRm(ins.m) }

\* imm7 is declared int8_t.
LdpStpFields(ins) ==
  LET imm7 == ((ins.imm \div 8 + 128) % 256) - 128
  IN { SetSf(ins), Flag(ins.op = "ldp", 22), ConstantBits(PairMode[ins.c], 23),
       Field(imm7, 15, 7), SetRt2(ins.m), SetRn(ins.n), SetRd(ins.d) }

BranchFields(ins) ==
  { ConstantBits(\b101, 26), Flag(ins.op = "bl", 31), Field(ins.imm, 0, 26) }

BranchConditionFields(ins) ==
  { ConstantBits(\b01010100, 24), Field(ins.imm, 5, 19),
    Field(reverse_cond_str_map[ins.c], 0, 4) }

BranchRegisterFields(ins) == { ConstantBits(\b1101011000011111000000, 10), SetRn(ins.n) }

ReturnFields(ins) == { ConstantBits(\b1101011001011111000000, 10), SetRn(ins.n) }

\* One constant of 32 bits in the source.
NopFields == { ConstantBits(\hD503, 16), ConstantBits(\h201F, 0) }

FieldsOf(ins) ==
  CASE ins.op = "mov" -> MovFields(ins)
    [] ins.op \in {"movz", "movk"} -> MovWideFields(ins)
    [] ins.op \in {"add", "sub", "cmpi"} -> AddSubImmFields(ins)
    [] ins.op \in {"addr", "subr", "cmpr"} -> AddSubShiftFields(ins)
    [] ins.op = "mul" -> MulFields(ins)
    [] ins.op \in {"sdiv", "udiv"} -> DivFields(ins)
    [] ins.op = "csel" -> CselFields(ins)
    [] ins.op \in {"ldr", "str"} -> LoadStoreImmFields(ins)
    [] ins.op \in {"ldrr", "strr"} -> LoadStoreRegFields(ins)
    [] ins.op \in {"ldp", "stp"} -> LdpStpFields(ins)
    [] ins.op \in {"b", "bl"} -> BranchFields(ins)
    [] ins.op = "bcond" -> BranchConditionFields(ins)
    [] ins.op = "br" -> BranchRegisterFields(ins)
    [] ins.op = "ret" -> ReturnFields(ins)
    [] ins.op = "nop" -> NopFields

Word(ins) == UNION { FieldBits(f) : f \in FieldsOf(ins) }

EncoderThrows(ins) == \E f \in FieldsOf(ins) : FieldThrows(f)

\* commonEncode: __builtin_bswap32, then the digits from the highest on, two
\* for a byte.  A byte is a set of bits too.
Swapped(word) == { 8 * (3 - (b \div 8)) + (b % 8) : b \in word }

InstructionText(ins) ==
  LET swapped == Swapped(Word(ins))
  IN [k \in 1 .. 4 |-> { b \in 0 .. 7 : 8 * (4 - k) + b \in swapped }]

\* getFunctionPointer: byte k of the text of all instructions, from 0.
CharArray(instructions) ==
  LET texts == [k \in DOMAIN instructions |-> InstructionText(instructions[k])]
  IN [k \in 0 .. 4 * Len(instructions) - 1 |-> texts[1 + k \div 4][1 + (k % 4)]]
=============================================================================
