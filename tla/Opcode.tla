------------------------------- MODULE Opcode -------------------------------
(***************************************************************************)
(* The ARM64 instructions the JIT can emit (include/Opcode/*.hpp).         *)
(*                                                                         *)
(* An encoder of the source ORs bit fields into a 32-bit word and returns  *)
(* eight hexadecimal characters.  Here an instruction is a record of the   *)
(* fields that decide what the instruction does; what the encoder computes *)
(* on the way to a field (scaling an offset, dropping the register class,  *)
(* splitting a constant in 16-bit halves) is computed here too.  The field *)
(* widths that a call can exceed are checked by Encodable.                 *)
(***************************************************************************)
EXTENDS Integers, Sequences

CONSTANT HalfBase   \* 2^16 in the code: the range of one mov[zk] immediate

ASSUME HalfBaseAssumption == HalfBase \in Nat /\ HalfBase > 1

WordBase == HalfBase * HalfBase      \* the values of a w register (int32_t)
XWordBase == WordBase * WordBase     \* the values of an x register (int64_t)

(***************************************************************************)
(* Base.hpp                                                                *)
(***************************************************************************)
\* setSf and bit 30 of the loads and stores only ask whether the class is
\* X_REG: S_REG and D_REG are encoded as a w register.
Width(regType) == IF regType = "X" THEN "X" ELSE "W"

Operation == {"nop", "mov", "movz", "movk", "add", "sub", "addr", "subr",
              "mul", "sdiv", "udiv", "cmpr", "cmpi", "csel", "ldr", "str",
              "ldrr", "strr", "ldp", "stp", "b", "bl", "bcond", "br", "ret"}

\* op: operation;  w: W or X;  d: Rd/Rt;  n: Rn;  m: Rm/Rt2, or the half
\* index of a mov[zk];  imm: immediate as encoded;  c: condition, or the
\* addressing mode of a pair;  label: for a placeholder, what it stands for.
Ins(op, regType, d, n, m, imm, c) ==
  [op |-> op, w |-> Width(regType), d |-> d, n |-> n, m |-> m, imm |-> imm,
   c |-> c, label |-> <<"none", 0>>]

SP == 31   \* register 31 is sp as a base or in add/sub immediate, else xzr

\* Mutant: the immediates are not checked.
EncodableRegister(ins) == ins.d < 32

\* setRd and setImm12 throw out_of_range above their limit; no other field
\* of a call made by the JIT can exceed its width.
Encodable(ins) ==
  /\ ins.d < 32
  /\ ins.op \in {"add", "sub", "ldr", "str"} => ins.imm < 4096

EncodeNop == Ins("nop", "W", 0, 0, 0, 0, "none")

(***************************************************************************)
(* Mov.hpp                                                                 *)
(***************************************************************************)
EncodeMovRegister(rd, rm) == Ins("mov", "X", rd, SP, rm, 0, "none")

EncodeMovz(rd, imm16, regType) == Ins("movz", regType, rd, 0, 0, imm16, "none")

EncodeMovk(rd, imm16, regType, half) ==
  Ins("movk", regType, rd, 0, half, imm16, "none")

\* Arithmetic shift right by k halves, then & 0xFFFF: the k-th half of the
\* two's complement representation of value.
HalfOf(value, k) ==
  CASE k = 0 -> value % HalfBase
    [] k = 1 -> (value \div HalfBase) % HalfBase
    [] k = 2 -> (value \div WordBase) % HalfBase
    [] k = 3 -> (value \div (WordBase * HalfBase)) % HalfBase

WrapperEncodeMovInt32(rd, value) ==
  << EncodeMovz(rd, HalfOf(value, 0), "W"),
     EncodeMovk(rd, HalfOf(value, 1), "W", 1) >>

WrapperEncodeMovInt64(rd, value) ==
  << EncodeMovz(rd, HalfOf(value, 0), "X"),
     EncodeMovk(rd, HalfOf(value, 1), "X", 1),
     EncodeMovk(rd, HalfOf(value, 2), "X", 2),
     EncodeMovk(rd, HalfOf(value, 3), "X", 3) >>

(***************************************************************************)
(* Arithmetic.hpp and Compare.hpp                                          *)
(***************************************************************************)
\* op, the operation, stands for the flags isSub, isSigned and withLink.
EncodeAddSubShift(op, regType, rd, rn, rm) == Ins(op, regType, rd, rn, rm, 0, "none")

EncodeMul(regType, rd, rn, rm) == Ins("mul", regType, rd, rn, rm, 0, "none")

EncodeDiv(op, regType, rd, rn, rm) == Ins(op, regType, rd, rn, rm, 0, "none")

\* The immediate is declared uint16_t: prepareSp passes an int.
EncodeAddSubImm(op, rd, rn, imm) == Ins(op, "X", rd, rn, 0, imm % 65536, "none")

EncodeMovSP(rd, rn) == EncodeAddSubImm("add", rd, rn, 0)

EncodeCompareShift(regType, rn, rm) == Ins("cmpr", regType, SP, rn, rm, 0, "none")

EncodeCompareImm(regType, rn, imm12) ==
  Ins("cmpi", regType, SP, rn, 0, imm12, "none")

EncodeCSEL(rd, rn, rm, cond) == Ins("csel", "X", rd, rn, rm, 0, cond)

(***************************************************************************)
(* LoadStore.hpp.  The unsigned offset form scales the offset: imm12 is    *)
(* imm >> 3 for an x register and imm >> 2 otherwise, so an offset that is *)
(* not a multiple of the size is silently rounded down.  imm is declared   *)
(* int16_t; a negative imm12 becomes a large uint16_t.                     *)
(***************************************************************************)
AccessSize(regType) == IF regType = "X" THEN 8 ELSE 4

Int16(v) == ((v + 32768) % 65536) - 32768

EncodeLoadStoreImm(regType, ldstType, rt, rn, imm) ==
  Ins(ldstType, regType, rt, rn, 0,
      (Int16(imm) \div AccessSize(regType)) % 65536, "none")

EncodeLoadStoreReg(regType, ldstType, rt, rn, rm) ==
  Ins(IF ldstType = "str" THEN "strr" ELSE "ldrr", regType, rt, rn, rm, 0, "none")

EncodeLdpStp(ldstType, rt, rt2, rn, imm, mode) ==
  Ins(IF ldstType = "str" THEN "stp" ELSE "ldp", "X", rt, rn, rt2, imm, mode)

(***************************************************************************)
(* Branch.hpp of Opcode.  Offsets count instructions.                      *)
(***************************************************************************)
EncodeReturn == Ins("ret", "X", 0, 30, 0, 0, "none")

EncodeBranchRegister(rn) == Ins("br", "X", 0, rn, 0, 0, "none")

EncodeBranch(op, offset) == Ins(op, "X", 0, 0, 0, offset, "none")

EncodeBranchCondition(offset, cond) ==
  Ins("bcond", "X", 0, 0, 0, offset, cond)

(***************************************************************************)
(* CommonHeader.hpp: the bodies of setjmp and longjmp.                     *)
(***************************************************************************)
SavedPairs == << 19, 21, 23, 25, 27, 29 >>

GetSetJmpInstr ==
  [k \in 1..6 |-> EncodeLdpStp("str", SavedPairs[k], SavedPairs[k] + 1, 0,
                               16 * (k - 1), "SignedOffset")]
  \o << EncodeMovSP(2, SP),
        EncodeLoadStoreImm("X", "str", 2, 0, 104),
        EncodeMovz(0, 0, "W"),
        EncodeReturn >>

GetLongJmpInstr ==
  [k \in 1..6 |-> EncodeLdpStp("ldr", SavedPairs[k], SavedPairs[k] + 1, 0,
                               16 * (k - 1), "SignedOffset")]
  \o << EncodeLoadStoreImm("X", "ldr", 5, 0, 104),
        EncodeMovSP(SP, 5),
        EncodeCompareImm("X", 1, 0),
        EncodeMovz(0, 1, "X"),
        EncodeCSEL(0, 1, 0, "ne"),
        EncodeBranchRegister(30) >>
=============================================================================
