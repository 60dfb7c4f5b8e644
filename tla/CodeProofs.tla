----------------------------- MODULE CodeProofs -----------------------------
(***************************************************************************)
(* How large the numbers of a translation are.  First the code: every      *)
(* operand fits the field its encoder has for it, every instruction is     *)
(* fetched and decoded as it was emitted, and every branch ends within the *)
(* code.  Then the frame of a function of i32 variables: its    *)
(* offsets, and that no two variables share a byte.                        *)
(***************************************************************************)
EXTENDS TranslatorProofs, WordProofs

\* Instructions that are no branches, that their encoders take and that the
\* processor decodes.
Straight ==
  {e \in Encoded : e.op \notin {"b", "bl", "bcond"} /\ ~EncoderThrows(e) /\ Decodes(e)}

(***************************************************************************)
(* What each encoder yields when its operands are in range.                *)
(***************************************************************************)
LEMMA RegisterType == Register \subseteq Nat /\ Register \subseteq Int
BY DEF Register

\* Encoded, no branch, taken by its encoder, and decoded.
LEMMA StraightType ==
  ASSUME NEW e \in Encoded, e.op \notin {"b", "bl", "bcond"}, ~EncoderThrows(e), Decodes(e)
  PROVE  e \in Straight
BY DEF Straight

\* Mov.hpp.
LEMMA MovStraight ==
  /\ \A rd, rm \in Register : EncodeMovRegister(rd, rm) \in Straight
  /\ \A rd \in Register : \A imm \in Half : \A w : EncodeMovz(rd, imm, w) \in Straight
  /\ \A rd \in Register : \A half \in {0, 1, 2, 3} : \A imm \in Half : \A w :
       EncodeMovk(rd, imm, w, half) \in Straight
  /\ EncodeNop \in Straight /\ EncodeReturn \in Straight
<1>1. ASSUME NEW rd \in Register, NEW rm \in Register
      PROVE  EncodeMovRegister(rd, rm) \in Straight
  <2> DEFINE e == EncodeMovRegister(rd, rm)
  <2>1. e \in Encoded BY RegisterType, MovEncoderType
  <2>2. e.op = "mov" /\ e.d = rd /\ e.m = rm BY DEF EncodeMovRegister, Ins
  <2>7. Decodes(e) BY MovDecodes DEF EncodeMovRegister, SP
  <2> HIDE DEF e
  <2>8. ~EncoderThrows(e) /\ e.op \notin {"b", "bl", "bcond"}
    BY <2>2, MovFits
  <2>9. e \in Straight BY <2>1, <2>7, <2>8, StraightType
  <2> QED BY <2>9 DEF e
<1>2. ASSUME NEW rd \in Register, NEW imm \in Half, NEW w
      PROVE  EncodeMovz(rd, imm, w) \in Straight
  <2> DEFINE e == EncodeMovz(rd, imm, w)
  <2>0. imm \in Int /\ imm < 65536 /\ 0 \in Int /\ 0 < 4 BY DEF Half
  <2>1. e \in Encoded BY <2>0, RegisterType, MovEncoderType
  <2>2. e.op = "movz" /\ e.d = rd /\ e.m = 0 /\ e.imm = imm BY DEF EncodeMovz, Ins
  <2>7. Decodes(e) BY MovWideDecodes DEF EncodeMovz
  <2> HIDE DEF e
  <2>8. ~EncoderThrows(e) /\ e.op \notin {"b", "bl", "bcond"}
    BY <2>0, <2>2, MovFits
  <2>9. e \in Straight BY <2>1, <2>7, <2>8, StraightType
  <2> QED BY <2>9 DEF e
<1>3. ASSUME NEW rd \in Register, NEW half \in {0, 1, 2, 3}, NEW imm \in Half, NEW w
      PROVE  EncodeMovk(rd, imm, w, half) \in Straight
  <2> DEFINE e == EncodeMovk(rd, imm, w, half)
  <2>0. imm \in Int /\ imm < 65536 /\ half \in Int /\ half < 4 /\ half \in Nat
    BY DEF Half
  <2>1. e \in Encoded BY <2>0, RegisterType, MovEncoderType
  <2>2. e.op = "movk" /\ e.d = rd /\ e.m = half /\ e.imm = imm BY DEF EncodeMovk, Ins
  <2>7. Decodes(e) BY MovWideDecodes DEF EncodeMovk
  <2> HIDE DEF e
  <2>8. ~EncoderThrows(e) /\ e.op \notin {"b", "bl", "bcond"}
    BY <2>0, <2>2, MovFits
  <2>9. e \in Straight BY <2>1, <2>7, <2>8, StraightType
  <2> QED BY <2>9 DEF e
<1>4. EncodeNop \in Straight
  <2>1. EncodeNop.op = "nop" BY DEF EncodeNop, Ins
  <2>2. EncodeNop \in Encoded BY MovEncoderType
  <2>3. ~EncoderThrows(EncodeNop) BY <2>1, BranchFits
  <2> QED BY <2>1, <2>2, <2>3, NopDecodes, StraightType
<1>5. EncodeReturn \in Straight
  <2>1. EncodeReturn.op = "ret" /\ EncodeReturn.n = 30 /\ 30 \in Register
    BY DEF EncodeReturn, Ins, Register
  <2>2. EncodeReturn \in Encoded BY MovEncoderType
  <2>3. ~EncoderThrows(EncodeReturn) BY <2>1, BranchFits
  <2>4. Decodes(EncodeReturn) BY <2>1, ReturnDecodes DEF EncodeReturn
  <2> QED BY <2>1, <2>2, <2>3, <2>4, StraightType
<1> QED BY <1>1, <1>2, <1>3, <1>4, <1>5

\* Arithmetic.hpp and Compare.hpp.
LEMMA ArithStraight ==
  /\ \A op \in {"addr", "subr"} : \A w : \A rd, rn, rm \in Register :
       EncodeAddSubShift(op, w, rd, rn, rm) \in Straight
  /\ \A op \in {"sdiv", "udiv"} : \A w : \A rd, rn, rm \in Register :
       EncodeDiv(op, w, rd, rn, rm) \in Straight
  /\ \A w : \A rd, rn, rm \in Register : EncodeMul(w, rd, rn, rm) \in Straight
  /\ \A op \in {"add", "sub"} : \A rd, rn \in Register : \A imm \in Nat :
       imm % 65536 < 4096 => EncodeAddSubImm(op, rd, rn, imm) \in Straight
  /\ \A rd, rn \in Register : EncodeMovSP(rd, rn) \in Straight
  /\ \A w : \A rn, rm \in Register : EncodeCompareShift(w, rn, rm) \in Straight
  /\ \A w : \A rn \in Register : EncodeCompareImm(w, rn, 0) \in Straight
  /\ \A rd, rn, rm \in Register : \A cond \in Condition :
       EncodeCSEL(rd, rn, rm, cond) \in Straight
<1>1. {"addr", "subr", "sdiv", "udiv", "add", "sub"} \subseteq Operation /\ SP \in Register
  BY DEF Operation, SP, Register
<1>2. ASSUME NEW op \in {"addr", "subr"}, NEW w, NEW rd \in Register, NEW rn \in Register,
             NEW rm \in Register
      PROVE  EncodeAddSubShift(op, w, rd, rn, rm) \in Straight
  <2> DEFINE e == EncodeAddSubShift(op, w, rd, rn, rm)
  <2>1. e \in Encoded BY <1>1, RegisterType, ArithEncoderType
  <2>2. e.op = op /\ e.d = rd /\ e.n = rn /\ e.m = rm BY DEF EncodeAddSubShift, Ins
  <2>7. Decodes(e) BY AddSubShiftDecodes DEF EncodeAddSubShift
  <2> HIDE DEF e
  <2>8. ~EncoderThrows(e) /\ e.op \notin {"b", "bl", "bcond"}
    BY <2>2, ArithFits
  <2>9. e \in Straight BY <2>1, <2>7, <2>8, StraightType
  <2> QED BY <2>9 DEF e
<1>3. ASSUME NEW op \in {"sdiv", "udiv"}, NEW w, NEW rd \in Register, NEW rn \in Register,
             NEW rm \in Register
      PROVE  EncodeDiv(op, w, rd, rn, rm) \in Straight
  <2> DEFINE e == EncodeDiv(op, w, rd, rn, rm)
  <2>1. e \in Encoded BY <1>1, RegisterType, ArithEncoderType
  <2>2. e.op = op /\ e.d = rd /\ e.n = rn /\ e.m = rm BY DEF EncodeDiv, Ins
  <2>7. Decodes(e) BY DivDecodes DEF EncodeDiv
  <2> HIDE DEF e
  <2>8. ~EncoderThrows(e) /\ e.op \notin {"b", "bl", "bcond"}
    BY <2>2, ArithFits
  <2>9. e \in Straight BY <2>1, <2>7, <2>8, StraightType
  <2> QED BY <2>9 DEF e
<1>4. ASSUME NEW w, NEW rd \in Register, NEW rn \in Register, NEW rm \in Register
      PROVE  EncodeMul(w, rd, rn, rm) \in Straight
  <2> DEFINE e == EncodeMul(w, rd, rn, rm)
  <2>1. e \in Encoded BY RegisterType, ArithEncoderType
  <2>2. e.op = "mul" /\ e.d = rd /\ e.n = rn /\ e.m = rm BY DEF EncodeMul, Ins
  <2>7. Decodes(e) BY MulDecodes DEF EncodeMul
  <2> HIDE DEF e
  <2>8. ~EncoderThrows(e) /\ e.op \notin {"b", "bl", "bcond"}
    BY <2>2, ArithFits
  <2>9. e \in Straight BY <2>1, <2>7, <2>8, StraightType
  <2> QED BY <2>9 DEF e
<1>5. ASSUME NEW op \in {"add", "sub"}, NEW rd \in Register, NEW rn \in Register,
             NEW imm \in Nat, imm % 65536 < 4096
      PROVE  EncodeAddSubImm(op, rd, rn, imm) \in Straight
  <2> DEFINE e == EncodeAddSubImm(op, rd, rn, imm)
  <2>0. imm \in Int /\ imm % 65536 \in Int OBVIOUS
  <2>1. e \in Encoded BY <1>1, <2>0, RegisterType, ArithEncoderType
  <2>2. e.op = op /\ e.d = rd /\ e.n = rn /\ e.imm = imm % 65536 BY DEF EncodeAddSubImm, Ins
  <2>6. imm % 65536 \in Offset12 BY <1>5 DEF Offset12
  <2>7. Decodes(e) BY <2>6, AddSubImmDecodes DEF EncodeAddSubImm
  <2> HIDE DEF e
  <2>8. ~EncoderThrows(e) /\ e.op \notin {"b", "bl", "bcond"}
    BY <1>5, <2>0, <2>2, ArithFits
  <2>9. e \in Straight BY <2>1, <2>7, <2>8, StraightType
  <2> QED BY <2>9 DEF e
<1>6. ASSUME NEW rd \in Register, NEW rn \in Register PROVE EncodeMovSP(rd, rn) \in Straight
  <2>1. 0 \in Nat /\ 0 % 65536 < 4096 OBVIOUS
  <2> QED BY <1>5, <2>1 DEF EncodeMovSP
<1>7. ASSUME NEW w, NEW rn \in Register, NEW rm \in Register
      PROVE  EncodeCompareShift(w, rn, rm) \in Straight
  <2> DEFINE e == EncodeCompareShift(w, rn, rm)
  <2>1. e \in Encoded BY RegisterType, ArithEncoderType
  <2>2. e.op = "cmpr" /\ e.d = SP /\ e.n = rn /\ e.m = rm BY DEF EncodeCompareShift, Ins
  <2>7. Decodes(e) BY <1>1, AddSubShiftDecodes DEF EncodeCompareShift, SP
  <2> HIDE DEF e
  <2>8. ~EncoderThrows(e) /\ e.op \notin {"b", "bl", "bcond"}
    BY <1>1, <2>2, ArithFits
  <2>9. e \in Straight BY <2>1, <2>7, <2>8, StraightType
  <2> QED BY <2>9 DEF e
<1>8. ASSUME NEW w, NEW rn \in Register PROVE EncodeCompareImm(w, rn, 0) \in Straight
  <2> DEFINE e == EncodeCompareImm(w, rn, 0)
  <2>1. e \in Encoded BY RegisterType, ArithEncoderType
  <2>2. e.op = "cmpi" /\ e.d = SP /\ e.n = rn /\ e.imm = 0 BY DEF EncodeCompareImm, Ins
  <2>3. e.imm \in Int /\ e.imm < 4096 BY <2>2
  <2>6. 0 \in Offset12 BY DEF Offset12
  <2>7. Decodes(e) BY <1>1, <2>6, AddSubImmDecodes DEF EncodeCompareImm, SP
  <2> HIDE DEF e
  <2>8. ~EncoderThrows(e) /\ e.op \notin {"b", "bl", "bcond"}
    BY <1>1, <2>2, <2>3, ArithFits
  <2>9. e \in Straight BY <2>1, <2>7, <2>8, StraightType
  <2> QED BY <2>9 DEF e
<1>9. ASSUME NEW rd \in Register, NEW rn \in Register, NEW rm \in Register, NEW cond \in Condition
      PROVE  EncodeCSEL(rd, rn, rm, cond) \in Straight
  <2> DEFINE e == EncodeCSEL(rd, rn, rm, cond)
  <2>1. e \in Encoded BY RegisterType, ArithEncoderType
  <2>2. e.op = "csel" /\ e.d = rd /\ e.n = rn /\ e.m = rm /\ e.c = cond BY DEF EncodeCSEL, Ins
  <2>7. Decodes(e) BY CselDecodes DEF EncodeCSEL
  <2> HIDE DEF e
  <2>8. ~EncoderThrows(e) /\ e.op \notin {"b", "bl", "bcond"}
    BY <2>2, ArithFits
  <2>9. e \in Straight BY <2>1, <2>7, <2>8, StraightType
  <2> QED BY <2>9 DEF e
<1> QED BY <1>2, <1>3, <1>4, <1>5, <1>6, <1>7, <1>8, <1>9

\* LoadStore.hpp and br.
LEMMA MemoryStraight ==
  /\ \A w : \A ldst \in {"ldr", "str"} : \A rt, rn \in Register : \A imm \in Offset12 :
       EncodeLoadStoreImm(w, ldst, rt, rn, imm) \in Straight
  /\ \A w, ldst : \A rt, rn, rm \in Register : EncodeLoadStoreReg(w, ldst, rt, rn, rm) \in Straight
  /\ \A ldst : \A rt, rt2, rn \in Register : \A half \in Offset7 : \A mode \in EncodingMode :
       EncodeLdpStp(ldst, rt, rt2, rn, 8 * half, mode) \in Straight
  /\ \A rn \in Register : EncodeBranchRegister(rn) \in Straight
<1>1. ASSUME NEW w, NEW ldst \in {"ldr", "str"}, NEW rt \in Register, NEW rn \in Register,
             NEW imm \in Offset12
      PROVE  EncodeLoadStoreImm(w, ldst, rt, rn, imm) \in Straight
  <2> DEFINE e == EncodeLoadStoreImm(w, ldst, rt, rn, imm)
  <2>0. imm \in Int BY DEF Offset12
  <2>1. e \in Encoded BY <2>0, RegisterType, MemoryEncoderType
  <2>2. /\ e.op = ldst /\ e.d = rt /\ e.n = rn
        /\ e.imm = (Int16(imm) \div AccessSize(w)) % 65536
    BY DEF EncodeLoadStoreImm, Ins
  <2>3. (Int16(imm) \div AccessSize(w)) % 65536 \in Offset12
    <3>1. Int16(imm) = imm BY DEF Int16, Offset12
    <3>2. AccessSize(w) \in {4, 8} BY DEF AccessSize
    <3>3. (imm \div 4) % 65536 \in Offset12 /\ (imm \div 8) % 65536 \in Offset12
      BY DEF Offset12
    <3> QED BY <3>1, <3>2, <3>3
  <2>4. e.imm \in Int /\ e.imm < 4096 BY <2>2, <2>3 DEF Offset12
  <2>7. Decodes(e) BY <2>3, LoadStoreImmDecodes DEF EncodeLoadStoreImm
  <2> HIDE DEF e
  <2>8. ~EncoderThrows(e) /\ e.op \notin {"b", "bl", "bcond"}
    BY <2>2, <2>4, MemoryFits
  <2>9. e \in Straight BY <2>1, <2>7, <2>8, StraightType
  <2> QED BY <2>9 DEF e
<1>2. ASSUME NEW w, NEW ldst, NEW rt \in Register, NEW rn \in Register, NEW rm \in Register
      PROVE  EncodeLoadStoreReg(w, ldst, rt, rn, rm) \in Straight
  <2> DEFINE e == EncodeLoadStoreReg(w, ldst, rt, rn, rm)
  <2>1. e \in Encoded BY RegisterType, MemoryEncoderType
  <2>2. e.op \in {"ldrr", "strr"} /\ e.d = rt /\ e.n = rn /\ e.m = rm
    BY DEF EncodeLoadStoreReg, Ins
  <2>7. Decodes(e) BY LoadStoreRegDecodes DEF EncodeLoadStoreReg
  <2> HIDE DEF e
  <2>8. ~EncoderThrows(e) /\ e.op \notin {"b", "bl", "bcond"}
    BY <2>2, MemoryFits
  <2>9. e \in Straight BY <2>1, <2>7, <2>8, StraightType
  <2> QED BY <2>9 DEF e
<1>3. ASSUME NEW ldst, NEW rt \in Register, NEW rt2 \in Register, NEW rn \in Register,
             NEW half \in Offset7, NEW mode \in EncodingMode
      PROVE  EncodeLdpStp(ldst, rt, rt2, rn, 8 * half, mode) \in Straight
  <2> DEFINE e == EncodeLdpStp(ldst, rt, rt2, rn, 8 * half, mode)
  <2>0. 8 * half \in Int BY DEF Offset7
  <2>1. e \in Encoded BY <2>0, RegisterType, MemoryEncoderType
  <2>2. /\ e.op \in {"ldp", "stp"} /\ e.d = rt /\ e.n = rn /\ e.m = rt2
        /\ e.imm = 8 * half /\ e.c = mode
    BY DEF EncodeLdpStp, Ins
  <2>7. Decodes(e) BY LdpStpDecodes DEF EncodeLdpStp
  <2> HIDE DEF e
  <2>8. ~EncoderThrows(e) /\ e.op \notin {"b", "bl", "bcond"}
    BY <2>0, <2>2, MemoryFits
  <2>9. e \in Straight BY <2>1, <2>7, <2>8, StraightType
  <2> QED BY <2>9 DEF e
<1>4. ASSUME NEW rn \in Register PROVE EncodeBranchRegister(rn) \in Straight
  <2> DEFINE e == EncodeBranchRegister(rn)
  <2>1. e \in Encoded BY RegisterType, BranchEncoderType
  <2>2. e.op = "br" /\ e.n = rn BY DEF EncodeBranchRegister, Ins
  <2>7. Decodes(e) BY BranchRegisterDecodes DEF EncodeBranchRegister
  <2> HIDE DEF e
  <2>8. ~EncoderThrows(e) /\ e.op \notin {"b", "bl", "bcond"}
    BY <2>2, BranchFits
  <2>9. e \in Straight BY <2>1, <2>7, <2>8, StraightType
  <2> QED BY <2>9 DEF e
<1> QED BY <1>1, <1>2, <1>3, <1>4

(***************************************************************************)
(* The fragments: what each is built from, and how long it can be.         *)
(***************************************************************************)
Part == Straight \cup Placeholder

FitsIn(s, n) == s \in Seq(Part) /\ Len(s) <= n

\* What the emitters build their code from.
LEMMA PartType ==
  /\ Straight \subseteq Part
  /\ \A label \in Label : \A br \in Br : Fake(label, br) \in Part
BY FakeType DEF Part

\* Fragments put together.
LEMMA FitJoin ==
  ASSUME NEW s, NEW t, NEW m \in Nat, NEW n \in Nat, FitsIn(s, m), FitsIn(t, n)
  PROVE  FitsIn(s \o t, m + n)
<1>1. s \in Seq(Part) /\ t \in Seq(Part) /\ Len(s) <= m /\ Len(t) <= n BY DEF FitsIn
<1>2. s \o t \in Seq(Part) /\ Len(s \o t) = Len(s) + Len(t) BY <1>1, ConcatProperties
<1>3. Len(s) \in Nat /\ Len(t) \in Nat BY <1>1, LenProperties
<1>4. Len(s \o t) <= m + n BY <1>1, <1>2, <1>3
<1> QED BY <1>2, <1>4 DEF FitsIn

\* A fragment with room to spare.
LEMMA FitMore ==
  ASSUME NEW s, NEW m \in Nat, NEW n \in Nat, m <= n, FitsIn(s, m)
  PROVE  FitsIn(s, n)
<1>1. s \in Seq(Part) /\ Len(s) <= m BY DEF FitsIn
<1>2. Len(s) \in Nat BY <1>1, LenProperties
<1>3. Len(s) <= n BY <1>1, <1>2
<1> QED BY <1>1, <1>3 DEF FitsIn

\* Short fragments.
LEMMA FitTuple ==
  ASSUME NEW a \in Part, NEW b \in Part, NEW c \in Part, NEW d \in Part
  PROVE  /\ FitsIn(<< a >>, 1) /\ FitsIn(<< a, b >>, 2) /\ FitsIn(<< a, b, c >>, 3)
         /\ FitsIn(<< a, b, c, d >>, 4)
<1>1. << a >> \in Seq(Part) /\ Len(<< a >>) <= 1 OBVIOUS
<1>2. << a, b >> \in Seq(Part) /\ Len(<< a, b >>) <= 2 OBVIOUS
<1>3. << a, b, c >> \in Seq(Part) /\ Len(<< a, b, c >>) <= 3 OBVIOUS
<1>4. << a, b, c, d >> \in Seq(Part) /\ Len(<< a, b, c, d >>) <= 4 OBVIOUS
<1> QED BY <1>1, <1>2, <1>3, <1>4 DEF FitsIn

\* The registers the emitters name.
LEMMA NamedRegisters ==
  /\ {0, 1, 2, 3, 4, 5, 11, 12, 14, 15, 19, 20, 21, 29, 30, 31} \subseteq Register
  /\ REG_BUFFER \in Register /\ REG_WASM_STACK \in Register
  /\ REG_POINTER_WASM_STACK \in Register /\ SP \in Register
BY DEF Register, REG_BUFFER, REG_WASM_STACK, REG_POINTER_WASM_STACK, SP

\* The operand stack.
LEMMA PushPopFit ==
  ASSUME NEW w, NEW reg \in Register
  PROVE  FitsIn(Push(w, reg), 2) /\ FitsIn(Pop(w, reg), 2) /\ FitsIn(PopTee(w, reg), 3)
<1> DEFINE up == EncodeAddSubImm("add", REG_POINTER_WASM_STACK, REG_POINTER_WASM_STACK, 8)
           down == EncodeAddSubImm("sub", REG_POINTER_WASM_STACK, REG_POINTER_WASM_STACK, 8)
           access(ldst) ==
             EncodeLoadStoreReg(w, ldst, reg, REG_WASM_STACK, REG_POINTER_WASM_STACK)
<1>1. up \in Part /\ down \in Part
  <2>1. 8 \in Nat /\ 8 % 65536 < 4096 OBVIOUS
  <2> QED BY <2>1, ArithStraight, NamedRegisters, PartType
<1>2. access("ldr") \in Part /\ access("str") \in Part
  BY MemoryStraight, NamedRegisters, PartType
<1>3. /\ Push(w, reg) = << access("str"), up >> /\ Pop(w, reg) = << down, access("ldr") >>
      /\ PopTee(w, reg) = Pop(w, reg) \o << up >>
  BY DEF Push, Pop, PopTee
<1> HIDE DEF up, down, access
<1>4. /\ FitsIn(<< access("str"), up >>, 2) /\ FitsIn(<< down, access("ldr") >>, 2)
      /\ FitsIn(<< up >>, 1)
  BY <1>1, <1>2, FitTuple
<1>5. FitsIn(Push(w, reg), 2) /\ FitsIn(Pop(w, reg), 2) BY <1>3, <1>4
<1>6. FitsIn(Pop(w, reg) \o << up >>, 2 + 1) BY <1>4, <1>5, FitJoin
<1> QED BY <1>3, <1>5, <1>6

\* Halves of a constant fit where a mov[zk] has room for a half.
LEMMA HalfFits ==
  ASSUME NEW value \in Int, NEW k \in 0 .. 3
  PROVE  HalfOf(value, k) \in Half
<1>1. /\ HalfBase \in Nat \ {0} /\ WordBase \in Nat \ {0} /\ WordBase * HalfBase \in Nat \ {0}
  BY BasesType
<1>2. /\ value \div HalfBase \in Int /\ value \div WordBase \in Int
      /\ value \div (WordBase * HalfBase) \in Int
  BY <1>1
<1>3. \A v \in Int : v % HalfBase \in Half BY <1>1, MachineAssumption DEF Half
<1> QED BY <1>2, <1>3 DEF HalfOf

\* A constant.
LEMMA MovIntFit ==
  ASSUME NEW w, NEW rd \in Register, NEW value \in Int
  PROVE  FitsIn(MovInt(w, rd, value), 4)
<1>1. \A k \in 0 .. 3 : HalfOf(value, k) \in Half BY HalfFits
<1>2. \A u : EncodeMovz(rd, HalfOf(value, 0), u) \in Part BY <1>1, MovStraight, PartType
<1>3. \A u : \A k \in {1, 2, 3} : EncodeMovk(rd, HalfOf(value, k), u, k) \in Part
  BY <1>1, MovStraight, PartType
<1>4. FitsIn(WrapperEncodeMovInt32(rd, value), 2)
  <2> DEFINE a == EncodeMovz(rd, HalfOf(value, 0), "W")
             b == EncodeMovk(rd, HalfOf(value, 1), "W", 1)
  <2>1. a \in Part /\ b \in Part BY <1>2, <1>3
  <2>2. WrapperEncodeMovInt32(rd, value) = << a, b >> BY DEF WrapperEncodeMovInt32
  <2> HIDE DEF a, b
  <2> QED BY <2>1, <2>2, FitTuple
<1>5. FitsIn(WrapperEncodeMovInt64(rd, value), 4)
  <2> DEFINE a == EncodeMovz(rd, HalfOf(value, 0), "X")
             b == EncodeMovk(rd, HalfOf(value, 1), "X", 1)
             c == EncodeMovk(rd, HalfOf(value, 2), "X", 2)
             d == EncodeMovk(rd, HalfOf(value, 3), "X", 3)
  <2>1. a \in Part /\ b \in Part /\ c \in Part /\ d \in Part BY <1>2, <1>3
  <2>2. WrapperEncodeMovInt64(rd, value) = << a, b, c, d >> BY DEF WrapperEncodeMovInt64
  <2> HIDE DEF a, b, c, d
  <2> QED BY <2>1, <2>2, FitTuple
<1>6. FitsIn(WrapperEncodeMovInt32(rd, value), 4) BY <1>4, FitMore
<1> QED BY <1>5, <1>6 DEF MovInt

\* The emitters whose code has no branch.
LEMMA VariablesFit ==
  ASSUME NEW var, var.offset \in Offset12
  PROVE  FitsIn(EmitGet(var), 3) /\ FitsIn(EmitSet(var), 3) /\ FitsIn(EmitTee(var), 4)
<1> DEFINE w == var.reg
           access(ldst) == EncodeLoadStoreImm(w, ldst, 11, SP, var.offset)
<1>1. access("ldr") \in Part /\ access("str") \in Part
  BY MemoryStraight, NamedRegisters, PartType
<1>2. /\ EmitGet(var) = << access("ldr") >> \o Push(w, 11)
      /\ EmitSet(var) = Pop(w, 11) \o << access("str") >>
      /\ EmitTee(var) = PopTee(w, 11) \o << access("str") >>
  BY DEF EmitGet, EmitSet, EmitTee
<1> HIDE DEF access, w
<1>3. FitsIn(<< access("ldr") >>, 1) /\ FitsIn(<< access("str") >>, 1) BY <1>1, FitTuple
<1>4. FitsIn(Push(w, 11), 2) /\ FitsIn(Pop(w, 11), 2) /\ FitsIn(PopTee(w, 11), 3)
  BY PushPopFit, NamedRegisters
<1>5. /\ FitsIn(EmitGet(var), 1 + 2) /\ FitsIn(EmitSet(var), 2 + 1) /\ FitsIn(EmitTee(var), 3 + 1)
  BY <1>2, <1>3, <1>4, FitJoin
<1> QED BY <1>5

\* Constants and pairs of operands.
LEMMA ConstFit ==
  ASSUME NEW w
  PROVE  /\ \A value \in Int : FitsIn(EmitConst(w, value), 6)
         /\ FitsIn(PopOperands(w), 4)
<1>1. FitsIn(Push(w, 11), 2) /\ FitsIn(Pop(w, 11), 2) /\ FitsIn(Pop(w, 12), 2)
  BY PushPopFit, NamedRegisters
<1>2. ASSUME NEW value \in Int PROVE FitsIn(EmitConst(w, value), 6)
  <2>1. FitsIn(MovInt(w, 11, value), 4) BY MovIntFit, NamedRegisters
  <2>2. FitsIn(EmitConst(w, value), 4 + 2) BY <1>1, <2>1, FitJoin DEF EmitConst
  <2> QED BY <2>2
<1>3. FitsIn(PopOperands(w), 2 + 2) BY <1>1, FitJoin DEF PopOperands
<1> QED BY <1>2, <1>3

\* Comparisons and arithmetic.
LEMMA OperationsFit ==
  ASSUME NEW w
  PROVE  /\ \A cond \in Condition : FitsIn(EmitCompareOp(w, cond), 10)
         /\ \A op \in {"+", "-", "*"} : FitsIn(EmitArithOp(w, op), 7)
<1>1. ASSUME NEW cond \in Condition PROVE FitsIn(EmitCompareOp(w, cond), 10)
  <2> DEFINE a == EncodeMovz(3, 1, "X")
             b == EncodeMovz(4, 0, "X")
             c == EncodeCompareShift(w, 11, 12)
             d == EncodeCSEL(0, 3, 4, cond)
  <2>1. a \in Part /\ b \in Part
    <3>1. 0 \in Half /\ 1 \in Half BY DEF Half
    <3> QED BY <3>1, MovStraight, NamedRegisters, PartType
  <2>2. c \in Part /\ d \in Part BY ArithStraight, NamedRegisters, PartType
  <2>3. EmitCompareOp(w, cond)
          = << a, b >> \o Pop(w, 12) \o Pop(w, 11) \o << c, d >> \o Push("X", 0)
    BY DEF EmitCompareOp
  <2> HIDE DEF a, b, c, d
  <2>4. FitsIn(Pop(w, 12), 2) /\ FitsIn(Pop(w, 11), 2) /\ FitsIn(Push("X", 0), 2)
    BY PushPopFit, NamedRegisters
  <2>5. FitsIn(<< a, b >>, 2) /\ FitsIn(<< c, d >>, 2) BY <2>1, <2>2, FitTuple
  <2>6. FitsIn(<< a, b >> \o Pop(w, 12), 2 + 2) BY <2>4, <2>5, FitJoin
  <2>7. FitsIn(<< a, b >> \o Pop(w, 12) \o Pop(w, 11), 4 + 2) BY <2>4, <2>6, FitJoin
  <2>8. FitsIn(<< a, b >> \o Pop(w, 12) \o Pop(w, 11) \o << c, d >>, 6 + 2)
    BY <2>5, <2>7, FitJoin
  <2>9. FitsIn(<< a, b >> \o Pop(w, 12) \o Pop(w, 11) \o << c, d >> \o Push("X", 0), 8 + 2)
    BY <2>4, <2>8, FitJoin
  <2>10. FitsIn(EmitCompareOp(w, cond), 8 + 2) BY <2>3, <2>9
  <2> QED BY <2>10
<1>2. ASSUME NEW op \in {"+", "-", "*"} PROVE FitsIn(EmitArithOp(w, op), 7)
  <2> DEFINE ins == CASE op = "+" -> EncodeAddSubShift("addr", w, 11, 12, 11)
                      [] op = "-" -> EncodeAddSubShift("subr", w, 11, 12, 11)
                      [] op = "*" -> EncodeMul(w, 11, 12, 11)
  <2>1. ins \in Part BY ArithStraight, NamedRegisters, PartType
  <2>2. EmitArithOp(w, op) = PopOperands(w) \o << ins >> \o Push(w, 11) BY DEF EmitArithOp
  <2> HIDE DEF ins
  <2>3. FitsIn(PopOperands(w), 4) /\ FitsIn(<< ins >>, 1) /\ FitsIn(Push(w, 11), 2)
    BY <2>1, ConstFit, PushPopFit, NamedRegisters, FitTuple
  <2>4. FitsIn(PopOperands(w) \o << ins >>, 4 + 1) BY <2>3, FitJoin
  <2>5. FitsIn(PopOperands(w) \o << ins >> \o Push(w, 11), 5 + 2) BY <2>3, <2>4, FitJoin
  <2> QED BY <2>2, <2>5
<1> QED BY <1>1, <1>2

\* A division.
LEMMA DivFit ==
  ASSUME NEW w, NEW op \in {"sdiv", "udiv"}
  PROVE  FitsIn(EmitDivOp(w, op), 22)
<1> DEFINE zero == EncodeCompareImm(w, 11, 0)
           trap == Fake(Fixed("preparelongjmp"), "beq")
           one == EncodeCompareShift(w, 11, 5)
           skip == Fake(Fixed("normal_div"), "bne")
           least == EncodeCompareShift(w, 12, 5)
           last == Fake(Fixed("preparelongjmp"), "b")
           div == EncodeDiv(op, w, 11, 12, 11)
           p == PopOperands(w)
           m == MovInt(w, 5, -1)
           n == MovInt(w, 5, MinInt(w))
           q == Push(w, 11)
<1>1. /\ zero \in Part /\ one \in Part /\ least \in Part /\ div \in Part
  BY ArithStraight, NamedRegisters, PartType
<1>2. trap \in Part /\ skip \in Part /\ last \in Part
  BY PartType, FixedType DEF LabelName, Br
<1>3. FitsIn(m, 4) /\ FitsIn(n, 4)
  <2>1. MinInt(w) \in Int BY BasesType DEF MinInt
  <2> QED BY <2>1, MovIntFit, NamedRegisters
<1>4. FitsIn(p, 4) /\ FitsIn(q, 2) BY ConstFit, PushPopFit, NamedRegisters
<1>5. /\ DivChecks(w) = p \o << zero, trap >> \o m \o << one, skip >> \o n \o << least, skip, last >>
      /\ EmitDivOp(w, op) = DivChecks(w) \o << div >> \o q
  BY DEF DivChecks, EmitDivOp
<1> HIDE DEF zero, trap, one, skip, least, last, div, p, m, n, q
<1>6. /\ FitsIn(<< zero, trap >>, 2) /\ FitsIn(<< one, skip >>, 2)
      /\ FitsIn(<< least, skip, last >>, 3) /\ FitsIn(<< div >>, 1)
  BY <1>1, <1>2, FitTuple
<1>7. FitsIn(p \o << zero, trap >>, 4 + 2) BY <1>4, <1>6, FitJoin
<1>8. FitsIn(p \o << zero, trap >> \o m, 6 + 4) BY <1>3, <1>7, FitJoin
<1>9. FitsIn(p \o << zero, trap >> \o m \o << one, skip >>, 10 + 2) BY <1>6, <1>8, FitJoin
<1>10. FitsIn(p \o << zero, trap >> \o m \o << one, skip >> \o n, 12 + 4)
  BY <1>3, <1>9, FitJoin
<1>11. FitsIn(DivChecks(w), 16 + 3) BY <1>5, <1>6, <1>10, FitJoin
<1>12. FitsIn(DivChecks(w) \o << div >>, 19 + 1) BY <1>6, <1>11, FitJoin
<1>13. FitsIn(DivChecks(w) \o << div >> \o q, 20 + 2) BY <1>4, <1>12, FitJoin
<1>14. FitsIn(EmitDivOp(w, op), 20 + 2) BY <1>5, <1>13
<1> QED BY <1>14

\* The test of an if and the jump over its false arm.
LEMMA BlocksFit ==
  ASSUME NEW label \in Label
  PROVE  FitsIn(IfTest(label), 5) /\ FitsIn(<< Fake(label, "b") >>, 1)
<1> DEFINE test == EncodeCompareImm("W", 11, 0)
           skip == Fake(label, "beq")
           jump == Fake(label, "b")
<1>1. test \in Part /\ skip \in Part /\ jump \in Part
  BY ArithStraight, NamedRegisters, PartType DEF Br
<1>2. IfTest(label) = PopTee("W", 11) \o << test, skip >> BY DEF IfTest
<1> HIDE DEF test, skip, jump
<1>3. FitsIn(<< test, skip >>, 2) /\ FitsIn(<< jump >>, 1) BY <1>1, FitTuple
<1>4. FitsIn(PopTee("W", 11), 3) BY PushPopFit, NamedRegisters
<1>5. FitsIn(IfTest(label), 3 + 2) BY <1>2, <1>3, <1>4, FitJoin
<1> QED BY <1>3, <1>5 DEF jump

\* The fragments around a call.
LEMMA SmallFragmentsFit ==
  /\ FitsIn(BackupRegisters, 3) /\ FitsIn(StoreReturnCode0, 2)
  /\ FitsIn(<< EncodeReturn >>, 1) /\ FitsIn(<< EncodeNop >>, 1) /\ FitsIn(<< >>, 0)
<1>0. 0 \in Half /\ 0 \in Offset12 BY DEF Half, Offset12
<1>1. FitsIn(BackupRegisters, 3)
  <2> DEFINE a == EncodeMovRegister(REG_BUFFER, 0)
             b == EncodeMovRegister(REG_WASM_STACK, 1)
             c == EncodeMovz(REG_POINTER_WASM_STACK, 0, "X")
  <2>1. a \in Part /\ b \in Part /\ c \in Part BY <1>0, MovStraight, NamedRegisters, PartType
  <2>2. BackupRegisters = << a, b, c >> BY DEF BackupRegisters
  <2> HIDE DEF a, b, c
  <2> QED BY <2>1, <2>2, FitTuple
<1>2. FitsIn(StoreReturnCode0, 2)
  <2> DEFINE a == EncodeMovz(11, 0, "X")
             b == EncodeLoadStoreImm("X", "str", 11, REG_BUFFER, 0)
  <2>1. a \in Part /\ b \in Part
    BY <1>0, MovStraight, MemoryStraight, NamedRegisters, PartType
  <2>2. StoreReturnCode0 = << a, b >> BY DEF StoreReturnCode0
  <2> HIDE DEF a, b
  <2> QED BY <2>1, <2>2, FitTuple
<1>3. EncodeReturn \in Part /\ EncodeNop \in Part BY MovStraight, PartType
<1>4. << >> \in Seq(Part) /\ Len(<< >>) <= 0 BY EmptySeq
<1>5. FitsIn(<< >>, 0) BY <1>4 DEF FitsIn
<1> QED BY <1>1, <1>2, <1>3, <1>5, FitTuple

\* The bodies of setjmp and longjmp.
LEMMA SetJmpFit == FitsIn(GetSetJmpInstr, 10) /\ FitsIn(GetLongJmpInstr, 12)
<1> DEFINE pair(ldst, k) == EncodeLdpStp(ldst, SavedPairs[k], SavedPairs[k] + 1, 0,
                                         16 * (k - 1), "SignedOffset")
           pairs(ldst) == [k \in 1..6 |-> pair(ldst, k)]
<1>0. 0 \in Half /\ 1 \in Half /\ 0 \in Offset12 /\ 104 \in Offset12 /\ "ne" \in Condition
  BY DEF Half, Offset12, Condition
<1>1. \A k \in 1..6 : SavedPairs[k] \in Register /\ SavedPairs[k] + 1 \in Register
  BY DEF SavedPairs, Register
<1>2. "SignedOffset" \in EncodingMode /\ 0 \in Register BY DEF EncodingMode, Register
<1>3. \A ldst : \A k \in 1..6 : pair(ldst, k) \in Part
  <2> TAKE ldst
  <2> TAKE k \in 1..6
  <2> DEFINE half == 2 * (k - 1)
  <2>1. half \in Offset7 /\ 8 * half = 16 * (k - 1) BY DEF Offset7
  <2> HIDE DEF half
  <2>2. EncodeLdpStp(ldst, SavedPairs[k], SavedPairs[k] + 1, 0, 8 * half, "SignedOffset") \in Part
    BY <1>1, <1>2, <2>1, MemoryStraight, PartType
  <2> QED BY <2>1, <2>2
<1> HIDE DEF pair
<1>4. ASSUME NEW ldst PROVE FitsIn(pairs(ldst), 6)
  <2>1. pairs(ldst) \in [1..6 -> Part] BY <1>3
  <2> HIDE DEF pairs
  <2>2. pairs(ldst) \in Seq(Part) /\ Len(pairs(ldst)) = 6 BY <2>1, FunctionIsSeq
  <2>3. Len(pairs(ldst)) <= 6 BY <2>2
  <2> QED BY <2>2, <2>3 DEF FitsIn
<1>5. FitsIn(GetSetJmpInstr, 10)
  <2> DEFINE a == EncodeMovSP(2, SP)
             b == EncodeLoadStoreImm("X", "str", 2, 0, 104)
             c == EncodeMovz(0, 0, "W")
             d == EncodeReturn
  <2>0. a \in Straight /\ b \in Straight /\ c \in Straight /\ d \in Straight
    <3>1. 2 \in Register /\ 0 \in Register /\ SP \in Register BY NamedRegisters
    <3>2. a \in Straight BY <3>1, ArithStraight
    <3>3. b \in Straight BY <1>0, <3>1, MemoryStraight
    <3>4. c \in Straight /\ d \in Straight BY <1>0, <3>1, MovStraight
    <3> QED BY <3>2, <3>3, <3>4
  <2>1. a \in Part /\ b \in Part /\ c \in Part /\ d \in Part BY <2>0, PartType
  <2>2. GetSetJmpInstr = pairs("str") \o << a, b, c, d >> BY DEF GetSetJmpInstr, pair
  <2> HIDE DEF a, b, c, d, pairs
  <2>3. FitsIn(<< a, b, c, d >>, 4) BY <2>1, FitTuple
  <2>4. FitsIn(GetSetJmpInstr, 6 + 4) BY <1>4, <2>2, <2>3, FitJoin
  <2> QED BY <2>4
<1>6. FitsIn(GetLongJmpInstr, 12)
  <2> DEFINE a == EncodeLoadStoreImm("X", "ldr", 5, 0, 104)
             b == EncodeMovSP(SP, 5)
             c == EncodeCompareImm("X", 1, 0)
             d == EncodeMovz(0, 1, "X")
             e == EncodeCSEL(0, 1, 0, "ne")
             f == EncodeBranchRegister(30)
             l == << a, b, c, d, e, f >>
  <2>1. a \in Straight /\ b \in Straight /\ d \in Straight
    <3>1. 5 \in Register /\ 0 \in Register /\ SP \in Register BY NamedRegisters
    <3>2. a \in Straight BY <1>0, <3>1, MemoryStraight
    <3>3. b \in Straight BY <3>1, ArithStraight
    <3>4. d \in Straight BY <1>0, <3>1, MovStraight
    <3> QED BY <3>2, <3>3, <3>4
  <2>2. c \in Straight /\ e \in Straight /\ f \in Straight
    <3>1. 0 \in Register /\ 1 \in Register /\ 30 \in Register BY NamedRegisters
    <3>2. c \in Straight BY <3>1, ArithStraight
    <3>3. e \in Straight BY <1>0, <3>1, ArithStraight
    <3>4. f \in Straight BY <3>1, MemoryStraight
    <3> QED BY <3>2, <3>3, <3>4
  <2>7. /\ a \in Part /\ b \in Part /\ c \in Part /\ d \in Part /\ e \in Part
        /\ f \in Part
    BY <2>1, <2>2, PartType
  <2>3. GetLongJmpInstr = pairs("ldr") \o l BY DEF GetLongJmpInstr, pair
  <2> HIDE DEF a, b, c, d, e, f, pairs
  <2>4. l \in Seq(Part) /\ Len(l) <= 6 BY <2>7
  <2> HIDE DEF l
  <2>5. FitsIn(l, 6) BY <2>4 DEF FitsIn
  <2>6. FitsIn(GetLongJmpInstr, 6 + 6) BY <1>4, <2>3, <2>5, FitJoin
  <2> QED BY <2>6
<1> QED BY <1>5, <1>6

\* The parts of the code in front of every function.
LEMMA RuntimePartsFit ==
  FitsIn(BranchToEntry, 1) /\ FitsIn(PrepareLongJmp, 4) /\ FitsIn(RaiseException, 5)
<1>0. 0 \in Offset12 /\ 1 \in Half BY DEF Offset12, Half
<1>1. FitsIn(BranchToEntry, 1)
  <2>1. Fake(Fixed("entry"), "b") \in Part BY PartType, FixedType DEF LabelName, Br
  <2> QED BY <2>1, FitTuple DEF BranchToEntry
<1>2. FitsIn(PrepareLongJmp, 4)
  <2> DEFINE a == EncodeMovRegister(14, 30)
             b == EncodeMovSP(15, SP)
             c == EncodeMovRegister(0, REG_BUFFER)
             d == Fake(Fixed("longjmp"), "b")
  <2>1. a \in Part /\ b \in Part /\ c \in Part
    BY ArithStraight, MovStraight, NamedRegisters, PartType
  <2>2. d \in Part BY PartType, FixedType DEF LabelName, Br
  <2>3. PrepareLongJmp = << a, b, c, d >> BY DEF PrepareLongJmp
  <2> HIDE DEF a, b, c, d
  <2> QED BY <2>1, <2>2, <2>3, FitTuple
<1>3. FitsIn(RaiseException, 5)
  <2> DEFINE a == EncodeMovRegister(30, 14)
             b == EncodeMovSP(SP, 15)
             c == EncodeMovz(11, 1, "X")
             d == EncodeLoadStoreImm("X", "str", 11, REG_BUFFER, 0)
             e == Fake(Fixed("finalize"), "b")
             l == << a, b, c, d, e >>
  <2>0. a \in Straight /\ b \in Straight /\ c \in Straight /\ d \in Straight
    <3>1. {11, 14, 15, 30, SP, REG_BUFFER} \subseteq Register BY NamedRegisters
    <3>2. a \in Straight BY <3>1, MovStraight
    <3>3. b \in Straight BY <3>1, ArithStraight
    <3>4. c \in Straight BY <1>0, <3>1, MovStraight
    <3>5. d \in Straight BY <1>0, <3>1, MemoryStraight
    <3> QED BY <3>2, <3>3, <3>4, <3>5
  <2>1. a \in Part /\ b \in Part /\ c \in Part /\ d \in Part BY <2>0, PartType
  <2>2. e \in Part BY PartType, FixedType DEF LabelName, Br
  <2>3. RaiseException = l BY DEF RaiseException
  <2> HIDE DEF a, b, c, d, e
  <2>4. l \in Seq(Part) /\ Len(l) <= 5 BY <2>1, <2>2
  <2> HIDE DEF l
  <2> QED BY <2>3, <2>4 DEF FitsIn
<1> QED BY <1>1, <1>2, <1>3

\* The code in front of every function, which ends with the fragment that
\* raises the exception.
LEMMA RuntimeFit ==
  /\ FitsIn(Runtime, 32)
  /\ Len(BranchToEntry) \in Nat /\ Len(GetSetJmpInstr) \in Nat
  /\ Len(PrepareLongJmp) \in Nat /\ Len(GetLongJmpInstr) \in Nat
  /\ Len(BranchToEntry) + Len(GetSetJmpInstr) + Len(PrepareLongJmp) + Len(GetLongJmpInstr)
       <= Len(Runtime)
<1> DEFINE a == BranchToEntry
           b == GetSetJmpInstr
           c == PrepareLongJmp
           d == GetLongJmpInstr
           e == RaiseException
<1>1. FitsIn(a, 1) /\ FitsIn(b, 10) /\ FitsIn(c, 4) /\ FitsIn(d, 12) /\ FitsIn(e, 5)
  BY RuntimePartsFit, SetJmpFit
<1>2. Runtime = a \o b \o c \o d \o e BY DEF Runtime
<1> HIDE DEF a, b, c, d, e
<1>3. FitsIn(a \o b, 1 + 10) BY <1>1, FitJoin
<1>4. FitsIn(a \o b \o c, 11 + 4) BY <1>1, <1>3, FitJoin
<1>5. FitsIn(a \o b \o c \o d, 15 + 12) BY <1>1, <1>4, FitJoin
<1>6. FitsIn(a \o b \o c \o d \o e, 27 + 5) BY <1>1, <1>5, FitJoin
<1>7. FitsIn(Runtime, 32) BY <1>2, <1>6
<1>8. /\ Len(a) \in Nat /\ Len(b) \in Nat /\ Len(c) \in Nat /\ Len(d) \in Nat /\ Len(e) \in Nat
  BY <1>1, LenProperties DEF FitsIn
<1>9. Len(a \o b) = Len(a) + Len(b) BY <1>1, ConcatProperties DEF FitsIn
<1>10. Len(a \o b \o c) = Len(a \o b) + Len(c) BY <1>1, <1>3, ConcatProperties DEF FitsIn
<1>11. Len(a \o b \o c \o d) = Len(a \o b \o c) + Len(d)
  BY <1>1, <1>4, ConcatProperties DEF FitsIn
<1>12. Len(Runtime) = Len(a \o b \o c \o d) + Len(e)
  BY <1>1, <1>2, <1>5, ConcatProperties DEF FitsIn
<1>13. Len(a) + Len(b) + Len(c) + Len(d) <= Len(Runtime)
  BY <1>8, <1>9, <1>10, <1>11, <1>12
<1> QED BY <1>7, <1>8, <1>13 DEF a, b, c, d

\* The call of setjmp.
LEMMA WrapperSetjmpFit == FitsIn(WrapperSetjmp, 6)
<1> DEFINE a == EncodeLdpStp("str", 29, 30, SP, -32, "PreIndex")
           b == EncodeMovRegister(0, REG_BUFFER)
           c == Fake(Fixed("setjmp"), "bl")
           d == EncodeCompareImm("X", 0, 0)
           e == Fake(Fixed("raiseException"), "bne")
           f == EncodeLdpStp("ldr", 29, 30, SP, 32, "PostIndex")
           l == << a, b, c, d, e, f >>
<1>1. a \in Part /\ f \in Part
  <2>1. /\ "PreIndex" \in EncodingMode /\ "PostIndex" \in EncodingMode
        /\ -4 \in Offset7 /\ 4 \in Offset7 /\ 8 * (-4) = -32 /\ 8 * 4 = 32
    BY DEF EncodingMode, Offset7
  <2>2. /\ EncodeLdpStp("str", 29, 30, SP, 8 * (-4), "PreIndex") \in Part
        /\ EncodeLdpStp("ldr", 29, 30, SP, 8 * 4, "PostIndex") \in Part
    BY <2>1, MemoryStraight, NamedRegisters, PartType
  <2> QED BY <2>1, <2>2
<1>2. b \in Part /\ d \in Part BY ArithStraight, MovStraight, NamedRegisters, PartType
<1>3. c \in Part /\ e \in Part BY PartType, FixedType DEF LabelName, Br
<1>4. WrapperSetjmp = l BY DEF WrapperSetjmp
<1> HIDE DEF a, b, c, d, e, f
<1>5. l \in Seq(Part) /\ Len(l) <= 6 BY <1>1, <1>2, <1>3
<1> HIDE DEF l
<1> QED BY <1>4, <1>5 DEF FitsIn

(***************************************************************************)
(* The fragments whose encoders may throw: what Encodable lets through.    *)
(***************************************************************************)
Checked == {e \in Encoded : /\ e.op \in {"add", "sub", "ldr", "str", "ldrr"} /\ e.n \in Register
                            /\ e.op = "ldrr" => e.m \in Register
                            /\ Encodable(e) => Decodes(e)}

\* An instruction that Encodable checks to the end.
LEMMA EncodableStraight ==
  ASSUME NEW e \in Checked, Encodable(e)
  PROVE  e \in Straight
<1>1. /\ e \in Encoded /\ e.op \in {"add", "sub", "ldr", "str", "ldrr"} /\ e.n \in Register
      /\ e.op = "ldrr" => e.m \in Register
      /\ Decodes(e)
  BY DEF Checked
<1>2. e.d \in Nat /\ e.imm \in Int BY <1>1 DEF Encoded
<1>3. e.d \in Register BY <1>2 DEF Encodable, Register
<1>4. e.op \in {"add", "sub", "ldr", "str"} => e.imm < 4096 BY DEF Encodable
<1>5. CASE e.op \in {"add", "sub"}
  <2>1. ~EncoderThrows(e) BY <1>1, <1>2, <1>3, <1>4, <1>5, ArithFits
  <2> QED BY <1>1, <1>5, <2>1, StraightType
<1>6. CASE e.op \in {"ldr", "str", "ldrr"}
  <2>1. ~EncoderThrows(e) BY <1>1, <1>2, <1>3, <1>4, <1>6, MemoryFits
  <2> QED BY <1>1, <1>6, <2>1, StraightType
<1> QED BY <1>1, <1>5, <1>6

\* The same for a fragment.
LEMMA EncodableFit ==
  ASSUME NEW s \in Seq(Checked), \A k \in 1 .. Len(s) : Encodable(s[k])
  PROVE  FitsIn(s, Len(s))
<1>1. Len(s) \in Nat BY LenProperties
<1>2. \A k \in 1 .. Len(s) : s[k] \in Part
  <2> TAKE k \in 1 .. Len(s)
  <2>1. s[k] \in Checked BY ElementOfSeq
  <2> QED BY <2>1, EncodableStraight, PartType
<1>3. s \in [1 .. Len(s) -> Part]
  <2>1. s \in [1 .. Len(s) -> Checked] BY LenProperties
  <2> QED BY <1>2, <2>1
<1>4. s \in Seq(Part) BY <1>1, <1>3, FunctionIsSeq
<1> QED BY <1>1, <1>4 DEF FitsIn

\* Instructions that are checked.
LEMMA CheckedType ==
  /\ \A op \in {"add", "sub"} : \A rd \in Nat : \A imm \in Int :
       \A rn \in Register : EncodeAddSubImm(op, rd, rn, imm) \in Checked
  /\ \A w : \A ldst \in {"ldr", "str"} : \A rt \in Nat : \A imm \in Int :
       \A rn \in Register : EncodeLoadStoreImm(w, ldst, rt, rn, imm) \in Checked
  /\ \A w : \A rt \in Nat : \A rn, rm \in Register :
       EncodeLoadStoreReg(w, "ldr", rt, rn, rm) \in Checked
<1>1. ASSUME NEW op \in {"add", "sub"}, NEW rd \in Nat, NEW imm \in Int, NEW rn \in Register
      PROVE  EncodeAddSubImm(op, rd, rn, imm) \in Checked
  <2> DEFINE e == EncodeAddSubImm(op, rd, rn, imm)
  <2>1. e \in Encoded BY RegisterType, ArithEncoderType DEF Operation
  <2>2. e.op = op /\ e.n = rn /\ e.d = rd /\ e.imm = imm % 65536 /\ imm % 65536 \in Nat
    BY DEF EncodeAddSubImm, Ins
  <2>3. ASSUME rd \in Register, imm % 65536 \in Offset12 PROVE Decodes(e)
    BY <2>3, AddSubImmDecodes DEF EncodeAddSubImm
  <2> HIDE DEF e
  <2>4. Encodable(e) => Decodes(e) BY <2>2, <2>3 DEF Encodable, Register, Offset12
  <2>5. e \in Checked BY <2>1, <2>2, <2>4 DEF Checked
  <2> QED BY <2>5 DEF e
<1>2. ASSUME NEW w, NEW ldst \in {"ldr", "str"}, NEW rt \in Nat, NEW imm \in Int, NEW rn \in Register
      PROVE  EncodeLoadStoreImm(w, ldst, rt, rn, imm) \in Checked
  <2> DEFINE e == EncodeLoadStoreImm(w, ldst, rt, rn, imm)
  <2>1. e \in Encoded BY RegisterType, MemoryEncoderType
  <2> DEFINE imm12 == (Int16(imm) \div AccessSize(w)) % 65536
  <2>2. e.op = ldst /\ e.n = rn /\ e.d = rt /\ e.imm = imm12 BY DEF EncodeLoadStoreImm, Ins
  <2>3. imm12 \in Nat BY DEF Int16, AccessSize
  <2>4. e = Ins(ldst, w, rt, rn, 0, imm12, "none") BY DEF EncodeLoadStoreImm
  <2> HIDE DEF e, imm12
  <2>5. rt \in Register /\ imm12 \in Offset12 => Decodes(e) BY <2>4, LoadStoreImmDecodes
  <2>6. Encodable(e) => Decodes(e) BY <2>2, <2>3, <2>5 DEF Encodable, Register, Offset12
  <2>7. e \in Checked BY <2>1, <2>2, <2>6 DEF Checked
  <2> QED BY <2>7 DEF e
<1>3. ASSUME NEW w, NEW rt \in Nat, NEW rn \in Register, NEW rm \in Register
      PROVE  EncodeLoadStoreReg(w, "ldr", rt, rn, rm) \in Checked
  <2> DEFINE e == EncodeLoadStoreReg(w, "ldr", rt, rn, rm)
  <2>1. e \in Encoded BY RegisterType, MemoryEncoderType
  <2>2. e.op = "ldrr" /\ e.n = rn /\ e.m = rm /\ e.d = rt BY DEF EncodeLoadStoreReg, Ins
  <2>3. ASSUME rt \in Register PROVE Decodes(e)
    BY <2>3, LoadStoreRegDecodes DEF EncodeLoadStoreReg
  <2> HIDE DEF e
  <2>4. Encodable(e) => Decodes(e) BY <2>2, <2>3 DEF Encodable, Register
  <2>5. e \in Checked BY <2>1, <2>2, <2>4 DEF Checked
  <2> QED BY <2>5 DEF e
<1> QED BY <1>1, <1>2, <1>3

\* The prologue is checked as a whole.
LEMMA PrologueChecked ==
  ASSUME fn \in Bodies, local_data \in Seq(Type)
  PROVE  /\ PrepareSp \in Seq(Checked) /\ Len(PrepareSp) = 1
         /\ InitParam \in Seq(Checked) /\ Len(InitParam) = Len(fn.params)
         /\ InitLocal \in Seq(Checked) /\ Len(InitLocal) = Len(local_data)
<1>1. Len(fn.params) \in Nat /\ Len(local_data) \in Nat
  BY BodyType, LenProperties
<1>2. SP \in Register /\ SP \in Nat /\ 31 \in Nat BY NamedRegisters DEF SP
<1>3. StackSize \in Int BY FrameType
<1>4. EncodeAddSubImm("sub", SP, SP, StackSize) \in Checked BY <1>2, <1>3, CheckedType
<1>5. PrepareSp \in Seq(Checked) /\ Len(PrepareSp) = 1 BY <1>4 DEF PrepareSp
<1>6. InitParam \in [1 .. Len(fn.params) -> Checked]
  <2>1. ASSUME NEW k \in 1 .. Len(fn.params), NEW w
        PROVE  EncodeLoadStoreImm(w, "str", k - 1, SP, ParamOffset(k)) \in Checked
    <3>1. k - 1 \in Nat /\ ParamOffset(k) \in Int BY <1>1, FrameType
    <3> QED BY <1>2, <3>1, CheckedType
  <2> QED BY <2>1 DEF InitParam
<1>7. InitLocal \in [1 .. Len(local_data) -> Checked]
  <2>1. ASSUME NEW k \in 1 .. Len(local_data), NEW w
        PROVE  EncodeLoadStoreImm(w, "str", 31, SP, LocalOffset(k)) \in Checked
    <3>1. LocalOffset(k) \in Int BY <1>1, FrameType
    <3> QED BY <1>2, <3>1, CheckedType
  <2> QED BY <2>1 DEF InitLocal
<1>8. InitParam \in Seq(Checked) /\ Len(InitParam) = Len(fn.params)
  BY <1>1, <1>6, FunctionIsSeq
<1>9. InitLocal \in Seq(Checked) /\ Len(InitLocal) = Len(local_data)
  BY <1>1, <1>7, FunctionIsSeq
<1> QED BY <1>5, <1>8, <1>9

\* Where its parts stand.
LEMMA PrologueParts ==
  ASSUME fn \in Bodies, local_data \in Seq(Type), NEW s, s = PrepareSp \o InitParam \o InitLocal
  PROVE  /\ s \in Seq(Checked) /\ Len(s) = 1 + VarCount
         /\ s[1] = PrepareSp[1]
         /\ \A k \in 1 .. Len(fn.params) : s[1 + k] = InitParam[k]
         /\ \A k \in 1 .. Len(local_data) : s[1 + Len(fn.params) + k] = InitLocal[k]
<1> DEFINE p == PrepareSp \o InitParam
           m == Len(fn.params)
           n == Len(local_data)
<1>1. m \in Nat /\ n \in Nat BY BodyType, LenProperties
<1>2. /\ PrepareSp \in Seq(Checked) /\ Len(PrepareSp) = 1
      /\ InitParam \in Seq(Checked) /\ Len(InitParam) = m
      /\ InitLocal \in Seq(Checked) /\ Len(InitLocal) = n
  BY PrologueChecked
<1>3. VarCount = m + n BY DEF VarCount
<1>4. s = p \o InitLocal OBVIOUS
<1> HIDE DEF m, n
<1>5. /\ p \in Seq(Checked) /\ Len(p) = 1 + m
      /\ \A k \in 1 .. Len(PrepareSp) + Len(InitParam) :
           p[k] = IF k <= Len(PrepareSp) THEN PrepareSp[k] ELSE InitParam[k - Len(PrepareSp)]
  <2>1. /\ p \in Seq(Checked) /\ Len(p) = Len(PrepareSp) + Len(InitParam)
        /\ \A k \in 1 .. Len(PrepareSp) + Len(InitParam) :
             p[k] = IF k <= Len(PrepareSp) THEN PrepareSp[k] ELSE InitParam[k - Len(PrepareSp)]
    BY <1>2, ConcatProperties
  <2> QED BY <1>2, <2>1
<1> HIDE DEF p
<1>6. /\ s \in Seq(Checked) /\ Len(s) = 1 + m + n
      /\ \A k \in 1 .. Len(p) + Len(InitLocal) :
           s[k] = IF k <= Len(p) THEN p[k] ELSE InitLocal[k - Len(p)]
  <2>1. /\ p \o InitLocal \in Seq(Checked) /\ Len(p \o InitLocal) = Len(p) + Len(InitLocal)
        /\ \A k \in 1 .. Len(p) + Len(InitLocal) :
             (p \o InitLocal)[k] = IF k <= Len(p) THEN p[k] ELSE InitLocal[k - Len(p)]
    <3>1. p \in Seq(Checked) /\ InitLocal \in Seq(Checked) BY <1>2, <1>5
    <3> QED BY <3>1, ConcatProperties
  <2>2. Len(p) + Len(InitLocal) = 1 + m + n BY <1>1, <1>2, <1>5
  <2> QED BY <1>4, <2>1, <2>2
<1>7. Len(s) = 1 + VarCount BY <1>1, <1>3, <1>6
<1>8. s[1] = PrepareSp[1] BY <1>1, <1>2, <1>5, <1>6
<1>9. ASSUME NEW k \in 1 .. m PROVE s[1 + k] = InitParam[k]
  <2>1. 1 + k \in 1 .. 1 + m /\ ~(1 + k <= 1) /\ (1 + k) - 1 = k BY <1>1
  <2> QED BY <1>1, <1>2, <1>5, <1>6, <2>1
<1>10. ASSUME NEW k \in 1 .. n PROVE s[1 + m + k] = InitLocal[k]
  <2>1. 1 + m + k \in 1 .. 1 + m + n /\ ~(1 + m + k <= 1 + m) /\ (1 + m + k) - (1 + m) = k
    BY <1>1
  <2> QED BY <1>1, <1>2, <1>5, <1>6, <2>1
<1> QED BY <1>6, <1>7, <1>8, <1>9, <1>10 DEF m, n

(***************************************************************************)
(* A frame whose prologue is encodable is small.                           *)
(***************************************************************************)
\* allocateVar takes four or eight bytes for each variable.
LEMMA BytesBounds ==
  ASSUME NEW types \in Seq(Type), NEW k \in 1 .. Len(types) + 1
  PROVE  /\ Bytes(types, k) \in Nat /\ Len(types) \in Nat
         /\ 4 * (Len(types) + 1 - k) <= Bytes(types, k)
         /\ Bytes(types, k) <= 8 * (Len(types) + 1 - k)
         /\ Bytes(types, k) <= Bytes(types, 1)
         /\ k <= Len(types) => /\ Bytes(types, k + 1) \in Nat
                               /\ Bytes(types, k) <= Bytes(types, k + 1) + 8
<1> DEFINE n == Len(types)
           doubles(m) == {j \in m .. Len(types) : types[j] = "d"}
<1>1. n \in Nat /\ k \in Nat /\ k <= n + 1 /\ 1 <= k BY LenProperties
<1>2. ASSUME NEW m \in 1 .. n + 1
      PROVE  /\ IsFiniteSet(doubles(m)) /\ Cardinality(doubles(m)) \in Nat
             /\ Cardinality(doubles(m)) <= n + 1 - m
  <2>1. IsFiniteSet(m .. n) /\ Cardinality(m .. n) = n + 1 - m
    <3>1. m \in Int /\ n \in Int /\ (m > n => n + 1 - m = 0) BY <1>1
    <3>2. Cardinality(m .. n) = IF m > n THEN 0 ELSE n - m + 1 BY <3>1, FS_Interval
    <3>3. (IF m > n THEN 0 ELSE n - m + 1) = n + 1 - m BY <1>1
    <3> QED BY <3>1, <3>2, <3>3, FS_Interval
  <2>2. doubles(m) \subseteq m .. n OBVIOUS
  <2> QED BY <2>1, <2>2, FS_Subset, FS_CardinalityType
<1>3. \A m : Bytes(types, m) = 4 * (n + 1 - m) + 4 * Cardinality(doubles(m))
  BY DEF Bytes
<1>4. doubles(k) \subseteq doubles(1) BY <1>1
<1>5. ASSUME k <= n
      PROVE  Cardinality(doubles(k)) <= Cardinality(doubles(k + 1)) + 1
  <2>1. k + 1 \in 1 .. n + 1 BY <1>1, <1>5
  <2>2. doubles(k) \subseteq doubles(k + 1) \cup {k} BY <1>1, <1>5
  <2>3. IsFiniteSet(doubles(k + 1)) /\ Cardinality(doubles(k + 1)) \in Nat BY <1>2, <2>1
  <2>4. k \notin doubles(k + 1) BY <1>1
  <2> DEFINE D == doubles(k + 1)
  <2> HIDE DEF doubles
  <2>5. IsFiniteSet(D \cup {k}) /\ Cardinality(D \cup {k}) = Cardinality(D) + 1
    BY <2>3, <2>4, FS_AddElement
  <2> QED BY <2>2, <2>5, FS_Subset
<1> DEFINE c(m) == Cardinality(doubles(m))
<1>6. \A m \in 1 .. n + 1 : c(m) \in Nat /\ c(m) <= n + 1 - m BY <1>2
<1>7. c(k) <= c(1)
  <2>1. 1 \in 1 .. n + 1 BY <1>1
  <2>2. IsFiniteSet(doubles(1)) BY <1>2, <2>1
  <2> QED BY <1>4, <2>2, FS_Subset
<1>8. \A m : Bytes(types, m) = 4 * (n + 1 - m) + 4 * c(m) BY <1>3
<1>9. k <= n => c(k) <= c(k + 1) + 1 BY <1>5
<1> HIDE DEF n, c
<1>10. /\ Bytes(types, k) \in Nat /\ 4 * (n + 1 - k) <= Bytes(types, k)
       /\ Bytes(types, k) <= 8 * (n + 1 - k)
  <2>1. c(k) \in Nat /\ c(k) <= n + 1 - k BY <1>1, <1>6
  <2>2. Bytes(types, k) = 4 * (n + 1 - k) + 4 * c(k) BY <1>8
  <2> QED BY <1>1, <2>1, <2>2
<1>11. Bytes(types, k) <= Bytes(types, 1)
  <2>1. 1 \in 1 .. n + 1 BY <1>1
  <2>2. c(k) \in Nat /\ c(1) \in Nat BY <1>1, <1>6, <2>1
  <2>3. /\ Bytes(types, k) = 4 * (n + 1 - k) + 4 * c(k)
        /\ Bytes(types, 1) = 4 * (n + 1 - 1) + 4 * c(1)
    BY <1>8
  <2> QED BY <1>1, <1>7, <2>2, <2>3
<1>12. ASSUME k <= n
       PROVE  Bytes(types, k + 1) \in Nat /\ Bytes(types, k) <= Bytes(types, k + 1) + 8
  <2>1. k + 1 \in 1 .. n + 1 BY <1>1, <1>12
  <2>2. c(k) \in Nat /\ c(k + 1) \in Nat /\ c(k) <= c(k + 1) + 1 BY <1>1, <1>6, <1>9, <1>12, <2>1
  <2>3. /\ Bytes(types, k) = 4 * (n + 1 - k) + 4 * c(k)
        /\ Bytes(types, k + 1) = 4 * (n + 1 - (k + 1)) + 4 * c(k + 1)
    BY <1>8
  <2>4. Bytes(types, k + 1) \in Nat BY <1>1, <1>12, <2>2, <2>3
  <2>5. Bytes(types, k) <= Bytes(types, k + 1) + 8 BY <1>1, <1>12, <2>2, <2>3
  <2> QED BY <2>4, <2>5
<1> QED BY <1>1, <1>10, <1>11, <1>12 DEF n

\* An offset whose access is encodable is no negative int16_t.
LEMMA EncodableOffset ==
  ASSUME NEW w, NEW ldst \in {"ldr", "str"}, NEW rt, NEW rn, NEW offset \in Nat, offset < 65536,
         Encodable(EncodeLoadStoreImm(w, ldst, rt, rn, offset))
  PROVE  offset < 32768
<1> SUFFICES ASSUME offset >= 32768 PROVE FALSE OBVIOUS
<1>1. (Int16(offset) \div AccessSize(w)) % 65536 < 4096
  BY DEF Encodable, EncodeLoadStoreImm, Ins
<1>2. Int16(offset) = offset - 65536 BY DEF Int16
<1>3. AccessSize(w) \in {4, 8} BY DEF AccessSize
<1>4. /\ ((offset - 65536) \div 4) % 65536 >= 4096
      /\ ((offset - 65536) \div 8) % 65536 >= 4096
  OBVIOUS
<1> QED BY <1>1, <1>2, <1>3, <1>4

\* Thirty-two parameters have a register.
LEMMA ParamsBounded ==
  ASSUME fn \in Bodies, local_data \in Seq(Type),
         \A k \in 1 .. Len(fn.params) : Encodable(InitParam[k])
  PROVE  Len(fn.params) <= 32 /\ LocalStackStart <= 264 /\ LocalStackStart \in Nat
<1>1. fn.params \in Seq(Type) /\ Len(fn.params) \in Nat BY BodyType, LenProperties
<1>2. \A k \in 1 .. Len(fn.params) : InitParam[k].d = k - 1
  BY DEF InitParam, EncodeLoadStoreImm, Ins
<1>3. Len(fn.params) <= 32
  <2> SUFFICES ASSUME Len(fn.params) > 32 PROVE FALSE BY <1>1
  <2>1. 33 \in 1 .. Len(fn.params) BY <1>1
  <2>2. InitParam[33].d < 32 /\ InitParam[33].d = 33 - 1 BY <1>2, <2>1 DEF Encodable
  <2> QED BY <2>2
<1>4. Bytes(fn.params, 1) <= 8 * (Len(fn.params) + 1 - 1) /\ Bytes(fn.params, 1) \in Nat
  <2>1. 1 \in 1 .. Len(fn.params) + 1 BY <1>1
  <2> QED BY <1>1, <2>1, BytesBounds
<1>5. LocalStackStart = Bytes(fn.params, 1) + 8 BY DEF LocalStackStart
<1> QED BY <1>1, <1>3, <1>4, <1>5

\* The offsets of the locals go down in steps of at most eight bytes, so a
\* frame of 64 kilobytes and more would have a local whose offset is negative
\* as an int16_t: prepareSp's immediate cannot wrap round unnoticed.
LEMMA FrameBounded ==
  ASSUME fn \in Bodies, local_data \in Seq(Type), Encodable(PrepareSp[1]),
         \A k \in 1 .. Len(fn.params) : Encodable(InitParam[k]),
         \A k \in 1 .. Len(local_data) : Encodable(InitLocal[k])
  PROVE  LocalStackEnd \in Nat /\ LocalStackEnd <= 4080 /\ Len(fn.params) <= 32
<1> DEFINE n == Len(local_data)
           at(k) == LocalStackStart + Bytes(local_data, k)
<1>1. /\ Len(fn.params) <= 32 /\ LocalStackStart <= 264 /\ LocalStackStart \in Nat
      /\ n \in Nat
  BY ParamsBounded, LenProperties
<1>2. LocalStackEnd = at(1) /\ LocalStackEnd \in Nat BY FrameType DEF LocalStackEnd
<1>3. /\ at(n + 1) <= 264
      /\ \A k \in 1 .. n + 1 : at(k) \in Nat /\ at(k) <= at(1)
      /\ \A k \in 1 .. n : at(k) <= at(k + 1) + 8
  <2>1. n + 1 \in 1 .. n + 1 BY <1>1
  <2>2. Bytes(local_data, n + 1) \in Nat /\ Bytes(local_data, n + 1) <= 8 * (n + 1 - (n + 1))
    BY <2>1, BytesBounds
  <2>3. at(n + 1) <= 264 BY <1>1, <2>2
  <2>4. ASSUME NEW k \in 1 .. n + 1 PROVE at(k) \in Nat /\ at(k) <= at(1)
    <3>1. 1 \in 1 .. n + 1 BY <1>1
    <3>2. /\ Bytes(local_data, k) \in Nat /\ Bytes(local_data, 1) \in Nat
          /\ Bytes(local_data, k) <= Bytes(local_data, 1)
      BY <3>1, BytesBounds
    <3> QED BY <1>1, <3>2
  <2>5. ASSUME NEW k \in 1 .. n PROVE at(k) <= at(k + 1) + 8
    <3>1. k \in 1 .. n + 1 /\ k <= n BY <1>1
    <3>2. /\ Bytes(local_data, k) \in Nat /\ Bytes(local_data, k + 1) \in Nat
          /\ Bytes(local_data, k) <= Bytes(local_data, k + 1) + 8
      BY <3>1, BytesBounds
    <3> QED BY <1>1, <3>2
  <2> QED BY <2>3, <2>4, <2>5
<1>4. \A k \in 1 .. n : at(k) < 65536 => at(k) < 32768
  <2> SUFFICES ASSUME NEW k \in 1 .. n, at(k) < 65536 PROVE at(k) < 32768 OBVIOUS
  <2>1. at(k) \in Nat BY <1>1, <1>3
  <2>2. InitLocal[k] = EncodeLoadStoreImm(IF local_data[k] \in {"l", "d"} THEN "X" ELSE "W",
                                          "str", 31, SP, at(k))
    BY DEF InitLocal, LocalOffset
  <2>3. Encodable(InitLocal[k]) OBVIOUS
  <2> HIDE DEF at
  <2> QED BY <2>1, <2>2, <2>3, EncodableOffset
<1>5. StackSize \in Nat /\ StackSize = 16 * ((LocalStackEnd + 15) \div 16) /\ StackSize % 65536 < 4096
  <2>1. StackSize \in Nat /\ StackSize = 16 * ((LocalStackEnd + 15) \div 16)
    BY FrameType DEF StackSize
  <2>2. PrepareSp[1].op = "sub" /\ PrepareSp[1].imm = StackSize % 65536
    BY DEF PrepareSp, EncodeAddSubImm, Ins
  <2> QED BY <2>1, <2>2 DEF Encodable
<1> HIDE DEF at, n
<1>6. \A S \in SUBSET (1 .. n + 1) : S # {} => \E k \in S : \A j \in S : j <= k
  <2> SUFFICES ASSUME NEW S \in SUBSET (1 .. n + 1), S # {} PROVE \E k \in S : \A j \in S : j <= k
    OBVIOUS
  <2>1. n + 1 \in Nat /\ S \in SUBSET (0 .. n + 1) BY <1>1
  <2>2. Max(S) \in S /\ \A j \in S : j <= Max(S) BY <2>1, GreatestNumber
  <2> QED BY <2>2
<1>7. LocalStackEnd < 65536
  <2> SUFFICES ASSUME LocalStackEnd >= 65536 PROVE FALSE BY <1>2
  <2> DEFINE Far == {k \in 1 .. n + 1 : at(k) >= 32768}
  <2>1. 1 \in Far BY <1>1, <1>2
  <2>2. Far \in SUBSET (1 .. n + 1) /\ Far # {} BY <2>1
  <2>3. PICK k \in Far : \A j \in Far : j <= k
    <3> HIDE DEF Far
    <3> QED BY <1>6, <2>2
  <2>4. k \in 1 .. n
    <3>1. k # n + 1 BY <1>1, <1>3
    <3> QED BY <1>1, <3>1
  <2>5. k + 1 \in 1 .. n + 1 /\ k + 1 \notin Far BY <1>1, <2>3, <2>4
  <2>6. at(k + 1) < 32768 /\ at(k + 1) \in Nat /\ at(k) \in Nat BY <1>1, <1>3, <2>4, <2>5
  <2>7. at(k) <= at(k + 1) + 8 BY <1>3, <2>4
  <2>8. at(k) < 65536 BY <2>6, <2>7
  <2>9. at(k) < 32768 BY <1>4, <2>4, <2>8
  <2> QED BY <2>6, <2>9
<1>8. LocalStackEnd <= 4080
  <2>1. LocalStackEnd < 32768
    <3>1. CASE n = 0
      <4>1. n + 1 = 1 BY <3>1
      <4> QED BY <1>2, <1>3, <4>1
    <3>2. CASE n # 0
      <4>1. 1 \in 1 .. n BY <1>1, <3>2
      <4> QED BY <1>2, <1>4, <1>7, <4>1
    <3> QED BY <3>1, <3>2
  <2> DEFINE units == (LocalStackEnd + 15) \div 16
  <2>2. units \in Nat /\ units <= 2048 /\ LocalStackEnd <= 16 * units BY <1>2, <2>1
  <2>3. StackSize = 16 * units BY <1>5
  <2> HIDE DEF units
  <2>4. StackSize % 65536 = StackSize BY <2>2, <2>3
  <2>5. units < 256 BY <1>5, <2>2, <2>3, <2>4
  <2> QED BY <1>2, <2>2, <2>5
<1> QED BY <1>1, <1>2, <1>8

\* Variables of a small frame have offsets and a number that are small.
LEMMA VarsBounded ==
  ASSUME fn \in Bodies, local_data \in Seq(Type), LocalStackEnd <= 4080
  PROVE  /\ VarCount <= 1020 /\ VarCount \in Nat
         /\ \A v \in 0 .. VarCount - 1 : Var(v).offset \in Offset12
<1> DEFINE m == Len(fn.params)
           n == Len(local_data)
           p(k) == Bytes(fn.params, k)
           q(k) == Bytes(local_data, k)
<1>1. /\ fn.params \in Seq(Type)
      /\ m \in Nat /\ n \in Nat
      /\ 1 \in 1 .. m + 1 /\ 1 \in 1 .. n + 1
  <2>1. fn.params \in Seq(Type) /\ m \in Nat /\ n \in Nat BY BodyType, LenProperties
  <2> QED BY <2>1
<1>2. /\ \A k \in 1 .. m + 1 : p(k) \in Nat /\ 4 * (m + 1 - k) <= p(k) /\ p(k) <= p(1)
      /\ \A k \in 1 .. n + 1 : q(k) \in Nat /\ 4 * (n + 1 - k) <= q(k) /\ q(k) <= q(1)
  <2>1. ASSUME NEW k \in 1 .. m + 1
        PROVE  p(k) \in Nat /\ 4 * (m + 1 - k) <= p(k) /\ p(k) <= p(1)
    BY <1>1, BytesBounds
  <2>2. ASSUME NEW k \in 1 .. n + 1
        PROVE  q(k) \in Nat /\ 4 * (n + 1 - k) <= q(k) /\ q(k) <= q(1)
    BY <1>1, BytesBounds
  <2> QED BY <2>1, <2>2
<1>3. LocalStackEnd = p(1) + 8 + q(1) /\ LocalStackStart = p(1) + 8
  BY DEF LocalStackEnd, LocalStackStart
<1>4. VarCount = m + n BY DEF VarCount
<1>5. \A v : Var(v) = IF v < m
                       THEN [reg |-> RegTypeOf(fn.params[v + 1]), offset |-> p(v + 1)]
                       ELSE [reg |-> RegTypeOf(local_data[v - m + 1]),
                             offset |-> LocalStackStart + q(v - m + 1)]
  BY DEF Var, ParamOffset, LocalOffset
<1> HIDE DEF m, n, p, q
<1>6. VarCount <= 1020 /\ VarCount \in Nat
  <2>1. 4 * m <= p(1) /\ 4 * n <= q(1) /\ p(1) \in Nat /\ q(1) \in Nat
    <3>1. 4 * (m + 1 - 1) <= p(1) /\ 4 * (n + 1 - 1) <= q(1) /\ p(1) \in Nat /\ q(1) \in Nat
      BY <1>1, <1>2
    <3> QED BY <1>1, <3>1
  <2> QED BY <1>1, <1>3, <1>4, <2>1
<1>7. ASSUME NEW v \in 0 .. VarCount - 1 PROVE Var(v).offset \in Offset12
  <2>1. CASE v < m
    <3>1. v + 1 \in 1 .. m + 1 BY <1>1, <2>1
    <3>2. p(v + 1) \in Nat /\ p(v + 1) <= p(1) /\ p(1) \in Nat /\ q(1) \in Nat
      BY <1>1, <1>2, <3>1
    <3>3. p(v + 1) < 4096 BY <1>3, <3>2
    <3>4. p(v + 1) \in Offset12 BY <3>2, <3>3 DEF Offset12
    <3>5. Var(v).offset = p(v + 1) BY <1>5, <2>1
    <3> QED BY <3>4, <3>5
  <2>2. CASE ~(v < m)
    <3> DEFINE k == v - m + 1
    <3>1. k \in 1 .. n + 1 BY <1>1, <1>4, <2>2
    <3>2. Var(v) = [reg |-> RegTypeOf(local_data[k]), offset |-> LocalStackStart + q(k)]
      BY <1>5, <2>2
    <3> HIDE DEF k
    <3>3. q(k) \in Nat /\ q(k) <= q(1) /\ p(1) \in Nat /\ q(1) \in Nat
      BY <1>1, <1>2, <3>1
    <3>4. LocalStackStart + q(k) \in Nat /\ LocalStackStart + q(k) < 4096 BY <1>3, <3>3
    <3>5. LocalStackStart + q(k) \in Offset12 BY <3>4 DEF Offset12
    <3>6. Var(v).offset = LocalStackStart + q(k) BY <3>2
    <3> QED BY <3>5, <3>6
  <2> QED BY <2>1, <2>2
<1> QED BY <1>6, <1>7

\* What the prologue of a function emits.
Prologue == PrepareSp \o InitParam \o InitLocal

\* It fits when its encoders take it.
LEMMA PrologueFit ==
  ASSUME fn \in Bodies, local_data \in Seq(Type),
         \A k \in 1 .. Len(Prologue) : Encodable(Prologue[k])
  PROVE  FitsIn(Prologue, 1021) /\ LocalStackEnd <= 4080
<1> DEFINE s == Prologue
<1>0. s = PrepareSp \o InitParam \o InitLocal /\ \A k \in 1 .. Len(s) : Encodable(s[k])
  BY DEF Prologue
<1> HIDE DEF s
<1>1. /\ s \in Seq(Checked) /\ Len(s) = 1 + VarCount
      /\ s[1] = PrepareSp[1]
      /\ \A k \in 1 .. Len(fn.params) : s[1 + k] = InitParam[k]
      /\ \A k \in 1 .. Len(local_data) : s[1 + Len(fn.params) + k] = InitLocal[k]
  BY <1>0, PrologueParts
<1>2. Len(fn.params) \in Nat /\ Len(local_data) \in Nat /\ VarCount = Len(fn.params) + Len(local_data)
  BY BodyType, LenProperties DEF VarCount
<1>3. /\ Encodable(PrepareSp[1])
      /\ \A k \in 1 .. Len(fn.params) : Encodable(InitParam[k])
      /\ \A k \in 1 .. Len(local_data) : Encodable(InitLocal[k])
  <2>1. 1 \in 1 .. Len(s) BY <1>1, <1>2
  <2>2. \A k \in 1 .. Len(fn.params) : 1 + k \in 1 .. Len(s) BY <1>1, <1>2
  <2>3. \A k \in 1 .. Len(local_data) : 1 + Len(fn.params) + k \in 1 .. Len(s) BY <1>1, <1>2
  <2>4. Encodable(PrepareSp[1]) BY <1>0, <1>1, <2>1
  <2>5. ASSUME NEW k \in 1 .. Len(fn.params) PROVE Encodable(InitParam[k])
    <3>1. Encodable(s[1 + k]) BY <1>0, <2>2
    <3> QED BY <1>1, <3>1
  <2>6. ASSUME NEW k \in 1 .. Len(local_data) PROVE Encodable(InitLocal[k])
    <3>1. Encodable(s[1 + Len(fn.params) + k]) BY <1>0, <2>3
    <3> QED BY <1>1, <3>1
  <2> QED BY <2>4, <2>5, <2>6
<1>4. LocalStackEnd <= 4080 BY <1>3, FrameBounded
<1>5. VarCount <= 1020 /\ VarCount \in Nat BY <1>4, VarsBounded
<1>6. FitsIn(s, Len(s)) BY <1>0, <1>1, EncodableFit
<1>7. Len(s) \in Nat /\ 1021 \in Nat /\ Len(s) <= 1021 BY <1>1, <1>5
<1>8. FitsIn(s, 1021) BY <1>6, <1>7, FitMore
<1> QED BY <1>4, <1>8 DEF s

\* restoreSP: thirty-two results have a register.
LEMMA RestoreSpFit ==
  ASSUME fn \in Bodies, local_data \in Seq(Type),
         \A k \in 1 .. Len(RestoreSp) : Encodable(RestoreSp[k])
  PROVE  FitsIn(RestoreSp, 65) /\ Len(RestoreSp) >= 1
<1> DEFINE n == 2 * Len(fn.results)
           r(k) == (k + 1) \div 2
           ins(k) == Pop(RegTypeOf(fn.results[r(k)]), r(k) - 1)[IF k % 2 = 1 THEN 1 ELSE 2]
           pops == [k \in 1 .. n |-> ins(k)]
           last == EncodeAddSubImm("add", SP, SP, StackSize)
<1>1. Len(fn.results) \in Nat /\ n \in Nat
  <2>1. Len(fn.results) \in Nat BY BodyType, LenProperties
  <2> QED BY <2>1
<1>2. ASSUME NEW w, NEW reg \in Nat
      PROVE  Pop(w, reg)[1] \in Checked /\ Pop(w, reg)[2] \in Checked /\ Pop(w, reg)[2].d = reg
  <2> DEFINE down == EncodeAddSubImm("sub", REG_POINTER_WASM_STACK, REG_POINTER_WASM_STACK, 8)
             access == EncodeLoadStoreReg(w, "ldr", reg, REG_WASM_STACK, REG_POINTER_WASM_STACK)
  <2>1. REG_POINTER_WASM_STACK \in Nat /\ 8 \in Int BY DEF REG_POINTER_WASM_STACK
  <2>2. down \in Checked /\ access \in Checked BY <2>1, CheckedType, NamedRegisters
  <2>3. access.d = reg BY DEF EncodeLoadStoreReg, Ins
  <2>4. Pop(w, reg) = << down, access >> BY DEF Pop
  <2> HIDE DEF down, access
  <2> QED BY <2>2, <2>3, <2>4
<1>3. ASSUME NEW k \in 1 .. n PROVE ins(k) \in Checked
  <2>1. r(k) - 1 \in Nat BY <1>1
  <2> HIDE DEF r
  <2> QED BY <1>2, <2>1
<1>4. last \in Checked
  <2>1. SP \in Register /\ SP \in Nat /\ StackSize \in Int BY NamedRegisters, FrameType DEF SP
  <2> QED BY <2>1, CheckedType
<1>5. RestoreSp = pops \o << last >> BY DEF RestoreSp
<1>6. \A k \in 1 .. Len(fn.results) : 2 * k \in 1 .. n /\ ins(2 * k).d = k - 1
  <2> TAKE k \in 1 .. Len(fn.results)
  <2>1. 2 * k \in 1 .. n /\ r(2 * k) = k /\ (2 * k) % 2 # 1 /\ k - 1 \in Nat BY <1>1
  <2>2. ins(2 * k) = Pop(RegTypeOf(fn.results[k]), k - 1)[2] BY <2>1
  <2> QED BY <1>2, <2>1, <2>2
<1>7. pops \in [1 .. n -> Checked] BY <1>3
<1>8. \A k \in 1 .. n : pops[k] = ins(k) OBVIOUS
<1> HIDE DEF n, ins, last, pops
<1>9. pops \in Seq(Checked) /\ Len(pops) = n /\ << last >> \in Seq(Checked)
  BY <1>1, <1>4, <1>7, FunctionIsSeq
<1>10. /\ RestoreSp \in Seq(Checked) /\ Len(RestoreSp) = n + 1
       /\ \A k \in 1 .. n : RestoreSp[k] = pops[k]
  <2>1. /\ pops \o << last >> \in Seq(Checked)
        /\ Len(pops \o << last >>) = Len(pops) + Len(<< last >>)
        /\ \A k \in 1 .. Len(pops) + Len(<< last >>) :
             (pops \o << last >>)[k] = IF k <= Len(pops) THEN pops[k] ELSE << last >>[k - Len(pops)]
    BY <1>9, ConcatProperties
  <2>2. Len(<< last >>) = 1 OBVIOUS
  <2> QED BY <1>1, <1>5, <1>9, <2>1, <2>2
<1>11. FitsIn(RestoreSp, n + 1)
  <2>1. FitsIn(RestoreSp, Len(RestoreSp)) BY <1>10, EncodableFit
  <2> QED BY <1>10, <2>1
<1>12. n <= 64
  <2> SUFFICES ASSUME n > 64 PROVE FALSE BY <1>1
  <2>1. 33 \in 1 .. Len(fn.results) BY <1>1 DEF n
  <2>2. 66 \in 1 .. n /\ ins(66).d = 32
    <3>1. 2 * 33 \in 1 .. n /\ ins(2 * 33).d = 33 - 1 BY <1>6, <2>1
    <3> QED BY <3>1
  <2>3. 66 \in 1 .. Len(RestoreSp) /\ RestoreSp[66] = ins(66) BY <1>1, <1>8, <1>10, <2>2
  <2>4. Encodable(RestoreSp[66]) BY <2>3
  <2> QED BY <2>2, <2>3, <2>4 DEF Encodable
<1>13. n + 1 \in Nat /\ 65 \in Nat /\ n + 1 <= 65 BY <1>1, <1>12
<1> QED BY <1>1, <1>10, <1>11, <1>13, FitMore

\* An argument whose first mov is encodable has a register for all of them.
LEMMA LoadParamFit ==
  ASSUME NEW w, NEW rd \in Nat, NEW value \in Nat, Encodable(MovInt(w, rd, value)[1])
  PROVE  FitsIn(MovInt(w, rd, value), 4)
<1>1. MovInt(w, rd, value)[1].d = rd
  BY DEF MovInt, WrapperEncodeMovInt32, WrapperEncodeMovInt64, EncodeMovz, Ins
<1>2. rd \in Register BY <1>1 DEF Encodable, Register
<1> QED BY <1>2, MovIntFit

(***************************************************************************)
(* The opcodes.                                                            *)
(***************************************************************************)
\* An arithmetic opcode is one of three operations.
LEMMA ArithOpEmits ==
  ASSUME ArithOp, CurrentByte \in ArithOps
  PROVE  \E w : \E op \in {"+", "-", "*"} : Emitted(EmitArithOp(w, op), 1)
<1> DEFINE op == CASE CurrentByte \in {\h6A, \h7C} -> "+"
                   [] CurrentByte \in {\h6B, \h7D} -> "-"
                   [] CurrentByte \in {\h6C, \h7E} -> "*"
           w == IF CurrentByte <= \h6C THEN "W" ELSE "X"
<1>1. op \in {"+", "-", "*"} BY DEF ArithOps
<1>2. Emitted(EmitArithOp(w, op), 1) BY DEF ArithOp
<1> HIDE DEF op, w
<1> QED BY <1>1, <1>2

\* What an opcode without a branch appends, and how many bytes it takes.
LEMMA PlainOpcodesFit ==
  ASSUME TypeOK, PlainOpcodes, LocalStackEnd <= 4080
  PROVE  \E s : \E size \in 1 .. 2 :
           FitsIn(s, 22) /\ Emitted(s, size) /\ i + size <= Len(fn.code_vec)
<1>0. i \in Nat /\ Len(fn.code_vec) \in Nat
  BY BodyType, LenProperties DEF TypeOK
<1>1. \A s : \A m \in 0 .. 22 : FitsIn(s, m) => FitsIn(s, 22)
  <2> SUFFICES ASSUME NEW s, NEW m \in 0 .. 22, FitsIn(s, m) PROVE FitsIn(s, 22) OBVIOUS
  <2>1. m \in Nat /\ 22 \in Nat /\ m <= 22 OBVIOUS
  <2> QED BY <2>1, FitMore
<1>2. CASE Nop
  <2>1. FitsIn(<< EncodeNop >>, 22) BY <1>1, SmallFragmentsFit
  <2>2. i + 1 <= Len(fn.code_vec) BY <1>0, <1>2 DEF Nop, AtOpcode
  <2> QED BY <1>2, <2>1, <2>2 DEF Nop
<1>3. CASE Ret
  <2> DEFINE s == << >>
  <2>1. FitsIn(s, 22) BY <1>1, SmallFragmentsFit
  <2>2. i + 1 <= Len(fn.code_vec) BY <1>0, <1>3 DEF Ret, AtOpcode
  <2>3. Emitted(s, 1) BY <1>3 DEF Ret
  <2> HIDE DEF s
  <2> QED BY <2>1, <2>2, <2>3
<1>4. CASE CommonLocalOp
  <2>1. AtOpcode(LocalOps) /\ Readable /\ Operand < VarCount
    BY <1>4 DEF CommonLocalOp
  <2>2. CurrentByte \in LocalOps /\ BytesRead(CurrentByte) = 2
    <3>1. CurrentByte \in LocalOps BY <2>1, OperandType
    <3> QED BY <3>1 DEF BytesRead, LocalOps, ConstOps
  <2>3. Operand \in 0 .. VarCount - 1
    <3>1. Operand \in Byte BY <2>1, <2>2, OperandType
    <3>2. Len(fn.params) \in Nat /\ Len(local_data) \in Nat
      BY BodyType, LenProperties DEF TypeOK
    <3> QED BY <2>1, <3>1, <3>2 DEF VarCount, Byte
  <2>4. Var(Operand).offset \in Offset12 BY <2>3, VarsBounded DEF TypeOK
  <2>5. /\ FitsIn(EmitGet(Var(Operand)), 22) /\ FitsIn(EmitSet(Var(Operand)), 22)
        /\ FitsIn(EmitTee(Var(Operand)), 22)
    BY <1>1, <2>4, VariablesFit
  <2>6. i + 2 <= Len(fn.code_vec) BY <2>1, <2>2 DEF Readable
  <2>7. \E s : FitsIn(s, 22) /\ Emitted(s, 2)
    BY <1>4, <2>2, <2>5 DEF CommonLocalOp, LocalOps
  <2> QED BY <2>6, <2>7
<1>5. CASE Const
  <2>1. AtOpcode(ConstOps) /\ Readable BY <1>5 DEF Const
  <2>2. BytesRead(CurrentByte) = 2
    <3>1. CurrentByte \in ConstOps BY <2>1, OperandType
    <3> QED BY <3>1 DEF BytesRead, LocalOps, ConstOps
  <2>3. Operand \in Int BY <2>1, <2>2, OperandType DEF Byte
  <2>4. \A w : FitsIn(EmitConst(w, Operand), 22) BY <1>1, <2>3, ConstFit
  <2>5. i + 2 <= Len(fn.code_vec) BY <2>1, <2>2 DEF Readable
  <2>6. \E s : FitsIn(s, 22) /\ Emitted(s, 2) BY <1>5, <2>4 DEF Const
  <2> QED BY <2>5, <2>6
<1>6. CASE CompareOp
  <2>1. AtOpcode(CompareOps) BY <1>6 DEF CompareOp
  <2>2. CurrentByte \in CompareOps BY <2>1, OperandType
  <2>3. IF CurrentByte <= \h4F THEN Conditions[CurrentByte - \h45] \in Condition
                               ELSE Conditions[CurrentByte - \h50] \in Condition
    BY <2>2, ConditionsType DEF CompareOps
  <2>4. \A w : \A cond \in Condition : FitsIn(EmitCompareOp(w, cond), 22)
    BY <1>1, OperationsFit
  <2>5. i + 1 <= Len(fn.code_vec) BY <1>0, <2>1 DEF AtOpcode
  <2>6. \E s : FitsIn(s, 22) /\ Emitted(s, 1) BY <1>6, <2>3, <2>4 DEF CompareOp
  <2> QED BY <2>5, <2>6
<1>7. CASE ArithOp
  <2>1. AtOpcode(ArithOps) BY <1>7 DEF ArithOp
  <2>2. CurrentByte \in ArithOps BY <2>1, OperandType
  <2>4. PICK w : \E op \in {"+", "-", "*"} : Emitted(EmitArithOp(w, op), 1)
    BY <1>7, <2>2, ArithOpEmits
  <2>5. PICK op \in {"+", "-", "*"} : Emitted(EmitArithOp(w, op), 1) BY <2>4
  <2>7. FitsIn(EmitArithOp(w, op), 22) BY <1>1, OperationsFit
  <2>6. i + 1 <= Len(fn.code_vec) BY <1>0, <2>1 DEF AtOpcode
  <2> QED BY <2>5, <2>6, <2>7
<1> QED BY <1>2, <1>3, <1>4, <1>5, <1>6, <1>7 DEF PlainOpcodes

(***************************************************************************)
(* The inductive invariant, relative to IInv: the code is built from parts *)
(* that fit, it is no longer than the bytes read allow, and no label is    *)
(* behind it.                                                              *)
(***************************************************************************)
Room ==
  CASE phase \in {"idle", "params", "locals"} -> 0
    [] phase = "entry" -> 32
    [] phase = "jiting" -> 1059 + 22 * i
    [] OTHER -> 10000

LabelsWithin(n) == \A l \in DOMAIN label_map : label_map[l] <= n

CodeShape ==
  phase # "ready" => FitsIn(wasm_instructions, Room) /\ LabelsWithin(Len(wasm_instructions))

SmallFrame == LocalStackEnd <= 4080

CInv ==
  /\ i <= Len(fn.code_vec)
  /\ pre_instructions \in Seq(Part)
  /\ CodeShape
  /\ phase = "fixup" => LabelsWithin(Len(wasm_instructions) - 1)
  /\ phase = "jiting" => SmallFrame
  /\ NoFieldOverflows
  /\ FetchedAsEmitted
  /\ BranchesLandInCode

\* The code is longest when the body has been read to its end.
LEMMA RoomType ==
  ASSUME TypeOK, i <= Len(fn.code_vec)
  PROVE  Room \in Nat /\ Room <= 10000 /\ (phase = "jiting" => Room + 68 <= 10000)
<1>1. i \in Nat /\ Len(fn.code_vec) \in Nat /\ Len(fn.code_vec) < 256
  BY BodyType, LenProperties, MachineAssumption DEF TypeOK
<1>2. 1059 + 22 * i \in Nat /\ 1059 + 22 * i + 68 <= 10000 BY <1>1
<1> QED BY <1>2 DEF Room

\* A step that appends a fragment.
LEMMA Grown ==
  ASSUME TypeOK, NEW s, NEW m \in Nat, FitsIn(s, m), FitsIn(wasm_instructions, Room),
         wasm_instructions' = wasm_instructions \o s,
         Room \in Nat, Room' \in Nat, Room + m <= Room'
  PROVE  /\ FitsIn(wasm_instructions', Room')
         /\ Len(wasm_instructions') = Len(wasm_instructions) + Len(s)
         /\ Len(s) \in Nat /\ Len(wasm_instructions) \in Nat
<1>1. FitsIn(wasm_instructions \o s, Room + m) BY FitJoin
<1>2. Room + m \in Nat OBVIOUS
<1>3. FitsIn(wasm_instructions', Room') BY <1>1, <1>2, FitMore
<1>4. wasm_instructions \in Seq(Part) /\ s \in Seq(Part) BY DEF FitsIn
<1>5. Len(wasm_instructions \o s) = Len(wasm_instructions) + Len(s)
  BY <1>4, ConcatProperties
<1> QED BY <1>3, <1>4, <1>5, LenProperties

\* Labels that are placed where they should be.
LEMMA LabelsGrown ==
  ASSUME TypeOK, NEW m \in Nat, NEW n \in Nat, m <= n, LabelsWithin(m),
         NEW new, InsertLabels(new), \A l \in DOMAIN new : new[l] <= n
  PROVE  \A l \in DOMAIN label_map' : label_map'[l] <= n
<1>1. \A l \in DOMAIN label_map : label_map[l] \in Nat /\ label_map[l] <= m
  BY DEF TypeOK, LabelsWithin
<1>2. \A l \in DOMAIN label_map : label_map[l] <= n BY <1>1
<1>3. /\ DOMAIN label_map' = DOMAIN label_map \cup DOMAIN new
      /\ \A l \in DOMAIN label_map' :
           label_map'[l] = IF l \in DOMAIN label_map THEN label_map[l] ELSE new[l]
  BY DEF InsertLabels
<1> QED BY <1>2, <1>3

(***************************************************************************)
(* The actions.                                                            *)
(***************************************************************************)
\* What is said of code that is ready says nothing of code that is not.
LEMMA NotReady ==
  ASSUME phase # "ready" PROVE NoFieldOverflows /\ FetchedAsEmitted /\ BranchesLandInCode
BY DEF NoFieldOverflows, FetchedAsEmitted, BranchesLandInCode

\* A step that gives up.
LEMMA StopCode ==
  ASSUME TypeOK, CInv, phase # "ready", NEW how \in {"aborted", "undefined"}, Stop(how)
  PROVE  CInv'
<1>1. /\ phase' = how /\ i' = i /\ fn' = fn /\ wasm_instructions' = wasm_instructions
      /\ label_map' = label_map /\ pre_instructions' = pre_instructions
  BY DEF Stop, fixed
<1>2. /\ i <= Len(fn.code_vec) /\ pre_instructions \in Seq(Part)
      /\ FitsIn(wasm_instructions, Room) /\ LabelsWithin(Len(wasm_instructions))
  BY DEF CInv, CodeShape
<1>3. Room \in Nat /\ 10000 \in Nat /\ Room <= 10000 BY <1>2, RoomType
<1>4. Room' = 10000 BY <1>1 DEF Room
<1>5. FitsIn(wasm_instructions, 10000) BY <1>2, <1>3, FitMore
<1>6. CodeShape' BY <1>1, <1>2, <1>4, <1>5 DEF CodeShape, LabelsWithin
<1>7. NoFieldOverflows' /\ FetchedAsEmitted' /\ BranchesLandInCode'
  BY <1>1 DEF NoFieldOverflows, FetchedAsEmitted, BranchesLandInCode
<1> QED BY <1>1, <1>2, <1>6, <1>7 DEF CInv

\* The steps before there is code.
LEMMA EarlyCode ==
  ASSUME TypeOK, CInv, PrepareParams \/ LoadParam \/ BeginProcess \/ LocalVarInitialize
  PROVE  CInv'
<1>1. phase \in {"idle", "params", "locals"}
  BY DEF PrepareParams, LoadParam, BeginProcess, LocalVarInitialize
<1>2. i <= Len(fn.code_vec) /\ pre_instructions \in Seq(Part) /\ CodeShape
  BY DEF CInv
<1>3. i \in Nat /\ iter \in Nat /\ Len(fn.code_vec) \in Nat
  BY BodyType, LenProperties DEF TypeOK
<1>4. ASSUME phase' \in {"params", "locals"}, fn' = fn, i' <= Len(fn.code_vec),
             UNCHANGED << wasm_instructions, label_map >>, pre_instructions' \in Seq(Part)
      PROVE  CInv'
  <2>1. Room = 0 /\ Room' = 0 BY <1>1, <1>4 DEF Room
  <2>2. CodeShape' BY <1>1, <1>2, <1>4, <2>1 DEF CodeShape, LabelsWithin
  <2>3. NoFieldOverflows' /\ FetchedAsEmitted' /\ BranchesLandInCode'
    BY <1>4 DEF NoFieldOverflows, FetchedAsEmitted, BranchesLandInCode
  <2> QED BY <1>4, <2>2, <2>3 DEF CInv
<1>5. CASE PrepareParams
  <2>1. BackupRegisters \in Seq(Part) BY SmallFragmentsFit DEF FitsIn
  <2>2. pre_instructions' \in Seq(Part)
    BY <1>2, <1>5, <2>1, ConcatProperties DEF PrepareParams
  <2>3. 0 <= Len(fn.code_vec) BY <1>3
  <2> QED BY <1>4, <1>5, <2>2, <2>3 DEF PrepareParams
<1>6. CASE LoadParam
  <2> DEFINE mov == MovInt(RegTypeOf(fn.params[iter + 1]), iter, param_data[iter + 1])
  <2>1. CASE Stop("aborted") BY <1>1, <2>1, StopCode
  <2>2. CASE /\ Encodable(mov[1])
             /\ pre_instructions' = pre_instructions \o mov
             /\ UNCHANGED << phase, fn, i, wasm_instructions, label_map >>
    <3>1. phase = "params" /\ iter < Len(fn.params) BY <1>6 DEF LoadParam
    <3>2. Len(fn.params) \in Nat /\ param_data \in Seq(Nat) /\ Len(param_data) = Len(fn.params)
      BY <3>1, BodyType, LenProperties DEF TypeOK
    <3>3. param_data[iter + 1] \in Nat BY <1>3, <3>1, <3>2, ElementOfSeq
    <3>4. FitsIn(mov, 4) BY <1>3, <2>2, <3>3, LoadParamFit
    <3> HIDE DEF mov
    <3>5. pre_instructions' \in Seq(Part) BY <1>2, <2>2, <3>4, ConcatProperties DEF FitsIn
    <3> QED BY <1>2, <1>4, <2>2, <3>1, <3>5
  <2> QED BY <1>6, <2>1, <2>2 DEF LoadParam
<1>7. CASE BeginProcess
  <2>1. /\ phase' = "locals" /\ UNCHANGED << fn, i, pre_instructions, wasm_instructions, label_map >>
    BY <1>7 DEF BeginProcess
  <2> QED BY <1>2, <1>4, <2>1
<1>8. CASE LocalVarInitialize
  <2>1. CASE Stop("undefined") BY <1>1, <2>1, StopCode
  <2>2. CASE /\ i + 2 <= Len(fn.code_vec) /\ i' = i + 2
             /\ UNCHANGED << phase, fn, pre_instructions, wasm_instructions, label_map >>
    <3>1. phase = "locals" BY <1>8 DEF LocalVarInitialize
    <3> QED BY <1>2, <1>4, <2>2, <3>1
  <2> QED BY <1>8, <2>1, <2>2 DEF LocalVarInitialize
<1> QED BY <1>5, <1>6, <1>7, <1>8

\* The runtime is the first code, and its labels are inside it.
LEMMA EmitRuntimeCode ==
  ASSUME TypeOK, CInv, EmitRuntime PROVE CInv'
<1>1. /\ phase = "locals" /\ phase' = "entry"
      /\ wasm_instructions' = wasm_instructions \o Runtime /\ InsertLabels(RuntimeLabels)
      /\ UNCHANGED << i, fn, pre_instructions >>
  BY DEF EmitRuntime, Emit, fixed
<1>2. /\ i <= Len(fn.code_vec) /\ pre_instructions \in Seq(Part)
      /\ FitsIn(wasm_instructions, Room) /\ LabelsWithin(Len(wasm_instructions))
  BY <1>1 DEF CInv, CodeShape
<1>3. Room = 0 /\ Room' = 32 BY <1>1 DEF Room
<1>4. /\ FitsIn(wasm_instructions', Room')
      /\ Len(wasm_instructions') = Len(wasm_instructions) + Len(Runtime)
      /\ Len(Runtime) \in Nat /\ Len(wasm_instructions) \in Nat
  <2>1. 32 \in Nat /\ Room \in Nat /\ Room' \in Nat /\ Room + 32 <= Room' BY <1>3
  <2> QED BY <1>1, <1>2, <2>1, RuntimeFit, Grown
<1>5. \A l \in DOMAIN RuntimeLabels : RuntimeLabels[l] <= Len(wasm_instructions')
  <2> DEFINE a == Len(BranchToEntry)
             b == Len(GetSetJmpInstr)
             c == Len(PrepareLongJmp)
             d == Len(GetLongJmpInstr)
             n == Len(wasm_instructions)
  <2>1. /\ a \in Nat /\ b \in Nat /\ c \in Nat /\ d \in Nat /\ n \in Nat
        /\ a + b + c + d <= Len(Runtime)
    BY <1>4, RuntimeFit
  <2>2. \A l \in DOMAIN RuntimeLabels : RuntimeLabels[l] \in {n + a, n + a + b, n + a + b + c,
                                                               n + a + b + c + d}
    BY DEF RuntimeLabels, Here
  <2> HIDE DEF a, b, c, d, n
  <2>3. \A m \in {n + a, n + a + b, n + a + b + c, n + a + b + c + d} : m <= n + Len(Runtime)
    BY <1>4, <2>1
  <2> QED BY <1>4, <2>2, <2>3 DEF n
<1>6. LabelsWithin(Len(wasm_instructions))'
  <2> DEFINE m == Len(wasm_instructions)
             n == Len(wasm_instructions')
  <2>1. m \in Nat /\ n \in Nat /\ m <= n BY <1>4
  <2>2. LabelsWithin(m) BY <1>2
  <2>3. \A l \in DOMAIN RuntimeLabels : RuntimeLabels[l] <= n BY <1>5
  <2>4. \A l \in DOMAIN label_map' : label_map'[l] <= n
    <3> HIDE DEF m, n
    <3> QED BY <1>1, <2>1, <2>2, <2>3, LabelsGrown
  <2> QED BY <2>4 DEF LabelsWithin
<1>7. CodeShape' BY <1>1, <1>4, <1>6 DEF CodeShape
<1>8. NoFieldOverflows' /\ FetchedAsEmitted' /\ BranchesLandInCode'
  BY <1>1 DEF NoFieldOverflows, FetchedAsEmitted, BranchesLandInCode
<1> QED BY <1>1, <1>2, <1>7, <1>8 DEF CInv

\* A step of the translation that appends a fragment and places labels inside.
LEMMA JitCode ==
  ASSUME TypeOK, CInv, phase \in {"entry", "jiting"}, phase' = "jiting",
         NEW s, NEW m \in Nat, FitsIn(s, m), wasm_instructions' = wasm_instructions \o s,
         NEW new, InsertLabels(new),
         \A l \in DOMAIN new : new[l] <= Len(wasm_instructions) + Len(s),
         UNCHANGED << fn, pre_instructions >>,
         i' <= Len(fn.code_vec), Room' \in Nat, Room + m <= Room', SmallFrame'
  PROVE  CInv'
<1>1. /\ i <= Len(fn.code_vec) /\ pre_instructions \in Seq(Part)
      /\ FitsIn(wasm_instructions, Room) /\ LabelsWithin(Len(wasm_instructions))
  BY DEF CInv, CodeShape
<1>2. Room \in Nat BY <1>1, RoomType
<1>3. /\ FitsIn(wasm_instructions', Room')
      /\ Len(wasm_instructions') = Len(wasm_instructions) + Len(s)
      /\ Len(s) \in Nat /\ Len(wasm_instructions) \in Nat
  BY <1>1, <1>2, Grown
<1>4. \A l \in DOMAIN label_map' : label_map'[l] <= Len(wasm_instructions')
  <2> DEFINE k == Len(wasm_instructions)
             n == k + Len(s)
  <2>1. k \in Nat /\ n \in Nat /\ k <= n /\ LabelsWithin(k) BY <1>1, <1>3
  <2>2. \A l \in DOMAIN new : new[l] <= n OBVIOUS
  <2>3. n = Len(wasm_instructions') BY <1>3
  <2> HIDE DEF k, n
  <2>4. \A l \in DOMAIN label_map' : label_map'[l] <= n BY <2>1, <2>2, LabelsGrown
  <2> QED BY <2>3, <2>4
<1>5. CodeShape' BY <1>3, <1>4 DEF CodeShape, LabelsWithin
<1>6. NoFieldOverflows' /\ FetchedAsEmitted' /\ BranchesLandInCode'
  BY DEF NoFieldOverflows, FetchedAsEmitted, BranchesLandInCode
<1> QED BY <1>1, <1>5, <1>6 DEF CInv

\* The entry: a prologue that its encoders took.
LEMMA MainEntryCode ==
  ASSUME TypeOK, CInv, MainEntry PROVE CInv'
<1>1. phase = "entry" BY DEF MainEntry
<1>2. CASE Stop("aborted") BY <1>1, <1>2, StopCode
<1>3. CASE /\ \A k \in 1 .. Len(Prologue) : Encodable(Prologue[k])
           /\ Emit(Prologue \o WrapperSetjmp)
           /\ InsertLabel(Fixed("entry"), Here)
           /\ phase' = "jiting"
           /\ UNCHANGED << i, fn, local_data, pre_instructions >>
  <2>1. FitsIn(Prologue, 1021) /\ LocalStackEnd <= 4080 BY <1>3, PrologueFit DEF TypeOK
  <2>2. SmallFrame'
    BY <1>3, <2>1 DEF SmallFrame, LocalStackEnd, LocalStackStart, Bytes
  <2> DEFINE s == Prologue \o WrapperSetjmp
  <2>3. wasm_instructions' = wasm_instructions \o s BY <1>3 DEF Emit
  <2>4. FitsIn(s, 1021 + 6) BY <2>1, WrapperSetjmpFit, FitJoin
  <2>5. FitsIn(s, 1027) /\ Len(s) \in Nat BY <2>4, LenProperties DEF FitsIn
  <2> HIDE DEF s
  <2>6. PICK new : /\ InsertLabels(new) /\ DOMAIN new = {Fixed("entry")}
                   /\ new[Fixed("entry")] = Here
    BY <1>3, InsertedOne
  <2>7. \A l \in DOMAIN new : new[l] <= Len(wasm_instructions) + Len(s)
    <3>1. Len(wasm_instructions) \in Nat BY LenProperties DEF TypeOK
    <3>2. Len(wasm_instructions) <= Len(wasm_instructions) + Len(s) BY <2>5, <3>1
    <3> QED BY <2>6, <3>2 DEF Here
  <2>8. i' <= Len(fn.code_vec) /\ Room' \in Nat /\ Room + 1027 <= Room'
    <3>1. i \in Nat /\ i' = i /\ i <= Len(fn.code_vec) BY <1>3 DEF TypeOK, CInv
    <3>2. Room = 32 /\ Room' = 1059 + 22 * i' BY <1>1, <1>3 DEF Room
    <3> QED BY <3>1, <3>2
  <2>9. 1027 \in Nat OBVIOUS
  <2> QED BY <1>1, <1>3, <2>2, <2>3, <2>5, <2>6, <2>7, <2>8, <2>9, JitCode
<1> QED BY <1>2, <1>3 DEF MainEntry, fixed, Prologue

\* An opcode: it takes a byte at least, and appends twenty-two instructions at
\* most.
LEMMA OpcodeCode ==
  ASSUME TypeOK, CInv, phase = "jiting", phase' = "jiting", NEW s, FitsIn(s, 22),
         wasm_instructions' = wasm_instructions \o s,
         NEW new, InsertLabels(new),
         \A l \in DOMAIN new : new[l] <= Len(wasm_instructions) + Len(s),
         UNCHANGED fixed,
         NEW size \in 1 .. 2, i' = i + size, i + size <= Len(fn.code_vec)
  PROVE  CInv'
<1>1. i \in Nat /\ SmallFrame BY DEF TypeOK, CInv
<1>2. SmallFrame' /\ UNCHANGED << fn, pre_instructions >>
  BY <1>1 DEF SmallFrame, LocalStackEnd, LocalStackStart, Bytes, fixed
<1>3. i' <= Len(fn.code_vec) /\ Room' \in Nat /\ Room + 22 <= Room'
  <2>1. Room = 1059 + 22 * i /\ Room' = 1059 + 22 * i' BY DEF Room
  <2>2. i' \in Nat /\ i + 1 <= i' /\ i' <= Len(fn.code_vec) BY <1>1
  <2> QED BY <1>1, <2>1, <2>2
<1>4. 22 \in Nat OBVIOUS
<1> QED BY <1>2, <1>3, <1>4, JitCode

\* Opcodes without a branch.
LEMMA PlainOpcodesCode ==
  ASSUME TypeOK, CInv, PlainOpcodes PROVE CInv'
<1>1. phase = "jiting" /\ LocalStackEnd <= 4080 BY PlainOpcodesEmit DEF CInv, SmallFrame
<1>2. PICK s : \E size \in 1 .. 2 :
        FitsIn(s, 22) /\ Emitted(s, size) /\ i + size <= Len(fn.code_vec)
  BY <1>1, PlainOpcodesFit
<1>3. PICK size \in 1 .. 2 :
        FitsIn(s, 22) /\ Emitted(s, size) /\ i + size <= Len(fn.code_vec)
  BY <1>2
<1>4. PICK new : InsertLabels(new) /\ DOMAIN new = {}
  BY <1>3, InsertedNone DEF Emitted
<1>5. \A l \in DOMAIN new : new[l] <= Len(wasm_instructions) + Len(s) BY <1>4
<1>6. /\ wasm_instructions' = wasm_instructions \o s /\ i' = i + size
      /\ UNCHANGED fixed /\ phase' = "jiting"
  BY <1>1, <1>3 DEF Emitted, Emit
<1> QED BY <1>1, <1>3, <1>4, <1>5, <1>6, OpcodeCode

\* A division: normal_div is at the division, inside the fragment.
LEMMA DivOpCode ==
  ASSUME TypeOK, CInv, DivOp PROVE CInv'
<1> DEFINE w == IF CurrentByte <= \h6E THEN "W" ELSE "X"
           op == IF CurrentByte \in {\h6D, \h7F} THEN "sdiv" ELSE "udiv"
<1>1. /\ phase = "jiting" /\ phase' = "jiting" /\ Emit(EmitDivOp(w, op))
      /\ InsertLabel(Fixed("normal_div"), Here + Len(DivChecks(w)))
      /\ i' = i + 1 /\ i < Len(fn.code_vec) /\ UNCHANGED fixed
  BY DEF DivOp, AtOpcode
<1>2. op \in {"sdiv", "udiv"} OBVIOUS
<1> HIDE DEF w, op
<1> DEFINE s == EmitDivOp(w, op)
<1>3. /\ FitsIn(s, 22) /\ Len(DivChecks(w)) <= Len(s)
      /\ Len(DivChecks(w)) \in Nat /\ Len(s) \in Nat /\ Len(wasm_instructions) \in Nat
  <2>1. /\ DivChecks(w) \in Seq(CodeTo(DivTargets)) /\ s \in Seq(CodeTo(DivTargets))
        /\ Len(s) > Len(DivChecks(w))
    BY <1>2, DivType
  <2>2. Len(DivChecks(w)) \in Nat /\ Len(s) \in Nat /\ Len(wasm_instructions) \in Nat
    BY <2>1, LenProperties DEF TypeOK
  <2>3. FitsIn(s, 22) BY <1>2, DivFit
  <2> QED BY <2>1, <2>2, <2>3
<1>4. wasm_instructions' = wasm_instructions \o s BY <1>1 DEF Emit
<1>5. PICK new : /\ InsertLabels(new) /\ DOMAIN new = {Fixed("normal_div")}
                 /\ new[Fixed("normal_div")] = Here + Len(DivChecks(w))
  BY <1>1, InsertedOne
<1> HIDE DEF s
<1>6. \A l \in DOMAIN new : new[l] <= Len(wasm_instructions) + Len(s)
  <2>1. Len(wasm_instructions) + Len(DivChecks(w)) <= Len(wasm_instructions) + Len(s)
    BY <1>3
  <2> QED BY <1>5, <2>1 DEF Here
<1>7. i + 1 <= Len(fn.code_vec)
  <2>1. i \in Nat /\ Len(fn.code_vec) \in Nat BY BodyType, LenProperties DEF TypeOK
  <2> QED BY <1>1, <2>1
<1>8. 1 \in 1 .. 2 OBVIOUS
<1> QED BY <1>1, <1>3, <1>4, <1>5, <1>6, <1>7, <1>8, OpcodeCode

\* An if: two bytes.
LEMMA IfOpCode ==
  ASSUME TypeOK, CInv, IfOp PROVE CInv'
<1> DEFINE s == IfTest(ElseOrEnd(if_label))
<1>1. /\ phase = "jiting" /\ phase' = "jiting" /\ wasm_instructions' = wasm_instructions \o s
      /\ i' = i + 2 /\ UNCHANGED << label_map, fixed >> /\ Readable /\ CurrentByte = \h04
  BY DEF IfOp, AtOpcode, Emit, CurrentByte
<1>2. FitsIn(s, 5) BY NumberedType, BlocksFit
<1> HIDE DEF s
<1>3. FitsIn(s, 22)
  <2>1. 5 \in Nat /\ 22 \in Nat /\ 5 <= 22 OBVIOUS
  <2> QED BY <1>2, <2>1, FitMore
<1>4. PICK new : InsertLabels(new) /\ DOMAIN new = {} BY <1>1, InsertedNone
<1>5. \A l \in DOMAIN new : new[l] <= Len(wasm_instructions) + Len(s) BY <1>4
<1>6. i + 2 <= Len(fn.code_vec) BY <1>1 DEF Readable, BytesRead
<1>7. 2 \in 1 .. 2 OBVIOUS
<1> QED BY <1>1, <1>3, <1>4, <1>5, <1>6, <1>7, OpcodeCode

\* An else: the label of the if is behind the branch.
LEMMA ElseOpCode ==
  ASSUME TypeOK, CInv, ElseOp PROVE CInv'
<1> DEFINE s == << Fake(EndOf(if_label), "b") >>
<1>1. /\ phase = "jiting" /\ phase' = "jiting" /\ wasm_instructions' = wasm_instructions \o s
      /\ InsertLabel(Top.label, Here + Len(s))
      /\ i' = i + 1 /\ i < Len(fn.code_vec) /\ UNCHANGED fixed
  BY DEF ElseOp, AtOpcode, Emit
<1>2. FitsIn(s, 1) BY NumberedType, BlocksFit
<1> HIDE DEF s
<1>3. FitsIn(s, 22)
  <2>1. 1 \in Nat /\ 22 \in Nat /\ 1 <= 22 OBVIOUS
  <2> QED BY <1>2, <2>1, FitMore
<1>4. PICK new : /\ InsertLabels(new) /\ DOMAIN new = {Top.label}
                 /\ new[Top.label] = Here + Len(s)
  BY <1>1, InsertedOne
<1>5. \A l \in DOMAIN new : new[l] <= Len(wasm_instructions) + Len(s)
  <2>1. Len(s) \in Nat /\ Len(wasm_instructions) \in Nat
    BY <1>2, LenProperties DEF FitsIn, TypeOK
  <2>2. Len(wasm_instructions) + Len(s) <= Len(wasm_instructions) + Len(s) BY <2>1
  <2> QED BY <1>4, <2>2 DEF Here
<1>6. i + 1 <= Len(fn.code_vec)
  <2>1. i \in Nat /\ Len(fn.code_vec) \in Nat BY BodyType, LenProperties DEF TypeOK
  <2> QED BY <1>1, <2>1
<1>7. 1 \in 1 .. 2 OBVIOUS
<1> QED BY <1>1, <1>3, <1>4, <1>5, <1>6, <1>7, OpcodeCode

\* An end emits nothing: its label is where the code ends so far.
LEMMA EndOpCode ==
  ASSUME TypeOK, CInv, EndOp PROVE CInv'
<1> DEFINE s == << >>
<1>1. /\ phase = "jiting" /\ phase' = "jiting" /\ wasm_instructions' = wasm_instructions
      /\ InsertLabel(Top.label, Here)
      /\ i' = i + 1 /\ i < Len(fn.code_vec) /\ UNCHANGED fixed
  BY DEF EndOp, AtOpcode
<1>2. Len(s) = 0 /\ Len(wasm_instructions) \in Nat BY LenProperties DEF TypeOK
<1>3. FitsIn(s, 22)
  <2>1. FitsIn(s, 0) BY SmallFragmentsFit
  <2>2. 0 \in Nat /\ 22 \in Nat /\ 0 <= 22 OBVIOUS
  <2> HIDE DEF s
  <2> QED BY <2>1, <2>2, FitMore
<1>4. wasm_instructions' = wasm_instructions \o s BY <1>1, ConcatEmptySeq DEF TypeOK
<1>5. PICK new : InsertLabels(new) /\ DOMAIN new = {Top.label} /\ new[Top.label] = Here
  BY <1>1, InsertedOne
<1> HIDE DEF s
<1>6. \A l \in DOMAIN new : new[l] <= Len(wasm_instructions) + Len(s)
  <2>1. Len(wasm_instructions) <= Len(wasm_instructions) + Len(s) BY <1>2
  <2> QED BY <1>5, <2>1 DEF Here
<1>7. i + 1 <= Len(fn.code_vec)
  <2>1. i \in Nat /\ Len(fn.code_vec) \in Nat BY BodyType, LenProperties DEF TypeOK
  <2> QED BY <1>1, <2>1
<1>8. 1 \in 1 .. 2 OBVIOUS
<1> QED BY <1>1, <1>3, <1>4, <1>5, <1>6, <1>7, <1>8, OpcodeCode

\* A step that changes nothing.
LEMMA StutterCode ==
  ASSUME CInv, UNCHANGED vars PROVE CInv'
BY DEF vars, CInv, CodeShape, Room, LabelsWithin, SmallFrame, LocalStackEnd, LocalStackStart,
       Bytes, NoFieldOverflows, FetchedAsEmitted, FullInstructions,
       BranchesLandInCode

\* The handlers that give up, and the one that stays where it is.
LEMMA StoppingOpcodesCode ==
  ASSUME TypeOK, CInv,
         \/ ReadPastEnd \/ TooBigIndex \/ FloatConst \/ UnsupportedBlock
         \/ NoOpenBlock \/ UnsupportedOpcode
  PROVE  CInv'
<1>1. CASE UNCHANGED vars BY <1>1, StutterCode
<1>2. CASE phase = "jiting" /\ \E how \in {"aborted", "undefined"} : Stop(how)
  BY <1>2, StopCode
<1>3. \/ UNCHANGED vars
      \/ phase = "jiting" /\ \E how \in {"aborted", "undefined"} : Stop(how)
  BY DEF ReadPastEnd, TooBigIndex, FloatConst, UnsupportedBlock, NoOpenBlock,
         UnsupportedOpcode, AtOpcode
<1> QED BY <1>1, <1>2, <1>3

\* The epilogue ends the code behind the last label.
LEMMA EpilogueCode ==
  ASSUME TypeOK, CInv, Epilogue PROVE CInv'
<1> DEFINE a == StoreReturnCode0
           b == RestoreSp
           c == << EncodeReturn >>
           s == a \o b \o c
<1>1. phase = "jiting" BY DEF Epilogue
<1>2. CASE Stop("aborted") BY <1>1, <1>2, StopCode
<1>3. CASE /\ \A k \in 1 .. Len(RestoreSp) : Encodable(RestoreSp[k])
           /\ Emit(s)
           /\ InsertLabel(Fixed("finalize"), Here + Len(a))
           /\ phase' = "fixup"
           /\ UNCHANGED << i, fn, pre_instructions >>
  <2>1. FitsIn(a, 2) /\ FitsIn(b, 65) /\ Len(b) >= 1 /\ FitsIn(c, 1) /\ Len(c) = 1
    BY <1>3, SmallFragmentsFit, RestoreSpFit DEF TypeOK
  <2>2. wasm_instructions' = wasm_instructions \o s BY <1>3 DEF Emit
  <2>3. PICK new : /\ InsertLabels(new) /\ DOMAIN new = {Fixed("finalize")}
                   /\ new[Fixed("finalize")] = Here + Len(a)
    BY <1>3, InsertedOne
  <2> HIDE DEF a, b, c
  <2>4. FitsIn(a \o b, 2 + 65) /\ Len(a \o b) = Len(a) + Len(b)
    <3>1. FitsIn(a \o b, 2 + 65) BY <2>1, FitJoin
    <3>2. a \in Seq(Part) /\ b \in Seq(Part) BY <2>1 DEF FitsIn
    <3> QED BY <3>1, <3>2, ConcatProperties
  <2>5. FitsIn(s, 67 + 1) /\ Len(s) = Len(a \o b) + Len(c)
    <3>1. FitsIn(a \o b, 67) BY <2>4
    <3>2. FitsIn(s, 67 + 1) BY <2>1, <3>1, FitJoin
    <3>3. a \o b \in Seq(Part) /\ c \in Seq(Part) BY <2>1, <3>1 DEF FitsIn
    <3> QED BY <3>2, <3>3, ConcatProperties
  <2>6. FitsIn(s, 68) /\ Len(a) + 2 <= Len(s) /\ Len(s) \in Nat /\ Len(a) \in Nat
    <3>1. Len(a) \in Nat /\ Len(b) \in Nat BY <2>1, LenProperties DEF FitsIn
    <3> QED BY <2>1, <2>4, <2>5, <3>1
  <2> HIDE DEF s
  <2>7. /\ i <= Len(fn.code_vec) /\ pre_instructions \in Seq(Part)
        /\ FitsIn(wasm_instructions, Room) /\ LabelsWithin(Len(wasm_instructions))
    BY <1>1 DEF CInv, CodeShape
  <2>8. Room \in Nat /\ Room' \in Nat /\ Room + 68 <= Room'
    <3>1. Room \in Nat /\ Room + 68 <= 10000 BY <1>1, <2>7, RoomType
    <3>2. Room' = 10000 BY <1>3 DEF Room
    <3> QED BY <3>1, <3>2
  <2>9. 68 \in Nat OBVIOUS
  <2>10. /\ FitsIn(wasm_instructions', Room')
         /\ Len(wasm_instructions') = Len(wasm_instructions) + Len(s)
         /\ Len(wasm_instructions) \in Nat
    BY <2>2, <2>6, <2>7, <2>8, <2>9, Grown
  <2>11. \A l \in DOMAIN label_map' : label_map'[l] <= Len(wasm_instructions') - 1
    <3> DEFINE m == Len(wasm_instructions)
               n == m + Len(a)
    <3>1. m \in Nat /\ n \in Nat /\ m <= n /\ n <= Len(wasm_instructions') - 1
          /\ Len(wasm_instructions') \in Nat
      BY <2>6, <2>10
    <3>2. \A l \in DOMAIN new : new[l] <= n
      <4>1. n <= n BY <3>1
      <4> QED BY <2>3, <4>1 DEF Here
    <3>3. LabelsWithin(m) BY <2>7
    <3> HIDE DEF m, n
    <3>4. \A l \in DOMAIN label_map' : label_map'[l] <= n
      BY <2>3, <3>1, <3>2, <3>3, LabelsGrown
    <3>5. \A l \in DOMAIN label_map' : label_map'[l] \in Nat
      BY EpilogueType DEF TypeOK
    <3> QED BY <3>1, <3>4, <3>5
  <2>12. \A l \in DOMAIN label_map' : label_map'[l] <= Len(wasm_instructions')
    <3>1. \A l \in DOMAIN label_map' : label_map'[l] \in Nat
      BY EpilogueType DEF TypeOK
    <3>2. Len(wasm_instructions') \in Nat BY <2>6, <2>10
    <3> QED BY <2>11, <3>1, <3>2
  <2>13. CodeShape' BY <2>10, <2>12 DEF CodeShape, LabelsWithin
  <2>14. LabelsWithin(Len(wasm_instructions) - 1)' BY <2>11 DEF LabelsWithin
  <2>15. NoFieldOverflows' /\ FetchedAsEmitted' /\ BranchesLandInCode'
    BY <1>3 DEF NoFieldOverflows, FetchedAsEmitted, BranchesLandInCode
  <2> QED BY <1>3, <2>7, <2>13, <2>14, <2>15 DEF CInv
<1> QED BY <1>2, <1>3 DEF Epilogue, fixed

\* The reset.
LEMMA ResetCode ==
  ASSUME TypeOK, CInv, ResetAfterExecution PROVE CInv'
<1>1. /\ phase' = "idle" /\ i' = i /\ fn' = fn /\ pre_instructions' = << >>
      /\ wasm_instructions' = << >> /\ DOMAIN label_map' = {}
  BY DEF ResetAfterExecution, Clear
<1>2. Room' = 0 BY <1>1 DEF Room
<1>3. FitsIn(wasm_instructions', Room') BY <1>1, <1>2, SmallFragmentsFit
<1>4. pre_instructions' \in Seq(Part) BY <1>1, EmptySeq
<1>5. CodeShape' BY <1>1, <1>3 DEF CodeShape, LabelsWithin
<1>6. NoFieldOverflows' /\ FetchedAsEmitted' /\ BranchesLandInCode'
  BY <1>1 DEF NoFieldOverflows, FetchedAsEmitted, BranchesLandInCode
<1>7. i <= Len(fn.code_vec) BY DEF CInv
<1> QED BY <1>1, <1>4, <1>5, <1>6, <1>7 DEF CInv

\* A patched branch: its offset, no field that overflows, and what is decoded.
LEMMA BranchToFits ==
  ASSUME NEW br \in Br, NEW offset \in Near
  PROVE  /\ BranchTo(br, offset).imm = offset
         /\ ~EncoderThrows(BranchTo(br, offset))
         /\ Decodes(BranchTo(br, offset))
<1>0. offset \in Int /\ offset < 262144 BY DEF Near
<1>1. CASE br \in {"b", "bl"}
  <2> DEFINE e == EncodeBranch(br, offset)
  <2>1. BranchTo(br, offset) = e BY <1>1 DEF BranchTo
  <2>2. e.op \in {"b", "bl"} /\ e.imm = offset BY <1>1 DEF EncodeBranch, Ins
  <2>3. Decodes(e) BY <1>1, BranchDecodes DEF EncodeBranch
  <2> HIDE DEF e
  <2> QED BY <1>0, <2>1, <2>2, <2>3, BranchFits
<1>2. CASE br \in {"beq", "bne"}
  <2> DEFINE e == BranchTo(br, offset)
  <2>1. e = EncodeBranchCondition(offset, "eq") \/ e = EncodeBranchCondition(offset, "ne")
    BY <1>2 DEF BranchTo
  <2>2. \A cond : /\ EncodeBranchCondition(offset, cond).op = "bcond"
                  /\ EncodeBranchCondition(offset, cond).imm = offset
                  /\ EncodeBranchCondition(offset, cond).c = cond
    BY DEF EncodeBranchCondition, Ins
  <2>3. "eq" \in Condition /\ "ne" \in Condition BY DEF Condition
  <2> HIDE DEF e
  <2>4. e.op = "bcond" /\ e.imm = offset /\ e.c \in Condition BY <2>1, <2>2, <2>3
  <2>5. ~EncoderThrows(e) BY <1>0, <2>4, BranchFits
  <2>6. \A cond \in Condition : Decodes(EncodeBranchCondition(offset, cond))
    BY BranchConditionDecodes DEF EncodeBranchCondition
  <2>7. Decodes(e) BY <2>1, <2>3, <2>6
  <2> QED BY <2>4, <2>5, <2>7 DEF e
<1> QED BY <1>1, <1>2 DEF Br

\* What is a part and no placeholder has been taken by its encoder.
LEMMA StraightPart ==
  ASSUME NEW e \in Part, e.op # "fake"
  PROVE  ~EncoderThrows(e) /\ Decodes(e) /\ e.op \notin {"b", "bl", "bcond"}
<1>1. e \notin Placeholder BY DEF Placeholder
<1> QED BY <1>1 DEF Part, Straight

\* The fix-up: a branch from one place inside the code to another.
LEMMA FixUpCode ==
  ASSUME IInv, CInv, FixUpFakeBranch PROVE CInv'
<1> DEFINE n == Len(wasm_instructions)
<1>1. /\ phase = "fixup" /\ phase' = "ready" /\ UNCHANGED << i, fn, pre_instructions >>
      /\ TypeOK /\ PlaceholdersRecorded
  BY DEF FixUpFakeBranch, fixed, IInv
<1>2. /\ i <= Len(fn.code_vec) /\ pre_instructions \in Seq(Part)
      /\ wasm_instructions \in Seq(Part) /\ n <= 10000 /\ n \in Nat
      /\ LabelsWithin(n - 1)
  <2>1. Room = 10000 BY <1>1 DEF Room
  <2>2. /\ i <= Len(fn.code_vec) /\ pre_instructions \in Seq(Part)
        /\ FitsIn(wasm_instructions, Room) /\ LabelsWithin(n - 1)
    BY <1>1 DEF CInv, CodeShape
  <2>3. wasm_instructions \in Seq(Part) /\ n <= 10000 BY <2>1, <2>2 DEF FitsIn
  <2> QED BY <2>2, <2>3, LenProperties
<1>3. \A f \in fake_insert_map :
        /\ f.at \in 0 .. n - 1 /\ wasm_instructions[f.at + 1].op = "fake"
        /\ f.br \in Br /\ f.label \in DOMAIN LabelsRead
  BY <1>1, EntriesInCode DEF TypeOK, Entry, LabelsRead
<1>4. \A f \in fake_insert_map : LabelsRead[f.label] \in 0 .. n - 1
  <2> TAKE f \in fake_insert_map
  <2>1. LabelsRead[f.label] \in Nat BY <1>1, <1>3, FixUpType
  <2>2. f.label \in DOMAIN label_map => LabelsRead[f.label] = label_map[f.label]
    BY <1>3 DEF LabelsRead
  <2>3. f.label \notin DOMAIN label_map => LabelsRead[f.label] = 0
    BY <1>3 DEF LabelsRead
  <2>4. f.label \in DOMAIN label_map => label_map[f.label] <= n - 1
    BY <1>2 DEF LabelsWithin
  <2>5. 0 <= n - 1 BY <1>2, <1>3
  <2> QED BY <1>2, <2>1, <2>2, <2>3, <2>4, <2>5
<1>5. /\ DOMAIN wasm_instructions' = 1 .. n
      /\ \A k \in 1 .. n : (~ \E f \in fake_insert_map : f.at = k - 1)
           => wasm_instructions'[k] = wasm_instructions[k] /\ wasm_instructions[k].op # "fake"
      /\ \A k \in 1 .. n : (\E f \in fake_insert_map : f.at = k - 1)
           => \E f \in fake_insert_map : /\ f.at = k - 1
                /\ wasm_instructions'[k] = BranchTo(f.br, LabelsRead[f.label] - f.at)
  <2>1. DOMAIN wasm_instructions' = 1 .. n BY DEF FixUpFakeBranch
  <2>2. ASSUME NEW k \in 1 .. n, ~ \E f \in fake_insert_map : f.at = k - 1
        PROVE  wasm_instructions'[k] = wasm_instructions[k] /\ wasm_instructions[k].op # "fake"
    <3>1. wasm_instructions'[k] = wasm_instructions[k] BY <2>2 DEF FixUpFakeBranch
    <3>2. ASSUME wasm_instructions[k].op = "fake" PROVE FALSE
      <4> DEFINE f == [label |-> wasm_instructions[k].label, at |-> 0 + k - 1,
                       br |-> wasm_instructions[k].c]
      <4>1. f \in fake_insert_map
        <5>1. Fakes(wasm_instructions, 0) = fake_insert_map
          BY <1>1 DEF PlaceholdersRecorded
        <5> QED BY <3>2, <5>1 DEF Fakes
      <4>2. f.at = k - 1 OBVIOUS
      <4> QED BY <2>2, <4>1, <4>2
    <3> QED BY <3>1, <3>2
  <2>3. ASSUME NEW k \in 1 .. n, \E f \in fake_insert_map : f.at = k - 1
        PROVE  \E f \in fake_insert_map : /\ f.at = k - 1
                 /\ wasm_instructions'[k] = BranchTo(f.br, LabelsRead[f.label] - f.at)
    <3> DEFINE f == CHOOSE f \in fake_insert_map : f.at = k - 1
    <3>1. f \in fake_insert_map /\ f.at = k - 1 BY <2>3
    <3>2. wasm_instructions'[k] = BranchTo(f.br, LabelsRead[f.label] - f.at)
      BY <2>3 DEF FixUpFakeBranch
    <3> HIDE DEF f
    <3> QED BY <3>1, <3>2
  <2> QED BY <2>1, <2>2, <2>3
<1> HIDE DEF n
<1>6. ASSUME NEW k \in 1 .. n
      PROVE  /\ ~EncoderThrows(wasm_instructions'[k]) /\ Decodes(wasm_instructions'[k])
             /\ wasm_instructions'[k].op \in {"b", "bl", "bcond"}
                  => k + wasm_instructions'[k].imm \in 1 .. n
  <2>1. CASE \E f \in fake_insert_map : f.at = k - 1
    <3>1. PICK f \in fake_insert_map :
                 /\ f.at = k - 1
                 /\ wasm_instructions'[k] = BranchTo(f.br, LabelsRead[f.label] - f.at)
      BY <1>5, <2>1
    <3> DEFINE offset == LabelsRead[f.label] - f.at
               to == LabelsRead[f.label]
    <3>2. to \in 0 .. n - 1 /\ f.at \in 0 .. n - 1 /\ f.br \in Br BY <1>3, <1>4
    <3> HIDE DEF to
    <3>3. to - f.at \in Near /\ k + (to - f.at) \in 1 .. n
      BY <1>2, <3>1, <3>2 DEF n, Near
    <3>4. offset \in Near /\ k + offset \in 1 .. n BY <3>3 DEF to
    <3> HIDE DEF offset
    <3>5. /\ BranchTo(f.br, offset).imm = offset /\ ~EncoderThrows(BranchTo(f.br, offset))
          /\ Decodes(BranchTo(f.br, offset))
      BY <3>2, <3>4, BranchToFits
    <3>6. wasm_instructions'[k] = BranchTo(f.br, offset) BY <3>1 DEF offset
    <3> QED BY <3>4, <3>5, <3>6
  <2>2. CASE ~ \E f \in fake_insert_map : f.at = k - 1
    <3>1. wasm_instructions'[k] = wasm_instructions[k] /\ wasm_instructions[k].op # "fake"
      BY <1>5, <2>2
    <3>2. wasm_instructions[k] \in Part BY <1>2, ElementOfSeq DEF n
    <3> QED BY <3>1, <3>2, StraightPart
  <2> QED BY <2>1, <2>2
<1>7. BranchesLandInCode' BY <1>5, <1>6 DEF BranchesLandInCode
<1>8. NoFieldOverflows' /\ FetchedAsEmitted'
  <2> DEFINE m == Len(pre_instructions)
             full == pre_instructions' \o wasm_instructions'
  <2>1. /\ pre_instructions' \in Seq(Instruction) /\ wasm_instructions' \in Seq(Instruction)
        /\ Len(pre_instructions') = m /\ m \in Nat /\ Len(wasm_instructions') = n /\ n \in Nat
    <3>1. TypeOK' /\ Len(wasm_instructions') = n BY <1>1, FixUpType DEF n
    <3>2. pre_instructions' \in Seq(Encoded) /\ wasm_instructions' \in Seq(Instruction)
      BY <3>1 DEF TypeOK
    <3>3. Encoded \subseteq Instruction BY DEF Instruction
    <3>4. pre_instructions' \in Seq(Instruction) BY <3>2, <3>3
    <3> QED BY <1>1, <1>2, <3>1, <3>2, <3>4, LenProperties
  <2>2. /\ full \in Seq(Instruction)
        /\ Len(full) = Len(pre_instructions') + Len(wasm_instructions')
        /\ \A k \in 1 .. Len(pre_instructions') + Len(wasm_instructions') :
             full[k] = IF k <= Len(pre_instructions') THEN pre_instructions'[k]
                       ELSE wasm_instructions'[k - Len(pre_instructions')]
    BY <2>1, ConcatProperties
  <2>3. DOMAIN full = 1 .. m + n BY <2>1, <2>2, LenProperties
  <2>4. \A k \in 1 .. m : ~EncoderThrows(pre_instructions[k]) /\ Decodes(pre_instructions[k])
    <3> TAKE k \in 1 .. m
    <3>1. pre_instructions[k] \in Part /\ pre_instructions[k] \in Encoded
      BY <1>1, <1>2, ElementOfSeq DEF TypeOK
    <3>2. pre_instructions[k].op # "fake" BY <3>1 DEF Encoded, Operation
    <3> QED BY <3>1, <3>2, StraightPart
  <2> HIDE DEF full, m
  <2>5. \A k \in DOMAIN full : ~EncoderThrows(full[k]) /\ Decodes(full[k])
    <3> TAKE k \in DOMAIN full
    <3>1. k \in 1 .. m + n BY <2>3
    <3>2. CASE k <= m
      <4>1. k \in 1 .. m BY <2>1, <3>1, <3>2
      <4>2. full[k] = pre_instructions[k] BY <1>1, <2>1, <2>2, <3>1, <3>2
      <4> QED BY <2>4, <4>1, <4>2
    <3>3. CASE ~(k <= m)
      <4>1. k - m \in 1 .. n BY <2>1, <3>1, <3>3
      <4>2. full[k] = wasm_instructions'[k - m] BY <2>1, <2>2, <3>1, <3>3
      <4> QED BY <1>6, <4>1, <4>2
    <3> QED BY <3>2, <3>3
  <2>6. \A k \in DOMAIN full : Decoded(Fetched(CharArray(full), 4 * (k - 1))) = full[k]
    <3> TAKE k \in DOMAIN full
    <3>1. Len(full) \in Nat /\ DOMAIN full = 1 .. Len(full) BY <2>1, <2>2, LenProperties
    <3>2. Word(full[k]) \subseteq 0 .. 31 /\ Decoded(Word(full[k])) = full[k]
      BY <2>5 DEF Decodes
    <3>3. Fetched(CharArray(full), 4 * (k - 1)) = Word(full[k]) BY <3>1, <3>2, FetchedWord
    <3> QED BY <3>2, <3>3
  <2>7. FullInstructions' = full BY DEF FullInstructions, full
  <2> QED BY <2>5, <2>6, <2>7 DEF NoFieldOverflows, FetchedAsEmitted
<1>9. CodeShape' BY <1>1 DEF CodeShape
<1> QED BY <1>1, <1>2, <1>7, <1>8, <1>9 DEF CInv

\* Base case.
LEMMA CInvInit ==
  ASSUME Init PROVE CInv
<1>1. /\ phase = "idle" /\ i = 0 /\ fn \in Bodies /\ pre_instructions = << >>
      /\ wasm_instructions = << >> /\ DOMAIN label_map = {}
  BY DEF Init
<1>2. i <= Len(fn.code_vec)
  <2>1. Len(fn.code_vec) \in Nat BY <1>1, BodyType, LenProperties
  <2> QED BY <1>1, <2>1
<1>3. Room = 0 BY <1>1 DEF Room
<1>4. FitsIn(wasm_instructions, Room) BY <1>1, <1>3, SmallFragmentsFit
<1>5. pre_instructions \in Seq(Part) BY <1>1, EmptySeq
<1>6. CodeShape BY <1>1, <1>4 DEF CodeShape, LabelsWithin
<1>7. NoFieldOverflows /\ FetchedAsEmitted /\ BranchesLandInCode BY <1>1, NotReady
<1> QED BY <1>1, <1>2, <1>5, <1>6, <1>7 DEF CInv

\* Every step keeps the invariant.
LEMMA CInvStep ==
  ASSUME IInv, CInv, [Next]_vars PROVE CInv'
<1>0. TypeOK BY DEF IInv
<1>1. CASE UNCHANGED vars BY <1>1, StutterCode
<1>2. CASE Opcodes
  BY <1>0, <1>2, PlainOpcodesCode, StoppingOpcodesCode, DivOpCode, IfOpCode,
     ElseOpCode, EndOpCode DEF Opcodes, PlainOpcodes
<1>3. CASE Translate
  BY <1>0, <1>2, <1>3, EarlyCode, EmitRuntimeCode, MainEntryCode,
     EpilogueCode, FixUpCode DEF Translate
<1>4. CASE ResetAfterExecution BY <1>0, <1>4, ResetCode
<1> QED BY <1>1, <1>3, <1>4 DEF Next

(***************************************************************************)
(* The theorems.                                                           *)
(***************************************************************************)
LEMMA CInvCorrect == Spec => []CInv
<1>1. Init => CInv BY CInvInit
<1>2. IInv /\ CInv /\ [Next]_vars => CInv' BY CInvStep
<1> QED BY <1>1, <1>2, IInvCorrect, PTL DEF Spec

\* No field of an instruction that is ready to execute overflows, whatever
\* function is translated: Encodable, the checks of setField that the encoders
\* called from initParam, initLocal, prepareSp, loadParam and restoreSP can
\* run into, leaves out no field of no call of an encoder, fixUpfakeBranch's
\* offsets included.
THEOREM FieldsCorrect == Spec => []NoFieldOverflows
<1>1. CInv => NoFieldOverflows BY DEF CInv
<1> QED BY <1>1, CInvCorrect, PTL

\* The processor fetches and decodes what the translator emitted, instruction
\* by instruction, whatever function is translated: the fields of every call
\* of an encoder, with every operand it can have, lie side by side in the word
\* (a pair of registers only at the offsets that seven bits hold), swapping,
\* printing and reading back the text give the word again, and fix-up and
\* concatenation move no byte across an instruction.
THEOREM FetchedCorrect == Spec => []FetchedAsEmitted
<1>1. CInv => FetchedAsEmitted BY DEF CInv
<1> QED BY <1>1, CInvCorrect, PTL

\* Every branch of code that is ready lands on an instruction of that code:
\* what fixUpfakeBranch computes from the map of the labels and the place of
\* the placeholder stays inside, for every function, also one whose blocks are
\* not closed and whose branch goes to location 0 instead.
THEOREM LandCorrect == Spec => []BranchesLandInCode
<1>1. CInv => BranchesLandInCode BY DEF CInv
<1> QED BY <1>1, CInvCorrect, PTL

-----------------------------------------------------------------------------
(***************************************************************************)
(* The frame of a function whose parameters and locals are all i32, for    *)
(* every number of them: in bytes from sp, variable v lies at              *)
(*   4 * (P - v)              if it is one of the P parameters,            *)
(*   4 * P + 8 + 4 * (P + L - v)  if it is one of the L locals.            *)
(***************************************************************************)
Params == Len(fn.params)
Locals == Len(local_data)

\* Where an i32 variable lies.
Place(v) == IF v < Params THEN 4 * (Params - v)
                          ELSE 4 * Params + 8 + 4 * (Params + Locals - v)

AllI32 == \A v \in 0 .. VarCount - 1 : Var(v).reg = "W"

\* How many variables the frame holds.
LEMMA CountsType ==
  ASSUME TypeOK
  PROVE  /\ Params \in Nat /\ Locals \in Nat /\ VarCount = Params + Locals
         /\ fn.params \in Seq(Type) /\ local_data \in Seq(Type)
BY BodyType, LenProperties DEF TypeOK, Params, Locals, VarCount

\* Only i32 has a W register.
LEMMA OnlyI32 ==
  ASSUME NEW type \in Type, RegTypeOf(type) = "W" PROVE type = "i"
BY DEF RegTypeOf, Type

\* allocateVar without doubles: four bytes a variable.
LEMMA BytesOfI32 ==
  ASSUME NEW types \in Seq(Type), \A j \in 1 .. Len(types) : types[j] = "i",
         NEW k \in 1 .. Len(types) + 1
  PROVE  Bytes(types, k) = 4 * (Len(types) + 1 - k)
<1>1. Len(types) \in Nat BY LenProperties
<1>2. {j \in k .. Len(types) : types[j] = "d"} = {} BY <1>1
<1>3. Cardinality({j \in k .. Len(types) : types[j] = "d"}) = 0
  BY <1>2, FS_EmptySet
<1> QED BY <1>1, <1>3 DEF Bytes

\* The types of a function of i32 variables.
LEMMA TypesOfI32 ==
  ASSUME TypeOK, AllI32
  PROVE  /\ \A k \in 1 .. Params : fn.params[k] = "i"
         /\ \A k \in 1 .. Locals : local_data[k] = "i"
<1>1. ASSUME NEW k \in 1 .. Params PROVE fn.params[k] = "i"
  <2>1. k - 1 \in 0 .. VarCount - 1 /\ k - 1 < Len(fn.params) /\ k - 1 + 1 = k
    BY CountsType DEF Params
  <2>2. Var(k - 1).reg = RegTypeOf(fn.params[k]) BY <2>1 DEF Var
  <2>3. fn.params[k] \in Type BY CountsType, ElementOfSeq DEF Params
  <2> QED BY <2>1, <2>2, <2>3, OnlyI32 DEF AllI32
<1>2. ASSUME NEW k \in 1 .. Locals PROVE local_data[k] = "i"
  <2> DEFINE v == Params + k - 1
  <2>1. /\ v \in 0 .. VarCount - 1 /\ ~(v < Len(fn.params))
        /\ v - Len(fn.params) + 1 = k
    BY CountsType DEF Params
  <2>2. Var(v).reg = RegTypeOf(local_data[k]) BY <2>1 DEF Var
  <2>3. local_data[k] \in Type BY CountsType, ElementOfSeq DEF Locals
  <2> HIDE DEF v
  <2> QED BY <2>1, <2>2, <2>3, OnlyI32 DEF AllI32
<1> QED BY <1>1, <1>2

\* The offset of an i32 variable is Place.
LEMMA PlaceOfI32 ==
  ASSUME TypeOK, AllI32, NEW v \in 0 .. VarCount - 1
  PROVE  Var(v).offset = Place(v)
<1>1. CASE v < Params
  <2>1. v + 1 \in 1 .. Len(fn.params) + 1 BY <1>1, CountsType DEF Params
  <2>2. Bytes(fn.params, v + 1) = 4 * (Len(fn.params) + 1 - (v + 1))
    BY <2>1, CountsType, TypesOfI32, BytesOfI32 DEF Params
  <2>3. Var(v).offset = Bytes(fn.params, v + 1)
    BY <1>1 DEF Var, ParamOffset, Params
  <2>4. Len(fn.params) = Params BY DEF Params
  <2>5. Params + 1 - (v + 1) = Params - v BY CountsType
  <2> QED BY <1>1, <2>2, <2>3, <2>4, <2>5 DEF Place
<1>2. CASE ~(v < Params)
  <2> DEFINE k == v - Len(fn.params) + 1
  <2>1. k \in 1 .. Len(local_data) + 1
    <3>1. v - Params + 1 \in 1 .. Locals + 1 BY <1>2, CountsType
    <3> QED BY <3>1 DEF Params, Locals
  <2>2. Bytes(local_data, k) = 4 * (Locals + 1 - k)
    BY <2>1, CountsType, TypesOfI32, BytesOfI32 DEF Locals
  <2>3. Bytes(fn.params, 1) = 4 * Params
    <3>1. 1 \in 1 .. Len(fn.params) + 1 BY CountsType DEF Params
    <3>2. Bytes(fn.params, 1) = 4 * (Len(fn.params) + 1 - 1)
      BY <3>1, CountsType, TypesOfI32, BytesOfI32 DEF Params
    <3> QED BY <3>2, CountsType DEF Params
  <2>4. Var(v).offset = Bytes(fn.params, 1) + 8 + Bytes(local_data, k)
    BY <1>2 DEF Var, LocalOffset, LocalStackStart, Params
  <2>5. k = v - Params + 1 BY DEF Params
  <2> HIDE DEF k
  <2>6. Var(v).offset = 4 * Params + 8 + 4 * (Locals + 1 - k)
    BY <2>2, <2>3, <2>4
  <2>7. Params \in Nat /\ Locals \in Nat /\ v \in Int BY CountsType
  <2>8. Locals + 1 - k = Params + Locals - v BY <2>5, <2>7
  <2>9. Place(v) = 4 * Params + 8 + 4 * (Params + Locals - v)
    BY <1>2 DEF Place
  <2> QED BY <2>6, <2>8, <2>9
<1> QED BY <1>1, <1>2

\* A multiple of four is not rounded by the encoder.
LEMMA SlotOfI32 ==
  ASSUME TypeOK, AllI32, NEW v \in 0 .. VarCount - 1
  PROVE  /\ Place(v) \in Nat \ {0}
         /\ SlotBytes(v) = Place(v) .. Place(v) + 3
<1>1. \E m \in Nat \ {0} : Place(v) = 4 * m
  <2>1. CASE v < Params
    <3>1. Params - v \in Nat \ {0} /\ Place(v) = 4 * (Params - v)
      BY <2>1, CountsType DEF Place
    <3> QED BY <3>1
  <2>2. CASE ~(v < Params)
    <3> DEFINE m == Params + 2 + (Params + Locals - v)
    <3>1. /\ Params \in Nat /\ Locals \in Nat /\ v \in Nat
          /\ v < Params + Locals
      BY CountsType
    <3>2. m \in Nat \ {0} BY <3>1
    <3>3. Place(v) = 4 * Params + 8 + 4 * (Params + Locals - v)
      BY <2>2 DEF Place
    <3>4. 4 * Params + 8 + 4 * (Params + Locals - v) = 4 * m BY <3>1
    <3> HIDE DEF m
    <3> QED BY <3>2, <3>3, <3>4
  <2> QED BY <2>1, <2>2
<1>2. 4 * (Place(v) \div 4) = Place(v) BY <1>1
<1>3. Var(v).reg = "W" /\ Var(v).offset = Place(v) BY PlaceOfI32 DEF AllI32
<1>4. Place(v) \in Nat \ {0} BY <1>1
<1>5. Place(v) + 4 - 1 = Place(v) + 3 BY <1>4
<1>6. SlotBytes(v) = Place(v) .. Place(v) + 4 - 1
  BY <1>2, <1>3 DEF SlotBytes, AccessSize
<1> QED BY <1>4, <1>5, <1>6

\* Two variables lie at least four bytes apart.
LEMMA PlacesApart ==
  ASSUME TypeOK, NEW v \in 0 .. VarCount - 1, NEW w \in 0 .. VarCount - 1, v < w
  PROVE  Place(w) + 4 <= Place(v) \/ Place(v) + 4 <= Place(w)
<1>1. /\ Params \in Nat /\ Locals \in Nat /\ v \in Nat /\ w \in Nat
      /\ w < Params + Locals
  BY CountsType
<1>2. CASE w < Params BY <1>1, <1>2 DEF Place
<1>3. CASE v < Params /\ ~(w < Params) BY <1>1, <1>3 DEF Place
<1>4. CASE ~(v < Params) BY <1>1, <1>4 DEF Place
<1> QED BY <1>2, <1>3, <1>4

\* The places of i32 variables are apart.
LEMMA FrameOfI32 ==
  ASSUME TypeOK PROVE I32SlotsDisjoint
<1> SUFFICES ASSUME AllI32
             PROVE  /\ Disjoint(0 .. VarCount - 1)
                    /\ \A v \in 0 .. VarCount - 1 : \A b \in SlotBytes(v) : b > 0
  BY DEF I32SlotsDisjoint, AllI32
<1>1. ASSUME NEW v \in 0 .. VarCount - 1, NEW w \in 0 .. VarCount - 1, v # w
      PROVE  SlotBytes(v) \cap SlotBytes(w) = {}
  <2>1. v < w \/ w < v BY <1>1, CountsType
  <2>2. Place(w) + 4 <= Place(v) \/ Place(v) + 4 <= Place(w)
    BY <2>1, PlacesApart
  <2> QED BY <2>2, SlotOfI32
<1>2. ASSUME NEW v \in 0 .. VarCount - 1, NEW b \in SlotBytes(v) PROVE b > 0
  BY SlotOfI32
<1> QED BY <1>1, <1>2 DEF Disjoint

\* Stack.hpp, Initialize.hpp and WasmFunction.hpp (allocateVar): the
\* variables of a function of i32 variables never overlap and never lie
\* below sp, for every number of parameters and of locals, those that earlier
\* calls left in local_data included.
THEOREM I32FrameCorrect == Spec => []I32SlotsDisjoint
<1>1. TypeOK => I32SlotsDisjoint BY FrameOfI32
<1> QED BY <1>1, TypeCorrect, PTL
=============================================================================
