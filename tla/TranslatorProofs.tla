-------------------------- MODULE TranslatorProofs --------------------------
(***************************************************************************)
(* Proofs about the translator, for every function, every width of a       *)
(* register and any number of calls: it keeps its types; and its branches  *)
(* and labels: the code, fake_insert_map and label_map stay in step.       *)
(***************************************************************************)
EXTENDS WasmFunction, SequenceTheorems, FiniteSetTheorems, TLAPS

(***************************************************************************)
(* Every encoder yields an encoded instruction.                            *)
(***************************************************************************)
LEMMA BasesType ==
  /\ HalfBase \in Nat \ {0}
  /\ WordBase \in Nat \ {0}
  /\ XWordBase \in Nat \ {0}
<1>1. HalfBase \in Nat \ {0} BY HalfBaseAssumption
<1>2. WordBase \in Nat \ {0} BY <1>1 DEF WordBase
<1>3. XWordBase \in Nat \ {0} BY <1>2 DEF XWordBase
<1> QED BY <1>1, <1>2, <1>3

\* An instruction of typed fields.
LEMMA InsType ==
  ASSUME NEW op \in Operation, NEW regType, NEW d \in Nat, NEW n \in Nat,
         NEW m \in Nat, NEW imm \in Int,
         NEW c \in Condition \cup EncodingMode \cup {"none"}
  PROVE  Ins(op, regType, d, n, m, imm, c) \in Encoded
BY DEF Ins, Width, Encoded

\* Instructions whose last field is "none".
LEMMA PlainInsType ==
  ASSUME NEW op \in Operation, NEW regType, NEW d \in Nat, NEW n \in Nat,
         NEW m \in Nat, NEW imm \in Int
  PROVE  Ins(op, regType, d, n, m, imm, "none") \in Encoded
BY InsType

\* A placeholder and its fields.
LEMMA FakeType ==
  ASSUME NEW label \in Label, NEW br \in Br
  PROVE  /\ Fake(label, br) \in Placeholder
         /\ Fake(label, br).op = "fake"
         /\ Fake(label, br).label = label
         /\ Fake(label, br).c = br
BY DEF Placeholder, Fake

\* A half is an integer.
LEMMA HalfOfType ==
  ASSUME NEW value \in Int, NEW k \in 0 .. 3
  PROVE  HalfOf(value, k) \in Int
<1>1. WordBase * HalfBase \in Nat \ {0} BY BasesType
<1>2. /\ value \div HalfBase \in Int /\ value \div WordBase \in Int
      /\ value \div (WordBase * HalfBase) \in Int
  BY <1>1, BasesType
<1> QED BY <1>1, <1>2, BasesType DEF HalfOf

\* The encoders of Mov.hpp.
LEMMA MovEncoderType ==
  /\ \A rd, rm \in Nat : EncodeMovRegister(rd, rm) \in Encoded
  /\ \A rd \in Nat : \A imm \in Int : \A w :
       EncodeMovz(rd, imm, w) \in Encoded
  /\ \A rd, half \in Nat : \A imm \in Int : \A w :
       EncodeMovk(rd, imm, w, half) \in Encoded
  /\ EncodeNop \in Encoded
  /\ EncodeReturn \in Encoded
<1>1. {"nop", "ret", "mov", "movz", "movk"} \subseteq Operation BY DEF Operation
<1>2. \A rd, rm \in Nat : EncodeMovRegister(rd, rm) \in Encoded
  BY <1>1, PlainInsType DEF EncodeMovRegister, SP
<1>3. \A rd \in Nat : \A imm \in Int : \A w : EncodeMovz(rd, imm, w) \in Encoded
  BY <1>1, PlainInsType DEF EncodeMovz
<1>4. \A rd, half \in Nat : \A imm \in Int : \A w :
        EncodeMovk(rd, imm, w, half) \in Encoded
  BY <1>1, PlainInsType DEF EncodeMovk
<1>5. EncodeNop \in Encoded BY <1>1, PlainInsType DEF EncodeNop
<1>6. EncodeReturn \in Encoded BY <1>1, PlainInsType DEF EncodeReturn
<1> QED BY <1>2, <1>3, <1>4, <1>5, <1>6

\* The encoders of Arithmetic.hpp and Compare.hpp.
LEMMA ArithEncoderType ==
  /\ \A op \in Operation : \A w : \A rd, rn, rm \in Nat :
       /\ EncodeAddSubShift(op, w, rd, rn, rm) \in Encoded
       /\ EncodeDiv(op, w, rd, rn, rm) \in Encoded
  /\ \A w : \A rd, rn, rm \in Nat : EncodeMul(w, rd, rn, rm) \in Encoded
  /\ \A op \in Operation : \A rd, rn \in Nat : \A imm \in Int :
       EncodeAddSubImm(op, rd, rn, imm) \in Encoded
  /\ \A rd, rn \in Nat : EncodeMovSP(rd, rn) \in Encoded
  /\ \A w : \A rn, rm \in Nat : EncodeCompareShift(w, rn, rm) \in Encoded
  /\ \A w : \A rn \in Nat : \A imm \in Int : EncodeCompareImm(w, rn, imm) \in Encoded
  /\ \A rd, rn, rm \in Nat : \A cond \in Condition :
       EncodeCSEL(rd, rn, rm, cond) \in Encoded
<1>1. {"mul", "add", "cmpr", "cmpi", "csel"} \subseteq Operation BY DEF Operation
<1>2. \A op \in Operation : \A w : \A rd, rn, rm \in Nat :
        /\ EncodeAddSubShift(op, w, rd, rn, rm) \in Encoded
        /\ EncodeDiv(op, w, rd, rn, rm) \in Encoded
  BY PlainInsType DEF EncodeAddSubShift, EncodeDiv
<1>3. \A w : \A rd, rn, rm \in Nat : EncodeMul(w, rd, rn, rm) \in Encoded
  BY <1>1, PlainInsType DEF EncodeMul
<1>4. \A op \in Operation : \A rd, rn \in Nat : \A imm \in Int :
        EncodeAddSubImm(op, rd, rn, imm) \in Encoded
  BY PlainInsType DEF EncodeAddSubImm
<1>5. \A rd, rn \in Nat : EncodeMovSP(rd, rn) \in Encoded
  BY <1>1, <1>4 DEF EncodeMovSP
<1>6. \A w : \A rn, rm \in Nat : EncodeCompareShift(w, rn, rm) \in Encoded
  BY <1>1, PlainInsType DEF EncodeCompareShift, SP
<1>7. \A w : \A rn \in Nat : \A imm \in Int : EncodeCompareImm(w, rn, imm) \in Encoded
  BY <1>1, PlainInsType DEF EncodeCompareImm, SP
<1>8. \A rd, rn, rm \in Nat : \A cond \in Condition :
        EncodeCSEL(rd, rn, rm, cond) \in Encoded
  <2> SUFFICES ASSUME NEW rd \in Nat, NEW rn \in Nat, NEW rm \in Nat,
                      NEW cond \in Condition
               PROVE  Ins("csel", "X", rd, rn, rm, 0, cond) \in Encoded
    BY DEF EncodeCSEL
  <2> QED BY <1>1, InsType
<1> QED BY <1>2, <1>3, <1>4, <1>5, <1>6, <1>7, <1>8

\* The encoders of LoadStore.hpp.
LEMMA MemoryEncoderType ==
  /\ \A w : \A ldst \in {"ldr", "str"} : \A rt, rn \in Nat : \A imm \in Int :
       EncodeLoadStoreImm(w, ldst, rt, rn, imm) \in Encoded
  /\ \A w, ldst : \A rt, rn, rm \in Nat :
       EncodeLoadStoreReg(w, ldst, rt, rn, rm) \in Encoded
  /\ \A ldst : \A rt, rt2, rn \in Nat : \A imm \in Int :
       \A mode \in EncodingMode : EncodeLdpStp(ldst, rt, rt2, rn, imm, mode) \in Encoded
<1>1. {"ldr", "str", "ldrr", "strr", "ldp", "stp"} \subseteq Operation
  BY DEF Operation
<1>2. \A w : \A imm \in Int : (Int16(imm) \div AccessSize(w)) % 65536 \in Int
  BY DEF Int16, AccessSize
<1>3. \A w : \A ldst \in {"ldr", "str"} : \A rt, rn \in Nat : \A imm \in Int :
        EncodeLoadStoreImm(w, ldst, rt, rn, imm) \in Encoded
  BY <1>1, <1>2, PlainInsType DEF EncodeLoadStoreImm
<1>4. \A w, ldst : \A rt, rn, rm \in Nat :
        EncodeLoadStoreReg(w, ldst, rt, rn, rm) \in Encoded
  BY <1>1, PlainInsType DEF EncodeLoadStoreReg
<1>5. \A ldst : \A rt, rt2, rn \in Nat : \A imm \in Int :
        \A mode \in EncodingMode : EncodeLdpStp(ldst, rt, rt2, rn, imm, mode) \in Encoded
  BY <1>1, InsType DEF EncodeLdpStp
<1> QED BY <1>3, <1>4, <1>5

\* The encoders of Branch.hpp.
LEMMA BranchEncoderType ==
  /\ \A op \in {"b", "bl"} : \A offset \in Int : EncodeBranch(op, offset) \in Encoded
  /\ \A offset \in Int : \A cond \in Condition :
       EncodeBranchCondition(offset, cond) \in Encoded
  /\ \A rn \in Nat : EncodeBranchRegister(rn) \in Encoded
  /\ \A br \in Br : \A offset \in Int : BranchTo(br, offset) \in Encoded
<1>1. {"b", "bl", "bcond", "br"} \subseteq Operation BY DEF Operation
<1>2. \A op \in {"b", "bl"} : \A offset \in Int : EncodeBranch(op, offset) \in Encoded
  BY <1>1, PlainInsType DEF EncodeBranch
<1>3. \A offset \in Int : \A cond \in Condition :
        EncodeBranchCondition(offset, cond) \in Encoded
  BY <1>1, InsType DEF EncodeBranchCondition
<1>4. \A rn \in Nat : EncodeBranchRegister(rn) \in Encoded
  BY <1>1, PlainInsType DEF EncodeBranchRegister
<1>5. \A br \in Br : \A offset \in Int : BranchTo(br, offset) \in Encoded
  BY <1>2, <1>3 DEF BranchTo, Br, Condition
<1> QED BY <1>2, <1>3, <1>4, <1>5

(***************************************************************************)
(* Every fragment the emitters append is a sequence of instructions; most  *)
(* hold no placeholder.                                                    *)
(***************************************************************************)
LEMMA FunctionIsSeq ==
  ASSUME NEW S, NEW n \in Nat, NEW f, f \in [1 .. n -> S]
  PROVE  f \in Seq(S) /\ Len(f) = n
BY SeqDef

\* The operand stack is reached by plain instructions.
LEMMA PushPopType ==
  ASSUME NEW w, NEW reg \in Nat
  PROVE  /\ Push(w, reg) \in Seq(Encoded)
         /\ Pop(w, reg) \in Seq(Encoded) /\ Len(Pop(w, reg)) = 2
         /\ PopTee(w, reg) \in Seq(Encoded)
<1>1. \A op \in {"add", "sub"} :
        EncodeAddSubImm(op, REG_POINTER_WASM_STACK, REG_POINTER_WASM_STACK, 8) \in Encoded
  BY ArithEncoderType DEF REG_POINTER_WASM_STACK, Operation
<1>2. \A ldst : EncodeLoadStoreReg(w, ldst, reg, REG_WASM_STACK,
                                   REG_POINTER_WASM_STACK) \in Encoded
  BY MemoryEncoderType DEF REG_WASM_STACK, REG_POINTER_WASM_STACK
<1>3. Push(w, reg) \in Seq(Encoded) BY <1>1, <1>2 DEF Push
<1>4. Pop(w, reg) \in Seq(Encoded) /\ Len(Pop(w, reg)) = 2
  BY <1>1, <1>2 DEF Pop
<1>5. PopTee(w, reg) \in Seq(Encoded)
  BY <1>1, <1>4, ConcatProperties DEF PopTee
<1> QED BY <1>3, <1>4, <1>5

\* A constant takes two or four instructions.
LEMMA MovIntType ==
  ASSUME NEW w, NEW rd \in Nat, NEW value \in Int
  PROVE  /\ MovInt(w, rd, value) \in Seq(Encoded)
         /\ Len(MovInt(w, rd, value)) \in {2, 4}
<1>1. \A k \in 0 .. 3 : HalfOf(value, k) \in Int BY HalfOfType
<1>2. \A u : EncodeMovz(rd, HalfOf(value, 0), u) \in Encoded
  BY <1>1, MovEncoderType
<1>3. \A u : \A k \in 1 .. 3 : EncodeMovk(rd, HalfOf(value, k), u, k) \in Encoded
  BY <1>1, MovEncoderType
<1>4. WrapperEncodeMovInt32(rd, value) \in Seq(Encoded)
  BY <1>2, <1>3 DEF WrapperEncodeMovInt32
<1>5. WrapperEncodeMovInt64(rd, value) \in Seq(Encoded)
  BY <1>2, <1>3 DEF WrapperEncodeMovInt64
<1>6. Len(WrapperEncodeMovInt32(rd, value)) = 2
  BY DEF WrapperEncodeMovInt32
<1>7. Len(WrapperEncodeMovInt64(rd, value)) = 4
  BY DEF WrapperEncodeMovInt64
<1> QED BY <1>4, <1>5, <1>6, <1>7 DEF MovInt

\* The emitters whose code has no branch.
LEMMA EmittersType ==
  /\ \A w : \A offset \in Int : EmitGet([reg |-> w, offset |-> offset]) \in Seq(Encoded)
  /\ \A w : \A offset \in Int :
       /\ EmitSet([reg |-> w, offset |-> offset]) \in Seq(Encoded)
       /\ EmitTee([reg |-> w, offset |-> offset]) \in Seq(Encoded)
  /\ \A w : \A value \in Int : EmitConst(w, value) \in Seq(Encoded)
  /\ \A w : PopOperands(w) \in Seq(Encoded)
  /\ \A w : \A cond \in Condition : EmitCompareOp(w, cond) \in Seq(Encoded)
  /\ \A w : \A op \in {"+", "-", "*"} : EmitArithOp(w, op) \in Seq(Encoded)
<1>1. ASSUME NEW w, NEW offset \in Int
      PROVE EmitGet([reg |-> w, offset |-> offset]) \in Seq(Encoded)
  <2>1. EncodeLoadStoreImm(w, "ldr", 11, SP, offset) \in Encoded
    BY MemoryEncoderType DEF SP
  <2>2. Push(w, 11) \in Seq(Encoded) BY PushPopType
  <2> QED BY <2>1, <2>2, ConcatProperties DEF EmitGet
<1>2. ASSUME NEW w, NEW offset \in Int
      PROVE  /\ EmitSet([reg |-> w, offset |-> offset]) \in Seq(Encoded)
             /\ EmitTee([reg |-> w, offset |-> offset]) \in Seq(Encoded)
  <2>1. << EncodeLoadStoreImm(w, "str", 11, SP, offset) >> \in Seq(Encoded)
    BY MemoryEncoderType DEF SP
  <2>2. Pop(w, 11) \in Seq(Encoded) /\ PopTee(w, 11) \in Seq(Encoded)
    BY PushPopType
  <2> QED BY <2>1, <2>2, ConcatProperties DEF EmitSet, EmitTee
<1>3. ASSUME NEW w, NEW value \in Int PROVE EmitConst(w, value) \in Seq(Encoded)
  BY MovIntType, PushPopType, ConcatProperties DEF EmitConst
<1>4. ASSUME NEW w PROVE PopOperands(w) \in Seq(Encoded)
  BY PushPopType, ConcatProperties DEF PopOperands
<1>5. ASSUME NEW w, NEW cond \in Condition PROVE EmitCompareOp(w, cond) \in Seq(Encoded)
  <2>1. << EncodeMovz(3, 1, "X"), EncodeMovz(4, 0, "X") >> \in Seq(Encoded)
    BY MovEncoderType
  <2>2. << EncodeCompareShift(w, 11, 12), EncodeCSEL(0, 3, 4, cond) >> \in Seq(Encoded)
    BY ArithEncoderType
  <2>3. /\ Pop(w, 12) \in Seq(Encoded) /\ Pop(w, 11) \in Seq(Encoded)
        /\ Push("X", 0) \in Seq(Encoded)
    BY PushPopType
  <2> QED BY <2>1, <2>2, <2>3, ConcatProperties DEF EmitCompareOp
<1>6. ASSUME NEW w, NEW op \in {"+", "-", "*"} PROVE EmitArithOp(w, op) \in Seq(Encoded)
  <2> DEFINE ins == CASE op = "+" -> EncodeAddSubShift("addr", w, 11, 12, 11)
                      [] op = "-" -> EncodeAddSubShift("subr", w, 11, 12, 11)
                      [] op = "*" -> EncodeMul(w, 11, 12, 11)
  <2>1. ins \in Encoded BY ArithEncoderType DEF Operation
  <2>2. EmitArithOp(w, op) = PopOperands(w) \o << ins >> \o Push(w, 11)
    BY DEF EmitArithOp
  <2> HIDE DEF ins
  <2>3. Push(w, 11) \in Seq(Encoded) /\ << ins >> \in Seq(Encoded)
    BY <2>1, PushPopType
  <2> QED BY <1>4, <2>2, <2>3, ConcatProperties
<1> QED BY <1>1, <1>2, <1>3, <1>4, <1>5, <1>6

(***************************************************************************)
(* Fragments with placeholders, and to which labels they branch.           *)
(***************************************************************************)
CodeTo(L) == Encoded \cup {p \in Placeholder : p.label \in L}

\* Code whose placeholders stand for a set of labels.
LEMMA CodeToType ==
  /\ \A L : CodeTo(L) \subseteq Instruction
  /\ \A L, M : L \subseteq M => CodeTo(L) \subseteq CodeTo(M)
  /\ \A L : Seq(Encoded) \subseteq Seq(CodeTo(L))
  /\ \A L : Seq(CodeTo(L)) \subseteq Seq(Instruction)
<1>1. \A L : CodeTo(L) \subseteq Instruction BY DEF CodeTo, Instruction
<1>2. \A L, M : L \subseteq M => CodeTo(L) \subseteq CodeTo(M) BY DEF CodeTo
<1>3. \A L : Encoded \subseteq CodeTo(L) BY DEF CodeTo
<1>4. \A L : Seq(Encoded) \subseteq Seq(CodeTo(L)) BY <1>3, SeqMonotonic
<1>5. \A L : Seq(CodeTo(L)) \subseteq Seq(Instruction) BY <1>1, SeqMonotonic
<1> QED BY <1>1, <1>2, <1>4, <1>5

\* A placeholder is code to its label.
LEMMA FakeInCode ==
  ASSUME NEW label \in Label, NEW br \in Br
  PROVE  \A L : label \in L => Fake(label, br) \in CodeTo(L)
BY FakeType DEF CodeTo

\* A name without number is a label.
LEMMA FixedType ==
  ASSUME NEW name \in LabelName
  PROVE  Fixed(name) \in Label
BY DEF Fixed, Label

RuntimeTargets == {Fixed("entry"), Fixed("longjmp"), Fixed("finalize")}
SetjmpTargets == {Fixed("setjmp"), Fixed("raiseException")}
DivTargets == {Fixed("preparelongjmp"), Fixed("normal_div")}

\* The bodies of setjmp and longjmp hold no placeholder.
LEMMA SetJmpType ==
  /\ GetSetJmpInstr \in Seq(Encoded)
  /\ GetLongJmpInstr \in Seq(Encoded)
<1> DEFINE pairs(ldst) ==
      [k \in 1..6 |-> EncodeLdpStp(ldst, SavedPairs[k], SavedPairs[k] + 1, 0,
                                   16 * (k - 1), "SignedOffset")]
<1>1. \A k \in 1..6 : SavedPairs[k] \in Nat /\ SavedPairs[k] + 1 \in Nat
  BY DEF SavedPairs
<1>2. "SignedOffset" \in EncodingMode BY DEF EncodingMode
<1>3. \A ldst : \A k \in 1..6 :
        EncodeLdpStp(ldst, SavedPairs[k], SavedPairs[k] + 1, 0, 16 * (k - 1),
                     "SignedOffset") \in Encoded
  BY <1>1, <1>2, MemoryEncoderType
<1>4. \A ldst : pairs(ldst) \in Seq(Encoded)
  <2> TAKE ldst
  <2>1. pairs(ldst) \in [1..6 -> Encoded] BY <1>3
  <2> QED BY <2>1, FunctionIsSeq
<1>5. << EncodeMovSP(2, SP), EncodeLoadStoreImm("X", "str", 2, 0, 104),
         EncodeMovz(0, 0, "W"), EncodeReturn >> \in Seq(Encoded)
  BY ArithEncoderType, MemoryEncoderType, MovEncoderType DEF SP
<1>6. << EncodeLoadStoreImm("X", "ldr", 5, 0, 104), EncodeMovSP(SP, 5),
         EncodeCompareImm("X", 1, 0), EncodeMovz(0, 1, "X"),
         EncodeCSEL(0, 1, 0, "ne"), EncodeBranchRegister(30) >> \in Seq(Encoded)
  <2>1. "ne" \in Condition BY DEF Condition
  <2> QED BY <2>1, ArithEncoderType, MemoryEncoderType, MovEncoderType,
             BranchEncoderType DEF SP
<1>7. GetSetJmpInstr \in Seq(Encoded)
  BY <1>4, <1>5, ConcatProperties DEF GetSetJmpInstr
<1>8. GetLongJmpInstr \in Seq(Encoded)
  BY <1>4, <1>6, ConcatProperties DEF GetLongJmpInstr
<1> QED BY <1>7, <1>8

\* The runtime branches to RuntimeTargets only.
LEMMA RuntimeType == Runtime \in Seq(CodeTo(RuntimeTargets))
<1> DEFINE C == CodeTo(RuntimeTargets)
<1>1. {Fixed("entry"), Fixed("longjmp"), Fixed("finalize")} \subseteq Label
  BY FixedType DEF LabelName
<1>2. /\ Fake(Fixed("entry"), "b") \in C
      /\ Fake(Fixed("longjmp"), "b") \in C
      /\ Fake(Fixed("finalize"), "b") \in C
  BY <1>1, FakeInCode DEF RuntimeTargets, Br
<1>3. /\ EncodeMovRegister(14, 30) \in C /\ EncodeMovSP(15, SP) \in C
      /\ EncodeMovRegister(0, REG_BUFFER) \in C
      /\ EncodeMovRegister(30, 14) \in C /\ EncodeMovSP(SP, 15) \in C
      /\ EncodeMovz(11, 1, "X") \in C
      /\ EncodeLoadStoreImm("X", "str", 11, REG_BUFFER, 0) \in C
  BY MovEncoderType, ArithEncoderType, MemoryEncoderType
  DEF CodeTo, SP, REG_BUFFER
<1> HIDE DEF C
<1>4. /\ BranchToEntry \in Seq(C) /\ PrepareLongJmp \in Seq(C)
      /\ RaiseException \in Seq(C)
  BY <1>2, <1>3 DEF BranchToEntry, PrepareLongJmp, RaiseException
<1>5. GetSetJmpInstr \in Seq(C) /\ GetLongJmpInstr \in Seq(C)
  BY SetJmpType, CodeToType DEF C
<1>6. BranchToEntry \o GetSetJmpInstr \in Seq(C) BY <1>4, <1>5, ConcatProperties
<1>7. BranchToEntry \o GetSetJmpInstr \o PrepareLongJmp \in Seq(C)
  BY <1>4, <1>6, ConcatProperties
<1>8. BranchToEntry \o GetSetJmpInstr \o PrepareLongJmp \o GetLongJmpInstr \in Seq(C)
  BY <1>5, <1>7, ConcatProperties
<1>9. Runtime \in Seq(C) BY <1>4, <1>8, ConcatProperties DEF Runtime
<1> QED BY <1>9 DEF C

\* The wrapper of setjmp branches to SetjmpTargets only.
LEMMA WrapperSetjmpType == WrapperSetjmp \in Seq(CodeTo(SetjmpTargets))
<1> DEFINE C == CodeTo(SetjmpTargets)
<1>1. {Fixed("setjmp"), Fixed("raiseException")} \subseteq Label
  BY FixedType DEF LabelName
<1>2. Fake(Fixed("setjmp"), "bl") \in C /\ Fake(Fixed("raiseException"), "bne") \in C
  BY <1>1, FakeInCode DEF SetjmpTargets, Br
<1>3. /\ EncodeLdpStp("str", 29, 30, SP, -32, "PreIndex") \in C
      /\ EncodeLdpStp("ldr", 29, 30, SP, 32, "PostIndex") \in C
      /\ EncodeMovRegister(0, REG_BUFFER) \in C
      /\ EncodeCompareImm("X", 0, 0) \in C
  BY MovEncoderType, ArithEncoderType, MemoryEncoderType
  DEF CodeTo, SP, REG_BUFFER, EncodingMode
<1> HIDE DEF C
<1>4. WrapperSetjmp \in Seq(C) BY <1>2, <1>3 DEF WrapperSetjmp
<1> QED BY <1>4 DEF C

\* A division branches to DivTargets only, and the check precedes the division.
LEMMA DivType ==
  ASSUME NEW w, NEW op \in {"sdiv", "udiv"}
  PROVE  /\ DivChecks(w) \in Seq(CodeTo(DivTargets))
         /\ EmitDivOp(w, op) \in Seq(CodeTo(DivTargets))
         /\ Len(EmitDivOp(w, op)) > Len(DivChecks(w))
<1> DEFINE C == CodeTo(DivTargets)
<1>1. DivTargets \subseteq Label BY FixedType DEF LabelName, DivTargets
<1>2. /\ Fake(Fixed("preparelongjmp"), "beq") \in C
      /\ Fake(Fixed("preparelongjmp"), "b") \in C
      /\ Fake(Fixed("normal_div"), "bne") \in C
  BY <1>1, FakeInCode DEF DivTargets, Br
<1>3. /\ EncodeCompareImm(w, 11, 0) \in C /\ EncodeCompareShift(w, 11, 5) \in C
      /\ EncodeCompareShift(w, 12, 5) \in C /\ EncodeDiv(op, w, 11, 12, 11) \in C
  BY ArithEncoderType DEF CodeTo, Operation
<1>4. MinInt(w) \in Int BY BasesType DEF MinInt
<1>5. /\ MovInt(w, 5, -1) \in Seq(C) /\ MovInt(w, 5, MinInt(w)) \in Seq(C)
      /\ PopOperands(w) \in Seq(C) /\ Push(w, 11) \in Seq(C)
  BY <1>4, MovIntType, EmittersType, PushPopType, CodeToType
<1> HIDE DEF C
<1>6. /\ << EncodeCompareImm(w, 11, 0), Fake(Fixed("preparelongjmp"), "beq") >> \in Seq(C)
      /\ << EncodeCompareShift(w, 11, 5), Fake(Fixed("normal_div"), "bne") >> \in Seq(C)
      /\ << EncodeCompareShift(w, 12, 5), Fake(Fixed("normal_div"), "bne"),
            Fake(Fixed("preparelongjmp"), "b") >> \in Seq(C)
      /\ << EncodeDiv(op, w, 11, 12, 11) >> \in Seq(C)
  BY <1>2, <1>3
<1>7. DivChecks(w) \in Seq(C) BY <1>5, <1>6, ConcatProperties DEF DivChecks
<1>8. /\ EmitDivOp(w, op) \in Seq(C)
      /\ Len(EmitDivOp(w, op)) = Len(DivChecks(w)) + 1 + Len(Push(w, 11))
  BY <1>5, <1>6, <1>7, ConcatProperties DEF EmitDivOp
<1> QED BY <1>5, <1>7, <1>8, LenProperties DEF C

\* The test of an if branches to its label only.
LEMMA IfTestType ==
  ASSUME NEW label \in Label
  PROVE  IfTest(label) \in Seq(CodeTo({label}))
<1> DEFINE C == CodeTo({label})
<1>1. Fake(label, "beq") \in C BY FakeInCode DEF Br
<1>2. EncodeCompareImm("W", 11, 0) \in C BY ArithEncoderType DEF CodeTo
<1>3. PopTee("W", 11) \in Seq(C) BY PushPopType, CodeToType
<1> HIDE DEF C
<1>4. IfTest(label) \in Seq(C) BY <1>1, <1>2, <1>3, ConcatProperties DEF IfTest
<1> QED BY <1>4 DEF C

\* The fragments around a call have no branch.
LEMMA SmallFragmentsType ==
  /\ BackupRegisters \in Seq(Encoded)
  /\ StoreReturnCode0 \in Seq(Encoded)
<1>1. BackupRegisters \in Seq(Encoded)
  BY MovEncoderType
  DEF BackupRegisters, REG_BUFFER, REG_WASM_STACK, REG_POINTER_WASM_STACK
<1>2. StoreReturnCode0 \in Seq(Encoded)
  BY MovEncoderType, MemoryEncoderType DEF StoreReturnCode0, REG_BUFFER
<1> QED BY <1>1, <1>2

(***************************************************************************)
(* The frame.                                                              *)
(***************************************************************************)
LEMMA BytesType ==
  ASSUME NEW types \in Seq(Type), NEW k \in Int
  PROVE  k <= Len(types) + 1 => Bytes(types, k) \in Nat
<1> DEFINE doubles == {j \in k .. Len(types) : types[j] = "d"}
<1>1. Len(types) \in Nat BY LenProperties
<1>2. IsFiniteSet(k .. Len(types)) BY <1>1, FS_Interval
<1>3. IsFiniteSet(doubles) BY <1>2, FS_Subset
<1>4. Cardinality(doubles) \in Nat BY <1>3, FS_CardinalityType
<1>5. Bytes(types, k) = 4 * (Len(types) + 1 - k) + 4 * Cardinality(doubles)
  BY DEF Bytes
<1> HIDE DEF doubles
<1> QED BY <1>1, <1>4, <1>5

\* A function object as the parser leaves it.
LEMMA BodyType ==
  ASSUME NEW f \in Bodies
  PROVE  /\ f.code_vec \in Seq(Byte) /\ f.local_var_declare_count \in Nat
         /\ f.params \in Seq(Type) /\ f.results \in Seq(Type)
         /\ \A a \in f.inputs : Len(a) = Len(f.params) /\ a \in Seq(Nat)
BY BodiesAssumption

\* Every offset in the frame is a natural number.
LEMMA FrameType ==
  ASSUME fn \in Bodies, local_data \in Seq(Type)
  PROVE  /\ LocalStackStart \in Nat /\ LocalStackEnd \in Nat /\ StackSize \in Nat
         /\ \A k \in 1 .. Len(fn.params) : ParamOffset(k) \in Nat
         /\ \A k \in 1 .. Len(local_data) : LocalOffset(k) \in Nat
<1>1. fn.params \in Seq(Type) BY BodyType
<1>2. Len(fn.params) \in Nat /\ Len(local_data) \in Nat BY <1>1, LenProperties
<1>3. LocalStackStart \in Nat BY <1>1, <1>2, BytesType DEF LocalStackStart
<1>4. LocalStackEnd \in Nat BY <1>2, <1>3, BytesType DEF LocalStackEnd
<1>5. StackSize \in Nat BY <1>4 DEF StackSize
<1>6. \A k \in 1 .. Len(fn.params) : ParamOffset(k) \in Nat
  BY <1>1, <1>2, BytesType DEF ParamOffset
<1>7. \A k \in 1 .. Len(local_data) : LocalOffset(k) \in Nat
  BY <1>2, <1>3, BytesType DEF LocalOffset
<1> QED BY <1>3, <1>4, <1>5, <1>6, <1>7

\* The prologue has no branch.
LEMMA PrologueType ==
  ASSUME fn \in Bodies, local_data \in Seq(Type)
  PROVE  PrepareSp \o InitParam \o InitLocal \in Seq(Encoded)
<1>1. Len(fn.params) \in Nat /\ Len(local_data) \in Nat
  BY BodyType, LenProperties
<1>2. PrepareSp \in Seq(Encoded)
  BY FrameType, ArithEncoderType DEF PrepareSp, SP, Operation
<1>3. InitParam \in Seq(Encoded)
  <2>1. \A k \in 1 .. Len(fn.params) : \A w :
          EncodeLoadStoreImm(w, "str", k - 1, SP, ParamOffset(k)) \in Encoded
    BY <1>1, FrameType, MemoryEncoderType DEF SP
  <2>2. InitParam \in [1 .. Len(fn.params) -> Encoded]
    BY <2>1 DEF InitParam
  <2> QED BY <1>1, <2>2, FunctionIsSeq
<1>4. InitLocal \in Seq(Encoded)
  <2>1. InitLocal \in [1 .. Len(local_data) -> Encoded]
    BY <1>1, FrameType, MemoryEncoderType DEF InitLocal, SP
  <2> QED BY <1>1, <2>1, FunctionIsSeq
<1> QED BY <1>2, <1>3, <1>4, ConcatProperties

\* The exit has no branch.
LEMMA RestoreSpType ==
  ASSUME fn \in Bodies, local_data \in Seq(Type)
  PROVE  RestoreSp \in Seq(Encoded)
<1>1. Len(fn.results) \in Nat BY BodyType, LenProperties
<1> DEFINE n == 2 * Len(fn.results)
           r(k) == (k + 1) \div 2
           ins(k) == Pop(RegTypeOf(fn.results[r(k)]), r(k) - 1)[IF k % 2 = 1 THEN 1 ELSE 2]
           pops == [k \in 1 .. n |-> ins(k)]
<1>2. ASSUME NEW k \in 1 .. n PROVE ins(k) \in Encoded
  <2>1. r(k) - 1 \in Nat BY <1>1
  <2>2. /\ Pop(RegTypeOf(fn.results[r(k)]), r(k) - 1) \in Seq(Encoded)
        /\ Len(Pop(RegTypeOf(fn.results[r(k)]), r(k) - 1)) = 2
    BY <2>1, PushPopType
  <2> HIDE DEF r
  <2> QED BY <2>2, ElementOfSeq
<1>3. pops \in Seq(Encoded)
  <2>1. n \in Nat BY <1>1
  <2>2. pops \in [1 .. n -> Encoded] BY <1>2
  <2> QED BY <2>1, <2>2, FunctionIsSeq
<1>4. << EncodeAddSubImm("add", SP, SP, StackSize) >> \in Seq(Encoded)
  BY FrameType, ArithEncoderType DEF SP, Operation
<1>5. RestoreSp = pops \o << EncodeAddSubImm("add", SP, SP, StackSize) >>
  BY DEF RestoreSp
<1> QED BY <1>3, <1>4, <1>5, ConcatProperties

\* A variable has a register class and a place.
LEMMA VarType ==
  ASSUME fn \in Bodies, local_data \in Seq(Type), NEW v \in 0 .. VarCount - 1
  PROVE  \E w : \E offset \in Nat : Var(v) = [reg |-> w, offset |-> offset]
<1>1. Len(fn.params) \in Nat /\ Len(local_data) \in Nat
  BY BodyType, LenProperties
<1>2. CASE v < Len(fn.params)
  <2>1. ParamOffset(v + 1) \in Nat BY <1>1, <1>2, FrameType
  <2>2. Var(v) = [reg |-> RegTypeOf(fn.params[v + 1]), offset |-> ParamOffset(v + 1)]
    BY <1>2 DEF Var
  <2> QED BY <2>1, <2>2
<1>3. CASE ~(v < Len(fn.params))
  <2> DEFINE k == v - Len(fn.params) + 1
  <2>1. k \in 1 .. Len(local_data) BY <1>1, <1>3 DEF VarCount
  <2>2. LocalOffset(k) \in Nat BY <2>1, FrameType
  <2>3. Var(v) = [reg |-> RegTypeOf(local_data[k]), offset |-> LocalOffset(k)]
    BY <1>3 DEF Var
  <2> QED BY <2>2, <2>3
<1> QED BY <1>2, <1>3

(***************************************************************************)
(* What a fragment adds to fake_insert_map.                                *)
(***************************************************************************)
LEMMA FakesType ==
  ASSUME NEW L, L \subseteq Label, NEW s \in Seq(CodeTo(L)), NEW at \in Nat
  PROVE  /\ Fakes(s, at) \subseteq Entry
         /\ \A f \in Fakes(s, at) :
              f.label \in L /\ f.at \in at .. at + Len(s) - 1
<1>1. Len(s) \in Nat BY LenProperties
<1>2. SUFFICES ASSUME NEW k \in 1 .. Len(s), s[k].op = "fake"
               PROVE  LET f == [label |-> s[k].label, at |-> at + k - 1, br |-> s[k].c]
                      IN /\ f \in Entry
                         /\ f.label \in L /\ f.at \in at .. at + Len(s) - 1
  BY DEF Fakes
<1>3. s[k] \in CodeTo(L) BY ElementOfSeq
<1>4. s[k] \notin Encoded BY <1>2 DEF Encoded, Operation
<1>5. s[k].c \in Br /\ s[k].label \in L BY <1>3, <1>4 DEF CodeTo, Placeholder
<1> QED BY <1>1, <1>5 DEF Entry

\* Plain instructions leave no entry in fake_insert_map.
LEMMA FakesOfEncoded ==
  ASSUME NEW s \in Seq(Encoded), NEW at
  PROVE  Fakes(s, at) = {}
<1>1. \A k \in 1 .. Len(s) : s[k] \in Encoded BY ElementOfSeq
<1>2. \A k \in 1 .. Len(s) : s[k].op # "fake" BY <1>1 DEF Encoded, Operation
<1> QED BY <1>2 DEF Fakes

\* The entries of two fragments, the second after the first.
LEMMA FakesConcat ==
  ASSUME NEW s \in Seq(Instruction), NEW t \in Seq(Instruction), NEW at \in Nat
  PROVE  Fakes(s \o t, at) = Fakes(s, at) \cup Fakes(t, at + Len(s))
<1>1. /\ Len(s) \in Nat /\ Len(t) \in Nat /\ Len(s \o t) = Len(s) + Len(t)
      /\ \A k \in 1 .. Len(s) + Len(t) :
           (s \o t)[k] = IF k <= Len(s) THEN s[k] ELSE t[k - Len(s)]
  BY ConcatProperties, LenProperties
<1>2. ASSUME NEW f \in Fakes(s, at) PROVE f \in Fakes(s \o t, at)
  <2>1. PICK k \in 1 .. Len(s) :
          s[k].op = "fake" /\ f = [label |-> s[k].label, at |-> at + k - 1, br |-> s[k].c]
    BY DEF Fakes
  <2>2. k \in 1 .. Len(s \o t) /\ (s \o t)[k] = s[k] BY <1>1
  <2> QED BY <2>1, <2>2 DEF Fakes
<1>3. ASSUME NEW f \in Fakes(t, at + Len(s)) PROVE f \in Fakes(s \o t, at)
  <2>1. PICK k \in 1 .. Len(t) :
          /\ t[k].op = "fake"
          /\ f = [label |-> t[k].label, at |-> at + Len(s) + k - 1, br |-> t[k].c]
    BY DEF Fakes
  <2>2. k + Len(s) \in 1 .. Len(s \o t) /\ (s \o t)[k + Len(s)] = t[k]
    BY <1>1
  <2>3. at + Len(s) + k - 1 = at + (k + Len(s)) - 1 BY <1>1
  <2> QED BY <2>1, <2>2, <2>3 DEF Fakes
<1>4. ASSUME NEW f \in Fakes(s \o t, at)
      PROVE  f \in Fakes(s, at) \cup Fakes(t, at + Len(s))
  <2> DEFINE u == s \o t
  <2>1. PICK k \in 1 .. Len(u) :
          u[k].op = "fake" /\ f = [label |-> u[k].label, at |-> at + k - 1, br |-> u[k].c]
    BY DEF Fakes
  <2>2. CASE k <= Len(s)
    <3>1. k \in 1 .. Len(s) /\ u[k] = s[k] BY <1>1, <2>2
    <3> HIDE DEF u
    <3> QED BY <2>1, <3>1 DEF Fakes
  <2>3. CASE k > Len(s)
    <3>1. k - Len(s) \in 1 .. Len(t) /\ u[k] = t[k - Len(s)] BY <1>1, <2>3
    <3>2. at + k - 1 = at + Len(s) + (k - Len(s)) - 1 BY <1>1
    <3> HIDE DEF u
    <3> QED BY <2>1, <3>1, <3>2 DEF Fakes
  <2> QED BY <1>1, <2>2, <2>3
<1> QED BY <1>2, <1>3, <1>4

(***************************************************************************)
(* Type correctness, action by action.                                     *)
(***************************************************************************)
LEMMA EmitType ==
  ASSUME TypeOK, NEW L, L \subseteq Label, NEW s \in Seq(CodeTo(L)), Emit(s)
  PROVE  /\ wasm_instructions' \in Seq(Instruction)
         /\ fake_insert_map' \subseteq Entry
<1>1. wasm_instructions \in Seq(Instruction) /\ fake_insert_map \subseteq Entry
  BY DEF TypeOK
<1>2. s \in Seq(Instruction) BY CodeToType
<1>3. wasm_instructions' \in Seq(Instruction)
  BY <1>1, <1>2, ConcatProperties DEF Emit
<1>4. Len(wasm_instructions) \in Nat BY <1>1, LenProperties
<1>5. Fakes(s, Len(wasm_instructions)) \subseteq Entry BY <1>4, FakesType
<1> QED BY <1>1, <1>3, <1>5 DEF Emit

\* Labels inserted are labels.
LEMMA InsertLabelsType ==
  ASSUME TypeOK, NEW new, DOMAIN new \subseteq Label,
         \A l \in DOMAIN new : new[l] \in Nat, InsertLabels(new)
  PROVE  /\ DOMAIN label_map' = DOMAIN label_map \cup DOMAIN new
         /\ DOMAIN label_map' \subseteq Label
         /\ label_map' \in [DOMAIN label_map' -> Nat]
BY DEF TypeOK, InsertLabels

\* One label inserted.
LEMMA InsertLabelType ==
  ASSUME TypeOK, NEW label \in Label, NEW location \in Nat,
         InsertLabel(label, location)
  PROVE  /\ DOMAIN label_map' = DOMAIN label_map \cup {label}
         /\ DOMAIN label_map' \subseteq Label
         /\ label_map' \in [DOMAIN label_map' -> Nat]
<1> DEFINE new == [l \in {label} |-> location]
<1>1. DOMAIN new = {label} /\ \A l \in DOMAIN new : new[l] \in Nat OBVIOUS
<1>2. InsertLabels(new) BY DEF InsertLabel
<1> HIDE DEF new
<1> QED BY <1>1, <1>2, InsertLabelsType

\* A step that throws or is undefined.
LEMMA StopType ==
  ASSUME TypeOK, phase # "idle", NEW how \in {"aborted", "undefined"}, Stop(how)
  PROVE  TypeOK'
BY DEF TypeOK, Stop, fixed, Phase

\* A step that appends plain instructions.
LEMMA EmittedType ==
  ASSUME TypeOK, phase = "jiting", NEW s \in Seq(Encoded), NEW size \in Nat,
         Emitted(s, size)
  PROVE  TypeOK'
<1>1. s \in Seq(CodeTo({})) BY CodeToType
<1>2. Emit(s) BY DEF Emitted
<1>3. wasm_instructions' \in Seq(Instruction) /\ fake_insert_map' \subseteq Entry
  BY <1>1, <1>2, EmitType
<1>4. i' \in Nat BY DEF Emitted, TypeOK
<1> QED BY <1>3, <1>4 DEF Emitted, fixed, TypeOK

\* The bytes a handler reads.
LEMMA OperandType ==
  ASSUME TypeOK, NEW ops, AtOpcode(ops)
  PROVE  /\ CurrentByte \in Byte /\ CurrentByte \in ops
         /\ Readable /\ BytesRead(CurrentByte) = 2 => Operand \in Byte
<1>1. fn.code_vec \in Seq(Byte) BY BodyType DEF TypeOK
<1>2. i \in Nat /\ Len(fn.code_vec) \in Nat BY <1>1, LenProperties DEF TypeOK
<1>3. i + 1 \in 1 .. Len(fn.code_vec) BY <1>2 DEF AtOpcode
<1>4. CurrentByte \in Byte BY <1>1, <1>3, ElementOfSeq DEF CurrentByte
<1>5. ASSUME Readable, BytesRead(CurrentByte) = 2 PROVE Operand \in Byte
  <2>1. i + 2 \in 1 .. Len(fn.code_vec) BY <1>2, <1>5 DEF Readable
  <2> QED BY <1>1, <2>1, ElementOfSeq DEF Operand
<1> QED BY <1>4, <1>5 DEF AtOpcode, CurrentByte

\* Base case.
LEMMA InitType ==
  ASSUME Init PROVE TypeOK
<1>1. MaxCalls \in Nat BY BodiesAssumption
<1>2. \A S : << >> \in Seq(S) BY EmptySeq
<1>3. DOMAIN label_map = {} BY DEF Init
<1> QED BY <1>1, <1>2, <1>3 DEF Init, TypeOK, Phase

\* PrepareParams keeps the types.
LEMMA PrepareParamsType ==
  ASSUME TypeOK, PrepareParams PROVE TypeOK'
<1>1. param_data' \in Seq(Nat) /\ Len(param_data') = Len(fn.params)
  BY BodyType DEF TypeOK, PrepareParams
<1>2. pre_instructions' \in Seq(Encoded)
  BY SmallFragmentsType, ConcatProperties DEF TypeOK, PrepareParams
<1> QED BY <1>1, <1>2 DEF TypeOK, PrepareParams, Phase

\* LoadParam keeps the types.
LEMMA LoadParamType ==
  ASSUME TypeOK, LoadParam PROVE TypeOK'
<1> DEFINE mov == MovInt(RegTypeOf(fn.params[iter + 1]), iter, param_data[iter + 1])
<1>1. phase = "params" /\ iter < Len(fn.params) BY DEF LoadParam
<1>2. CASE Stop("aborted") BY <1>1, <1>2, StopType
<1>3. CASE /\ pre_instructions' = pre_instructions \o mov
           /\ iter' = iter + 1
           /\ UNCHANGED << phase, fn, param_data, i, local_data,
                           wasm_instructions, fake_insert_map, label_map,
                           control_flow_stack, if_label, calls >>
  <2>1. iter \in Nat /\ Len(fn.params) \in Nat /\ param_data \in Seq(Nat)
        /\ Len(param_data) = Len(fn.params)
    BY <1>1, BodyType, LenProperties DEF TypeOK
  <2>2. param_data[iter + 1] \in Nat BY <1>1, <2>1, ElementOfSeq
  <2>3. mov \in Seq(Encoded) BY <2>1, <2>2, MovIntType
  <2> HIDE DEF mov
  <2>4. pre_instructions' \in Seq(Encoded)
    BY <1>3, <2>3, ConcatProperties DEF TypeOK
  <2> QED BY <1>3, <2>1, <2>4 DEF TypeOK
<1> QED BY <1>2, <1>3 DEF LoadParam

\* Added locals have types.
LEMMA AddLocalsType ==
  ASSUME TypeOK, NEW count \in Nat, NEW type, AddLocals(count, type)
  PROVE  local_data' \in Seq(Type)
<1>1. local_data \in Seq(Type) BY DEF TypeOK
<1>2. CASE type \notin DOMAIN TypeOfByte BY <1>1, <1>2 DEF AddLocals
<1>3. CASE type \in DOMAIN TypeOfByte
  <2>1. TypeOfByte[type] \in Type BY <1>3 DEF TypeOfByte, Type
  <2> DEFINE more == [k \in 1 .. count |-> TypeOfByte[type]]
  <2>2. more \in [1 .. count -> Type] BY <2>1
  <2>3. more \in Seq(Type) BY <2>2, FunctionIsSeq
  <2>4. local_data' = local_data \o more BY <1>3 DEF AddLocals
  <2> HIDE DEF more
  <2> QED BY <1>1, <2>3, <2>4, ConcatProperties
<1> QED BY <1>2, <1>3

\* LocalVarInitialize keeps the types.
LEMMA LocalVarInitializeType ==
  ASSUME TypeOK, LocalVarInitialize PROVE TypeOK'
<1>1. phase = "locals" BY DEF LocalVarInitialize
<1>2. CASE ~(i + 2 <= Len(fn.code_vec))
  BY <1>1, <1>2, StopType DEF LocalVarInitialize
<1>3. CASE i + 2 <= Len(fn.code_vec)
  <2>1. fn.code_vec \in Seq(Byte) /\ i \in Nat /\ Len(fn.code_vec) \in Nat
    BY BodyType, LenProperties DEF TypeOK
  <2>2. fn.code_vec[i + 1] \in Byte BY <1>3, <2>1, ElementOfSeq
  <2>3. AddLocals(fn.code_vec[i + 1], fn.code_vec[i + 2])
    BY <1>3 DEF LocalVarInitialize
  <2>4. fn.code_vec[i + 1] \in Nat BY <2>2 DEF Byte
  <2>5. local_data' \in Seq(Type) BY <2>3, <2>4, AddLocalsType
  <2>6. /\ i' = i + 2 /\ iter' = iter + 1
        /\ UNCHANGED << phase, fn, param_data, pre_instructions,
                        wasm_instructions, fake_insert_map, label_map,
                        control_flow_stack, if_label, calls >>
    BY <1>3 DEF LocalVarInitialize
  <2>7. DOMAIN label_map' \subseteq Label /\ label_map' \in [DOMAIN label_map' -> Nat]
    BY <2>6 DEF TypeOK
  <2>8. /\ phase' \in Phase /\ fn' \in Bodies /\ param_data' \in Seq(Nat)
        /\ phase' # "idle" => Len(param_data') = Len(fn'.params) /\ calls' < MaxCalls
        /\ if_label' \in Nat /\ calls' \in 0 .. MaxCalls
        /\ i' \in Nat /\ iter' \in Nat
    BY <2>1, <2>6 DEF TypeOK
  <2>9. /\ pre_instructions' \in Seq(Encoded) /\ wasm_instructions' \in Seq(Instruction)
        /\ fake_insert_map' \subseteq Entry /\ control_flow_stack' \in Seq(Block)
    BY <2>6 DEF TypeOK
  <2> QED BY <2>5, <2>6, <2>7, <2>8, <2>9 DEF TypeOK
<1> QED BY <1>2, <1>3

\* The labels of the runtime and their places.
LEMMA RuntimeLabelsType ==
  ASSUME TypeOK
  PROVE  /\ DOMAIN RuntimeLabels = {Fixed("setjmp"), Fixed("preparelongjmp"),
                                    Fixed("longjmp"), Fixed("raiseException")}
         /\ DOMAIN RuntimeLabels \subseteq Label
         /\ \A l \in DOMAIN RuntimeLabels : RuntimeLabels[l] \in Nat
<1>1. Here \in Nat BY LenProperties DEF Here, TypeOK
<1>2. Len(GetSetJmpInstr) \in Nat /\ Len(GetLongJmpInstr) \in Nat
  BY SetJmpType, LenProperties
<1>3. Len(BranchToEntry) = 1 /\ Len(PrepareLongJmp) = 4
  BY DEF BranchToEntry, PrepareLongJmp
<1>4. DOMAIN RuntimeLabels = {Fixed("setjmp"), Fixed("preparelongjmp"),
                              Fixed("longjmp"), Fixed("raiseException")}
  BY DEF RuntimeLabels
<1>5. DOMAIN RuntimeLabels \subseteq Label
  BY <1>4, FixedType DEF LabelName
<1>6. \A l \in DOMAIN RuntimeLabels : RuntimeLabels[l] \in Nat
  BY <1>1, <1>2, <1>3 DEF RuntimeLabels
<1> QED BY <1>4, <1>5, <1>6

\* EmitRuntime keeps the types.
LEMMA EmitRuntimeType ==
  ASSUME TypeOK, EmitRuntime PROVE TypeOK'
<1>1. RuntimeTargets \subseteq Label BY FixedType DEF RuntimeTargets, LabelName
<1>2. wasm_instructions' \in Seq(Instruction) /\ fake_insert_map' \subseteq Entry
  BY <1>1, RuntimeType, EmitType DEF EmitRuntime
<1>3. /\ DOMAIN label_map' \subseteq Label
      /\ label_map' \in [DOMAIN label_map' -> Nat]
  BY RuntimeLabelsType, InsertLabelsType DEF EmitRuntime
<1> QED BY <1>2, <1>3 DEF EmitRuntime, TypeOK, fixed, Phase

\* MainEntry keeps the types.
LEMMA MainEntryType ==
  ASSUME TypeOK, MainEntry PROVE TypeOK'
<1> DEFINE prologue == PrepareSp \o InitParam \o InitLocal
           block == [label |-> Fixed("end"), signature |-> fn.results]
<1>1. phase = "entry" BY DEF MainEntry
<1>2. CASE Stop("aborted") BY <1>1, <1>2, StopType
<1>3. CASE /\ Emit(prologue \o WrapperSetjmp)
           /\ InsertLabel(Fixed("entry"), Here)
           /\ control_flow_stack' = Append(control_flow_stack, block)
           /\ phase' = "jiting"
           /\ UNCHANGED << i, if_label, fixed >>
  <2>1. prologue \in Seq(CodeTo(SetjmpTargets))
    BY PrologueType, CodeToType DEF TypeOK
  <2> HIDE DEF prologue
  <2>2. prologue \o WrapperSetjmp \in Seq(CodeTo(SetjmpTargets))
    BY <2>1, WrapperSetjmpType, ConcatProperties
  <2>3. SetjmpTargets \subseteq Label BY FixedType DEF SetjmpTargets, LabelName
  <2>4. wasm_instructions' \in Seq(Instruction) /\ fake_insert_map' \subseteq Entry
    BY <1>3, <2>2, <2>3, EmitType
  <2>5. Here \in Nat BY LenProperties DEF Here, TypeOK
  <2>6. Fixed("entry") \in Label /\ Fixed("end") \in Label
    BY FixedType DEF LabelName
  <2>7. /\ DOMAIN label_map' \subseteq Label
        /\ label_map' \in [DOMAIN label_map' -> Nat]
    BY <1>3, <2>5, <2>6, InsertLabelType
  <2>8. block \in Block BY <2>6, BodyType DEF Block, TypeOK
  <2> HIDE DEF block
  <2>9. control_flow_stack' \in Seq(Block)
    BY <1>3, <2>8, AppendProperties DEF TypeOK
  <2> QED BY <1>1, <1>3, <2>4, <2>7, <2>9 DEF TypeOK, fixed, Phase
<1> QED BY <1>2, <1>3 DEF MainEntry

\* The comparisons test conditions.
LEMMA ConditionsType ==
  \A k \in 1 .. 10 : Conditions[k] \in Condition
BY DEF Conditions, Condition

\* The handlers that only emit, and emit no branch.
PlainOpcodes == Nop \/ Ret \/ CommonLocalOp \/ Const \/ CompareOp \/ ArithOp

\* Opcodes without a branch append plain instructions and read one byte or two.
LEMMA PlainOpcodesEmit ==
  ASSUME TypeOK, PlainOpcodes
  PROVE  /\ phase = "jiting"
         /\ \E s \in Seq(Encoded) : \E size \in 1 .. 2 : Emitted(s, size)
<1>1. CASE Nop
  <2>1. << EncodeNop >> \in Seq(Encoded) BY MovEncoderType
  <2> QED BY <1>1, <2>1 DEF Nop, AtOpcode
<1>2. CASE Ret
  <2> DEFINE s == << >>
  <2>1. s \in Seq(Encoded) BY EmptySeq
  <2>2. phase = "jiting" /\ Emitted(s, 1) BY <1>2 DEF Ret, AtOpcode
  <2> HIDE DEF s
  <2> QED BY <2>1, <2>2
<1>3. CASE CommonLocalOp
  <2>1. AtOpcode(LocalOps) /\ Readable /\ Operand < VarCount
    BY <1>3 DEF CommonLocalOp
  <2>2. CurrentByte \in LocalOps /\ BytesRead(CurrentByte) = 2
    <3>1. CurrentByte \in LocalOps BY <2>1, OperandType
    <3> QED BY <3>1 DEF BytesRead, LocalOps, ConstOps
  <2>3. Operand \in 0 .. VarCount - 1
    <3>1. Operand \in Byte BY <2>1, <2>2, OperandType
    <3>2. Len(fn.params) \in Nat /\ Len(local_data) \in Nat
      BY BodyType, LenProperties DEF TypeOK
    <3> QED BY <2>1, <3>1, <3>2 DEF VarCount, Byte
  <2>4. PICK w : \E offset \in Nat : Var(Operand) = [reg |-> w, offset |-> offset]
    BY <2>3, VarType DEF TypeOK
  <2>5. /\ EmitGet(Var(Operand)) \in Seq(Encoded)
        /\ EmitSet(Var(Operand)) \in Seq(Encoded)
        /\ EmitTee(Var(Operand)) \in Seq(Encoded)
    BY <2>4, EmittersType
  <2>6. \E s \in Seq(Encoded) : Emitted(s, 2)
    BY <1>3, <2>2, <2>5 DEF CommonLocalOp, LocalOps
  <2> QED BY <2>1, <2>6 DEF AtOpcode
<1>4. CASE Const
  <2>1. AtOpcode(ConstOps) /\ Readable BY <1>4 DEF Const
  <2>2. BytesRead(CurrentByte) = 2
    <3>1. CurrentByte \in ConstOps BY <2>1, OperandType
    <3> QED BY <3>1 DEF BytesRead, LocalOps, ConstOps
  <2>3. Operand \in Int BY <2>1, <2>2, OperandType DEF Byte
  <2>4. \E s \in Seq(Encoded) : Emitted(s, 2)
    BY <1>4, <2>3, EmittersType DEF Const
  <2> QED BY <2>1, <2>4 DEF AtOpcode
<1>5. CASE CompareOp
  <2>1. AtOpcode(CompareOps) BY <1>5 DEF CompareOp
  <2>2. CurrentByte \in CompareOps BY <2>1, OperandType
  <2>3. IF CurrentByte <= \h4F THEN Conditions[CurrentByte - \h45] \in Condition
                               ELSE Conditions[CurrentByte - \h50] \in Condition
    BY <2>2, ConditionsType DEF CompareOps
  <2>4. \E s \in Seq(Encoded) : Emitted(s, 1)
    BY <1>5, <2>3, EmittersType DEF CompareOp
  <2> QED BY <2>1, <2>4 DEF AtOpcode
<1>6. CASE ArithOp
  <2>1. AtOpcode(ArithOps) BY <1>6 DEF ArithOp
  <2>2. CurrentByte \in ArithOps BY <2>1, OperandType
  <2> DEFINE op == CASE CurrentByte \in {\h6A, \h7C} -> "+"
                     [] CurrentByte \in {\h6B, \h7D} -> "-"
                     [] CurrentByte \in {\h6C, \h7E} -> "*"
             w == IF CurrentByte <= \h6C THEN "W" ELSE "X"
  <2>3. op \in {"+", "-", "*"} BY <2>2 DEF ArithOps
  <2>4. Emitted(EmitArithOp(w, op), 1) BY <1>6 DEF ArithOp
  <2> HIDE DEF op, w
  <2>5. EmitArithOp(w, op) \in Seq(Encoded) BY <2>3, EmittersType
  <2> QED BY <2>1, <2>4, <2>5 DEF AtOpcode
<1> QED BY <1>1, <1>2, <1>3, <1>4, <1>5, <1>6 DEF PlainOpcodes

\* They keep the types.
LEMMA PlainOpcodesType ==
  ASSUME TypeOK, PlainOpcodes PROVE TypeOK'
BY PlainOpcodesEmit, EmittedType


\* The handlers that give up, and the one that stays where it is.
LEMMA StoppingOpcodesType ==
  ASSUME TypeOK,
         \/ ReadPastEnd \/ TooBigIndex \/ FloatConst \/ UnsupportedBlock
         \/ NoOpenBlock \/ UnsupportedOpcode
  PROVE  TypeOK'
<1>1. CASE \E how \in {"aborted", "undefined"} : phase = "jiting" /\ Stop(how)
  BY <1>1, StopType
<1>2. CASE UnsupportedOpcode
  BY <1>2 DEF UnsupportedOpcode, vars, TypeOK
<1> QED BY <1>1, <1>2
  DEF ReadPastEnd, TooBigIndex, FloatConst, UnsupportedBlock, NoOpenBlock, AtOpcode

\* DivOp keeps the types.
LEMMA DivOpType ==
  ASSUME TypeOK, DivOp PROVE TypeOK'
<1> DEFINE w == IF CurrentByte <= \h6E THEN "W" ELSE "X"
           op == IF CurrentByte \in {\h6D, \h7F} THEN "sdiv" ELSE "udiv"
<1>1. /\ phase = "jiting" /\ Emit(EmitDivOp(w, op))
      /\ InsertLabel(Fixed("normal_div"), Here + Len(DivChecks(w)))
      /\ i' = i + 1
      /\ UNCHANGED << phase, control_flow_stack, if_label, fixed >>
  BY DEF DivOp, AtOpcode
<1>2. op \in {"sdiv", "udiv"} OBVIOUS
<1> HIDE DEF w, op
<1>3. DivTargets \subseteq Label BY FixedType DEF DivTargets, LabelName
<1>4. wasm_instructions' \in Seq(Instruction) /\ fake_insert_map' \subseteq Entry
  BY <1>1, <1>2, <1>3, DivType, EmitType
<1>5. Here + Len(DivChecks(w)) \in Nat
  <2>1. Here \in Nat BY LenProperties DEF Here, TypeOK
  <2>2. Len(DivChecks(w)) \in Nat BY <1>2, DivType, LenProperties
  <2> QED BY <2>1, <2>2
<1>6. Fixed("normal_div") \in Label BY FixedType DEF LabelName
<1>7. /\ DOMAIN label_map' \subseteq Label
      /\ label_map' \in [DOMAIN label_map' -> Nat]
  BY <1>1, <1>5, <1>6, InsertLabelType
<1> QED BY <1>1, <1>4, <1>7 DEF TypeOK, fixed

\* The labels made from if_label.
LEMMA NumberedType ==
  ASSUME TypeOK
  PROVE  ElseOrEnd(if_label) \in Label /\ EndOf(if_label) \in Label
BY DEF TypeOK, ElseOrEnd, EndOf, Label, LabelName

\* A stack that is not empty has a top.
LEMMA StackType ==
  ASSUME TypeOK, control_flow_stack # << >>
  PROVE  Below \in Seq(Block) /\ Top \in Block /\ Len(control_flow_stack) \in Nat \ {0}
<1>1. control_flow_stack \in Seq(Block) BY DEF TypeOK
<1>2. Len(control_flow_stack) \in Nat \ {0} BY <1>1, EmptySeq
<1>3. Top \in Block BY <1>1, <1>2, ElementOfSeq DEF Top
<1>4. \A k \in 1 .. Len(control_flow_stack) - 1 : control_flow_stack[k] \in Block
  BY <1>1, <1>2, ElementOfSeq
<1>5. Below \in Seq(Block) BY <1>2, <1>4, SubSeqProperties DEF Below
<1> QED BY <1>2, <1>3, <1>5

\* IfOp keeps the types.
LEMMA IfOpType ==
  ASSUME TypeOK, IfOp PROVE TypeOK'
<1> DEFINE label == ElseOrEnd(if_label)
           block == [label |-> label, signature |-> SignatureOfBlock[Operand]]
<1>1. label \in Label BY NumberedType
<1>2. /\ phase = "jiting" /\ Operand \in DOMAIN SignatureOfBlock
      /\ control_flow_stack' = Append(control_flow_stack, block)
      /\ NextLabel /\ Emit(IfTest(label)) /\ i' = i + 2
      /\ UNCHANGED << phase, label_map, fixed >>
  BY DEF IfOp, AtOpcode
<1>3. block \in Block
  <2>1. SignatureOfBlock[Operand] \in Seq(Type)
    <3>1. << "i" >> \in Seq(Type) /\ << "l" >> \in Seq(Type) /\ << >> \in Seq(Type)
      BY EmptySeq DEF Type
    <3> QED BY <1>2, <3>1 DEF SignatureOfBlock
  <2> QED BY <1>1, <2>1 DEF Block
<1> HIDE DEF block, label
<1>4. control_flow_stack' \in Seq(Block)
  BY <1>2, <1>3, AppendProperties DEF TypeOK
<1>5. wasm_instructions' \in Seq(Instruction) /\ fake_insert_map' \subseteq Entry
  BY <1>1, <1>2, IfTestType, EmitType
<1> QED BY <1>2, <1>4, <1>5 DEF TypeOK, NextLabel, fixed

\* ElseOp keeps the types.
LEMMA ElseOpType ==
  ASSUME TypeOK, ElseOp PROVE TypeOK'
<1> DEFINE label == EndOf(if_label)
           skip == << Fake(label, "b") >>
<1>1. label \in Label BY NumberedType
<1>2. /\ phase = "jiting" /\ control_flow_stack # << >>
      /\ control_flow_stack' =
           Append(Below, [label |-> label, signature |-> Top.signature])
      /\ NextLabel /\ Emit(skip) /\ InsertLabel(Top.label, Here + Len(skip))
      /\ i' = i + 1
      /\ UNCHANGED << phase, fixed >>
  BY DEF ElseOp, AtOpcode, Reopen
<1>3. skip \in Seq(CodeTo({label})) /\ Len(skip) = 1
  <2>1. Fake(label, "b") \in CodeTo({label}) BY <1>1, FakeInCode DEF Br
  <2> QED BY <2>1
<1> HIDE DEF label, skip
<1>4. Top \in Block /\ Below \in Seq(Block) BY <1>2, StackType
<1>5. control_flow_stack' \in Seq(Block)
  BY <1>1, <1>2, <1>4, AppendProperties DEF Block
<1>6. wasm_instructions' \in Seq(Instruction) /\ fake_insert_map' \subseteq Entry
  BY <1>1, <1>2, <1>3, EmitType
<1>7. Here + Len(skip) \in Nat
  <2>1. Here \in Nat BY LenProperties DEF Here, TypeOK
  <2> QED BY <1>3, <2>1
<1>8. /\ DOMAIN label_map' \subseteq Label
      /\ label_map' \in [DOMAIN label_map' -> Nat]
  BY <1>2, <1>4, <1>7, InsertLabelType DEF Block
<1> QED BY <1>2, <1>5, <1>6, <1>8 DEF TypeOK, NextLabel, fixed

\* EndOp keeps the types.
LEMMA EndOpType ==
  ASSUME TypeOK, EndOp PROVE TypeOK'
<1>1. phase = "jiting" /\ control_flow_stack # << >> BY DEF EndOp, AtOpcode
<1>2. Top \in Block /\ Below \in Seq(Block) BY <1>1, StackType
<1>3. Here \in Nat BY LenProperties DEF Here, TypeOK
<1>4. /\ DOMAIN label_map' \subseteq Label
      /\ label_map' \in [DOMAIN label_map' -> Nat]
  BY <1>2, <1>3, InsertLabelType DEF EndOp, Block
<1> QED BY <1>1, <1>2, <1>4 DEF EndOp, TypeOK, fixed

\* Epilogue keeps the types.
LEMMA EpilogueType ==
  ASSUME TypeOK, Epilogue PROVE TypeOK'
<1> DEFINE code == StoreReturnCode0 \o RestoreSp \o << EncodeReturn >>
<1>1. phase = "jiting" BY DEF Epilogue
<1>2. CASE Stop("aborted") BY <1>1, <1>2, StopType
<1>3. CASE /\ Emit(code)
           /\ InsertLabel(Fixed("finalize"), Here + Len(StoreReturnCode0))
           /\ phase' = "fixup"
           /\ UNCHANGED << i, control_flow_stack, if_label, fixed >>
  <2>1. StoreReturnCode0 \in Seq(Encoded) /\ RestoreSp \in Seq(Encoded)
        /\ << EncodeReturn >> \in Seq(Encoded)
    BY SmallFragmentsType, RestoreSpType, MovEncoderType DEF TypeOK
  <2>2. code \in Seq(Encoded) BY <2>1, ConcatProperties
  <2> HIDE DEF code
  <2>3. code \in Seq(CodeTo({})) BY <2>2, CodeToType
  <2>4. wasm_instructions' \in Seq(Instruction) /\ fake_insert_map' \subseteq Entry
    BY <1>3, <2>3, EmitType
  <2>5. Here + Len(StoreReturnCode0) \in Nat
    <3>1. Here \in Nat BY LenProperties DEF Here, TypeOK
    <3>2. Len(StoreReturnCode0) \in Nat BY <2>1, LenProperties
    <3> QED BY <3>1, <3>2
  <2>6. Fixed("finalize") \in Label BY FixedType DEF LabelName
  <2>7. /\ DOMAIN label_map' \subseteq Label
        /\ label_map' \in [DOMAIN label_map' -> Nat]
    BY <1>3, <2>5, <2>6, InsertLabelType
  <2> QED BY <1>1, <1>3, <2>4, <2>7 DEF TypeOK, fixed, Phase
<1> QED BY <1>2, <1>3 DEF Epilogue

\* The fix-up keeps the types and the length, and writes instructions where it writes.
LEMMA FixUpType ==
  ASSUME TypeOK, FixUpFakeBranch
  PROVE  /\ TypeOK'
         /\ Len(wasm_instructions') = Len(wasm_instructions)
         /\ \A l \in DOMAIN LabelsRead : LabelsRead[l] \in Nat
         /\ \A k \in 1 .. Len(wasm_instructions) :
              (\E f \in fake_insert_map : f.at = k - 1)
                => wasm_instructions'[k] \in Encoded
<1>1. \A f \in fake_insert_map : f.label \in Label /\ f.at \in Nat /\ f.br \in Br
  BY DEF TypeOK, Entry
<1>2. /\ DOMAIN LabelsRead \subseteq Label
      /\ \A f \in fake_insert_map : f.label \in DOMAIN LabelsRead
      /\ \A l \in DOMAIN LabelsRead : LabelsRead[l] \in Nat
  BY <1>1 DEF LabelsRead, TypeOK
<1>3. \A f \in fake_insert_map : BranchTo(f.br, LabelsRead[f.label] - f.at) \in Encoded
  <2> TAKE f \in fake_insert_map
  <2>1. LabelsRead[f.label] - f.at \in Int BY <1>1, <1>2
  <2> QED BY <1>1, <2>1, BranchEncoderType
<1>4. wasm_instructions \in Seq(Instruction) /\ Len(wasm_instructions) \in Nat
  BY LenProperties DEF TypeOK
<1>5. \A k \in 1 .. Len(wasm_instructions) :
        IF \E f \in fake_insert_map : f.at = k - 1
          THEN wasm_instructions'[k] \in Encoded
          ELSE wasm_instructions'[k] = wasm_instructions[k]
  <2> TAKE k \in 1 .. Len(wasm_instructions)
  <2>1. CASE \E f \in fake_insert_map : f.at = k - 1
    <3> DEFINE f == CHOOSE f \in fake_insert_map : f.at = k - 1
    <3>1. f \in fake_insert_map BY <2>1
    <3>2. wasm_instructions'[k] = BranchTo(f.br, LabelsRead[f.label] - f.at)
      BY <2>1 DEF FixUpFakeBranch
    <3> HIDE DEF f
    <3> QED BY <1>3, <2>1, <3>1, <3>2
  <2>2. CASE ~ \E f \in fake_insert_map : f.at = k - 1
    BY <2>2 DEF FixUpFakeBranch
  <2> QED BY <2>1, <2>2
<1>6. wasm_instructions' \in [1 .. Len(wasm_instructions) -> Instruction]
  <2>1. \A k \in 1 .. Len(wasm_instructions) : wasm_instructions'[k] \in Instruction
    BY <1>4, <1>5, ElementOfSeq DEF Instruction
  <2>2. /\ DOMAIN wasm_instructions' = 1 .. Len(wasm_instructions)
        /\ wasm_instructions' = [k \in 1 .. Len(wasm_instructions) |-> wasm_instructions'[k]]
    BY DEF FixUpFakeBranch
  <2> QED BY <2>1, <2>2
<1>7. /\ wasm_instructions' \in Seq(Instruction)
      /\ Len(wasm_instructions') = Len(wasm_instructions)
  BY <1>4, <1>6, FunctionIsSeq
<1>8. LabelsRead \in [DOMAIN LabelsRead -> Nat] BY <1>2 DEF LabelsRead
<1>9. TypeOK'
  BY <1>2, <1>7, <1>8 DEF FixUpFakeBranch, TypeOK, fixed, Phase
<1> QED BY <1>2, <1>5, <1>7, <1>9

\* The reset keeps the types.
LEMMA ResetType ==
  ASSUME TypeOK, ResetAfterExecution PROVE TypeOK'
<1>1. \A S : << >> \in Seq(S) BY EmptySeq
<1>2. DOMAIN label_map' = {} BY DEF ResetAfterExecution, Clear
<1>3. calls' \in 0 .. MaxCalls
  BY BodiesAssumption DEF ResetAfterExecution, TypeOK
<1> QED BY <1>1, <1>2, <1>3 DEF ResetAfterExecution, Clear, TypeOK, Phase

\* BeginProcess keeps the types.
LEMMA BeginProcessType ==
  ASSUME TypeOK, BeginProcess PROVE TypeOK'
BY DEF TypeOK, BeginProcess, Phase

\* Every step keeps the types.
LEMMA TypeStep ==
  ASSUME TypeOK, [Next]_vars PROVE TypeOK'
<1>1. CASE UNCHANGED vars BY <1>1 DEF vars, TypeOK
<1>2. CASE Opcodes
  BY <1>2, PlainOpcodesType, StoppingOpcodesType, DivOpType, IfOpType,
     ElseOpType, EndOpType DEF Opcodes, PlainOpcodes
<1>3. CASE Translate
  BY <1>2, <1>3, PrepareParamsType, LoadParamType, BeginProcessType,
     LocalVarInitializeType, EmitRuntimeType, MainEntryType, EpilogueType,
     FixUpType DEF Translate
<1>4. CASE ResetAfterExecution BY <1>4, ResetType
<1> QED BY <1>1, <1>3, <1>4 DEF Next

\* Every variable of the translator keeps its type: whatever function is
\* translated, refused or lost, and however often, the code is a sequence of
\* instructions, the maps hold labels and locations, and the control stack
\* holds blocks (processCodeVec and everything it calls).
THEOREM TypeCorrect == Spec => []TypeOK
<1>1. Init => TypeOK BY InitType
<1>2. TypeOK /\ [Next]_vars => TypeOK' BY TypeStep
<1> QED BY <1>1, <1>2, PTL DEF Spec

-----------------------------------------------------------------------------
(***************************************************************************)
(* Branches and labels.  The inductive invariant is the conjunction of the *)
(* invariants the runs check and of RuntimePlaced: the code in front of    *)
(* every function is what a call of setjmp and a trapping division branch  *)
(* to.                                                                     *)
(***************************************************************************)
RuntimeNames == {"setjmp", "preparelongjmp", "longjmp", "raiseException"}

RuntimePlaced ==
  phase \in {"entry", "jiting", "fixup"} =>
    {Fixed(name) : name \in RuntimeNames} \subseteq DOMAIN label_map

IInv ==
  /\ TypeOK
  /\ PlaceholdersRecorded
  /\ RuntimePlaced
  /\ BranchesAwaited
  /\ LabelsFresh
  /\ BlocksBranchForward

(***************************************************************************)
(* Facts about a single state.                                             *)
(***************************************************************************)
LEMMA NotNumbered ==
  /\ \A name \in LabelName \ {"Else/End_", "End_"} : ~IsNumbered(Fixed(name))
  /\ \A k \in Nat : /\ IsNumbered(ElseOrEnd(k)) /\ ElseOrEnd(k)[2] = k
                    /\ IsNumbered(EndOf(k)) /\ EndOf(k)[2] = k
BY DEF IsNumbered, Fixed, ElseOrEnd, EndOf

\* A recorded placeholder lies inside the code.
LEMMA EntriesInCode ==
  ASSUME TypeOK, PlaceholdersRecorded, phase # "ready"
  PROVE  /\ Len(wasm_instructions) \in Nat
         /\ \A f \in fake_insert_map :
              /\ f.at \in 0 .. Len(wasm_instructions) - 1
              /\ wasm_instructions[f.at + 1].op = "fake"
<1>1. Len(wasm_instructions) \in Nat BY LenProperties DEF TypeOK
<1>2. ASSUME NEW f \in fake_insert_map
      PROVE  /\ f.at \in 0 .. Len(wasm_instructions) - 1
             /\ wasm_instructions[f.at + 1].op = "fake"
  <2>1. f \in Fakes(wasm_instructions, 0) BY DEF PlaceholdersRecorded
  <2>2. PICK k \in 1 .. Len(wasm_instructions) :
          wasm_instructions[k].op = "fake" /\ f.at = 0 + k - 1
    BY <2>1 DEF Fakes
  <2>3. f.at + 1 = k BY <1>1, <2>2
  <2> QED BY <1>1, <2>2, <2>3
<1> QED BY <1>1, <1>2

\* No code, no placeholder.
LEMMA NoFakesInNothing == \A at : Fakes(<< >>, at) = {}
<1>1. << >> \in Seq(Encoded) BY EmptySeq
<1> QED BY <1>1, FakesOfEncoded

\* A label a branch waits for has been numbered, if it is numbered at all.
LEMMA AwaitedNumbers ==
  ASSUME IInv, phase \notin {"aborted", "undefined"}
  PROVE  \A f \in fake_insert_map : IsNumbered(f.label) => f.label[2] < if_label
<1> SUFFICES ASSUME NEW f \in fake_insert_map, IsNumbered(f.label)
             PROVE  f.label[2] < if_label
  OBVIOUS
<1>1. f.label \in DOMAIN label_map \cup OpenLabels \cup PendingLabels
  BY DEF IInv, BranchesAwaited
<1>2. CASE f.label \in DOMAIN label_map BY <1>2 DEF IInv, LabelsFresh
<1>3. CASE f.label \in OpenLabels BY <1>3 DEF IInv, LabelsFresh, OpenLabels
<1>4. CASE f.label \in PendingLabels
  BY <1>4, NotNumbered DEF PendingLabels, LabelName
<1> QED BY <1>1, <1>2, <1>3, <1>4

(***************************************************************************)
(* A step that emits a fragment and places labels.                         *)
(***************************************************************************)
\* A fragment s whose placeholders stand for labels of L, and the labels new
\* placed with it: nothing that is waited for is lost, a numbered label is
\* placed in s or at its ends, and no placeholder of s branches back to one.
Lands(L, new, s) ==
  /\ \A l \in L \cup OpenLabels \cup PendingLabels :
       l \in DOMAIN label_map \cup DOMAIN new \cup OpenLabels' \cup PendingLabels'
  /\ \A l \in DOMAIN new : IsNumbered(l) =>
       new[l] \in Len(wasm_instructions) .. Len(wasm_instructions) + Len(s)
  /\ \A l \in L : IsNumbered(l) => l \notin DOMAIN label_map \cup DOMAIN new

\* Appending code keeps the accounts of the branches when its labels land.
LEMMA Advance ==
  ASSUME IInv, phase \notin {"ready", "aborted", "undefined"},
         phase' \notin {"ready", "aborted", "undefined"},
         NEW L, L \subseteq Label, NEW s \in Seq(CodeTo(L)), Emit(s),
         NEW new, InsertLabels(new),
         Lands(L, new, s)
  PROVE  PlaceholdersRecorded' /\ BranchesAwaited' /\ BlocksBranchForward'
<1> DEFINE n == Len(wasm_instructions)
           added == Fakes(s, n)
<1>1. /\ wasm_instructions \in Seq(Instruction) /\ s \in Seq(Instruction)
      /\ n \in Nat /\ Len(s) \in Nat
  BY CodeToType, LenProperties DEF IInv, TypeOK
<1>2. /\ wasm_instructions' = wasm_instructions \o s
      /\ fake_insert_map' = fake_insert_map \cup added
      /\ Len(wasm_instructions') = n + Len(s)
  BY <1>1, ConcatProperties DEF Emit
<1>3. /\ DOMAIN label_map' = DOMAIN label_map \cup DOMAIN new
      /\ \A l \in DOMAIN label_map' :
           label_map'[l] = IF l \in DOMAIN label_map THEN label_map[l] ELSE new[l]
  BY DEF InsertLabels
<1>4. \A f \in added : f.label \in L /\ f.at \in n .. n + Len(s) - 1
  BY <1>1, FakesType
<1>5. PlaceholdersRecorded'
  <2>1. Fakes(wasm_instructions, 0) = fake_insert_map
    BY DEF IInv, PlaceholdersRecorded
  <2>2. Fakes(wasm_instructions \o s, 0)
          = Fakes(wasm_instructions, 0) \cup Fakes(s, 0 + n)
    BY <1>1, FakesConcat
  <2>3. 0 + n = n BY <1>1
  <2> QED BY <1>2, <2>1, <2>2, <2>3 DEF PlaceholdersRecorded
<1>6. BranchesAwaited'
  <2> SUFFICES ASSUME NEW f \in fake_insert_map'
               PROVE  f.label \in DOMAIN label_map' \cup OpenLabels' \cup PendingLabels'
    BY DEF BranchesAwaited
  <2>1. CASE f \in fake_insert_map
    <3>1. f.label \in DOMAIN label_map \cup OpenLabels \cup PendingLabels
      BY <2>1 DEF IInv, BranchesAwaited
    <3> QED BY <1>3, <3>1 DEF Lands
  <2>2. CASE f \in added
    <3> HIDE DEF added
    <3> QED BY <1>3, <1>4, <2>2 DEF Lands
  <2> QED BY <1>2, <2>1, <2>2
<1>7. BlocksBranchForward'
  <2> SUFFICES ASSUME NEW f \in fake_insert_map', IsNumbered(f.label),
                      f.label \in DOMAIN label_map'
               PROVE  label_map'[f.label] \in f.at + 1 .. n + Len(s)
    BY <1>2 DEF BlocksBranchForward, IsNumbered
  <2>1. f \in fake_insert_map
    <3>1. f \notin added BY <1>3, <1>4 DEF Lands
    <3> QED BY <1>2, <3>1
  <2>2. f.at \in 0 .. n - 1 BY <2>1, EntriesInCode DEF IInv
  <2>3. CASE f.label \in DOMAIN label_map
    <3>1. label_map[f.label] \in f.at + 1 .. n
      BY <2>1, <2>3 DEF IInv, BlocksBranchForward
    <3> QED BY <1>1, <1>3, <2>2, <2>3, <3>1
  <2>4. CASE f.label \notin DOMAIN label_map
    <3>1. label_map'[f.label] = new[f.label] /\ f.label \in DOMAIN new
      BY <1>3, <2>4
    <3>2. new[f.label] \in n .. n + Len(s) BY <3>1 DEF Lands
    <3> QED BY <1>1, <2>2, <3>1, <3>2
  <2> QED BY <2>3, <2>4
<1> QED BY <1>5, <1>6, <1>7

\* A step that places labels without number, and opens and closes no block.
LEMMA FreshKept ==
  ASSUME IInv, phase # "ready", NEW new, InsertLabels(new),
         \A l \in DOMAIN new : ~IsNumbered(l),
         UNCHANGED << control_flow_stack, if_label >>
  PROVE  LabelsFresh'
<1>1. DOMAIN label_map' = DOMAIN label_map \cup DOMAIN new BY DEF InsertLabels
<1>2. LabelsFresh BY DEF IInv
<1> QED BY <1>1, <1>2 DEF LabelsFresh, IsNumbered

\* Inserting one label is inserting labels.
LEMMA InsertedOne ==
  ASSUME NEW label, NEW location, InsertLabel(label, location)
  PROVE  \E new : /\ InsertLabels(new) /\ DOMAIN new = {label}
                  /\ new[label] = location
<1> DEFINE new == [l \in {label} |-> location]
<1>1. InsertLabels(new) /\ DOMAIN new = {label} /\ new[label] = location
  BY DEF InsertLabel
<1> QED BY <1>1

\* So is inserting none.
LEMMA InsertedNone ==
  ASSUME TypeOK, UNCHANGED label_map
  PROVE  \E new : InsertLabels(new) /\ DOMAIN new = {}
<1> DEFINE new == [l \in {} |-> 0]
<1>1. DOMAIN new = {} OBVIOUS
<1>2. label_map = [l \in DOMAIN label_map |-> label_map[l]]
  BY DEF TypeOK
<1>3. InsertLabels(new) BY <1>1, <1>2 DEF InsertLabels
<1> QED BY <1>1, <1>3

(***************************************************************************)
(* The actions.                                                            *)
(***************************************************************************)
Quiet ==
  UNCHANGED << wasm_instructions, fake_insert_map, label_map,
               control_flow_stack, if_label >>

\* A step that touches neither the code nor the labels.
LEMMA QuietStep ==
  ASSUME IInv, TypeOK', Quiet, phase # "ready",
         \/ phase' = phase
         \/ /\ phase \in {"idle", "params", "locals"}
            /\ phase' \in {"params", "locals"}
         \/ phase' \in {"aborted", "undefined"}
  PROVE  IInv'
<1>1. /\ PlaceholdersRecorded /\ RuntimePlaced /\ BranchesAwaited
      /\ LabelsFresh /\ BlocksBranchForward
  BY DEF IInv
<1>2. phase' # "ready" OBVIOUS
<1>3. PlaceholdersRecorded' BY <1>1, <1>2 DEF PlaceholdersRecorded, Quiet
<1>4. RuntimePlaced' BY <1>1 DEF RuntimePlaced, Quiet
<1>5. BranchesAwaited'
  BY <1>1 DEF BranchesAwaited, OpenLabels, PendingLabels, Quiet
<1>6. LabelsFresh' BY <1>1 DEF LabelsFresh, IsNumbered, Quiet
<1>7. BlocksBranchForward' BY <1>1 DEF BlocksBranchForward, IsNumbered, Quiet
<1> QED BY <1>3, <1>4, <1>5, <1>6, <1>7 DEF IInv

\* The actions that append nothing.
LEMMA QuietActions ==
  ASSUME IInv, TypeOK',
         \/ PrepareParams \/ LoadParam \/ BeginProcess \/ LocalVarInitialize
         \/ ReadPastEnd \/ TooBigIndex \/ FloatConst \/ UnsupportedBlock
         \/ NoOpenBlock \/ UnsupportedOpcode
  PROVE  IInv'
<1>1. Quiet /\ phase # "ready"
  BY DEF PrepareParams, LoadParam, BeginProcess, LocalVarInitialize,
         ReadPastEnd, TooBigIndex, FloatConst, UnsupportedBlock, NoOpenBlock,
         UnsupportedOpcode, AtOpcode, Stop, Quiet, vars
<1>2. \/ phase' = phase
      \/ phase \in {"idle", "params", "locals"} /\ phase' \in {"params", "locals"}
      \/ phase' \in {"aborted", "undefined"}
  BY DEF PrepareParams, LoadParam, BeginProcess, LocalVarInitialize,
         ReadPastEnd, TooBigIndex, FloatConst, UnsupportedBlock, NoOpenBlock,
         UnsupportedOpcode, AtOpcode, Stop, vars
<1> QED BY <1>1, <1>2, QuietStep

\* Handlers that emit no branch.
LEMMA EmittedStep ==
  ASSUME IInv, TypeOK', phase = "jiting", NEW s \in Seq(Encoded), NEW size,
         Emitted(s, size)
  PROVE  IInv'
<1>1. /\ Emit(s) /\ phase' = "jiting"
      /\ UNCHANGED << label_map, control_flow_stack, if_label >>
  BY DEF Emitted
<1>2. PICK new : InsertLabels(new) /\ DOMAIN new = {}
  BY <1>1, InsertedNone DEF IInv
<1>3. s \in Seq(CodeTo({})) BY CodeToType
<1>4. OpenLabels' = OpenLabels /\ PendingLabels' = PendingLabels
  BY <1>1 DEF OpenLabels, PendingLabels
<1>5. PlaceholdersRecorded' /\ BranchesAwaited' /\ BlocksBranchForward'
  BY <1>1, <1>2, <1>3, <1>4, Advance DEF Lands
<1>6. LabelsFresh' BY <1>1, <1>2, FreshKept
<1>7. RuntimePlaced' BY <1>1 DEF IInv, RuntimePlaced
<1> QED BY <1>5, <1>6, <1>7 DEF IInv

\* The runtime branches to its own labels, to entry and to finalize.
LEMMA EmitRuntimeStep ==
  ASSUME IInv, TypeOK', EmitRuntime PROVE IInv'
<1>1. /\ phase = "locals" /\ phase' = "entry" /\ Emit(Runtime)
      /\ InsertLabels(RuntimeLabels)
      /\ UNCHANGED << control_flow_stack, if_label >>
  BY DEF EmitRuntime
<1>2. DOMAIN RuntimeLabels = {Fixed(name) : name \in RuntimeNames}
  BY RuntimeLabelsType DEF IInv, RuntimeNames
<1>3. \A l \in DOMAIN RuntimeLabels \cup RuntimeTargets : ~IsNumbered(l)
  BY <1>2, NotNumbered DEF RuntimeNames, RuntimeTargets, LabelName
<1>4. RuntimeTargets \subseteq Label BY FixedType DEF RuntimeTargets, LabelName
<1>5. PendingLabels = {} /\ PendingLabels' = {Fixed("entry"), Fixed("finalize")}
      /\ OpenLabels' = OpenLabels
  BY <1>1 DEF PendingLabels, OpenLabels
<1>6. RuntimeTargets \subseteq DOMAIN RuntimeLabels \cup PendingLabels'
  BY <1>2, <1>5 DEF RuntimeTargets, RuntimeNames
<1>7. PlaceholdersRecorded' /\ BranchesAwaited' /\ BlocksBranchForward'
  BY <1>1, <1>3, <1>4, <1>5, <1>6, RuntimeType, Advance DEF Lands
<1>8. LabelsFresh' BY <1>1, <1>3, FreshKept
<1>9. RuntimePlaced'
  BY <1>1, <1>2 DEF RuntimePlaced, InsertLabels
<1> QED BY <1>7, <1>8, <1>9 DEF IInv

\* A division places normal_div; the runtime has placed the rest.
LEMMA DivOpStep ==
  ASSUME IInv, TypeOK', DivOp PROVE IInv'
<1> DEFINE w == IF CurrentByte <= \h6E THEN "W" ELSE "X"
           op == IF CurrentByte \in {\h6D, \h7F} THEN "sdiv" ELSE "udiv"
<1>1. /\ phase = "jiting" /\ phase' = "jiting" /\ Emit(EmitDivOp(w, op))
      /\ InsertLabel(Fixed("normal_div"), Here + Len(DivChecks(w)))
      /\ UNCHANGED << control_flow_stack, if_label >>
  BY DEF DivOp, AtOpcode
<1>2. op \in {"sdiv", "udiv"} OBVIOUS
<1> HIDE DEF w, op
<1>3. PICK new : InsertLabels(new) /\ DOMAIN new = {Fixed("normal_div")}
  BY <1>1, InsertedOne
<1>4. ~IsNumbered(Fixed("normal_div")) /\ ~IsNumbered(Fixed("preparelongjmp"))
  BY NotNumbered DEF LabelName
<1>5. DivTargets \subseteq Label BY FixedType DEF DivTargets, LabelName
<1>6. OpenLabels' = OpenLabels /\ PendingLabels' = PendingLabels
  BY <1>1 DEF OpenLabels, PendingLabels
<1>7. Fixed("preparelongjmp") \in DOMAIN label_map
  BY <1>1 DEF IInv, RuntimePlaced, RuntimeNames
<1>8. EmitDivOp(w, op) \in Seq(CodeTo(DivTargets)) BY <1>2, DivType
<1>9. PlaceholdersRecorded' /\ BranchesAwaited' /\ BlocksBranchForward'
  BY <1>1, <1>3, <1>4, <1>5, <1>6, <1>7, <1>8, Advance DEF DivTargets, Lands
<1>10. LabelsFresh' BY <1>1, <1>3, <1>4, FreshKept
<1>11. RuntimePlaced'
  BY <1>1, <1>3 DEF IInv, RuntimePlaced, InsertLabels
<1> QED BY <1>9, <1>10, <1>11 DEF IInv

\* The entry opens the block of the body.
LEMMA MainEntryStep ==
  ASSUME IInv, TypeOK', MainEntry PROVE IInv'
<1> DEFINE prologue == PrepareSp \o InitParam \o InitLocal
           block == [label |-> Fixed("end"), signature |-> fn.results]
<1>1. phase = "entry" BY DEF MainEntry
<1>2. CASE Stop("aborted")
  <2>1. Quiet /\ phase' = "aborted" BY <1>2 DEF Stop, Quiet
  <2> QED BY <1>1, <2>1, QuietStep
<1>3. CASE /\ Emit(prologue \o WrapperSetjmp)
           /\ InsertLabel(Fixed("entry"), Here)
           /\ control_flow_stack' = Append(control_flow_stack, block)
           /\ phase' = "jiting"
           /\ UNCHANGED << i, if_label, fixed >>
  <2>1. prologue \in Seq(CodeTo(SetjmpTargets))
    BY PrologueType, CodeToType DEF IInv, TypeOK
  <2> HIDE DEF prologue
  <2>2. prologue \o WrapperSetjmp \in Seq(CodeTo(SetjmpTargets))
    BY <2>1, WrapperSetjmpType, ConcatProperties
  <2>3. SetjmpTargets \subseteq Label BY FixedType DEF SetjmpTargets, LabelName
  <2>4. PICK new : InsertLabels(new) /\ DOMAIN new = {Fixed("entry")}
    BY <1>3, InsertedOne
  <2>5. \A l \in SetjmpTargets \cup {Fixed("entry"), Fixed("end")} : ~IsNumbered(l)
    BY NotNumbered DEF SetjmpTargets, LabelName
  <2>6. SetjmpTargets \subseteq DOMAIN label_map
    BY <1>1 DEF IInv, RuntimePlaced, RuntimeNames, SetjmpTargets
  <2>7. PendingLabels \subseteq DOMAIN new \cup PendingLabels'
    BY <1>1, <1>3, <2>4 DEF PendingLabels
  <2>8. /\ control_flow_stack \in Seq(Block) /\ Len(control_flow_stack) \in Nat
        /\ DOMAIN control_flow_stack = 1 .. Len(control_flow_stack)
    BY LenProperties DEF IInv, TypeOK
  <2>9. block.label = Fixed("end") OBVIOUS
  <2> HIDE DEF block
  <2>10. /\ DOMAIN control_flow_stack' = 1 .. Len(control_flow_stack) + 1
         /\ \A k \in 1 .. Len(control_flow_stack) :
              control_flow_stack'[k] = control_flow_stack[k]
         /\ control_flow_stack'[Len(control_flow_stack) + 1] = block
    BY <1>3, <2>8
  <2>11. OpenLabels \subseteq OpenLabels' BY <2>8, <2>10 DEF OpenLabels
  <2>12. PlaceholdersRecorded' /\ BranchesAwaited' /\ BlocksBranchForward'
    BY <1>1, <1>3, <2>2, <2>3, <2>4, <2>5, <2>6, <2>7, <2>11, Advance DEF Lands
  <2>13. DOMAIN label_map' = DOMAIN label_map \cup {Fixed("entry")}
    BY <2>4 DEF InsertLabels
  <2>14. LabelsFresh'
    <3>1. LabelsFresh BY DEF IInv
    <3>2. if_label' = if_label /\ phase # "ready" BY <1>1, <1>3
    <3> QED BY <2>5, <2>8, <2>9, <2>10, <2>13, <3>1, <3>2
        DEF LabelsFresh, IsNumbered
  <2>15. RuntimePlaced' BY <1>1, <2>13 DEF IInv, RuntimePlaced
  <2> QED BY <2>12, <2>14, <2>15 DEF IInv
<1> QED BY <1>2, <1>3 DEF MainEntry

\* An if opens a block whose label is new.
LEMMA IfOpStep ==
  ASSUME IInv, TypeOK', IfOp PROVE IInv'
<1> DEFINE label == ElseOrEnd(if_label)
           block == [label |-> label, signature |-> SignatureOfBlock[Operand]]
<1>1. /\ phase = "jiting" /\ phase' = "jiting"
      /\ control_flow_stack' = Append(control_flow_stack, block)
      /\ if_label' = if_label + 1 /\ Emit(IfTest(label))
      /\ UNCHANGED label_map
  BY DEF IfOp, AtOpcode, NextLabel
<1>2. if_label \in Nat BY DEF IInv, TypeOK
<1>3. /\ label \in Label /\ IsNumbered(label) /\ label[2] = if_label
      /\ block.label = label
  BY <1>2, NumberedType, NotNumbered DEF IInv
<1> HIDE DEF label, block
<1>4. LabelsFresh BY DEF IInv
<1>5. label \notin DOMAIN label_map BY <1>2, <1>3, <1>4 DEF LabelsFresh
<1>6. PICK new : InsertLabels(new) /\ DOMAIN new = {}
  BY <1>1, InsertedNone DEF IInv
<1>7. /\ control_flow_stack \in Seq(Block) /\ Len(control_flow_stack) \in Nat
      /\ DOMAIN control_flow_stack = 1 .. Len(control_flow_stack)
  BY LenProperties DEF IInv, TypeOK
<1>8. /\ DOMAIN control_flow_stack' = 1 .. Len(control_flow_stack) + 1
      /\ \A k \in 1 .. Len(control_flow_stack) :
           control_flow_stack'[k] = control_flow_stack[k]
      /\ control_flow_stack'[Len(control_flow_stack) + 1] = block
  BY <1>1, <1>7
<1>9. OpenLabels \cup {label} \subseteq OpenLabels'
  BY <1>3, <1>7, <1>8 DEF OpenLabels
<1>10. PendingLabels' = PendingLabels BY <1>1 DEF PendingLabels
<1>11. PlaceholdersRecorded' /\ BranchesAwaited' /\ BlocksBranchForward'
  BY <1>1, <1>3, <1>5, <1>6, <1>9, <1>10, IfTestType, Advance DEF Lands
<1>12. LabelsFresh'
  <2>1. \A k \in 1 .. Len(control_flow_stack) :
          IsNumbered(control_flow_stack[k].label) =>
            control_flow_stack[k].label[2] < if_label
    BY <1>4, <1>7 DEF LabelsFresh
  <2>2. \A l \in DOMAIN label_map : IsNumbered(l) => l[2] < if_label
    BY <1>4 DEF LabelsFresh
  <2>3. ASSUME NEW k \in DOMAIN control_flow_stack',
               IsNumbered(control_flow_stack'[k].label)
        PROVE  /\ control_flow_stack'[k].label[2] < if_label'
               /\ control_flow_stack'[k].label \notin DOMAIN label_map'
               /\ \A j \in DOMAIN control_flow_stack' :
                    control_flow_stack'[j].label = control_flow_stack'[k].label => j = k
    <3>1. CASE k \in 1 .. Len(control_flow_stack)
      <4>1. control_flow_stack'[k] = control_flow_stack[k] BY <1>8, <3>1
      <4>2. /\ control_flow_stack[k].label[2] < if_label
            /\ control_flow_stack[k].label \notin DOMAIN label_map
            /\ \A j \in 1 .. Len(control_flow_stack) :
                 control_flow_stack[j].label = control_flow_stack[k].label => j = k
        BY <1>1, <1>4, <1>7, <2>3, <3>1, <4>1 DEF LabelsFresh
      <4>3. control_flow_stack[k].label # label BY <1>2, <1>3, <4>2
      <4>4. control_flow_stack[k].label[2] < if_label + 1
        <5>1. control_flow_stack[k] \in Block BY <1>7, <3>1, ElementOfSeq
        <5>2. control_flow_stack[k].label[2] \in Nat BY <5>1 DEF Block, Label
        <5> QED BY <1>2, <4>2, <5>2
      <4> QED BY <1>1, <1>3, <1>7, <1>8, <4>1, <4>2, <4>3, <4>4
    <3>2. CASE k = Len(control_flow_stack) + 1
      <4>1. control_flow_stack'[k].label = label BY <1>3, <1>8, <3>2
      <4>2. \A j \in 1 .. Len(control_flow_stack) : control_flow_stack[j].label # label
        BY <1>2, <1>3, <2>1
      <4> QED BY <1>1, <1>2, <1>3, <1>5, <1>7, <1>8, <3>2, <4>1, <4>2
    <3> QED BY <1>7, <1>8, <3>1, <3>2
  <2>4. ASSUME NEW l \in DOMAIN label_map', IsNumbered(l)
        PROVE  l[2] < if_label'
    <3>1. l \in DOMAIN label_map /\ l[2] < if_label BY <1>1, <2>2, <2>4
    <3>2. l[2] \in Nat BY <3>1 DEF IInv, TypeOK, Label
    <3> QED BY <1>1, <1>2, <3>1, <3>2
  <2> QED BY <2>3, <2>4 DEF LabelsFresh, IsNumbered
<1>13. RuntimePlaced' BY <1>1 DEF IInv, RuntimePlaced
<1> QED BY <1>11, <1>12, <1>13 DEF IInv

\* The block on top and the blocks below it.
LEMMA Blocks ==
  ASSUME TypeOK, control_flow_stack # << >>
  PROVE  LET n == Len(control_flow_stack)
         IN /\ n \in Nat \ {0}
            /\ DOMAIN control_flow_stack = 1 .. n
            /\ Top = control_flow_stack[n]
            /\ Below \in Seq(Block) /\ Len(Below) = n - 1 /\ DOMAIN Below = 1 .. n - 1
            /\ \A k \in 1 .. n - 1 : Below[k] = control_flow_stack[k]
            /\ OpenLabels = {Top.label} \cup {Below[k].label : k \in 1 .. n - 1}
<1> DEFINE n == Len(control_flow_stack)
<1>1. control_flow_stack \in Seq(Block) /\ n \in Nat \ {0} /\ Below \in Seq(Block)
  BY StackType DEF TypeOK
<1>2. DOMAIN control_flow_stack = 1 .. n /\ Top = control_flow_stack[n]
  BY <1>1, LenProperties DEF Top
<1>3. \A k \in 1 .. n - 1 : control_flow_stack[k] \in Block
  BY <1>1, ElementOfSeq
<1>4. Len(Below) = n - 1 /\ \A k \in 1 .. n - 1 : Below[k] = control_flow_stack[k]
  <2>1. n - 1 \in Int /\ 1 \in Int /\ n \in Nat \ {0} BY <1>1
  <2>2. /\ Len(SubSeq(control_flow_stack, 1, n - 1))
             = IF 1 <= n - 1 THEN (n - 1) - 1 + 1 ELSE 0
        /\ \A k \in 1 .. (n - 1) - 1 + 1 :
             SubSeq(control_flow_stack, 1, n - 1)[k] = control_flow_stack[1 + k - 1]
    BY <1>3, <2>1, SubSeqProperties
  <2>3. Below = SubSeq(control_flow_stack, 1, n - 1) BY DEF Below
  <2> HIDE DEF n
  <2> QED BY <2>1, <2>2, <2>3
<1>5. DOMAIN Below = 1 .. n - 1 BY <1>1, <1>4, LenProperties
<1>6. OpenLabels = {Top.label} \cup {Below[k].label : k \in 1 .. n - 1}
  <2>1. 1 .. n = {n} \cup 1 .. n - 1 BY <1>1
  <2> QED BY <1>2, <1>4, <2>1 DEF OpenLabels
<1> QED BY <1>1, <1>2, <1>4, <1>5, <1>6

\* An end places the label of the block it closes.
LEMMA EndOpStep ==
  ASSUME IInv, TypeOK', EndOp PROVE IInv'
<1> DEFINE n == Len(control_flow_stack)
<1>1. /\ phase = "jiting" /\ phase' = "jiting" /\ control_flow_stack # << >>
      /\ control_flow_stack' = Below /\ InsertLabel(Top.label, Here)
      /\ UNCHANGED << wasm_instructions, fake_insert_map, if_label >>
  BY DEF EndOp, AtOpcode
<1>2. PICK new : /\ InsertLabels(new) /\ DOMAIN new = {Top.label}
                 /\ new[Top.label] = Here
  BY <1>1, InsertedOne
<1>0. n \in Nat \ {0} BY <1>1, Blocks DEF IInv
<1>3. /\ DOMAIN control_flow_stack = 1 .. n
      /\ Top = control_flow_stack[n]
      /\ DOMAIN Below = 1 .. n - 1
      /\ \A k \in 1 .. n - 1 : Below[k] = control_flow_stack[k]
      /\ OpenLabels = {Top.label} \cup {Below[k].label : k \in 1 .. n - 1}
  BY <1>1, Blocks DEF IInv
<1> HIDE DEF n
<1>4. /\ wasm_instructions \in Seq(Instruction) /\ Here \in Nat
      /\ Here = Len(wasm_instructions)
  BY LenProperties DEF IInv, TypeOK, Here
<1> DEFINE s == << >>
<1>5. s \in Seq(CodeTo({})) /\ Len(s) = 0 BY EmptySeq
<1>6. Emit(s)
  <2>1. wasm_instructions \o s = wasm_instructions BY <1>4, ConcatEmptySeq
  <2>2. Fakes(s, Len(wasm_instructions)) = {} BY NoFakesInNothing
  <2> QED BY <1>1, <2>1, <2>2 DEF Emit
<1> HIDE DEF s
<1>7. OpenLabels' = {Below[k].label : k \in 1 .. n - 1}
  BY <1>1, <1>3 DEF OpenLabels
<1>8. PendingLabels' = PendingLabels BY <1>1 DEF PendingLabels
<1>9. PlaceholdersRecorded' /\ BranchesAwaited' /\ BlocksBranchForward'
  <2>1. \A l \in {} \cup OpenLabels \cup PendingLabels :
          l \in DOMAIN label_map \cup DOMAIN new \cup OpenLabels' \cup PendingLabels'
    BY <1>2, <1>3, <1>7, <1>8
  <2>2. \A l \in DOMAIN new : IsNumbered(l) =>
          new[l] \in Len(wasm_instructions) .. Len(wasm_instructions) + Len(s)
    BY <1>2, <1>4, <1>5
  <2>3. /\ {} \subseteq Label
        /\ \A l \in {} : IsNumbered(l) => l \notin DOMAIN label_map \cup DOMAIN new
    OBVIOUS
  <2>4. /\ phase \notin {"ready", "aborted", "undefined"}
        /\ phase' \notin {"ready", "aborted", "undefined"}
    BY <1>1
  <2>5. Lands({}, new, s) BY <2>1, <2>2, <2>3 DEF Lands
  <2> QED BY <1>2, <1>5, <1>6, <2>3, <2>4, <2>5, Advance
<1>10. DOMAIN label_map' = DOMAIN label_map \cup {Top.label}
  BY <1>2 DEF InsertLabels
<1>11. LabelsFresh'
  <2>1. LabelsFresh BY DEF IInv
  <2>2. \A k \in 1 .. n : IsNumbered(control_flow_stack[k].label) =>
          /\ control_flow_stack[k].label[2] < if_label
          /\ control_flow_stack[k].label \notin DOMAIN label_map
          /\ \A j \in 1 .. n :
               control_flow_stack[j].label = control_flow_stack[k].label => j = k
    BY <1>1, <1>3, <2>1 DEF LabelsFresh
  <2>3. \A k \in 1 .. n - 1 : IsNumbered(Below[k].label) =>
          /\ Below[k].label[2] < if_label
          /\ Below[k].label \notin DOMAIN label_map'
          /\ \A j \in 1 .. n - 1 : Below[j].label = Below[k].label => j = k
    <3> TAKE k \in 1 .. n - 1
    <3> HAVE IsNumbered(Below[k].label)
    <3>1. k \in 1 .. n /\ k # n /\ n \in 1 .. n BY <1>0
    <3>2. Below[k].label # Top.label BY <1>3, <2>2, <3>1
    <3> QED BY <1>3, <1>10, <2>2, <3>1, <3>2
  <2>4. \A l \in DOMAIN label_map' : IsNumbered(l) => l[2] < if_label
    BY <1>0, <1>3, <1>10, <2>1, <2>2 DEF LabelsFresh
  <2>5. /\ control_flow_stack' = Below /\ if_label' = if_label BY <1>1
  <2> QED BY <1>3, <2>3, <2>4, <2>5 DEF LabelsFresh, IsNumbered
<1>12. RuntimePlaced' BY <1>1, <1>10 DEF IInv, RuntimePlaced
<1> QED BY <1>9, <1>11, <1>12 DEF IInv

\* An else branches to a new label, places the old one and reopens the block.
LEMMA ElseOpStep ==
  ASSUME IInv, TypeOK', ElseOp PROVE IInv'
<1> DEFINE n == Len(control_flow_stack)
           label == EndOf(if_label)
           skip == << Fake(label, "b") >>
           block == [label |-> label, signature |-> Top.signature]
<1>1. /\ phase = "jiting" /\ phase' = "jiting" /\ control_flow_stack # << >>
      /\ control_flow_stack' = Append(Below, block)
      /\ if_label' = if_label + 1 /\ Emit(skip)
      /\ InsertLabel(Top.label, Here + Len(skip))
  BY DEF ElseOp, AtOpcode, Reopen, NextLabel
<1>2. if_label \in Nat BY DEF IInv, TypeOK
<1>3. /\ label \in Label /\ IsNumbered(label) /\ label[2] = if_label
      /\ block.label = label
  BY <1>2, NumberedType, NotNumbered DEF IInv
<1>4. skip \in Seq(CodeTo({label})) /\ Len(skip) = 1
  <2>1. Fake(label, "b") \in CodeTo({label}) BY <1>3, FakeInCode DEF Br
  <2> QED BY <2>1
<1>13. block \in Block BY <1>1, <1>3, StackType DEF Block, IInv
<1> HIDE DEF label, skip, block
<1>5. PICK new : /\ InsertLabels(new) /\ DOMAIN new = {Top.label}
                 /\ new[Top.label] = Here + 1
  BY <1>1, <1>4, InsertedOne
<1>0. n \in Nat \ {0} BY <1>1, Blocks DEF IInv
<1>6. /\ DOMAIN control_flow_stack = 1 .. n
      /\ Top = control_flow_stack[n] /\ Below \in Seq(Block)
      /\ Len(Below) = n - 1
      /\ \A k \in 1 .. n - 1 : Below[k] = control_flow_stack[k]
      /\ OpenLabels = {Top.label} \cup {Below[k].label : k \in 1 .. n - 1}
  BY <1>1, Blocks DEF IInv
<1> HIDE DEF n
<1>7. /\ DOMAIN control_flow_stack' = 1 .. n
      /\ \A k \in 1 .. n - 1 : control_flow_stack'[k] = control_flow_stack[k]
      /\ control_flow_stack'[n] = block
  <2>1. n - 1 + 1 = n BY <1>0
  <2>2. /\ Append(Below, block) \in Seq(Block)
        /\ Len(Append(Below, block)) = n - 1 + 1
        /\ \A k \in 1 .. n - 1 : Append(Below, block)[k] = Below[k]
        /\ Append(Below, block)[n - 1 + 1] = block
    BY <1>6, <1>13, AppendProperties
  <2>3. DOMAIN Append(Below, block) = 1 .. n BY <2>1, <2>2, LenProperties
  <2> QED BY <1>1, <1>6, <2>1, <2>2, <2>3
<1>8. Here \in Nat /\ Here = Len(wasm_instructions)
  BY LenProperties DEF IInv, TypeOK, Here
<1>9. \A k \in 1 .. n : IsNumbered(control_flow_stack[k].label) =>
        /\ control_flow_stack[k].label[2] < if_label
        /\ control_flow_stack[k].label[2] \in Nat
        /\ control_flow_stack[k].label \notin DOMAIN label_map
        /\ \A j \in 1 .. n :
             control_flow_stack[j].label = control_flow_stack[k].label => j = k
  <2> TAKE k \in 1 .. n
  <2> HAVE IsNumbered(control_flow_stack[k].label)
  <2>1. control_flow_stack[k] \in Block BY ElementOfSeq DEF n, IInv, TypeOK
  <2>2. control_flow_stack[k].label[2] \in Nat BY <2>1 DEF Block, Label
  <2> QED BY <1>1, <1>6, <2>2 DEF IInv, LabelsFresh
<1>10. \A l \in DOMAIN label_map : IsNumbered(l) => l[2] < if_label /\ l[2] \in Nat
  BY DEF IInv, LabelsFresh, TypeOK, Label
<1>11. label \notin DOMAIN label_map /\ label # Top.label
  <2>1. n \in 1 .. n BY <1>0
  <2>2. IsNumbered(Top.label) => Top.label[2] < if_label /\ Top.label[2] \in Nat
    BY <1>6, <1>9, <2>1
  <2> QED BY <1>2, <1>3, <1>10, <2>2
<1>12. {label} \cup {Below[k].label : k \in 1 .. n - 1} \subseteq OpenLabels'
  <2>1. /\ OpenLabels' = {control_flow_stack'[k].label : k \in 1 .. n}
        /\ n \in 1 .. n /\ 1 .. n - 1 \subseteq 1 .. n
    BY <1>0, <1>7 DEF OpenLabels
  <2> QED BY <1>3, <1>6, <1>7, <2>1
<1>18. PendingLabels' = PendingLabels BY <1>1 DEF PendingLabels
<1>14. PlaceholdersRecorded' /\ BranchesAwaited' /\ BlocksBranchForward'
  <2>1. \A l \in {label} \cup OpenLabels \cup PendingLabels :
          l \in DOMAIN label_map \cup DOMAIN new \cup OpenLabels' \cup PendingLabels'
    BY <1>5, <1>6, <1>12, <1>18
  <2>2. \A l \in DOMAIN new : IsNumbered(l) =>
          new[l] \in Len(wasm_instructions) .. Len(wasm_instructions) + Len(skip)
    BY <1>4, <1>5, <1>8
  <2>3. /\ {label} \subseteq Label
        /\ \A l \in {label} : IsNumbered(l) =>
             l \notin DOMAIN label_map \cup DOMAIN new
    BY <1>3, <1>5, <1>11
  <2>4. /\ phase \notin {"ready", "aborted", "undefined"}
        /\ phase' \notin {"ready", "aborted", "undefined"}
    BY <1>1
  <2>5. Lands({label}, new, skip) BY <2>1, <2>2, <2>3 DEF Lands
  <2> QED BY <1>1, <1>4, <1>5, <2>3, <2>4, <2>5, Advance
<1>15. DOMAIN label_map' = DOMAIN label_map \cup {Top.label}
  BY <1>5 DEF InsertLabels
<1>16. LabelsFresh'
  <2>1. ASSUME NEW k \in 1 .. n, IsNumbered(control_flow_stack'[k].label)
        PROVE  /\ control_flow_stack'[k].label[2] < if_label + 1
               /\ control_flow_stack'[k].label \notin DOMAIN label_map'
               /\ \A j \in 1 .. n :
                    control_flow_stack'[j].label = control_flow_stack'[k].label => j = k
    <3>1. CASE k \in 1 .. n - 1
      <4>1. control_flow_stack'[k] = control_flow_stack[k] BY <1>7, <3>1
      <4>2. control_flow_stack[k].label # Top.label
        BY <1>0, <1>6, <1>9, <2>1, <3>1, <4>1
      <4>3. control_flow_stack[k].label # label BY <1>2, <1>3, <1>9, <2>1, <4>1
      <4>4. /\ control_flow_stack[k].label[2] < if_label
            /\ control_flow_stack[k].label[2] \in Nat
            /\ control_flow_stack[k].label \notin DOMAIN label_map
            /\ \A j \in 1 .. n :
                 control_flow_stack[j].label = control_flow_stack[k].label => j = k
        BY <1>9, <2>1, <4>1
      <4>5. control_flow_stack[k].label[2] < if_label + 1 BY <1>2, <4>4
      <4>6. \A j \in 1 .. n :
              control_flow_stack'[j].label = control_flow_stack[k].label => j = k
        <5> TAKE j \in 1 .. n
        <5>1. j \in 1 .. n - 1 \/ j = n BY <1>0
        <5> QED BY <1>3, <1>7, <4>3, <4>4, <5>1
      <4> QED BY <1>15, <4>1, <4>2, <4>4, <4>5, <4>6
    <3>2. CASE k = n
      <4>1. control_flow_stack'[k].label = label BY <1>3, <1>7, <3>2
      <4>2. \A j \in 1 .. n - 1 : control_flow_stack[j].label # label
        BY <1>0, <1>2, <1>3, <1>6, <1>9
      <4> QED BY <1>0, <1>2, <1>3, <1>7, <1>11, <1>15, <3>2, <4>1, <4>2
    <3> QED BY <1>0, <3>1, <3>2
  <2>2. \A l \in DOMAIN label_map' : IsNumbered(l) => l[2] < if_label + 1
    <3> TAKE l \in DOMAIN label_map'
    <3> HAVE IsNumbered(l)
    <3>1. l[2] < if_label /\ l[2] \in Nat BY <1>0, <1>6, <1>9, <1>10, <1>15
    <3> QED BY <1>2, <3>1
  <2> QED BY <1>1, <1>7, <2>1, <2>2 DEF LabelsFresh, IsNumbered
<1>17. RuntimePlaced' BY <1>1, <1>15 DEF IInv, RuntimePlaced
<1> QED BY <1>14, <1>16, <1>17 DEF IInv

\* The epilogue places finalize.
LEMMA EpilogueStep ==
  ASSUME IInv, TypeOK', Epilogue PROVE IInv'
<1> DEFINE code == StoreReturnCode0 \o RestoreSp \o << EncodeReturn >>
<1>1. phase = "jiting" BY DEF Epilogue
<1>2. CASE Stop("aborted")
  <2>1. Quiet /\ phase' = "aborted" BY <1>2 DEF Stop, Quiet
  <2> QED BY <1>1, <2>1, QuietStep
<1>3. CASE /\ Emit(code)
           /\ InsertLabel(Fixed("finalize"), Here + Len(StoreReturnCode0))
           /\ phase' = "fixup"
           /\ UNCHANGED << i, control_flow_stack, if_label, fixed >>
  <2>1. /\ StoreReturnCode0 \in Seq(Encoded) /\ RestoreSp \in Seq(Encoded)
        /\ << EncodeReturn >> \in Seq(Encoded)
    BY SmallFragmentsType, RestoreSpType, MovEncoderType DEF IInv, TypeOK
  <2>2. code \in Seq(Encoded) BY <2>1, ConcatProperties
  <2> HIDE DEF code
  <2>3. code \in Seq(CodeTo({})) BY <2>2, CodeToType
  <2>4. PICK new : InsertLabels(new) /\ DOMAIN new = {Fixed("finalize")}
    BY <1>3, InsertedOne
  <2>5. ~IsNumbered(Fixed("finalize")) BY NotNumbered DEF LabelName
  <2>6. OpenLabels' = OpenLabels /\ PendingLabels \subseteq DOMAIN new
    BY <1>1, <1>3, <2>4 DEF OpenLabels, PendingLabels
  <2>7. PlaceholdersRecorded' /\ BranchesAwaited' /\ BlocksBranchForward'
    BY <1>1, <1>3, <2>3, <2>4, <2>5, <2>6, Advance DEF Lands
  <2>8. LabelsFresh' BY <1>1, <1>3, <2>4, <2>5, FreshKept
  <2>9. RuntimePlaced'
    BY <1>1, <1>3, <2>4 DEF IInv, RuntimePlaced, InsertLabels
  <2> QED BY <2>7, <2>8, <2>9 DEF IInv
<1> QED BY <1>2, <1>3 DEF Epilogue

\* The fix-up leaves no placeholder: each one is listed, and what replaces it
\* is an instruction.
LEMMA FixUpStep ==
  ASSUME IInv, TypeOK', FixUpFakeBranch PROVE IInv'
<1>1. /\ phase = "fixup" /\ phase' = "ready" /\ label_map' = LabelsRead
      /\ UNCHANGED << fake_insert_map, control_flow_stack, if_label >>
  BY DEF FixUpFakeBranch
<1>2. DOMAIN label_map' = DOMAIN label_map \cup {f.label : f \in fake_insert_map}
  BY <1>1 DEF LabelsRead
<1>3. PlaceholdersRecorded'
  <2>1. ASSUME NEW k \in 1 .. Len(wasm_instructions), wasm_instructions[k].op = "fake"
        PROVE  \E f \in fake_insert_map : f.at = k - 1
    <3>1. Fakes(wasm_instructions, 0) = fake_insert_map
      BY <1>1 DEF IInv, PlaceholdersRecorded
    <3> DEFINE f == [label |-> wasm_instructions[k].label, at |-> 0 + k - 1,
                     br |-> wasm_instructions[k].c]
    <3>2. f \in fake_insert_map BY <2>1, <3>1 DEF Fakes
    <3>3. f.at = k - 1 OBVIOUS
    <3> QED BY <3>2, <3>3
  <2>2. /\ Len(wasm_instructions') = Len(wasm_instructions)
        /\ \A k \in 1 .. Len(wasm_instructions) :
             (\E f \in fake_insert_map : f.at = k - 1)
               => wasm_instructions'[k] \in Encoded
    BY FixUpType DEF IInv
  <2>3. ASSUME NEW k \in 1 .. Len(wasm_instructions) PROVE wasm_instructions'[k].op # "fake"
    <3>1. CASE \E f \in fake_insert_map : f.at = k - 1
      BY <2>2, <3>1 DEF Encoded, Operation
    <3>2. CASE ~ \E f \in fake_insert_map : f.at = k - 1
      <4>1. wasm_instructions'[k] = wasm_instructions[k]
        BY <3>2 DEF FixUpFakeBranch
      <4> QED BY <2>1, <3>2, <4>1
    <3> QED BY <3>1, <3>2
  <2>4. Fakes(wasm_instructions', 0) = {} BY <2>2, <2>3 DEF Fakes
  <2> QED BY <1>1, <2>4 DEF PlaceholdersRecorded
<1>4. BranchesAwaited' BY <1>1, <1>2 DEF BranchesAwaited
<1>5. LabelsFresh'
  <2>1. \A f \in fake_insert_map : IsNumbered(f.label) => f.label[2] < if_label
    BY <1>1, AwaitedNumbers
  <2>2. LabelsFresh BY DEF IInv
  <2> QED BY <1>1, <1>2, <2>1, <2>2 DEF LabelsFresh, IsNumbered
<1>6. BlocksBranchForward' BY <1>1 DEF BlocksBranchForward
<1>7. RuntimePlaced' BY <1>1 DEF RuntimePlaced
<1> QED BY <1>3, <1>4, <1>5, <1>6, <1>7 DEF IInv

\* The reset empties the code, its maps and what refers to them.
LEMMA ResetStep ==
  ASSUME IInv, TypeOK', ResetAfterExecution PROVE IInv'
<1>1. /\ phase' = "idle" /\ wasm_instructions' = << >>
      /\ fake_insert_map' = {} /\ DOMAIN label_map' = {}
      /\ UNCHANGED << control_flow_stack, if_label >>
  BY DEF ResetAfterExecution, Clear
<1>2. PlaceholdersRecorded' BY <1>1, NoFakesInNothing DEF PlaceholdersRecorded
<1>3. LabelsFresh' BY <1>1 DEF IInv, LabelsFresh, IsNumbered
<1>4. BranchesAwaited' /\ BlocksBranchForward' /\ RuntimePlaced'
  BY <1>1 DEF BranchesAwaited, BlocksBranchForward, RuntimePlaced
<1> QED BY <1>2, <1>3, <1>4 DEF IInv

\* The opcodes whose code has no branch.
LEMMA PlainOpcodesStep ==
  ASSUME IInv, TypeOK', PlainOpcodes PROVE IInv'
<1>1. TypeOK BY DEF IInv
<1>2. /\ phase = "jiting"
      /\ \E s \in Seq(Encoded) : \E size \in 1 .. 2 : Emitted(s, size)
  BY <1>1, PlainOpcodesEmit
<1> QED BY <1>2, EmittedStep

\* A stuttering step changes nothing.
LEMMA StutterStep ==
  ASSUME IInv, TypeOK', UNCHANGED vars PROVE IInv'
<1>1. /\ PlaceholdersRecorded' /\ RuntimePlaced' /\ BranchesAwaited'
  BY DEF vars, IInv, PlaceholdersRecorded, RuntimePlaced, BranchesAwaited,
         OpenLabels, PendingLabels
<1>2. LabelsFresh' /\ BlocksBranchForward'
  BY DEF vars, IInv, LabelsFresh, BlocksBranchForward, IsNumbered
<1> QED BY <1>1, <1>2 DEF IInv

\* Base case.
LEMMA IInvInit ==
  ASSUME Init PROVE IInv
<1>1. /\ phase = "idle" /\ wasm_instructions = << >> /\ fake_insert_map = {}
      /\ DOMAIN label_map = {} /\ DOMAIN control_flow_stack = {}
  BY DEF Init
<1>2. PlaceholdersRecorded BY <1>1, NoFakesInNothing DEF PlaceholdersRecorded
<1>3. RuntimePlaced /\ BranchesAwaited /\ LabelsFresh /\ BlocksBranchForward
  BY <1>1 DEF RuntimePlaced, BranchesAwaited, LabelsFresh, BlocksBranchForward
<1> QED BY <1>2, <1>3, InitType DEF IInv

\* Every step keeps the invariant.
LEMMA IInvStep ==
  ASSUME IInv, [Next]_vars PROVE IInv'
<1>0. TypeOK' BY TypeStep DEF IInv
<1>1. CASE UNCHANGED vars BY <1>0, <1>1, StutterStep
<1>2. CASE Opcodes
  BY <1>0, <1>2, PlainOpcodesStep, QuietActions, DivOpStep, IfOpStep,
     ElseOpStep, EndOpStep DEF Opcodes, PlainOpcodes
<1>3. CASE Translate
  BY <1>0, <1>2, <1>3, QuietActions, EmitRuntimeStep, MainEntryStep,
     EpilogueStep, FixUpStep DEF Translate
<1>4. CASE ResetAfterExecution BY <1>0, <1>4, ResetStep
<1> QED BY <1>1, <1>3, <1>4 DEF Next

(***************************************************************************)
(* The theorems.                                                           *)
(***************************************************************************)
\* The inductive invariant: every conjunct needs another one.  What fixes up
\* the code (fixUpfakeBranch) may trust fake_insert_map, what opens and
\* closes blocks (emitIf, emitElse, emitEnd) may trust label_map, because the
\* two are kept together over the whole of processCodeVec.
THEOREM IInvCorrect == Spec => []IInv
<1>1. Init => IInv BY IInvInit
<1>2. IInv /\ [Next]_vars => IInv' BY IInvStep
<1> QED BY <1>1, <1>2, PTL DEF Spec

\* fake_insert_map lists exactly the placeholders in the code, at their
\* places, until fixUpfakeBranch leaves none: whatever function is
\* translated, and after any number of calls and resets.
THEOREM PlaceholdersCorrect == Spec => []PlaceholdersRecorded
<1>1. IInv => PlaceholdersRecorded BY DEF IInv
<1> QED BY <1>1, IInvCorrect, PTL

\* The label of an open block is its own and is not placed yet (emitIf,
\* emitElse, insertLabel), for blocks nested or in sequence to any depth and
\* over any number of calls, left open by an earlier call or not.
THEOREM LabelsCorrect == Spec => []LabelsFresh
<1>1. IInv => LabelsFresh BY DEF IInv
<1> QED BY <1>1, IInvCorrect, PTL

\* A placed branch of if or else goes forward (emitBranchToLabel and
\* insertLabel): no block of any function becomes a loop.
THEOREM BlocksCorrect == Spec => []BlocksBranchForward
<1>1. IInv => BlocksBranchForward BY DEF IInv
<1> QED BY <1>1, IInvCorrect, PTL

\* No branch is emitted to a label that nothing will place: each of
\* fake_insert_map is of label_map, of an open block or of code to come.
THEOREM AwaitedCorrect == Spec => []BranchesAwaited
<1>1. IInv => BranchesAwaited BY DEF IInv
<1> QED BY <1>1, IInvCorrect, PTL

\* A function whose blocks are all closed reaches fixUpfakeBranch with every
\* label it looks up in label_map.
THEOREM BranchesCorrect == Spec => []BranchesResolved
<1>1. BranchesAwaited => BranchesResolved
  <2> SUFFICES ASSUME BranchesAwaited, phase = "fixup", control_flow_stack = << >>
               PROVE  {f.label : f \in fake_insert_map} \subseteq DOMAIN label_map
    BY DEF BranchesResolved
  <2>1. OpenLabels = {} /\ PendingLabels = {} BY DEF OpenLabels, PendingLabels
  <2> QED BY <2>1 DEF BranchesAwaited
<1> QED BY <1>1, AwaitedCorrect, PTL

\* fixUpfakeBranch is the only step from phase fixup.
LEMMA OnlyFixUp ==
  ASSUME [Next]_vars, phase = "fixup"
  PROVE  FixUpFakeBranch \/ UNCHANGED vars
BY DEF Next, Translate, Opcodes, PrepareParams, LoadParam, BeginProcess,
       LocalVarInitialize, EmitRuntime, MainEntry, Epilogue,
       ResetAfterExecution, ReadPastEnd, Nop, Ret, CommonLocalOp, TooBigIndex,
       Const, FloatConst, CompareOp, ArithOp, DivOp, IfOp, UnsupportedBlock,
       ElseOp, EndOp, NoOpenBlock, UnsupportedOpcode, AtOpcode

\* fixUpfakeBranch replaces eight characters for eight, and only where a
\* placeholder stands: the code keeps its length and every real instruction.
THEOREM FixUpCorrect == Spec => FixUpTouchesOnlyPlaceholders
<1> DEFINE Touches ==
      phase = "fixup" =>
        /\ Len(wasm_instructions') = Len(wasm_instructions)
        /\ \A k \in DOMAIN wasm_instructions :
             wasm_instructions'[k] # wasm_instructions[k] =>
               wasm_instructions[k].op = "fake"
<1>1. ASSUME IInv, [Next]_vars PROVE [Touches]_vars
  <2> SUFFICES ASSUME phase = "fixup", FixUpFakeBranch PROVE Touches
    BY <1>1, OnlyFixUp
  <2>1. Len(wasm_instructions') = Len(wasm_instructions)
    BY <1>1, FixUpType DEF IInv
  <2>2. \A f \in fake_insert_map : wasm_instructions[f.at + 1].op = "fake" /\ f.at \in Nat
    BY <1>1, EntriesInCode DEF IInv
  <2>3. DOMAIN wasm_instructions = 1 .. Len(wasm_instructions)
    BY <1>1, LenProperties DEF IInv, TypeOK
  <2>4. ASSUME NEW k \in DOMAIN wasm_instructions,
               wasm_instructions'[k] # wasm_instructions[k]
        PROVE  wasm_instructions[k].op = "fake"
    <3>1. PICK f \in fake_insert_map : f.at = k - 1
      BY <2>3, <2>4 DEF FixUpFakeBranch
    <3>2. f.at + 1 = k BY <2>2, <2>3, <3>1
    <3> QED BY <2>2, <3>2
  <2> QED BY <2>1, <2>4
<1>2. IInv /\ [Next]_vars => [Touches]_vars BY <1>1
<1> QED BY <1>2, IInvCorrect, PTL DEF Spec, FixUpTouchesOnlyPlaceholders
=============================================================================
