---------------------------- MODULE WasmFunction ----------------------------
(***************************************************************************)
(* The translator: class WasmFunction of include/Wasm/*.hpp.  One function *)
(* object is translated to ARM64 code, executed, reset, and translated     *)
(* again at the next call.                                                 *)
(*                                                                         *)
(* The source grows a string by eight characters per instruction; here     *)
(* wasm_instructions is a sequence of instructions and a location is the   *)
(* number of instructions emitted before it (the source divides by 8 when  *)
(* it computes an offset).  A forward branch is emitted as a placeholder   *)
(* and remembered in fake_insert_map; labels are remembered in label_map;  *)
(* fixUpfakeBranch patches the placeholders at the end.                    *)
(***************************************************************************)
EXTENDS Opcode, FiniteSets

CONSTANTS
  Bodies,     \* the functions to translate, as the parser leaves them
  MaxCalls    \* bound on the number of calls of the function object

Byte == 0 .. 255
Type == {"i", "l", "f", "d"}    \* typeid(value).name()[0] of a wasm_type

\* inputs is the set of argument tuples a caller may put in param_data.
ASSUME BodiesAssumption ==
  /\ \A b \in Bodies :
       /\ b.code_vec \in Seq(Byte)
       /\ b.local_var_declare_count \in Nat
       /\ b.params \in Seq(Type)
       /\ b.results \in Seq(Type)
       /\ \A a \in b.inputs : Len(a) = Len(b.params) /\ a \in Seq(Nat)
  /\ MaxCalls \in Nat

VARIABLES
  phase,               \* how far processCodeVec is
  fn,                  \* the function: code_vec and its type
  param_data,          \* the arguments of this call
  i,                   \* index in code_vec of the next byte (from 0)
  iter,                \* how often the loop in progress has run
  local_data,          \* types of the local variables
  pre_instructions,    \* pre_instructions_for_param_loading
  wasm_instructions,
  fake_insert_map,     \* set of [label, at, br]: placeholders to patch
  label_map,           \* label -> location
  control_flow_stack,  \* sequence of [label, signature]
  if_label,            \* counter that makes the labels of ifs unique
  calls                \* calls completed

vars == << phase, fn, param_data, i, iter, local_data, pre_instructions,
           wasm_instructions, fake_insert_map, label_map, control_flow_stack,
           if_label, calls >>

\* What no step of the translation of the body assigns.
fixed == << fn, param_data, iter, local_data, pre_instructions, calls >>

(***************************************************************************)
(* Registers with a role, and the scratch register of the emitters.        *)
(***************************************************************************)
REG_BUFFER == 19
REG_WASM_STACK == 20
REG_POINTER_WASM_STACK == 21

(***************************************************************************)
(* Labels are strings in the source; a numbered label is a prefix and the  *)
(* value of if_label when it was made.                                     *)
(***************************************************************************)
Fixed(name) == << name, 0 >>
ElseOrEnd(k) == << "Else/End_", k >>
EndOf(k) == << "End_", k >>
IsNumbered(label) == label[1] \in {"Else/End_", "End_"}

\* fakeInsertBranch: a placeholder that remembers what it stands for.
Fake(label, br) ==
  [op |-> "fake", w |-> "W", d |-> 0, n |-> 0, m |-> 0, imm |-> 0, c |-> br,
   label |-> label]

\* The entries a fragment emitted at a location adds to fake_insert_map.
Fakes(fragment, at) ==
  { [label |-> fragment[k].label, at |-> at + k - 1, br |-> fragment[k].c] :
      k \in { k \in 1 .. Len(fragment) : fragment[k].op = "fake" } }

\* Mutant: the location is taken after the code is appended.
EmitLate(fragment) ==
  /\ wasm_instructions' = wasm_instructions \o fragment
  /\ fake_insert_map' =
       fake_insert_map \cup Fakes(fragment, Len(wasm_instructions) + 1)

Emit(fragment) ==
  /\ wasm_instructions' = wasm_instructions \o fragment
  /\ fake_insert_map' =
       fake_insert_map \cup Fakes(fragment, Len(wasm_instructions))

\* insertLabel, for each label of new in turn: unordered_map::insert keeps
\* the entry of a label it already has.
InsertLabels(new) ==
  label_map' = [l \in DOMAIN label_map \cup DOMAIN new |->
                  IF l \in DOMAIN label_map THEN label_map[l] ELSE new[l]]

InsertLabel(label, location) == InsertLabels([l \in {label} |-> location])

Here == Len(wasm_instructions)

(***************************************************************************)
(* Stack.hpp and Initialize.hpp: where each variable lives.                *)
(***************************************************************************)
RegTypeOf(type) == CASE type = "i" -> "W" [] type = "l" -> "X"
                     [] type = "f" -> "S" [] type = "d" -> "D"

\* allocateVar over types[k], types[k+1], ...: 8 bytes for a double, 4 for
\* every other type (i64 included).
Bytes(types, k) ==
  4 * (Len(types) + 1 - k)
    + 4 * Cardinality({j \in k .. Len(types) : types[j] = "d"})

LocalStackStart == Bytes(fn.params, 1) + 8
LocalStackEnd == LocalStackStart + Bytes(local_data, 1)

\* Mutant: rounded down.
StackSizeDown == 16 * (LocalStackEnd \div 16)

\* getStackPreallocateSize rounds up to 16.
StackSize == 16 * ((LocalStackEnd + 15) \div 16)

\* vecToStack: initParam and initLocal start at the end location and go
\* down by the size of each variable after placing it.  k counts from 1.
ParamOffset(k) == Bytes(fn.params, k)
\* Mutant: the offset is not moved from one local to the next.
LocalOffsetFixed(k) == LocalStackEnd

LocalOffset(k) == LocalStackStart + Bytes(local_data, k)

VarCount == Len(fn.params) + Len(local_data)

\* regTypeGetter and vecToStack of variable v (from 0) of the function.
Var(v) ==
  IF v < Len(fn.params)
    THEN [reg |-> RegTypeOf(fn.params[v + 1]), offset |-> ParamOffset(v + 1)]
    ELSE LET k == v - Len(fn.params) + 1
         IN [reg |-> RegTypeOf(local_data[k]), offset |-> LocalOffset(k)]

PrepareSp == << EncodeAddSubImm("sub", SP, SP, StackSize) >>

\* The k-th general parameter arrives in x(k-1).
InitParam ==
  [k \in 1 .. Len(fn.params) |->
     EncodeLoadStoreImm(RegTypeOf(fn.params[k]), "str", k - 1, SP,
                        ParamOffset(k))]

\* Mutant: locals are not initialised.
InitLocalNothing == << >>

\* Every local starts as zero (wzr or xzr).
InitLocal ==
  [k \in 1 .. Len(local_data) |->
     EncodeLoadStoreImm(IF local_data[k] \in {"l", "d"} THEN "X" ELSE "W",
                        "str", 31, SP, LocalOffset(k))]

Push(regType, reg) ==
  << EncodeLoadStoreReg(regType, "str", reg, REG_WASM_STACK,
                        REG_POINTER_WASM_STACK),
     EncodeAddSubImm("add", REG_POINTER_WASM_STACK, REG_POINTER_WASM_STACK, 8) >>

Pop(regType, reg) ==
  << EncodeAddSubImm("sub", REG_POINTER_WASM_STACK, REG_POINTER_WASM_STACK, 8),
     EncodeLoadStoreReg(regType, "ldr", reg, REG_WASM_STACK,
                        REG_POINTER_WASM_STACK) >>

\* With isTee the value stays on the stack.
PopTee(regType, reg) ==
  Pop(regType, reg)
  \o << EncodeAddSubImm("add", REG_POINTER_WASM_STACK, REG_POINTER_WASM_STACK, 8) >>

\* restoreSP: the top of the stack goes to x0, the next result to x1, ...
RestoreSp ==
  [k \in 1 .. 2 * Len(fn.results) |->
     LET r == (k + 1) \div 2
     IN Pop(RegTypeOf(fn.results[r]), r - 1)[IF k % 2 = 1 THEN 1 ELSE 2]]
  \o << EncodeAddSubImm("add", SP, SP, StackSize) >>

(***************************************************************************)
(* What each emitter appends.                                              *)
(***************************************************************************)
BackupRegisters ==
  << EncodeMovRegister(REG_BUFFER, 0), EncodeMovRegister(REG_WASM_STACK, 1),
     EncodeMovz(REG_POINTER_WASM_STACK, 0, "X") >>

MovInt(regType, rd, value) ==
  IF regType = "X" THEN WrapperEncodeMovInt64(rd, value)
                   ELSE WrapperEncodeMovInt32(rd, value)

BranchToEntry == << Fake(Fixed("entry"), "b") >>

PrepareLongJmp ==
  << EncodeMovRegister(14, 30), EncodeMovSP(15, SP),
     EncodeMovRegister(0, REG_BUFFER), Fake(Fixed("longjmp"), "b") >>

\* Mutant: sp is left as longjmp restored it.
RaiseExceptionKeepSp ==
  << EncodeMovRegister(30, 14), EncodeMovz(11, 1, "X"),
     EncodeLoadStoreImm("X", "str", 11, REG_BUFFER, 0),
     Fake(Fixed("finalize"), "b") >>

RaiseException ==
  << EncodeMovRegister(30, 14), EncodeMovSP(SP, 15), EncodeMovz(11, 1, "X"),
     EncodeLoadStoreImm("X", "str", 11, REG_BUFFER, 0),
     Fake(Fixed("finalize"), "b") >>

\* The code in front of every function, and the labels inside it.
Runtime == BranchToEntry \o GetSetJmpInstr \o PrepareLongJmp
             \o GetLongJmpInstr \o RaiseException

RuntimeLabels ==
  LET setjmp == Here + Len(BranchToEntry)
      preparelongjmp == setjmp + Len(GetSetJmpInstr)
      longjmp == preparelongjmp + Len(PrepareLongJmp)
      raiseException == longjmp + Len(GetLongJmpInstr)
  IN [l \in {Fixed("setjmp"), Fixed("preparelongjmp"), Fixed("longjmp"),
             Fixed("raiseException")} |->
        CASE l = Fixed("setjmp") -> setjmp
          [] l = Fixed("preparelongjmp") -> preparelongjmp
          [] l = Fixed("longjmp") -> longjmp
          [] OTHER -> raiseException]

WrapperSetjmp ==
  << EncodeLdpStp("str", 29, 30, SP, -32, "PreIndex"),
     EncodeMovRegister(0, REG_BUFFER),
     Fake(Fixed("setjmp"), "bl"),
     EncodeCompareImm("X", 0, 0),
     Fake(Fixed("raiseException"), "bne"),
     EncodeLdpStp("ldr", 29, 30, SP, 32, "PostIndex") >>

EmitGet(var) ==
  << EncodeLoadStoreImm(var.reg, "ldr", 11, SP, var.offset) >>
  \o Push(var.reg, 11)

EmitSet(var) ==
  Pop(var.reg, 11) \o << EncodeLoadStoreImm(var.reg, "str", 11, SP, var.offset) >>

EmitTee(var) ==
  PopTee(var.reg, 11) \o << EncodeLoadStoreImm(var.reg, "str", 11, SP, var.offset) >>

EmitConst(regType, value) == MovInt(regType, 11, value) \o Push(regType, 11)

EmitCompareOp(regType, cond) ==
  << EncodeMovz(3, 1, "X"), EncodeMovz(4, 0, "X") >>
  \o Pop(regType, 12) \o Pop(regType, 11)
  \o << EncodeCompareShift(regType, 11, 12), EncodeCSEL(0, 3, 4, cond) >>
  \o Push("X", 0)

\* The second operand is on top of the stack: it goes to r11, the first
\* to r12.
\* Mutant: the operands change places.
PopOperandsSwapped(regType) == Pop(regType, 12) \o Pop(regType, 11)

PopOperands(regType) == Pop(regType, 11) \o Pop(regType, 12)

EmitArithOp(regType, op) ==
  PopOperands(regType)
  \o << CASE op = "+" -> EncodeAddSubShift("addr", regType, 11, 12, 11)
          [] op = "-" -> EncodeAddSubShift("subr", regType, 11, 12, 11)
          [] op = "*" -> EncodeMul(regType, 11, 12, 11) >>
  \o Push(regType, 11)

\* To preparelongjmp if the divisor is 0, or if it is -1 and the dividend
\* is the least integer; the other two branches go to normal_div.
MinInt(regType) == IF regType = "X" THEN -(XWordBase \div 2) ELSE -(WordBase \div 2)

DivChecks(regType) ==
  PopOperands(regType)
  \o << EncodeCompareImm(regType, 11, 0), Fake(Fixed("preparelongjmp"), "beq") >>
  \o MovInt(regType, 5, -1)
  \o << EncodeCompareShift(regType, 11, 5), Fake(Fixed("normal_div"), "bne") >>
  \o MovInt(regType, 5, MinInt(regType))
  \o << EncodeCompareShift(regType, 12, 5), Fake(Fixed("normal_div"), "bne"),
        Fake(Fixed("preparelongjmp"), "b") >>

EmitDivOp(regType, op) ==
  DivChecks(regType) \o << EncodeDiv(op, regType, 11, 12, 11) >>
  \o Push(regType, 11)

\* pop with tee: the condition is read and stays on the stack.
IfTest(label) ==
  PopTee("W", 11) \o << EncodeCompareImm("W", 11, 0), Fake(label, "beq") >>

StoreReturnCode0 ==
  << EncodeMovz(11, 0, "X"), EncodeLoadStoreImm("X", "str", 11, REG_BUFFER, 0) >>

(***************************************************************************)
(* The steps.  One step is one operation of the source: a call that emits  *)
(* a fragment, or one pass through a loop.  Nothing catches what these     *)
(* operations throw, so a throw ends the program ("aborted"); reading past *)
(* code_vec or popping the empty control stack is undefined behaviour, and *)
(* nothing is said of what follows ("undefined").                          *)
(***************************************************************************)
Init ==
  /\ phase = "idle"
  /\ fn \in Bodies
  /\ param_data = << >> /\ local_data = << >>
  /\ i = 0 /\ iter = 0
  /\ pre_instructions = << >> /\ wasm_instructions = << >>
  /\ fake_insert_map = {} /\ label_map = << >>
  /\ control_flow_stack = << >>
  /\ if_label = 0 /\ calls = 0

Stop(how) ==
  /\ phase' = how
  /\ UNCHANGED << i, wasm_instructions, fake_insert_map, label_map,
                  control_flow_stack, if_label, fixed >>

\* The caller has put the arguments in param_data; prepareParams begins.
PrepareParams ==
  /\ phase = "idle" /\ calls < MaxCalls
  /\ param_data' \in fn.inputs
  /\ pre_instructions' = pre_instructions \o BackupRegisters
  /\ i' = 0 /\ iter' = 0
  /\ phase' = "params"
  /\ UNCHANGED << fn, local_data, wasm_instructions, fake_insert_map,
                  label_map, control_flow_stack, if_label, calls >>

\* One argument to its register; floats throw, and so does a register
\* number that does not fit in its field.
LoadParam ==
  /\ phase = "params" /\ iter < Len(fn.params)
  /\ LET mov == MovInt(RegTypeOf(fn.params[iter + 1]), iter, param_data[iter + 1])
     IN IF fn.params[iter + 1] \in {"i", "l"} /\ Encodable(mov[1])
          THEN /\ pre_instructions' = pre_instructions \o mov
               /\ iter' = iter + 1
               /\ UNCHANGED << phase, fn, param_data, i, local_data,
                     wasm_instructions, fake_insert_map, label_map,
                     control_flow_stack, if_label, calls >>
          ELSE Stop("aborted")

BeginProcess ==
  /\ phase = "params" /\ iter = Len(fn.params)
  /\ phase' = "locals"
  /\ iter' = 0
  /\ UNCHANGED << fn, param_data, i, local_data, pre_instructions,
                  wasm_instructions, fake_insert_map, label_map,
                  control_flow_stack, if_label, calls >>

\* One local declaration: a count and a type.  A type add_data does not
\* know adds nothing.
TypeOfByte == [b \in {\h7F, \h7E, \h7D, \h7C} |->
                 CASE b = \h7F -> "i" [] b = \h7E -> "l"
                   [] b = \h7D -> "f" [] b = \h7C -> "d"]

\* Mutant: a type that is not known is added all the same, as no type.
AddLocalsUnknown(count, type) ==
  local_data' = local_data \o
    [k \in 1 .. count |-> IF type \in DOMAIN TypeOfByte THEN TypeOfByte[type]
                          ELSE "void"]

AddLocals(count, type) ==
  local_data' = IF type \in DOMAIN TypeOfByte
                  THEN local_data \o [k \in 1 .. count |-> TypeOfByte[type]]
                  ELSE local_data

LocalVarInitialize ==
  /\ phase = "locals" /\ iter < fn.local_var_declare_count
  /\ IF i + 2 <= Len(fn.code_vec)
       THEN /\ AddLocals(fn.code_vec[i + 1], fn.code_vec[i + 2])
            /\ i' = i + 2 /\ iter' = iter + 1
            /\ UNCHANGED << phase, fn, param_data, pre_instructions,
                  wasm_instructions, fake_insert_map, label_map,
                  control_flow_stack, if_label, calls >>
       ELSE Stop("undefined")

EmitRuntime ==
  /\ phase = "locals" /\ iter = fn.local_var_declare_count
  /\ Emit(Runtime)
  /\ InsertLabels(RuntimeLabels)
  /\ phase' = "entry"
  /\ UNCHANGED << i, control_flow_stack, if_label, fixed >>

\* Label entry, main_entry_initialize, wrapper_setjmp, and the control
\* stack element that the final end pops.
MainEntry ==
  LET prologue == PrepareSp \o InitParam \o InitLocal
  IN /\ phase = "entry"
     /\ IF \A k \in 1 .. Len(prologue) : Encodable(prologue[k])
          THEN /\ Emit(prologue \o WrapperSetjmp)
               /\ InsertLabel(Fixed("entry"), Here)
               /\ control_flow_stack' =
                    Append(control_flow_stack,
                           [label |-> Fixed("end"), signature |-> fn.results])
               /\ phase' = "jiting"
               /\ UNCHANGED << i, if_label, fixed >>
          ELSE Stop("aborted")

(***************************************************************************)
(* jiting_wasm_code: one step per opcode.                                  *)
(***************************************************************************)
AtOpcode(bytes) ==
  phase = "jiting" /\ i < Len(fn.code_vec) /\ fn.code_vec[i + 1] \in bytes

CurrentByte == fn.code_vec[i + 1]
Operand == fn.code_vec[i + 2]

CompareOps == \h46 .. \h4F \cup \h51 .. \h5A
ArithOps == {\h6A, \h6B, \h6C, \h7C, \h7D, \h7E}
DivOps == {\h6D, \h6E, \h7F, \h80}
LocalOps == {\h20, \h21, \h22}
ConstOps == {\h41, \h42}
FloatConstOps == {\h43, \h44}
SupportedOps == {\h01, \h04, \h05, \h0F, \h0B} \cup LocalOps \cup ConstOps
                  \cup FloatConstOps \cup CompareOps \cup ArithOps \cup DivOps

\* The bytes the handler of an opcode reads (of f64.const only 7 of 8).
BytesRead(op) == CASE op \in {\h04} \cup LocalOps \cup ConstOps -> 2
                   [] op = \h43 -> 5 [] op = \h44 -> 8 [] OTHER -> 1

\* code_vec has every byte the handler reads.
Readable == i + BytesRead(CurrentByte) <= Len(fn.code_vec)

\* The end of a handler that only emits: the next opcode is size bytes on.
Emitted(fragment, size) ==
  /\ Emit(fragment)
  /\ i' = i + size
  /\ UNCHANGED << phase, label_map, control_flow_stack, if_label, fixed >>

ReadPastEnd == AtOpcode(SupportedOps) /\ ~Readable /\ Stop("undefined")

Nop == AtOpcode({\h01}) /\ Emitted(<< EncodeNop >>, 1)

\* Mutant: the index does not advance.
RetStays == AtOpcode({\h0F}) /\ Emitted(<< >>, 0)

\* return is accepted and emits nothing.
Ret == AtOpcode({\h0F}) /\ Emitted(<< >>, 1)

CommonLocalOp ==
  /\ AtOpcode(LocalOps) /\ Readable /\ Operand < VarCount
  /\ Emitted(CASE CurrentByte = \h20 -> EmitGet(Var(Operand))
               [] CurrentByte = \h21 -> EmitSet(Var(Operand))
               [] CurrentByte = \h22 -> EmitTee(Var(Operand)), 2)

TooBigIndex ==
  AtOpcode(LocalOps) /\ Readable /\ Operand >= VarCount /\ Stop("aborted")

\* One byte, unsigned, whatever the encoded length of the constant.
Const ==
  /\ AtOpcode(ConstOps) /\ Readable
  /\ Emitted(EmitConst(IF CurrentByte = \h41 THEN "W" ELSE "X", Operand), 2)

FloatConst == AtOpcode(FloatConstOps) /\ Readable /\ Stop("aborted")

Conditions == << "eq", "ne", "lt", "cc", "gt", "hi", "le", "ls", "ge", "cs" >>

CompareOp ==
  /\ AtOpcode(CompareOps)
  /\ Emitted(IF CurrentByte <= \h4F
               THEN EmitCompareOp("W", Conditions[CurrentByte - \h45])
               ELSE EmitCompareOp("X", Conditions[CurrentByte - \h50]), 1)

ArithOp ==
  /\ AtOpcode(ArithOps)
  /\ Emitted(EmitArithOp(IF CurrentByte <= \h6C THEN "W" ELSE "X",
                         CASE CurrentByte \in {\h6A, \h7C} -> "+"
                           [] CurrentByte \in {\h6B, \h7D} -> "-"
                           [] CurrentByte \in {\h6C, \h7E} -> "*"), 1)

DivOp ==
  LET regType == IF CurrentByte <= \h6E THEN "W" ELSE "X"
  IN /\ AtOpcode(DivOps)
     /\ Emit(EmitDivOp(regType, IF CurrentByte \in {\h6D, \h7F} THEN "sdiv" ELSE "udiv"))
     /\ InsertLabel(Fixed("normal_div"), Here + Len(DivChecks(regType)))
     /\ i' = i + 1
     /\ UNCHANGED << phase, control_flow_stack, if_label, fixed >>

\* Mutant: if_label is not increased.
SameLabel == UNCHANGED if_label

\* if_label++
NextLabel == if_label' = if_label + 1

Top == control_flow_stack[Len(control_flow_stack)]
Below == SubSeq(control_flow_stack, 1, Len(control_flow_stack) - 1)

\* Mutant: the label of the end is not pushed.
ReopenNot(label) == control_flow_stack' = Below

\* Mutant: the label of the if stays on the stack for its end.
ReopenSame(label) == UNCHANGED control_flow_stack

\* The block on top goes on under another label.
Reopen(label) ==
  control_flow_stack' =
    Append(Below, [label |-> label, signature |-> Top.signature])

SignatureOfBlock == [b \in {\h7F, \h7E, \h40} |->
  CASE b = \h7F -> << "i" >> [] b = \h7E -> << "l" >> [] b = \h40 -> << >>]

IfOp ==
  LET label == ElseOrEnd(if_label)
  IN /\ AtOpcode({\h04}) /\ Readable /\ Operand \in DOMAIN SignatureOfBlock
     /\ control_flow_stack' =
          Append(control_flow_stack,
                 [label |-> label, signature |-> SignatureOfBlock[Operand]])
     /\ NextLabel
     /\ Emit(IfTest(label))
     /\ i' = i + 2
     /\ UNCHANGED << phase, label_map, fixed >>

\* A block type of float, of a function, or of no type at all.
UnsupportedBlock ==
  /\ AtOpcode({\h04}) /\ Readable /\ Operand \notin DOMAIN SignatureOfBlock
  /\ Stop("aborted")

\* The branch that ends the true arm is emitted before the label of the
\* false arm is placed.
ElseOp ==
  LET label == EndOf(if_label)
      skip == << Fake(label, "b") >>
  IN /\ AtOpcode({\h05}) /\ control_flow_stack # << >>
     /\ Reopen(label)
     /\ NextLabel
     /\ Emit(skip)
     /\ InsertLabel(Top.label, Here + Len(skip))
     /\ i' = i + 1
     /\ UNCHANGED << phase, fixed >>

\* Mutant: no label is placed.
EndOpNoLabel ==
  /\ AtOpcode({\h0B}) /\ control_flow_stack # << >>
  /\ control_flow_stack' = Below
  /\ i' = i + 1
  /\ UNCHANGED << phase, wasm_instructions, fake_insert_map, label_map,
                  if_label, fixed >>

EndOp ==
  /\ AtOpcode({\h0B}) /\ control_flow_stack # << >>
  /\ control_flow_stack' = Below
  /\ InsertLabel(Top.label, Here)
  /\ i' = i + 1
  /\ UNCHANGED << phase, wasm_instructions, fake_insert_map, if_label, fixed >>

\* back() of an empty vector.
NoOpenBlock ==
  AtOpcode({\h05, \h0B}) /\ control_flow_stack = << >> /\ Stop("undefined")

\* No branch of the loop matches, and i stays: the loop runs forever.
UnsupportedOpcode == AtOpcode(Byte \ SupportedOps) /\ UNCHANGED vars

\* A float result throws, and so does the register of a thirty-third result.
Epilogue ==
  /\ phase = "jiting" /\ i >= Len(fn.code_vec)
  /\ IF /\ \A r \in 1 .. Len(fn.results) : fn.results[r] \in {"i", "l"}
        /\ \A k \in 1 .. Len(RestoreSp) : Encodable(RestoreSp[k])
       THEN /\ Emit(StoreReturnCode0 \o RestoreSp \o << EncodeReturn >>)
            /\ InsertLabel(Fixed("finalize"), Here + Len(StoreReturnCode0))
            /\ phase' = "fixup"
            /\ UNCHANGED << i, control_flow_stack, if_label, fixed >>
       ELSE Stop("aborted")

(***************************************************************************)
(* fixUpfakeBranch and resetAfterExecution.                                *)
(***************************************************************************)
\* label_map[x]: operator[] inserts 0 for a label that is not there.
LabelsRead ==
  [l \in DOMAIN label_map \cup {f.label : f \in fake_insert_map} |->
     IF l \in DOMAIN label_map THEN label_map[l] ELSE 0]

\* Mutant: the case of bl is forgotten.
BranchToNoCall(br, offset) ==
  CASE br = "b" -> EncodeBranch(br, offset)
    [] br = "bl" -> Fake(Fixed("setjmp"), "bl")
    [] br = "beq" -> EncodeBranchCondition(offset, "eq")
    [] br = "bne" -> EncodeBranchCondition(offset, "ne")

\* Mutant: the offset is left in characters.
BranchToUndivided(br, offset) ==
  CASE br \in {"b", "bl"} -> EncodeBranch(br, 8 * offset)
    [] br = "beq" -> EncodeBranchCondition(8 * offset, "eq")
    [] br = "bne" -> EncodeBranchCondition(8 * offset, "ne")

\* br is b, bl, or b followed by a condition.
BranchTo(br, offset) ==
  CASE br \in {"b", "bl"} -> EncodeBranch(br, offset)
    [] br = "beq" -> EncodeBranchCondition(offset, "eq")
    [] br = "bne" -> EncodeBranchCondition(offset, "ne")

\* The locations are distinct, so the order of the map does not matter.
FixUpFakeBranch ==
  /\ phase = "fixup"
  /\ label_map' = LabelsRead
  /\ wasm_instructions' =
       [k \in 1 .. Len(wasm_instructions) |->
          IF \E f \in fake_insert_map : f.at = k - 1
            THEN LET f == CHOOSE f \in fake_insert_map : f.at = k - 1
                 IN BranchTo(f.br, LabelsRead[f.label] - f.at)
            ELSE wasm_instructions[k]]
  /\ phase' = "ready"
  /\ UNCHANGED << i, fake_insert_map, control_flow_stack, if_label, fixed >>

\* Mutant: fake_insert_map is not cleared.
ClearAllButFakes ==
  /\ pre_instructions' = << >> /\ wasm_instructions' = << >>
  /\ label_map' = << >> /\ UNCHANGED fake_insert_map

\* Mutant: the code that loads the arguments is not cleared.
ClearAllButArguments ==
  /\ wasm_instructions' = << >> /\ UNCHANGED pre_instructions
  /\ fake_insert_map' = {} /\ label_map' = << >>

Clear ==
  /\ pre_instructions' = << >> /\ wasm_instructions' = << >>
  /\ fake_insert_map' = {} /\ label_map' = << >>

\* After the execution.  local_data, control_flow_stack and if_label stay.
ResetAfterExecution ==
  /\ phase = "ready"
  /\ Clear
  /\ calls' = calls + 1
  /\ phase' = "idle"
  /\ UNCHANGED << fn, param_data, i, iter, local_data, control_flow_stack,
                  if_label >>

Opcodes ==
  \/ ReadPastEnd \/ Nop \/ Ret \/ CommonLocalOp \/ TooBigIndex \/ Const
  \/ FloatConst \/ CompareOp \/ ArithOp \/ DivOp \/ IfOp \/ UnsupportedBlock
  \/ ElseOp \/ EndOp \/ NoOpenBlock \/ UnsupportedOpcode

Translate ==
  \/ PrepareParams \/ LoadParam \/ BeginProcess \/ LocalVarInitialize
  \/ EmitRuntime \/ MainEntry \/ Opcodes \/ Epilogue \/ FixUpFakeBranch

Next == Translate \/ ResetAfterExecution

\* The translator is straight-line code of one thread: it keeps running.
Spec == Init /\ [][Next]_vars /\ WF_vars(Next)

-----------------------------------------------------------------------------
(***************************************************************************)
(* Types.                                                                  *)
(***************************************************************************)
LabelName == {"entry", "setjmp", "preparelongjmp", "longjmp",
              "raiseException", "finalize", "normal_div", "end", "Else/End_",
              "End_"}

Label == LabelName \X Nat

Br == {"b", "bl", "beq", "bne"}

Condition == {"eq", "ne", "lt", "cc", "gt", "hi", "le", "ls", "ge", "cs"}

EncodingMode == {"PreIndex", "PostIndex", "SignedOffset"}

Encoded == [op : Operation, w : {"W", "X"}, d : Nat, n : Nat, m : Nat,
            imm : Int, c : Condition \cup EncodingMode \cup {"none"},
            label : {<< "none", 0 >>}]

Placeholder == [op : {"fake"}, w : {"W"}, d : {0}, n : {0}, m : {0}, imm : {0},
                c : Br, label : Label]

Instruction == Encoded \cup Placeholder

Entry == [label : Label, at : Nat, br : Br]

Block == [label : Label, signature : Seq(Type)]

Phase == {"idle", "params", "locals", "entry", "jiting", "fixup", "ready",
          "aborted", "undefined"}

\* Every variable keeps its type.
TypeOK ==
  /\ phase \in Phase
  /\ fn \in Bodies
  /\ param_data \in Seq(Nat)
  /\ phase # "idle" => Len(param_data) = Len(fn.params) /\ calls < MaxCalls
  /\ i \in Nat /\ iter \in Nat /\ if_label \in Nat /\ calls \in 0 .. MaxCalls
  /\ local_data \in Seq(Type)
  /\ pre_instructions \in Seq(Encoded)
  /\ wasm_instructions \in Seq(Instruction)
  /\ fake_insert_map \subseteq Entry
  /\ DOMAIN label_map \subseteq Label
  /\ label_map \in [DOMAIN label_map -> Nat]
  /\ control_flow_stack \in Seq(Block)

(***************************************************************************)
(* Branches and labels.  The string wasm_instructions and the two maps are *)
(* three accounts of the same code; nothing but the order of the emitters' *)
(* calls keeps them in step, over any nesting of blocks and over calls.    *)
(***************************************************************************)
OpenLabels == {control_flow_stack[k].label : k \in DOMAIN control_flow_stack}

\* Labels of code still to come.
PendingLabels ==
  CASE phase = "entry" -> {Fixed("entry"), Fixed("finalize")}
    [] phase = "jiting" -> {Fixed("finalize")}
    [] OTHER -> {}

\* fake_insert_map lists exactly the placeholders in the code, until the
\* fix-up, which leaves none (fakeInsertBranch, fixUpfakeBranch): a stale
\* entry would overwrite a real instruction, a missing one would leave
\* FFFFFFFF to be executed.
PlaceholdersRecorded ==
  Fakes(wasm_instructions, 0) = IF phase = "ready" THEN {} ELSE fake_insert_map

\* Every branch emitted has a label that is placed, that an open block will
\* place, or that the epilogue will place.
BranchesAwaited ==
  phase \notin {"aborted", "undefined"} =>
    \A f \in fake_insert_map :
      f.label \in DOMAIN label_map \cup OpenLabels \cup PendingLabels

\* When every block is closed, the fix-up finds every label it looks up
\* (label_map[x] would silently make a missing one a branch to 0).
BranchesResolved ==
  phase = "fixup" /\ control_flow_stack = << >> =>
    {f.label : f \in fake_insert_map} \subseteq DOMAIN label_map

\* The label of an open block is not placed yet, no two open blocks share
\* one, and no label carries a number if_label has still to give: insertLabel
\* keeps the first place of a label that is placed twice.
LabelsFresh ==
  /\ \A k \in DOMAIN control_flow_stack :
       LET label == control_flow_stack[k].label
       IN IsNumbered(label) =>
            /\ label[2] < if_label
            /\ phase # "ready" => label \notin DOMAIN label_map
            /\ \A j \in DOMAIN control_flow_stack :
                 control_flow_stack[j].label = label => j = k
  /\ \A label \in DOMAIN label_map : IsNumbered(label) => label[2] < if_label

\* The branches of if and else go forward, to a place inside the code:
\* wasm without loop has no way back.
BlocksBranchForward ==
  phase # "ready" =>
    \A f \in fake_insert_map :
      IsNumbered(f.label) /\ f.label \in DOMAIN label_map =>
        label_map[f.label] \in f.at + 1 .. Len(wasm_instructions)

\* Every branch of code that is ready lands on an instruction of that code,
\* whatever blocks are open: a label behind the last instruction, or an offset
\* counted from another place than the branch, would leave it.
BranchesLandInCode ==
  phase = "ready" =>
    \A k \in DOMAIN wasm_instructions :
      wasm_instructions[k].op \in {"b", "bl", "bcond"} =>
        k + wasm_instructions[k].imm \in DOMAIN wasm_instructions

\* The fix-up replaces placeholders and nothing else, one for one.
FixUpTouchesOnlyPlaceholders ==
  [][phase = "fixup" =>
       /\ Len(wasm_instructions') = Len(wasm_instructions)
       /\ \A k \in DOMAIN wasm_instructions :
            wasm_instructions'[k] # wasm_instructions[k] =>
              wasm_instructions[k].op = "fake"]_vars

\* Code that is translated to the end, or refused, is so in finitely many
\* steps: the loop of jiting_wasm_code stops unless an opcode it does not
\* know holds it.
TranslationEnds ==
  phase = "params" ~>
    \/ phase \in {"ready", "aborted", "undefined"}
    \/ AtOpcode(Byte \ SupportedOps)

(***************************************************************************)
(* The frame.                                                              *)
(***************************************************************************)
\* The bytes an access to variable v touches, from sp: the encoder rounds
\* the offset down to a multiple of the access size.
SlotBytes(v) ==
  LET size == AccessSize(Var(v).reg)
      base == size * (Var(v).offset \div size)
  IN base .. base + size - 1

FrameBuilt == phase \in {"jiting", "fixup", "ready"}

Disjoint(vs) ==
  \A v, w \in vs : v # w => SlotBytes(v) \cap SlotBytes(w) = {}

\* In a function of i32 variables no two variables share a byte, and none
\* lies below sp, however often the function was called before.
I32SlotsDisjoint ==
  FrameBuilt /\ (\A v \in 0 .. VarCount - 1 : Var(v).reg = "W") =>
    /\ Disjoint(0 .. VarCount - 1)
    /\ \A v \in 0 .. VarCount - 1 : \A b \in SlotBytes(v) : b > 0

\* Emit.hpp: local.set sets memory[var[i]], local.get reads it back - so no
\* two variables, of any type, share memory.
SlotsDisjoint == FrameBuilt => Disjoint(0 .. VarCount - 1)

\* Stack.hpp: stack_size is how much should be allocated, so every variable
\* is inside the frame.
SlotsInFrame ==
  FrameBuilt => \A v \in 0 .. VarCount - 1 : SlotBytes(v) \subseteq 0 .. StackSize - 1

\* The reset lets a function be called again: in every call its locals are
\* those the body declares.
DeclaredLocals ==
  LET count[d \in 0 .. fn.local_var_declare_count] ==
        IF d = 0 THEN 0
        ELSE count[d - 1] + (IF fn.code_vec[2 * d] \in DOMAIN TypeOfByte
                               THEN fn.code_vec[2 * d - 1] ELSE 0)
  IN count[fn.local_var_declare_count]

LocalsAsDeclared == FrameBuilt => Len(local_data) = DeclaredLocals

\* Emit.hpp: "goto normal div" leads to the division the check belongs to,
\* which comes after the check.
DivChecksReachTheirDivision ==
  phase = "fixup" =>
    \A f \in fake_insert_map :
      f.label = Fixed("normal_div") => LabelsRead[f.label] > f.at
=============================================================================
