-------------------------------- MODULE Jit ---------------------------------
(***************************************************************************)
(* A call of a function object from its parameters to its result: the      *)
(* translator (WasmFunction), then executeWasmInstr, which maps the code,  *)
(* calls it with two zeroed blocks of memory, reads the return code and    *)
(* resets the object; the code itself runs on the processor (Arm64).       *)
(***************************************************************************)
EXTENDS WasmFunction, Arm64

CONSTANTS
  Buffer,      \* address of the calloc'd block for setjmp and return code
  WasmStack,   \* address of the calloc'd operand stack
  StackTop,    \* sp when the code is called
  HostReturn,  \* the address in executeWasmInstr the call returns to
  Junk         \* words that memory nobody initialised may hold

BlockBytes == 2048 * 4    \* calloc(2048, sizeof(int))

\* The addresses of the two blocks.
InBlocks(addr) ==
  \/ Buffer <= addr /\ addr < Buffer + BlockBytes
  \/ WasmStack <= addr /\ addr < WasmStack + BlockBytes

ASSUME LayoutAssumption ==
  /\ Buffer \in Nat /\ WasmStack \in Nat /\ StackTop \in Nat
  /\ Buffer % 8 = 0 /\ WasmStack % 8 = 0 /\ StackTop % 16 = 0
  /\ Buffer + BlockBytes < WasmStack   \* the allocator keeps a header there
  /\ WasmStack + BlockBytes < StackTop
  /\ StackTop < HostReturn /\ HostReturn < XWordBase
  /\ Junk # {} /\ Junk \subseteq Nat

\* calloc gives zeroes; what lies outside the two blocks is not known.
FreshWord(addr) ==
  IF InBlocks(addr) THEN {0} ELSE Junk

VARIABLES
  instruction_set,  \* the mapped code; << >> when none is
  outcome           \* of the latest call: [kind, value]

jitVars == << vars, cpu, instruction_set, outcome >>

\* What the caller expects to find in a register again.
HostRegister(n) == 100 + n

AtCall ==
  [n \in 0 .. 31 |-> CASE n = 0 -> Buffer [] n = 1 -> WasmStack
                       [] n = 30 -> HostReturn [] n = SP -> StackTop
                       [] OTHER -> HostRegister(n)]

JitInit ==
  /\ Init
  /\ x = AtCall /\ pc = 0 /\ mem = << >>
  /\ flags = [w |-> "W", a |-> 0, b |-> 0]
  /\ instruction_set = << >>
  /\ outcome = [kind |-> "value", value |-> << >>]

Running == instruction_set # << >>

TranslateStep ==
  /\ Translate
  /\ UNCHANGED << cpu, instruction_set, outcome >>

\* getFunctionPointer: the parameter loading code and the function's code,
\* in one mapping; then the call, with new blocks of memory.
StartExecution ==
  /\ phase = "ready" /\ ~Running
  /\ instruction_set' = pre_instructions \o wasm_instructions
  /\ x' = AtCall /\ pc' = 0 /\ mem' = << >>
  /\ UNCHANGED << vars, flags, outcome >>

ExecuteStep ==
  /\ Running /\ pc # HostReturn
  /\ pc \in 0 .. Len(instruction_set) - 1
  /\ Execute(instruction_set[pc + 1])
  /\ UNCHANGED << vars, instruction_set, outcome >>

\* The return code is the first int16_t of buffer.
ReturnCode ==
  (IF Buffer \in DOMAIN mem THEN mem[Buffer] ELSE 0) % HalfBase

\* Blocks and mapping are freed, the object is reset, a return code throws.
FinishExecution ==
  /\ Running /\ pc = HostReturn
  /\ instruction_set' = << >>
  /\ outcome' = IF ReturnCode # 0 THEN [kind |-> "trap", value |-> << >>]
                ELSE [kind |-> "value",
                      value |-> IF fn.results = << >> THEN << >> ELSE << x[0] >>]
  /\ ResetAfterExecution
  /\ UNCHANGED cpu

JitNext == TranslateStep \/ StartExecution \/ ExecuteStep \/ FinishExecution

\* One thread runs translator and code: it keeps running.
JitSpec == JitInit /\ [][JitNext]_jitVars /\ WF_jitVars(JitNext)

-----------------------------------------------------------------------------
(***************************************************************************)
(* The caller's view.                                                      *)
(***************************************************************************)
Promise == INSTANCE Invocation WITH
  Functions <- Bodies, function <- fn, arguments <- param_data,
  pending <- phase # "idle", WordSize <- WordBase, XWordSize <- XWordBase

\* Every call of the function object comes back, with the value or the trap
\* WebAssembly gives this function for these arguments, whatever earlier
\* calls returned or trapped (executeWasmInstr and everything it runs).
KeepsPromise == Promise!AbstractSpec

(***************************************************************************)
(* The machine's view.                                                     *)
(***************************************************************************)
\* Control never leaves the mapped code but to return, and never meets a
\* placeholder: every branch, the one of setjmp's return and the one of
\* longjmp included, lands on an instruction.
PcInCode ==
  Running /\ pc # HostReturn =>
    /\ pc \in 0 .. Len(instruction_set) - 1
    /\ instruction_set[pc + 1].op # "fake"

\* Back in the caller sp, the frame pointer and x22 to x28 are what they
\* were, on the normal path (frame dropped, pair popped) and on the trap
\* path (registers from setjmp's buffer, sp and x30 from x15 and x14).
\* x19 to x21, which hold REG_BUFFER and the operand stack, are not given
\* back: see the README.
HostContextRestored ==
  Running /\ pc = HostReturn => \A n \in 22 .. 29 \cup {SP} : x[n] = AtCall[n]

\* The trap path has begun: raiseException has set the return code.
Raised == ReturnCode # 0

\* The code writes to its two blocks and to its own frame, between the sp of
\* the moment and the sp at the call: nothing of the caller, and nothing
\* below sp, where a signal handler would overwrite it.
StoresInBounds ==
  [][Running /\ Running' =>
       \A a \in DOMAIN mem' :
         \/ a \in DOMAIN mem /\ mem'[a] = mem[a]
         \/ InBlocks(a)
         \/ a \in x'[SP] .. StackTop - 1]_jitVars

\* The addresses the next instruction reads.
Reads ==
  LET ins == instruction_set[pc + 1]
  IN CASE ins.op \in {"ldr", "ldrr"} -> Cells(Address(ins), ins.w)
       [] ins.op = "ldp" -> Cells(PairAddress(ins), "X")
                              \cup Cells(PairAddress(ins) + 8, "X")
       [] OTHER -> {}

Initialised(addr) == addr \in DOMAIN mem \/ InBlocks(addr)

\* Until it traps the code reads only what was written or zeroed before:
\* locals are stored before they are read, every pop follows its push, and
\* longjmp reads what setjmp saved.
ReadsInitialised ==
  Running /\ pc # HostReturn /\ ~Raised => \A a \in Reads : Initialised(a)

(***************************************************************************)
(* Statements of the repository that do not hold.                          *)
(***************************************************************************)
\* Execute.hpp: the blocks are calloc'd "to avoid garbage data", so the code
\* reads no memory that nobody initialised, when it traps as well.
NoGarbageRead == Running /\ pc # HostReturn => \A a \in Reads : Initialised(a)

\* Emit.hpp: a block without a result has "no need to push anything", so a
\* function without result has an empty operand stack when it returns.
NothingLeftOnStack ==
  Running /\ pc = HostReturn /\ ~Raised /\ fn.results = << >> =>
    x[REG_POINTER_WASM_STACK] = 0

\* Emit.hpp: a division branches to the exception when the divisor is zero,
\* or when "a=INT32_MIN and b=-1"; an unsigned operand is never negative, so
\* a function that only divides unsigned traps only on a zero divisor.
UnsignedDivisionTrapsOnZero ==
  (/\ outcome.kind = "trap" /\ phase = "idle"
   /\ \A k \in DOMAIN fn.code_vec : fn.code_vec[k] \notin {\h6D, \h7F})
  => \E k \in DOMAIN param_data : param_data[k] = 0
=============================================================================
