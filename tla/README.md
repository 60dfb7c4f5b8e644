# Tiny-Wasm in TLA+

A verification development for the Tiny-Wasm JIT (`src/`): a WebAssembly
binary is parsed, a function is translated to ARM64 machine code, the code is
mapped executable, called, and the function object is reset to be called again.
Around it, a driver reads test scripts and judges what the calls give. TLC
checks the models here on small instances; TLAPS proves statements about the
translator and the fields of its instructions, for every function and every
number of calls; about the pages a call maps and unmaps, for every size of code and
page; about the parser, for every file; about the driver, for every script; and
about the test program as a whole, from the bytes of the modules to the verdict.

1. [Inventory](#1-inventory) - the system, its state, what is hard about it
2. [Modules](#2-modules) - which module models what, and how
3. [Runs](#3-runs) - what TLC checks, the bounds and the fairness
4. [Proofs](#4-proofs) - what TLAPS checks, and along which argument
5. [Findings](#5-findings) - statements of the repository that do not hold
6. [Limits](#6-limits) - what is not modelled, and why
7. [Plan](#7-plan) - what comes next

## 1. Inventory

The program is one thread: `test_chapter` in `main.cpp` (or the same function in
`wasmtest.cc`) reads the commands of a script, a `Parser` for each file they
name fills `WasmFunction` objects, and each assertion sets the parameters of
such an object, translates it (`funcSingleProcess`) and runs it
(`executeWasmInstr`). There is no concurrency. What is hard is *protocol over
time*: byte offsets, maps and counters that several handlers keep in step by
the order of their calls; one object used again after calls that returned,
trapped or threw; code that leaves a function twice (`setjmp`/`longjmp`,
hand-written); and pages shared with the rest of the process.

| component | state | operations | correct when |
|---|---|---|---|
| ARM64 encoders, `include/Opcode/*.hpp` | the word of one instruction | one function per instruction; `setField` checks that throw | the processor decodes what the caller meant |
| `setjmp` runtime, `CommonHeader.hpp`, `WasmFunction.hpp` | the buffer in x19; sp, x14, x15, x30 | `setjmp`, `preparelongjmp`, `longjmp`, `raiseException` | a trap comes back to the caller with its sp and its saved registers, through exactly one drop of each frame |
| Translator, `WasmFunction.hpp`, `Emit.hpp`, `Branch.hpp`, `Stack.hpp`, `Initialize.hpp` | `wasm_instructions`, `pre_instructions_for_param_loading`, `fake_insert_map`, `label_map`, `control_flow_stack`, `if_label`, `local_data`, `vecToStack`, `regTypeGetter` | `prepareParams`, `processCodeVec` (an emitter per opcode), `fixUpfakeBranch`, `resetAfterExecution` | every branch is patched, to the place it was meant for; variables have places of their own in the frame; nothing of an earlier call is left |
| Executor, `Execute.hpp` | mapped pages, two calloc'd blocks | map, call, read the return code, unmap, reset, throw | each call gives the value or trap of WebAssembly, from pages of its own, and gives back what it took |
| Parser, `Parser.hpp`, `WasmType.hpp` | the rest of the binary, `wasmTypeVec`, `funcTypeVec`, `funcNameIndexMapper`, `funcIndexNameMapper`, `wasmFunctionVec` | `parse`, `parse_type`, `parse_function`, `parse_export`, `parse_code`, `initFunctionbyType`, `funcSingleProcess` | the tables are those of the module; what is no module is refused |
| Drivers, `main.cpp`, `wasmtest.cc` | `cur_wasm_file`, `parser_map`, `command_map`, per entry `ans` and `exceptionThrown` | collect commands, look up the function, set arguments, process, execute, judge | every assertion is judged once, in the order of its file, by the call made for it |
| Printing and conversions | none | `Print.hpp`, `OverloadOperator.h`, `FloatUtils.h`, most of `Utils.h` | output only |
| Interpreter table | `operations_map` | filled by the constructor | never read |
| Learning material | - | experiments | not part of the program |

Interaction: the parser fills `code_vec` and `local_var_declare_count` and, when
a function is looked up, its types; the driver writes `param_data`; the
executor concatenates the two instruction strings of the translator, maps them,
calls them with the addresses of the two blocks, and turns the first word of
the buffer into an exception, which the driver turns into `exceptionThrown`. The
processor is the last component: the code the translator emits is a program of
its own, and whether a translation is right shows only when it runs.
`PROJECT.json` lists the hazards line by line.

## 2. Modules

| module | models | of the code |
|---|---|---|
| `Opcode` | encoders: instructions as records of the fields that decide what they do | `include/Opcode/*.hpp`, `CommonHeader.hpp` |
| `InstructionWord` | encoders: the bit fields of each, the word, its text, the bytes read back from it | `include/Opcode/*.hpp`, `getFunctionPointer` |
| `A64Decoding` | external: how the processor decodes a word | - |
| `WasmFunction` | the translator: state, one action per step or opcode handler, properties of labels and frame | `include/Wasm/{WasmFunction,Emit,Branch,Stack,Initialize}.hpp` |
| `MachineCode` | `WasmFunction`, `InstructionWord` and `A64Decoding` together: what was emitted against what is fetched | `include/Wasm/Execute.hpp` |
| `Arm64` | external: registers, flags, memory, the meaning of each instruction | how the emitted code uses the processor |
| `Jit` | composition of `WasmFunction` and `Arm64`: map, call, run, return, reset | `include/Wasm/Execute.hpp` |
| `WasmReference` | reference: an interpreter of the supported opcodes over structured control | the WebAssembly semantics the tests expect |
| `Invocation` | abstract specification: a call comes back with the reference's outcome | what `executeWasmInstr` promises |
| `CodePages` | the pages of the process: `mmap` and `munmap` of a call, and of everyone else | `include/Wasm/Execute.hpp` |
| `JitPages` | composition of `Jit` and `CodePages` | `include/Wasm/Execute.hpp` |
| `Parser` | `parse` and its four handlers over bytes, one entry per step | `include/Parser.hpp`, `WasmType.hpp` |
| `WasmBinary` | external: the binary format of a module, as an encoder | - |
| `ParsedModules` | what the parser owes: the tables of the module a file holds | - |
| `Scripts`, `TestRun` | what a script means; abstract specification: assertions judged one by one | - |
| `Driver` | `main` and `test_chapter`: collecting and judging | `main.cpp`, `wasmtest.cc` |
| `JudgedRuns` | `Driver` with an open parser and open functions, and its refinement of `TestRun` | `main.cpp` |
| `System` | `Driver` and `Parser` composed, with calls that keep the promise of `Invocation` | `main.cpp`, `Parser.hpp` |
| `TestFunctions` | the functions of `test/CH02` to `CH05`, as the parser leaves them | `test/*.wat` |
| `MCTranslate`, `MCJit`, `MCJitPages`, `MCParser`, `MCDriver`, `MCSystem` | sets of functions, files and scripts for TLC | - |
| `Maps` | `std::map`'s assignment, as `Parser` and `Driver` use it | - |
| `TranslatorProofs` | theorems about `WasmFunction` | - |
| `WordProofs` | lemmas on `InstructionWord` and `A64Decoding`: each encoder's word, and its bytes | - |
| `CodeProofs` | theorems about `MachineCode`, and about the frame of `WasmFunction` | - |
| `CallProofs` | theorems about `CodePages`, `Jit` and `JitPages` | - |
| `DataLemmas` | lemmas on numbers and sequences that the other proofs share | - |
| `ParserProofs` | lemmas on `WasmBinary`, theorems about `Parser` and `ParsedModules` | - |
| `DriverProofs` | theorems about `Driver` and `JudgedRuns` | - |
| `SystemProofs` | theorems about `System` | - |

### WasmFunction

`phase` is the position in `prepareParams`, `processCodeVec` and `executeWasmInstr`:

    idle -> params -> locals -> entry -> jiting -> fixup -> ready -> idle
      (any phase) -> aborted     the code throws and nobody catches it
      (any phase) -> undefined   the code leaves its arrays: the C++ has no meaning

| step of the code | action |
|---|---|
| `prepareParams`, with arguments from `inputs` | `PrepareParams`, then `LoadParam` per parameter |
| `i = 0` in `processCodeVec`, `local_var_initialize` | `BeginProcess`, `LocalVarInitialize` per declaration |
| `jiting_wasm_code` up to its loop | `EmitRuntime`, `MainEntry` |
| the branches of the loop over `code_vec[i]` | `Nop`, `Ret`, `CommonLocalOp`, `Const`, `CompareOp`, `ArithOp`, `DivOp`, `IfOp`, `ElseOp`, `EndOp`; their error paths `TooBigIndex`, `FloatConst`, `UnsupportedBlock`, `NoOpenBlock`, `ReadPastEnd`; `UnsupportedOpcode`, which changes nothing, as the code does |
| after the loop | `Epilogue`, `FixUpFakeBranch` |
| `resetAfterExecution` | `ResetAfterExecution` |

Abstractions: a location is the number of instructions before it (the string
index divided by 8); a label is a name and a number instead of a string; the
two maps are a function and a set; `vecToStack` and `regTypeGetter` are the
operator `Var`, since `main_entry_initialize` fills them from the types before the
body is translated and nothing changes them until the next call fills them again. What stays exactly: the order of appends, label
insertions and counter steps in each handler, and that `insert` keeps the first
place of a label while `label_map[x]` creates one at 0.

### Arm64 and Jit

A register holds an x word, memory is 4-byte cells. `HalfBase` is the number of
values of a 16-bit immediate: 2^16 in the code, 16 in the runs, so that an i32
has 256 values and an i64 65536. The encoders, the constants built from
halves, sign handling and the processor all use the same constant; no part of
the model knows 16. Memory nobody wrote is zero inside the two calloc'd blocks
and any value of `Junk` elsewhere. An access below sp is allowed by the
processor; `StoresInBounds` says the code makes none.

`Jit` runs the mapped code one instruction per step. `Promise` instantiates
`Invocation` with `function <- fn`, `arguments <- param_data` and
`pending <- phase # "idle"`: the call of the abstract specification is
`PrepareParams`, its return is `FinishExecution`, everything between stutters.

### InstructionWord and MachineCode

`Opcode` says what a call to an encoder asks for, `InstructionWord` which bits it
sets. A word is the set of its bits that are 1, so `|=` is union and an overlap is
an overlap. `FetchedAsEmitted` follows the whole path of an instruction: fields, word,
byte swap, text, two strings put together, `stoul` by pairs, memory; and at
the end the decoder of the architecture, written from its encoding tables.
The text itself is left out: a byte is a byte on both sides of it.

### CodePages and JitPages

A page is free, holds code of the call, or belongs to the rest of the process.
`mmap` may choose any place that is free and large enough; `munmap` frees every
page its range touches, whoever has it. In `JitPages` each step of the
executor that maps or unmaps is both a step of `Jit` and one of `CodePages`, with
the length the translator's code has; the rest of the process has its turn
before, after, and at the entry and the exit of the emitted code.

### Parser

The source keeps the binary as hexadecimal text and crops it from the left; the
model keeps the bytes and counts what was cropped. A step is a section header,
one turn of a handler's loop, or the end of a section. Where `substr` or `stoul`
throws (nothing catches it in `parse`), the phase is `aborted`; `substr` at the exact
end gives an empty string, which is the byte `NoByte`. The two accounts the
source keeps of a position, the section length and the handler's
`base_offset`, are two variables that nothing in the model ties together.

### Driver and System

`step` is the position in `test_chapter`. `command_map` is the sequence of the
multimap's entries in iteration order; `operator[]` on a map inserts what it does not
find. `Driver` leaves open what `parse` gives and what a function answers:
`JudgedRuns` closes it with a table for each file and any answer, and refines `TestRun`; `System`
closes it with the parser, byte by byte, and with the outcome that
`Jit!KeepsPromise` says a call has. `System` implements `JudgedRuns` (`AsJudged`): the files are
`Disk`, and the tables that `JudgedRuns` takes as given (`Modules`) are those of the modules whose
bytes the files hold (`TablesOf`). `wasmtest.cc` has the same function; it judges
with `EXPECT_EQ` and stops at the first failure as well.

## 3. Runs

Runs that pass:

| run | instance | asks |
|---|---|---|
| `translate` | every body of up to 5 tokens of `if`, `else`, `end`, `div_s`, nested well or not (1365 token sequences); the functions of the tests; one function for each way to be refused or lost; each translated twice | do code, `fake_insert_map`, `label_map`, `control_flow_stack` and the frame stay in step; do branches land in the code; do the bytes decode to what was emitted; does every handler keep the types; does translation end? |
| `calls` | every operation and test function, on edge values | does the executed code refine `Invocation`? |
| `repeat` | functions that trap and return, two calls in every order | control stays in the code, the caller's context comes back, reads are of initialised memory, writes stay in the frame, and no call depends on an earlier one |
| `jit_pages` | 4 pages of 432 bytes, owned by others in every way at the start; code of half a page, a little more, and two pages; calls that return, trap, are refused, or find no room; two calls | does the processor fetch from pages of the call only; is no page of code left; does short code take nothing from others? |
| `parse` | 240 modules from 3 type, 5 export, 4 code and 4 other section choices, two of every kind of section, these cut at every byte inside a section, and one of them with each byte replaced | are the tables those of the module; does the handler stop where the section does; is a cut noticed; does parsing end? |
| `driver` | every script of up to 4 out of 7 commands over two modules, and every one of up to 2 behind another chapter; functions answer anything | is each call of the assertion, the file, the function and the parameters that the script asks for, unknown names included (`CalledAsAsserted`); does the driver refine `TestRun` where a trap can be told from a return (`TrapsShow`, which the run evaluates); does it end? |
| `system` | test modules of `test/CH02` to `CH05` as bytes, a selection of the assertions of their scripts (numbers scaled to the small widths; of `div_u`, which the scripts only make trap, returns are added), these with one assertion falsified in each possible place, with files reordered and used again, and with a file cut short | is the driver with its parser the driver of `JudgedRuns`; is the verdict right, and does it come? The run evaluates what the theorems of section 4 suppose (`TestsWellPosed`, `TrapsShow`) |

Why the bounds are enough. `MaxTokens = 5` gives an if within an arm of an if,
with and without else, an else that follows an else, an end too many, blocks never
closed, and a division before, inside and after a block; a second if after a
closed one. `MaxCalls = 2`: what a reset forgets shows in the second call, and
the theorems of section 4 hold for every number of calls. Edge values for
operands (0, a small number, the least integer, -1, and -5 by 2 for the rounding of
division) are those on which signed and unsigned, sub and its swap, 32 and 64
bits and the two traps of division differ. `Junk = {0, 9}`: a value the code
could mistake for an answer and one it could not. `calls` leaves the pair
least / -1 out of the inputs of `div_u`, where the code is wrong (`DivideUnsigned.cfg`);
its functions have one local or none to read back where the frame is
too small (run `param_and_local`), and one division per body (run `two_divisions`).

`PageBytes = 432` is chosen so that the test functions' code lies on both sides of half
a page and of a page; 4 pages give a mapping a neighbour on each side.
`long_code` has pages of 4096 bytes and a body that a file can hold.
`parse` has code sections of 127 and of 128 bytes, the last size that fits
a byte and the first that does not. Four commands are a module, an assertion, another module and the
first again: what regrouping by file needs. In `driver` a
function may answer with the expected value, another or a trap; in `system` each
assertion is falsified in its turn.

Deadlock is not checked: translator and executor stop after `MaxCalls` calls and in
`aborted` and `undefined`; parser and driver stop at their end.

Fairness is `WF` of the next-state relation as a whole. The program is a single
thread of straight-line code and loops, with no wait and no lock: it takes its next step.
Nothing is assumed about which step. (`JitPages`, where others step too, has no fairness and no liveness
property.) It carries `TranslationEnds`, the return of every call in
`KeepsPromise`, `ParsingEnds`, `DriverEnds` and `VerdictComes`. `Verdicts` is a refinement without
fairness: it says which steps the driver may take, `DriverEnds` that it does not stop taking them. An opcode the
loop does not know keeps the translator in place; `TranslationEnds` names that exception.

Every property has a mutant in `PROJECT.json`: a plausible slip in one
definition that the run then refutes, such as a location read after the append,
a reset that forgets a map, operands popped in the wrong order,
`raiseException` that keeps the sp of `setjmp`, an export's kind taken for its index, or
a register written to another one's place in the word. The mutants stand in
the module they change, before the definition.

## 4. Proofs

Every theorem holds for every value of the constants that satisfies the
assumptions of its modules, which TLC evaluates on the runs:

| assumption | says | because |
|---|---|---|
| `HalfBaseAssumption`, `BodiesAssumption` | `HalfBase` is a natural number above 1; a function is bytes and types, with one number per parameter; `MaxCalls` is a natural number | types only: no bound on nesting, parameters, locals or calls |
| `MachineAssumption` | `HalfBase` is at most 2^16; a body has fewer than 256 bytes | an immediate has 16 bits; `parse_code` reads the size of the section from one byte |
| `LayoutAssumption` | the two blocks lie where `Jit` puts them, apart from the stack | they are two allocations of `calloc` |
| `PagesAssumption` | numbers are natural, pages are not empty | no bound on pages, their size or the code's |
| `FilesAssumption`, `TruthAssumption` | files are bytes; a file said to hold a module, or to be cut from one, is | the file's own `module` and `cut` are what properties compare with |
| `DriverAssumption`, `ScriptsAssumption`, `ModulesAssumption` | scripts name files and functions, modules are tables, answers are traps or values, of at most one number | types only: no bound on scripts, files or functions; the code gives one result |
| `DiskAssumption` | there is a file for each number the scripts use; what `JudgedRuns` takes for its tables are those of its module | it names the parts of one test program |

`TrapsShow` and `TestsWellPosed` are not assumptions but hypotheses of single theorems, see below.

### Translator

* `TranslatorProofs!TypeCorrect`: `Spec => []TypeOK`. Each emitter is a sequence of
  instructions whose placeholders carry a known set of labels; the lemmas on
  fragments (`RuntimeType`, `DivType`, `IfTestType`, `FakesConcat`, ...) are used by all
  later proofs.
* `IInvCorrect`: the inductive invariant
  `IInv` = `TypeOK`, `PlaceholdersRecorded`, `RuntimePlaced`, `BranchesAwaited`,
  `LabelsFresh`, `BlocksBranchForward`. None of the checked invariants is inductive alone.
  `BranchesAwaited` needs `RuntimePlaced`: a division branches
  to `preparelongjmp`, the entry to `setjmp` and `raiseException`, which were
  placed earlier, in `EmitRuntime`. `BlocksBranchForward` needs
  `LabelsFresh`: when `end` places a label, the branches that wait for it
  are all behind, because the label was not placed before. `LabelsFresh` needs the
  bound of every number by `if_label`, which is why it also speaks of
  labels of closed blocks. `PlaceholdersRecorded` gives that branches lie inside the code.
  Each action has a lemma, grouped by what it disturbs: steps that emit no
  branch (`QuietStep`), that emit branches to labels already placed (`EmittedStep`),
  and the four that move labels (`IfOpStep`, `ElseOpStep`, `EndOpStep`, `EpilogueStep`).
* `PlaceholdersCorrect`, `LabelsCorrect`, `BlocksCorrect`, `AwaitedCorrect`, `BranchesCorrect`:
  every property of labels that run `translate` checks follows from `IInv`. With every block
  closed, `BranchesAwaited` leaves only placed labels: `BranchesResolved`.
* `FixUpCorrect`: the action property, from `PlaceholdersRecorded`.

### The instructions it emits

* `CodeProofs!FieldsCorrect`: no `setField` throws in code that is ready. Each
  encoder has a lemma of what its operands must be (`MovFits`, `ArithFits`, ...), each emitter
  one that its operands are that, and how many instructions it makes at most (`RuntimeFit`, `DivFit`, ...).
  * `Encodable` is the model's account of the throws in the prologue and the epilogue;
    the theorem is that it leaves none out. It would be false if a frame
    could pass the check and have an offset that does not fit 12 bits. The code computes
    offsets in `int16_t` and the size in `uint16_t`, which wrap; the proof is that a
    frame large enough for the size to wrap has a variable whose offset does not fit
    (`FrameBounded`), so `SmallFrame` holds of every body that is translated.
  * `fixUpfakeBranch` puts offsets into 19 and 26 bits without a check. They fit because the
    code cannot be long: 22 instructions per byte at most, behind at most 1059. That
    is `Room`, and `CInv`, the inductive invariant relative to `IInv`, says that the code stays
    within it, and every label within the code.
* `CodeProofs!FetchedCorrect`: `Spec => []FetchedAsEmitted`. `WordProofs` has one lemma for each
  encoder (`MovDecodes`, ..., `ReturnDecodes`): for every register, immediate and condition that its fields have
  room for, `Decoded(Word(e)) = e`. A word is there the union of the bits that mark the instruction and of the
  fields of its operands; these lie in places of their own, so that each slice the decoder looks at can be read off one of
  them. `NumberIs` is what links the two sides: a slice that holds the
  bits of a number in two's complement is that number modulo its range. `FetchedWord` is the rest of the
  way: the bytes swapped, printed, put together with those in front, and fetched from address 4 * (k - 1).
  * The invariant is `CInv` once more: every part of the code is a placeholder or `Straight`, that is taken
    by its encoder and decoded as meant; fix-up puts a branch of less than 2^18 instructions for each placeholder, in
    either direction (`BranchToFits`). What `Encodable` lets through in the prologue has an
    operand in range, so it is decoded as well (`Checked`).
  * `encodeLdpStp` divides its offset by 8 and declares the result `int8_t`, but the field has seven bits. The
    lemma is stated for multiples of 8 from -512 to 504; the offsets the code passes, 0 to 80 and -32 and 32, are among them.
* `CodeProofs!LandCorrect`: every branch goes to an instruction of the code. This needs
  in addition that no label is behind the last instruction when
  `fixUpfakeBranch` runs, which holds because the epilogue emits instructions behind every label; and it
  covers `label_map[x]`, which makes a label that was never placed location 0.
* `CodeProofs!I32FrameCorrect`: in a function of i32 variables no two share a
  byte, for every number of parameters, locals and calls - so also for the
  frame that grows (section 5). Offsets of i32 variables are an explicit linear
  function (`PlaceOfI32`), from which slots apart by at least four bytes follow.

### Calls and pages

* `CallProofs!CodePagesCorrect`: `CodePagesOfCall` with `PagesTypeOK` is inductive; that
  nothing of the mapping is left uses that `munmap`'s range covers `mmap`'s
  (`SpanGrows`: a longer length never covers less).
* `CallProofs!OthersKeptCorrect`: within half a page the range of `munmap` and
  that of `mmap` are the same one page; and that one is, by `CodePagesOfCall`, code.
* `CallProofs!CallsKeepPages`: `JitPagesSpec => PagesSpec`. Each step of translator, executor and
  processor is one of `CodePages` or leaves the pages alone. `CallInv` carries that
  pages are mapped exactly while the code runs, and as many as it fills (`MappedForCode`).
  `CallsGiveBackPages` takes the two results above over to the composition.
* `CallProofs!FetchesOwnPagesCorrect`: `PcInCode => FetchesOwnPages`, always.
* `CallProofs!ExecutedCorrect`: the processor executes what the translator emitted. Each step of `Jit` is one of
  the translator or leaves it alone (`StepOfMachine`), and while code runs the translator waits
  (`ReadyWaits`), so `MachineInv` carries `IInv` and `CInv` over to the instructions that run; `Jit` may therefore
  execute instructions where the processor reads bytes.
* `CallProofs!PcInCodeCorrect`: `JitSpec => ([]JumpsLand => []PcInCode)`. The code that runs is `Closed`: instructions
  only (`PlaceholdersRecorded`), whose branches land in it (`BranchesLandInCode`, moved by the length of the code that
  loads the parameters, which has no branch), and whose last one is `ret` (`EndsInReturn`: the
  epilogue puts it there, and the fix-up replaces placeholders only). What is left is `JumpsLand`: that `ret` and `br` find
  in their register the address of the caller or of an instruction. This is a hypothesis and not a theorem because
  there are functions of which it is not true: nothing in the translator stops the thirty-first parameter, which is
  loaded into x30 before anything saves it (`Initialize.hpp` allows eight, section 6). Every jump's target is
  the next pc, so run `repeat`, which checks `PcInCode`, checks it as well.
* `CallProofs!CallStaysOnItsPages`: `JitPagesSpec => ([]JumpsLand => []FetchesOwnPages)`, from the two before; that
  `mmap` may fail is one more step (`NoPages`), which nothing follows.

### Parser

* `ParserTypeCorrect`: on any bytes no crop passes the end of the file, and the tables hold bytes.
* `CutNoticedCorrect`: a file that ends inside a section is refused. The invariant `CropsSections` says that
  the crops of `parse` meet the ends of the module's sections, whatever the handlers make of the bytes between.
* `ParsedAsEncodedCorrect` and `CursorMeetsSectionEndCorrect`: of a file that holds a module whose
  numbers take one byte, the tables are the module's and a handler ends where its section ends. The
  invariant `FollowsModule`: with k sections behind, the tables hold exactly the entries in front of the
  cursor, and the cursor stands where the next begins. Where that is, for
  every vector of entries, is the subject of the first half of `ParserProofs`.

### Driver

* `DriverTypeCorrect`, `CalledAsAssertedCorrect`: that a call is the one the script asks for (`InOrder` and `FileAt`
  of `Scripts`, which know nothing of the multimap), from `DriverInv` = `Positioned`, `Reading`, `Entered`,
  `Filled`, `Calling`. `Entered` is the heart of it: at every position `command_map` is the
  sequence of assertions so far, stably sorted by file. `Filled` has to say what `operator[]` leaves behind: names that
  were looked up in vain are the index 0 from then on.
* `DriverJudges`: `TrapsShow => (DriverSpec => Verdicts)`, step by step: each step is one of `TestRun`
  or a stutter; what is left to judge is `InOrder` of the rest of the script (`InOrderGrouped`).
  `TrapsShow` says that no expected number is what an uninitialised `ans` holds, and that functions without
  result do not trap. The run `trap_unnoticed` shows that the second is needed: without it
  an `assert_return` is matched by a trap. `TestRun` lets a call give any outcome; that it is a call of the
  right function with the right parameters is `CalledAsAssertedCorrect`.

### System

* `SystemProofs!AsJudgedCorrect`: `TestsWellPosed => (SystemSpec => AsJudged)`. The driver that runs the
  parser and its functions is the driver of `JudgedRuns`; every theorem about that one then holds of it.
  The invariant `SystemInv` joins what is known of the parts: `DriverInv`; of the parser `FollowsAlways` and `CropsAlways`,
  with the file the driver asked for (`ParsingFile`); and what ties them together: a file that was accepted
  is a module (`Accepted`, since one that is cut short is refused), the chapters assert what the suite does (`Listed`), and
  a function that runs has integer parameters (`Integral`). A parser that is done has the tables of the
  module (`ReturnsTables`), and the call that follows has the code, the results and
  the arguments the assertion means (`ArgumentsPassed`, `CallAsPosed`).
* `SystemProofs!VerdictIsRightCorrect`: `TestsWellPosed /\ TrapsShow => (SystemSpec => []VerdictIsRight)`. What is looked at
  after a call is what the module in the file gives (`Seen`), the suite's assertions up to
  the one at hand have been judged and hold (`JudgedTrue`), and the program stops for the reason it
  shows (`Decided`). The steps are those of `TestRun` (`RunStep`, which `DriverJudges` uses as well).
  `TestsWellPosed` says of the tests that each file is a module or is cut off in one, and that an
  assertion names an exported function and has arguments of its types: what a test file generated from a
  text with `wast2json` has. What a call gives is an assumption of `System`, the one `KeepsPromise` states.

### What is only model-checked

* Liveness: `TranslationEnds`, the return in `KeepsPromise`, `ParsingEnds`, `DriverEnds`, `VerdictComes`. Proofs
  of `ENABLED` are out of reach of the prover.
* What the emitted code does with registers and memory: `KeepsPromise`, `HostContextRestored`, `ReadsInitialised`,
  `StoresInBounds`, and of `PcInCode` the part that is `JumpsLand`. They relate the machine's state to a place in a
  program that was computed from the body, and they hold of the bodies of their runs: `StoresInBounds`, for one,
  cannot hold of every function, as run `param_and_local` shows (section 5).

Recursion in the proved modules is by recursive functions and folds only. The library's
induction theorems take an operator as parameter, which the provers cannot instantiate; `DataLemmas` states induction
over sets of numbers instead (`LeastNumber`, `BoundedInduction`), and what `FlattenSeq`, the sorted
insertion of the driver and the offsets of the binary format give on every input is proved from these.

## 5. Findings

Each is a run that must fail, with the sentence of the repository it contradicts
in `PROJECT.json`.

| run | what the code does |
|---|---|
| `two_divisions` | all divisions share the label `normal_div`; the checks of the second branch back to the first |
| `call_again` | the locals of earlier calls stay in `local_data` and are added to |
| `param_and_local` | `stack_size` is a variable short when the end location is a multiple of 16: a local is stored in the caller's frame |
| `long_code` | `munmap` is given the length of the text, twice that of the code: from half a page on it takes the pages behind the mapping from whoever has them |
| `trap_unnoticed` | an `assert_return` of a function without result is matched when the call trapped |

Further counterexamples are kept beside the runs, each as a configuration of
one property that TLC refutes (`tlc -config X.cfg M`):

| configuration | module | property | what the code does |
|---|---|---|---|
| `MixedParams.cfg` | `MCTranslate` | `SlotsDisjoint` | an i64 has 4 bytes in the frame and 8 in an access, at an offset rounded down to 8 |
| `VoidIf.cfg` | `MCJit` | `NothingLeftOnStack` | the condition of an if stays on the operand stack |
| `TrapReads.cfg` | `MCJit` | `NoGarbageRead` | the exit of a trap pops a result from below the operand stack |
| `DivideUnsigned.cfg` | `MCJit` | `UnsignedDivisionTrapsOnZero` | `div_u` traps on 0x80000000 / 0xffffffff |
| `NegativeConst.cfg` | `MCJit` | `KeepsPromise` | `i32.const -1` gives 127: one byte is read, without its sign |
| `UnknownName.cfg` | `MCDriver` | `CallsExported` | `operator[]` makes a name that is not exported that of function 0, and the assertion is judged by it |
| `EarlyReturn.cfg` | `MCJit` | `KeepsPromise` | `return` before the end of a body emits nothing, and what follows runs |

## 6. Limits

* Branch ranges: nothing in the code checks them but `setField`; that no branch can be
  out of range is `FieldsCorrect`, for bodies of fewer than 256 bytes, which is what `parse_code` can give.
* Encoders that nothing calls: `encodeAdr`, `encodeMovn`, `encodeCompareNegativeShift`, the
  pre- and post-index forms of `ldr` and `str`; and the disassembly printed beside each word.
* Floats: no float opcode reaches an emitter that decodes one; float parameters
  and constants are refused by the code and by the model.
* x19 to x21 are callee-saved and are not given back. No line of the repository says
  they are, so `HostContextRestored` begins at x22.
* More than eight parameters: `Initialize.hpp` restricts the program to eight. Up to 32
  are translated, as the code does; the 33rd parameter or result has no register, and the encoder throws.
* The parser's own numbers take one byte; larger ones appear only as files
  the parser may refuse or misread (their `module` is empty), as it says itself.
* The instruction cache, and failure of `calloc`.
* Scripts: reading JSON, finding files, and the text of numbers; commands of other
  types than those the repository's scripts have.
* Code that nothing calls: `funcBatchProcess`, `operations_map`, and in `Utils.h` the LEB128 decoders
  (`encodeDemo.cpp` calls them), hex and binary text, float helpers.
* Printing, logging, number formatting, learning material.

## 7. Plan

Parser, driver, pages, machine code and their compositions are modelled, and every
safety property of translator, machine code, parser, driver and their composition is proved. What is left:

1. `JumpsLand` for functions whose frame holds their locals and whose results leave x30 alone: that x19 and x20 keep
   the blocks, x21 stays within the second one, and nothing is stored over the saved pair.
2. `HostContextRestored` on the return path, from the same invariant.
3. A frame theorem that says for which types slots stay apart; that a reset
   leaves what `Init` has, up to `local_data` and `if_label`.
