----------------------------- MODULE CallProofs -----------------------------
(***************************************************************************)
(* Theorems about calls.  Of CodePages, for every number and size of pages *)
(* and every length of code: a call gives back all pages it mapped, and    *)
(* takes none of another's as long as no code is longer than half a page;  *)
(* JitPages implements CodePages.  Of Jit: the code that runs is the code  *)
(* that was translated and control stays in it, as long as returns do.     *)
(***************************************************************************)
EXTENDS JitPages, CodeProofs

PagesTypeOK ==
  /\ owner \in [Page -> {"free", "code", "other"}]
  /\ mapped \in BOOLEAN /\ base \in Nat /\ arraySize \in Nat

PagesInv == PagesTypeOK /\ CodePagesOfCall

\* The larger length reaches the pages of the smaller: munmap's 2 * arraySize
\* covers what mmap gave for arraySize.
LEMMA SpanGrows ==
  ASSUME NEW start \in Nat, NEW m \in Nat, NEW n \in Nat, m <= n
  PROVE  Span(start, m) \subseteq Span(start, n)
<1>1. SUFFICES ASSUME NEW p \in Page, (p - start) * PageBytes < m
               PROVE  (p - start) * PageBytes < n
      BY <1>1 DEF Span
<1>2. p \in Int /\ PageBytes \in Int
      BY PagesAssumption DEF Page
<1>3. (p - start) * PageBytes \in Int
      BY <1>2
<1> QED BY <1>1, <1>3

\* Up to a page's worth of bytes lie on the first page.
LEMMA SpanOfOne ==
  ASSUME NEW start \in Nat, NEW n \in Nat, n <= PageBytes
  PROVE  Span(start, n) \subseteq {start}
<1>1. SUFFICES ASSUME NEW p \in Page, start <= p, (p - start) * PageBytes < n, p # start
               PROVE  FALSE
      BY <1>1 DEF Span
<1>2. p \in Int /\ PageBytes \in Nat /\ p - start >= 1
      BY <1>1, PagesAssumption DEF Page
<1>3. (p - start) * PageBytes >= PageBytes
      <2>1. (p - start) \in Int /\ (p - start) - 1 \in Nat
            BY <1>2
      <2>2. ((p - start) - 1) * PageBytes \in Nat
            BY <1>2, <2>1
      <2>3. ((p - start) - 1) * PageBytes = (p - start) * PageBytes - PageBytes
            BY <1>2, <2>1
      <2> QED BY <1>2, <2>1, <2>2, <2>3
<1> QED BY <1>1, <1>2, <1>3

\* The pages of a call begin with its first one.
LEMMA SpanHasFirst ==
  ASSUME NEW start \in Page, NEW n \in Nat, n > 0
  PROVE  start \in Span(start, n)
<1>1. (start - start) * PageBytes = 0
      BY PagesAssumption DEF Page
<1> QED BY <1>1 DEF Span, Page

\* The invariant holds at the start.
LEMMA PagesInvInit == PagesInit => PagesInv
<1> SUFFICES ASSUME PagesInit PROVE PagesInv
    OBVIOUS
<1>1. PagesTypeOK
      BY DEF PagesInit, PagesTypeOK
<1>2. \A p \in Page : owner[p] # "code"
      BY DEF PagesInit
<1>3. CodePagesOfCall
      BY <1>2 DEF PagesInit, CodePagesOfCall
<1> QED BY <1>1, <1>3 DEF PagesInv

\* Every step keeps the invariant: munmap's length covers mmap's.
LEMMA PagesInvStep == PagesInv /\ [PagesNext]_pagesVars => PagesInv'
<1> SUFFICES ASSUME PagesInv, [PagesNext]_pagesVars PROVE PagesInv'
    OBVIOUS
<1> USE DEF PagesInv, PagesTypeOK
<1>1. CASE GetFunctionPointer
      <2>1. PagesTypeOK'
            BY <1>1, PagesAssumption DEF GetFunctionPointer, Page
      <2>2. \A p \in Page : owner[p] # "code"
            BY <1>1 DEF GetFunctionPointer, CodePagesOfCall
      <2>3. \A p \in Page : owner'[p] = "code" <=> p \in Span(base', arraySize')
            BY <1>1, <2>2 DEF GetFunctionPointer
      <2>4. CodePagesOfCall'
            BY <1>1, <2>3 DEF GetFunctionPointer, CodePagesOfCall, Span
      <2> QED BY <2>1, <2>4
<1>2. CASE Munmap
      <2>1. PagesTypeOK'
            BY <1>2 DEF Munmap
      <2>2. Span(base, arraySize) \subseteq Span(base, MunmapSize)
            <3>1. MunmapSize \in Nat /\ arraySize <= MunmapSize
                  BY DEF MunmapSize
            <3> QED BY <3>1, SpanGrows
      <2>3. \A p \in Page : owner[p] = "code" => p \in Span(base, arraySize)
            BY <1>2 DEF Munmap, CodePagesOfCall
      <2>4. \A p \in Page : owner'[p] # "code"
            BY <1>2, <2>2, <2>3 DEF Munmap
      <2>5. CodePagesOfCall'
            BY <1>2, <2>4 DEF Munmap, CodePagesOfCall
      <2> QED BY <2>1, <2>5
<1>3. ASSUME OtherMaps \/ OtherUnmaps PROVE PagesInv'
      <2>1. PagesTypeOK'
            BY <1>3 DEF OtherMaps, OtherUnmaps
      <2>2. \A p \in Page : owner'[p] = "code" <=> owner[p] = "code"
            BY <1>3 DEF OtherMaps, OtherUnmaps
      <2>3. CodePagesOfCall'
            BY <1>3, <2>2 DEF OtherMaps, OtherUnmaps, CodePagesOfCall, Span
      <2> QED BY <2>1, <2>3
<1>4. CASE UNCHANGED pagesVars
      BY <1>4 DEF pagesVars, CodePagesOfCall, Span
<1> QED BY <1>1, <1>2, <1>3, <1>4 DEF PagesNext

\* After every call, whatever it mapped is unmapped, and during a call the
\* pages of code are its own: for code of every length.
THEOREM CodePagesCorrect == PagesSpec => []CodePagesOfCall
<1>1. PagesInv => CodePagesOfCall
      BY DEF PagesInv
<1> QED BY PagesInvInit, PagesInvStep, <1>1, PTL DEF PagesSpec

\* mmap takes no page of another, whatever the length; twice the length of
\* code that fills no more than half a page ends on the first page, so munmap
\* takes none either.  The code of executeWasmInstr does not check that bound.
THEOREM OthersKeptCorrect == PagesSpec => OthersKept
<1> DEFINE OnOwn == mapped => base \in Page /\ arraySize > 0
           Keeps == mapped' # mapped /\ (mapped => 2 * arraySize <= PageBytes) =>
                      \A p \in Page : owner[p] = "other" => owner'[p] = "other"
<1>1. PagesInit => OnOwn
      BY DEF PagesInit
<1>2. OnOwn /\ [PagesNext]_pagesVars => OnOwn'
      <2> SUFFICES ASSUME OnOwn, [PagesNext]_pagesVars PROVE OnOwn'
          OBVIOUS
      <2>1. CASE GetFunctionPointer
            BY <2>1 DEF GetFunctionPointer, Fits
      <2>2. CASE Munmap
            BY <2>2 DEF Munmap
      <2>3. ASSUME OtherMaps \/ OtherUnmaps \/ UNCHANGED pagesVars PROVE OnOwn'
            BY <2>3 DEF OtherMaps, OtherUnmaps, pagesVars
      <2> QED BY <2>1, <2>2, <2>3 DEF PagesNext
<1>3. PagesInv /\ OnOwn /\ [PagesNext]_pagesVars => [Keeps]_pagesVars
      <2> SUFFICES ASSUME PagesInv, OnOwn, PagesNext PROVE Keeps
          BY DEF Keeps
      <2> USE DEF PagesInv, PagesTypeOK
      <2>1. CASE GetFunctionPointer
            BY <2>1 DEF GetFunctionPointer, Fits
      <2>2. CASE Munmap
            <3>1. SUFFICES ASSUME 2 * arraySize <= PageBytes PROVE Keeps
                  BY <2>2 DEF Munmap
            <3>2. base \in Page /\ arraySize > 0
                  BY <2>2 DEF Munmap
            <3>3. MunmapSize \in Nat /\ MunmapSize <= PageBytes
                  BY <3>1 DEF MunmapSize
            <3>4. Span(base, MunmapSize) \subseteq {base}
                  BY <3>3, SpanOfOne
            <3>5. owner[base] = "code"
                  BY <2>2, <3>2, SpanHasFirst DEF Munmap, CodePagesOfCall
            <3> QED BY <2>2, <3>4, <3>5 DEF Munmap
      <2>3. ASSUME OtherMaps \/ OtherUnmaps PROVE Keeps
            BY <2>3 DEF OtherMaps, OtherUnmaps
      <2> QED BY <2>1, <2>2, <2>3 DEF PagesNext
<1> HIDE DEF OnOwn
<1> QED BY <1>1, <1>2, <1>3, PagesInvInit, PagesInvStep, PTL DEF PagesSpec, OthersKept, Keeps

-----------------------------------------------------------------------------
(***************************************************************************)
(* JitPages: the translator, the emitted code and the pages step together. *)
(***************************************************************************)
\* A step of the composition is one of the pages, or leaves them alone.
LEMMA StepOfPages ==
  ASSUME [JitPagesNext]_jitPagesVars PROVE [PagesNext]_pagesVars
<1>1. CASE MapAndCall \/ ReturnAndUnmap \/ RestOfProcess
      BY <1>1 DEF MapAndCall, ReturnAndUnmap, RestOfProcess, PagesNext
<1>2. CASE UNCHANGED pagesVars
      BY <1>2
<1>3. CASE MmapFails \/ UNCHANGED jitPagesVars
      BY <1>3 DEF MmapFails, jitPagesVars
<1> QED BY <1>1, <1>2, <1>3 DEF JitPagesNext

\* A step of the composition is one of the translator, leaves it alone, or
\* ends it: mmap fails.
LEMMA StepOfTranslator ==
  ASSUME [JitPagesNext]_jitPagesVars PROVE [Next]_vars \/ (phase = "ready" /\ Stop("aborted"))
<1>1. CASE MapAndCall \/ RestOfProcess \/ ExecuteStep \/ UNCHANGED jitPagesVars
      BY <1>1 DEF MapAndCall, StartExecution, RestOfProcess, ExecuteStep, jitPagesVars, jitVars
<1>2. CASE MmapFails
      BY <1>2 DEF MmapFails
<1>3. CASE ReturnAndUnmap
      BY <1>3 DEF ReturnAndUnmap, FinishExecution, Next
<1>4. CASE TranslateStep
      BY <1>4 DEF TranslateStep, Next
<1> QED BY <1>1, <1>2, <1>3, <1>4 DEF JitPagesNext

\* During a call, and only then, pages are mapped: as many as the code that
\* runs fills.
MappedForCode ==
  /\ mapped <=> Running
  /\ Running => /\ arraySize = 4 * Len(instruction_set)
                /\ instruction_set \in Seq(Encoded \cup Instruction)
                /\ base \in Page /\ arraySize <= (Pages - base) * PageBytes

CallInv == TypeOK /\ PagesInv /\ MappedForCode

\* The invariant holds at the start.
LEMMA CallInvInit == JitPagesInit => CallInv
<1> SUFFICES ASSUME JitPagesInit PROVE CallInv
    OBVIOUS
<1>1. Init /\ PagesInit /\ instruction_set = << >>
      BY DEF JitPagesInit, JitInit
<1>2. MappedForCode
      BY <1>1 DEF MappedForCode, Running, PagesInit
<1> QED BY <1>1, <1>2, InitType, PagesInvInit DEF CallInv

\* Every step keeps it.
LEMMA CallInvStep == CallInv /\ [JitPagesNext]_jitPagesVars => CallInv'
<1> SUFFICES ASSUME CallInv, [JitPagesNext]_jitPagesVars PROVE CallInv'
    OBVIOUS
<1>1. TypeOK'
      BY StepOfTranslator, TypeStep, StopType DEF CallInv
<1>2. PagesInv'
      BY StepOfPages, PagesInvStep DEF CallInv
<1>3. MappedForCode'
      <2>1. CASE MapAndCall
            <3> DEFINE code == pre_instructions \o wasm_instructions
            <3>1. /\ pre_instructions \in Seq(Encoded \cup Instruction)
                  /\ wasm_instructions \in Seq(Encoded \cup Instruction)
                  BY SeqMonotonic DEF CallInv, TypeOK
            <3>2. /\ code \in Seq(Encoded \cup Instruction)
                  /\ Len(code) = Len(pre_instructions) + Len(wasm_instructions)
                  BY <3>1, ConcatProperties
            <3>3. instruction_set' = code /\ arraySize' = CodeBytes /\ mapped' = TRUE
                  BY <2>1 DEF MapAndCall, StartExecution, GetFunctionPointer
            <3>4. base' \in Page /\ arraySize' > 0 /\ arraySize' <= (Pages - base') * PageBytes
                  BY <2>1 DEF MapAndCall, GetFunctionPointer, Fits
            <3> HIDE DEF code
            <3>5. arraySize' = 4 * Len(code) /\ Len(code) \in Nat
                  BY <3>2, <3>3, LenProperties DEF CodeBytes
            <3>6. code # << >>
                  BY <3>3, <3>4, <3>5
            <3> QED BY <3>2, <3>3, <3>4, <3>5, <3>6 DEF MappedForCode, Running, Page
      <2>2. CASE ReturnAndUnmap
            BY <2>2 DEF ReturnAndUnmap, FinishExecution, Munmap, MappedForCode, Running
      <2>3. ASSUME UNCHANGED << instruction_set, mapped, base, arraySize >> PROVE MappedForCode'
            BY <2>3 DEF CallInv, MappedForCode, Running, Page
      <2>4. CASE RestOfProcess
            BY <2>3, <2>4 DEF RestOfProcess, OtherMaps, OtherUnmaps, jitVars
      <2>5. CASE UNCHANGED pagesVars /\ UNCHANGED instruction_set
            BY <2>3, <2>5 DEF pagesVars
      <2>6. CASE MmapFails \/ ((TranslateStep \/ ExecuteStep) /\ UNCHANGED pagesVars)
            BY <2>5, <2>6 DEF MmapFails, TranslateStep, ExecuteStep
      <2>7. CASE UNCHANGED jitPagesVars
            BY <2>5, <2>7 DEF jitPagesVars, jitVars
      <2> QED BY <2>1, <2>2, <2>4, <2>6, <2>7 DEF JitPagesNext
<1> QED BY <1>1, <1>2, <1>3 DEF CallInv

\* What executeWasmInstr maps and unmaps around a call is what CodePages
\* says, whatever function is translated and whatever its code does.
THEOREM CallsKeepPages == JitPagesSpec => PagesSpec
<1>1. JitPagesInit => PagesInit
      BY DEF JitPagesInit
<1>2. [JitPagesNext]_jitPagesVars => [PagesNext]_pagesVars
      BY StepOfPages
<1> QED BY <1>1, <1>2, PTL DEF JitPagesSpec, PagesSpec

\* Where the instruction at pc lies.
LEMMA FetchedPage ==
  ASSUME CallInv, Running, pc \in 0 .. Len(instruction_set) - 1
  PROVE  \E p \in Page : p = base + (4 * pc) \div PageBytes /\ owner[p] = "code"
<1> DEFINE q == (4 * pc) \div PageBytes
           p == base + q
           n == Len(instruction_set)
<1>1. n \in Nat /\ pc \in Nat /\ pc + 1 <= n /\ 4 * pc < 4 * n
      BY LenProperties DEF CallInv, MappedForCode
<1>2. base \in Nat /\ base <= Pages - 1 /\ Pages \in Nat /\ PageBytes \in Nat \ {0}
      BY PagesAssumption DEF CallInv, MappedForCode, Page
<1>3. arraySize = 4 * n /\ 4 * n <= (Pages - base) * PageBytes
      BY DEF CallInv, MappedForCode
<1> HIDE DEF n
<1>4. q \in Nat /\ q * PageBytes <= 4 * pc
      BY <1>1, <1>2
<1> HIDE DEF q
<1>5. q < Pages - base
      <2>1. SUFFICES ASSUME q >= Pages - base PROVE FALSE
            BY <1>2, <1>4
      <2>2. q * PageBytes >= (Pages - base) * PageBytes
            <3>1. q - (Pages - base) \in Nat
                  BY <1>2, <1>4, <2>1
            <3>2. (q - (Pages - base)) * PageBytes \in Nat
                  BY <1>2, <3>1
            <3>3. (q - (Pages - base)) * PageBytes = q * PageBytes - (Pages - base) * PageBytes
                  BY <1>2, <1>4
            <3>4. q * PageBytes \in Int /\ (Pages - base) * PageBytes \in Int
                  BY <1>2, <1>4
            <3> QED BY <3>2, <3>3, <3>4
      <2>3. q * PageBytes \in Int /\ (Pages - base) * PageBytes \in Int
            BY <1>2, <1>4
      <2> QED BY <1>1, <1>3, <1>4, <2>2, <2>3
<1>6. p \in Page /\ p - base = q
      BY <1>2, <1>4, <1>5 DEF Page
<1>7. p \in Span(base, arraySize)
      <2>1. base <= p
            BY <1>2, <1>4
      <2>2. (p - base) * PageBytes < arraySize
            <3>1. q * PageBytes \in Int
                  BY <1>2, <1>4
            <3> QED BY <1>1, <1>3, <1>4, <1>6, <3>1
      <2> QED BY <1>6, <2>1, <2>2 DEF Span
<1>8. { r \in Page : owner[r] = "code" } = Span(base, arraySize)
      BY DEF CallInv, MappedForCode, PagesInv, CodePagesOfCall
<1>9. p = base + (4 * pc) \div PageBytes
      BY DEF q
<1> HIDE DEF p
<1> QED BY <1>6, <1>7, <1>8, <1>9

\* getFunctionPointer maps the whole code and nothing takes a page of it
\* before the return: as long as control is in the code, what the processor
\* fetches is of the call, for code and pages of every size.
THEOREM FetchesOwnPagesCorrect == JitPagesSpec => [](PcInCode => FetchesOwnPages)
<1>1. CallInv => (PcInCode => FetchesOwnPages)
      BY FetchedPage DEF PcInCode, FetchesOwnPages
<1> QED BY <1>1, CallInvInit, CallInvStep, PTL DEF JitPagesSpec

\* So code of a call never stays behind, and a call whose code fills at most
\* half a page takes nothing from the rest of the process (munmap in
\* executeWasmInstr), in the composition as in CodePages.
THEOREM CallsGiveBackPages == JitPagesSpec => []CodePagesOfCall /\ OthersKept
BY CallsKeepPages, CodePagesCorrect, OthersKeptCorrect, PTL

-----------------------------------------------------------------------------
(***************************************************************************)
(* The code that runs is the code that was translated: what is proved of a *)
(* function that is ready holds of the instructions the processor executes.*)
(***************************************************************************)
\* The code ends in ret from the epilogue on: control does not fall off.
EndsInReturn ==
  phase \in {"fixup", "ready"} =>
    /\ Len(wasm_instructions) > 0
    /\ wasm_instructions[Len(wasm_instructions)] = EncodeReturn

\* Only the epilogue reaches the fix-up, and only the fix-up makes code ready.
LEMMA WaysToReady ==
  ASSUME [Next]_vars, phase' \in {"fixup", "ready"}
  PROVE  Epilogue \/ FixUpFakeBranch \/ UNCHANGED vars
BY DEF Next, Translate, Opcodes, PrepareParams, LoadParam, BeginProcess,
       LocalVarInitialize, EmitRuntime, MainEntry,
       ResetAfterExecution, ReadPastEnd, Nop, Ret, CommonLocalOp, TooBigIndex,
       Const, FloatConst, CompareOp, ArithOp, DivOp, IfOp, UnsupportedBlock,
       ElseOp, EndOp, NoOpenBlock, UnsupportedOpcode, AtOpcode, Stop, fixed,
       Emitted

\* No step leaves a refused translation.
LEMMA RefusedStays ==
  ASSUME [Next]_vars, phase = "aborted" PROVE UNCHANGED vars
BY DEF Next, Translate, Opcodes, PrepareParams, LoadParam, BeginProcess,
       LocalVarInitialize, EmitRuntime, MainEntry, Epilogue, FixUpFakeBranch,
       ResetAfterExecution, ReadPastEnd, Nop, Ret, CommonLocalOp, TooBigIndex,
       Const, FloatConst, CompareOp, ArithOp, DivOp, IfOp, UnsupportedBlock,
       ElseOp, EndOp, NoOpenBlock, UnsupportedOpcode, AtOpcode

\* Every step keeps the last instruction.
LEMMA EndsInReturnStep ==
  ASSUME IInv, EndsInReturn, [Next]_vars PROVE EndsInReturn'
<1> SUFFICES ASSUME phase' \in {"fixup", "ready"}
             PROVE  /\ Len(wasm_instructions') > 0
                    /\ wasm_instructions'[Len(wasm_instructions')] = EncodeReturn
  BY DEF EndsInReturn
<1>0. /\ TypeOK /\ PlaceholdersRecorded
      /\ wasm_instructions \in Seq(Instruction) /\ Len(wasm_instructions) \in Nat
  BY LenProperties DEF IInv, TypeOK
<1>1. CASE UNCHANGED vars
  BY <1>1 DEF EndsInReturn, vars
<1>2. CASE Epilogue
  <2> DEFINE code == StoreReturnCode0 \o RestoreSp
             last == << EncodeReturn >>
  <2>1. wasm_instructions' = wasm_instructions \o (code \o last)
    BY <1>2 DEF Epilogue, Emit, Stop
  <2>2. /\ code \in Seq(Encoded) /\ last \in Seq(Encoded) /\ Len(last) = 1
        /\ last[1] = EncodeReturn
    <3>1. /\ StoreReturnCode0 \in Seq(Encoded) /\ RestoreSp \in Seq(Encoded)
          /\ << EncodeReturn >> \in Seq(Encoded)
      BY <1>0, SmallFragmentsType, RestoreSpType, MovEncoderType DEF TypeOK
    <3> QED BY <3>1, ConcatProperties
  <2> HIDE DEF code, last
  <2>3. /\ code \o last \in Seq(Encoded) /\ Len(code) \in Nat
        /\ Len(code \o last) = Len(code) + 1
        /\ (code \o last)[Len(code) + 1] = EncodeReturn
    BY <2>2, ConcatProperties, LenProperties
  <2>4. code \o last \in Seq(Instruction)
    BY <2>3, SeqMonotonic DEF Instruction
  <2> DEFINE n == Len(wasm_instructions)
             m == Len(code) + 1
             all == wasm_instructions \o (code \o last)
  <2>5. /\ Len(all) = n + Len(code \o last)
        /\ \A k \in 1 .. n + Len(code \o last) :
             all[k] = IF k <= n THEN wasm_instructions[k] ELSE (code \o last)[k - n]
    BY <1>0, <2>4, ConcatProperties
  <2>6. wasm_instructions' = all /\ Len(code \o last) = m /\ m \in Nat /\ m > 0 /\ n \in Nat
    BY <1>0, <2>1, <2>3
  <2>7. (code \o last)[m] = EncodeReturn
    BY <2>3
  <2> HIDE DEF n, m, all
  <2>8. n + m \in 1 .. n + m /\ ~(n + m <= n) /\ (n + m) - n = m
    BY <2>6
  <2>9. Len(all) = n + m /\ all[n + m] = EncodeReturn
    BY <2>5, <2>6, <2>7, <2>8
  <2> QED BY <2>6, <2>8, <2>9
<1>3. CASE FixUpFakeBranch
  <2> DEFINE n == Len(wasm_instructions)
  <2>1. phase = "fixup" /\ Len(wasm_instructions') = n
    BY <1>0, <1>3, FixUpType DEF FixUpFakeBranch
  <2>2. n > 0 /\ wasm_instructions[n] = EncodeReturn /\ n \in Nat
    BY <1>0, <2>1 DEF EndsInReturn
  <2>3. ASSUME NEW f \in fake_insert_map, f.at = n - 1 PROVE FALSE
    <3>1. wasm_instructions[f.at + 1].op = "fake"
      BY <1>0, <2>1, EntriesInCode
    <3>2. f.at + 1 = n BY <2>2, <2>3
    <3> QED BY <2>2, <3>1, <3>2 DEF EncodeReturn, Ins
  <2>4. n \in 1 .. n BY <2>2
  <2>5. wasm_instructions'[n] = wasm_instructions[n]
    BY <1>3, <2>3, <2>4 DEF FixUpFakeBranch
  <2> QED BY <2>1, <2>2, <2>5
<1> QED BY <1>1, <1>2, <1>3, WaysToReady

\* The running code is that of the translation that is ready.  A translation
\* is refused once more when there are no pages for its code.
MachineInv ==
  /\ TypeOK
  /\ phase # "aborted" => IInv /\ CInv /\ EndsInReturn
  /\ Running => phase = "ready" /\ instruction_set = FullInstructions

NoPages == phase = "ready" /\ ~Running /\ Stop("aborted") /\ UNCHANGED instruction_set

\* Base case.
LEMMA MachineInvInit == JitInit => MachineInv
<1> SUFFICES ASSUME JitInit PROVE MachineInv
    OBVIOUS
<1>1. Init /\ ~Running /\ phase = "idle"
  BY DEF JitInit, Running, Init
<1>2. IInv /\ CInv /\ TypeOK
  BY <1>1, IInvInit, CInvInit DEF IInv
<1> QED BY <1>1, <1>2 DEF MachineInv, EndsInReturn

\* What the machine does is a step of the translator or leaves it alone.
LEMMA StepOfMachine ==
  ASSUME [JitNext]_jitVars PROVE [Next]_vars
<1>1. CASE StartExecution \/ ExecuteStep \/ UNCHANGED jitVars
  BY <1>1 DEF StartExecution, ExecuteStep, jitVars
<1>2. CASE FinishExecution
  BY <1>2 DEF FinishExecution, Next
<1>3. CASE TranslateStep
  BY <1>3 DEF TranslateStep, Next
<1> QED BY <1>1, <1>2, <1>3 DEF JitNext

\* While the code runs the translator does nothing until the reset.
LEMMA ReadyWaits ==
  ASSUME Translate PROVE phase # "ready"
BY DEF Translate, Opcodes, PrepareParams, LoadParam, BeginProcess,
       LocalVarInitialize, EmitRuntime, MainEntry, Epilogue, FixUpFakeBranch,
       ReadPastEnd, Nop, Ret, CommonLocalOp, TooBigIndex,
       Const, FloatConst, CompareOp, ArithOp, DivOp, IfOp, UnsupportedBlock,
       ElseOp, EndOp, NoOpenBlock, UnsupportedOpcode, AtOpcode

\* Every step keeps the invariant.
LEMMA MachineInvStep ==
  ASSUME MachineInv, [JitNext]_jitVars \/ NoPages PROVE MachineInv'
<1>1. CASE NoPages
  <2>1. TypeOK'
    BY <1>1, StopType DEF NoPages, MachineInv
  <2>2. phase' = "aborted" /\ ~Running'
    BY <1>1 DEF NoPages, Stop, Running
  <2> QED BY <2>1, <2>2 DEF MachineInv
<1>2. CASE [JitNext]_jitVars
  <2>1. [Next]_vars
    BY <1>2, StepOfMachine
  <2>2. TypeOK'
    BY <2>1, TypeStep DEF MachineInv
  <2>3. phase' # "aborted" => IInv' /\ CInv' /\ EndsInReturn'
    <3> SUFFICES ASSUME phase' # "aborted" PROVE IInv' /\ CInv' /\ EndsInReturn'
      OBVIOUS
    <3>1. phase # "aborted"
      BY <2>1, RefusedStays DEF vars
    <3>2. IInv /\ CInv /\ EndsInReturn
      BY <3>1 DEF MachineInv
    <3> QED BY <2>1, <3>2, IInvStep, CInvStep, EndsInReturnStep
  <2>4. Running' => phase' = "ready" /\ instruction_set' = FullInstructions'
    <3>1. CASE TranslateStep
      <4>1. ~Running
        BY <3>1, ReadyWaits DEF TranslateStep, MachineInv
      <4> QED BY <3>1, <4>1 DEF TranslateStep, Running
    <3>2. CASE StartExecution
      BY <3>2 DEF StartExecution, vars, FullInstructions
    <3>3. CASE ExecuteStep \/ UNCHANGED jitVars
      <4>1. UNCHANGED << vars, instruction_set >>
        BY <3>3 DEF ExecuteStep, jitVars
      <4> QED BY <4>1 DEF MachineInv, vars, FullInstructions, Running
    <3>4. CASE FinishExecution
      BY <3>4 DEF FinishExecution, Running
    <3> QED BY <1>2, <3>1, <3>2, <3>3, <3>4 DEF JitNext
  <2> QED BY <2>2, <2>3, <2>4 DEF MachineInv
<1> QED BY <1>1, <1>2

-----------------------------------------------------------------------------
\* The mapped code holds instructions only, its branches land in it, and it
\* ends in ret.
Closed(code) ==
  /\ code \in Seq(Encoded) /\ Len(code) > 0
  /\ \A k \in 1 .. Len(code) :
       code[k].op \in {"b", "bl", "bcond"} => k + code[k].imm \in 1 .. Len(code)
  /\ code[Len(code)].op = "ret"

\* Straight code before closed code is closed.
LEMMA ClosedBehindStraight ==
  ASSUME NEW s \in Seq(Encoded), NEW t, Closed(t),
         \A k \in 1 .. Len(s) : s[k].op \notin {"b", "bl", "bcond"}
  PROVE  Closed(s \o t)
<1> DEFINE m == Len(s)
           n == Len(t)
           all == s \o t
<1>1. t \in Seq(Encoded) /\ m \in Nat /\ n \in Nat /\ n > 0
  BY LenProperties DEF Closed
<1>2. /\ all \in Seq(Encoded) /\ Len(all) = m + n
      /\ \A k \in 1 .. m + n : all[k] = IF k <= m THEN s[k] ELSE t[k - m]
  BY <1>1, ConcatProperties
<1>3. /\ \A k \in 1 .. m : s[k].op \notin {"b", "bl", "bcond"}
      /\ \A k \in 1 .. n : t[k].op \in {"b", "bl", "bcond"} => k + t[k].imm \in 1 .. n
      /\ t[n].op = "ret"
  BY DEF Closed
<1>4. ASSUME NEW k \in 1 .. n PROVE t[k].imm \in Int
  <2>1. t[k] \in Encoded
    BY <1>1, ElementOfSeq
  <2> QED BY <2>1 DEF Encoded
<1> HIDE DEF m, n, all
<1>5. ASSUME NEW k \in 1 .. m + n, all[k].op \in {"b", "bl", "bcond"}
      PROVE  k + all[k].imm \in 1 .. m + n
  <2>1. ~(k <= m)
    BY <1>1, <1>2, <1>3, <1>5
  <2>2. k - m \in 1 .. n /\ all[k] = t[k - m]
    BY <1>1, <1>2, <2>1
  <2>3. (k - m) + t[k - m].imm \in 1 .. n /\ t[k - m].imm \in Int
    BY <1>3, <1>4, <1>5, <2>2
  <2> QED BY <1>1, <2>2, <2>3
<1>6. all[m + n] = t[n]
  <2>1. m + n \in 1 .. m + n /\ ~(m + n <= m) /\ (m + n) - m = n
    BY <1>1
  <2> QED BY <1>2, <2>1
<1>7. m + n > 0
  BY <1>1
<1> QED BY <1>2, <1>3, <1>5, <1>6, <1>7 DEF Closed, all

\* The translation that is ready is closed: no placeholder is left.
LEMMA ReadyIsClosed ==
  ASSUME IInv, CInv, EndsInReturn, phase = "ready" PROVE Closed(wasm_instructions)
<1> DEFINE n == Len(wasm_instructions)
<1>1. /\ wasm_instructions \in Seq(Instruction) /\ n \in Nat /\ n > 0
      /\ wasm_instructions[n] = EncodeReturn
  BY LenProperties DEF IInv, TypeOK, EndsInReturn
<1>2. Fakes(wasm_instructions, 0) = {}
  BY DEF IInv, PlaceholdersRecorded
<1>3. ASSUME NEW k \in 1 .. n PROVE wasm_instructions[k] \in Encoded
  <2>1. wasm_instructions[k].op # "fake"
    BY <1>2 DEF Fakes
  <2>2. wasm_instructions[k] \in Instruction
    BY <1>1, ElementOfSeq
  <2> QED BY <2>1, <2>2 DEF Instruction, Placeholder
<1>4. wasm_instructions \in Seq(Encoded)
  <2>1. wasm_instructions \in [1 .. n -> Instruction]
    BY <1>1, LenProperties
  <2>2. wasm_instructions \in [1 .. n -> Encoded]
    BY <1>3, <2>1
  <2> QED BY <1>1, <2>2, FunctionIsSeq
<1>5. \A k \in 1 .. n : wasm_instructions[k].op \in {"b", "bl", "bcond"} =>
        k + wasm_instructions[k].imm \in 1 .. n
  <2>1. DOMAIN wasm_instructions = 1 .. n
    BY <1>1, LenProperties
  <2> QED BY <2>1 DEF CInv, BranchesLandInCode
<1>6. wasm_instructions[n].op = "ret"
  BY <1>1 DEF EncodeReturn, Ins
<1> QED BY <1>1, <1>4, <1>5, <1>6 DEF Closed

\* So is what is mapped.
MappedClosed == Running => Closed(instruction_set)

LEMMA MappedIsClosed == MachineInv => MappedClosed
<1> SUFFICES ASSUME MachineInv, Running PROVE Closed(instruction_set)
    BY DEF MappedClosed
<1>1. /\ phase = "ready" /\ instruction_set = pre_instructions \o wasm_instructions
      /\ IInv /\ CInv /\ EndsInReturn
  BY DEF MachineInv, FullInstructions
<1>2. pre_instructions \in Seq(Encoded) /\ pre_instructions \in Seq(Part)
  BY <1>1 DEF IInv, TypeOK, CInv
<1>3. ASSUME NEW k \in 1 .. Len(pre_instructions)
      PROVE  pre_instructions[k].op \notin {"b", "bl", "bcond"}
  <2>1. pre_instructions[k] \in Part /\ pre_instructions[k] \in Encoded
    BY <1>2, ElementOfSeq
  <2>2. pre_instructions[k].op # "fake"
    BY <2>1 DEF Encoded, Operation
  <2> QED BY <2>1, <2>2, StraightPart
<1> QED BY <1>1, <1>2, <1>3, ReadyIsClosed, ClosedBehindStraight

\* A jump through a register goes back to the caller or into the code: x30
\* and setjmp's buffer still hold what was saved in them.
JumpsLand ==
  Running /\ pc # HostReturn /\ instruction_set[pc + 1].op \in {"br", "ret"} =>
    x[instruction_set[pc + 1].n] \in (0 .. Len(instruction_set) - 1) \cup {HostReturn}

\* An instruction of closed code leads into it, or jumps through a register.
LEMMA ExecuteLeads ==
  ASSUME NEW code, Closed(code), pc \in 0 .. Len(code) - 1, Execute(code[pc + 1]),
         code[pc + 1].op \notin {"br", "ret"}
  PROVE  pc' \in 0 .. Len(code) - 1
<1> DEFINE n == Len(code)
           ins == code[pc + 1]
<1>1. /\ n \in Nat /\ pc \in 0 .. n - 1 /\ pc + 1 \in 1 .. n
      /\ ins.op \in {"b", "bl", "bcond"} => (pc + 1) + ins.imm \in 1 .. n
      /\ code[n].op = "ret" /\ ins.op # "ret"
  <2>1. n \in Nat
    BY LenProperties DEF Closed
  <2>2. pc + 1 \in 1 .. n
    BY <2>1
  <2> QED BY <2>1, <2>2 DEF Closed
<1>2. ins.imm \in Int
  <2>1. code \in Seq(Encoded)
    BY DEF Closed
  <2>2. ins \in Encoded
    BY <1>1, <2>1, ElementOfSeq
  <2> HIDE DEF ins
  <2> QED BY <2>2 DEF Encoded
<1>3. pc' = pc + 1 \/ (ins.op \in {"b", "bl", "bcond"} /\ pc' = pc + ins.imm)
  BY DEF Execute, Compute, Compare, Load, Store, LoadPair, StorePair, Branch,
         BranchRegister, NoOperation
<1>4. pc + 1 # n
  BY <1>1
<1> HIDE DEF n, ins
<1>5. CASE pc' = pc + 1
  BY <1>1, <1>4, <1>5 DEF n
<1>6. CASE ins.op \in {"b", "bl", "bcond"} /\ pc' = pc + ins.imm
  BY <1>1, <1>2, <1>6 DEF n
<1> QED BY <1>3, <1>5, <1>6

\* At every place of closed code is an instruction.
LEMMA NoFakeInClosed ==
  ASSUME NEW code, Closed(code), NEW at \in 0 .. Len(code) - 1
  PROVE  code[at + 1].op # "fake"
<1>1. code \in Seq(Encoded) /\ Len(code) \in Nat
  BY LenProperties DEF Closed
<1>2. at + 1 \in 1 .. Len(code)
  BY <1>1
<1>3. code[at + 1] \in Encoded
  BY <1>1, <1>2, ElementOfSeq
<1> QED BY <1>3 DEF Encoded, Operation

\* From one place in the code to the next.
LEMMA PcInCodeStep ==
  ASSUME MappedClosed, MappedClosed', JumpsLand, PcInCode, [JitNext]_jitVars
  PROVE  PcInCode'
<1> SUFFICES ASSUME Running', pc' # HostReturn
             PROVE  pc' \in 0 .. Len(instruction_set') - 1
  BY NoFakeInClosed DEF PcInCode, MappedClosed
<1>1. CASE TranslateStep
  <2>1. UNCHANGED << pc, instruction_set >>
    BY <1>1 DEF TranslateStep, cpu
  <2> QED BY <2>1 DEF PcInCode, Running
<1>2. CASE StartExecution
  <2>1. pc' = 0 /\ Closed(instruction_set')
    BY <1>2 DEF StartExecution, MappedClosed
  <2>2. Len(instruction_set') \in Nat /\ Len(instruction_set') > 0
    BY <2>1, LenProperties DEF Closed
  <2> QED BY <2>1, <2>2
<1>3. CASE ExecuteStep
  <2> DEFINE ins == instruction_set[pc + 1]
  <2>1. /\ Running /\ pc # HostReturn /\ pc \in 0 .. Len(instruction_set) - 1
        /\ Execute(ins) /\ instruction_set' = instruction_set
    BY <1>3 DEF ExecuteStep
  <2>2. CASE ins.op \notin {"br", "ret"}
    BY <2>1, <2>2, ExecuteLeads DEF MappedClosed
  <2>3. CASE ins.op \in {"br", "ret"}
    <3>1. x[ins.n] \in (0 .. Len(instruction_set) - 1) \cup {HostReturn}
      BY <2>1, <2>3 DEF JumpsLand
    <3>2. pc' = x[ins.n]
      BY <2>1, <2>3 DEF Execute, Compute, RegisterOps, Compare, Load, Store, LoadPair,
                        StorePair, Branch, BranchRegister, NoOperation
    <3> QED BY <2>1, <3>1, <3>2
  <2> QED BY <2>2, <2>3
<1>4. CASE FinishExecution
  BY <1>4 DEF FinishExecution, Running
<1>5. CASE UNCHANGED jitVars
  BY <1>5 DEF jitVars, cpu, PcInCode, Running
<1> QED BY <1>1, <1>2, <1>3, <1>4, <1>5 DEF JitNext

(***************************************************************************)
(* The theorems.                                                           *)
(***************************************************************************)
\* Control never leaves the mapped code and never meets a placeholder, in any
\* call of any function, unless a return goes astray: a branch that
\* fixUpfakeBranch made lands in the code behind the loaded parameters, what
\* is no branch is not the last instruction, and the ret of setjmp's runtime
\* and of the epilogue and longjmp's br are the only jumps left to trust.
THEOREM PcInCodeCorrect == JitSpec => ([]JumpsLand => []PcInCode)
<1>1. JitInit => MachineInv /\ PcInCode
  <2>1. JitInit => PcInCode
    BY DEF JitInit, PcInCode, Running
  <2> QED BY <2>1, MachineInvInit
<1>2. MachineInv /\ [JitNext]_jitVars => MachineInv'
  BY MachineInvStep
<1>3. MachineInv => MappedClosed
  BY MappedIsClosed
<1>4. MappedClosed /\ MappedClosed' /\ JumpsLand /\ PcInCode /\ [JitNext]_jitVars => PcInCode'
  BY PcInCodeStep
<1> QED BY <1>1, <1>2, <1>3, <1>4, PTL DEF JitSpec

\* The processor executes what the translator meant: the word at every place
\* of the code that runs, read from the bytes that charToHex made of the
\* text, is decoded to the instruction there.  Jit may therefore run
\* instructions where the processor runs bytes.
ExecutedAsEmitted ==
  Running =>
    LET bytes == CharArray(instruction_set)
    IN \A k \in DOMAIN instruction_set :
         Decoded(Fetched(bytes, 4 * (k - 1))) = instruction_set[k]

THEOREM ExecutedCorrect == JitSpec => []ExecutedAsEmitted
<1>1. MachineInv => ExecutedAsEmitted
  BY DEF MachineInv, CInv, FetchedAsEmitted, ExecutedAsEmitted
<1>2. MachineInv /\ [JitNext]_jitVars => MachineInv'
  BY MachineInvStep
<1> QED BY <1>1, <1>2, MachineInvInit, PTL DEF JitSpec

\* With the pages: until a return goes astray every instruction is fetched
\* from a page that the call mapped, whatever the process does in between.
THEOREM CallStaysOnItsPages == JitPagesSpec => ([]JumpsLand => []FetchesOwnPages)
<1>1. JitPagesInit => MachineInv /\ PcInCode
  <2>1. JitPagesInit => JitInit
    BY DEF JitPagesInit
  <2>2. JitInit => PcInCode
    BY DEF JitInit, PcInCode, Running
  <2> QED BY <2>1, <2>2, MachineInvInit
<1>2. [JitPagesNext]_jitPagesVars => [JitNext]_jitVars \/ (NoPages /\ UNCHANGED cpu)
  <2> SUFFICES ASSUME [JitPagesNext]_jitPagesVars
               PROVE  [JitNext]_jitVars \/ (NoPages /\ UNCHANGED cpu)
    OBVIOUS
  <2>1. CASE MapAndCall \/ ReturnAndUnmap \/ TranslateStep \/ ExecuteStep
    BY <2>1 DEF MapAndCall, ReturnAndUnmap, JitNext
  <2>2. CASE RestOfProcess \/ UNCHANGED jitPagesVars
    BY <2>2 DEF RestOfProcess, jitPagesVars
  <2>3. CASE MmapFails
    BY <2>3 DEF MmapFails, NoPages
  <2> QED BY <2>1, <2>2, <2>3 DEF JitPagesNext
<1>3. MachineInv /\ [JitPagesNext]_jitPagesVars => MachineInv'
  BY <1>2, MachineInvStep
<1>4. MachineInv => MappedClosed
  BY MappedIsClosed
<1>5. MappedClosed /\ MappedClosed' /\ JumpsLand /\ PcInCode /\ [JitPagesNext]_jitPagesVars => PcInCode'
  <2>1. ASSUME NoPages, UNCHANGED cpu PROVE PcInCode'
    BY <2>1 DEF NoPages, PcInCode, Running
  <2> QED BY <1>2, <2>1, PcInCodeStep
<1>6. PcInCode /\ CallInv => FetchesOwnPages
  BY FetchedPage DEF PcInCode, FetchesOwnPages
<1> QED BY <1>1, <1>3, <1>4, <1>5, <1>6, CallInvInit, CallInvStep, PTL DEF JitPagesSpec
=============================================================================
