------------------------------ MODULE JitPages ------------------------------
(***************************************************************************)
(* executeWasmInstr with the pages it maps: Jit and CodePages step         *)
(* together.  The code is as long as the translator made it, four bytes    *)
(* an instruction, and the rest of the process has its turn whenever the   *)
(* emitted code does not run.                                              *)
(***************************************************************************)
EXTENDS Jit, CodePages

jitPagesVars == << jitVars, pagesVars >>

JitPagesInit == JitInit /\ PagesInit

\* Mutant: the code that loads the parameters is appended to what was mapped.
CodeBytesOfBody == 4 * Len(wasm_instructions)

CodeBytes == 4 * (Len(pre_instructions) + Len(wasm_instructions))

MapAndCall == StartExecution /\ arraySize' = CodeBytes /\ GetFunctionPointer

\* mmap returns MAP_FAILED: exit(1).
MmapFails ==
  /\ phase = "ready" /\ ~Running
  /\ \A start \in Page : ~Fits(start, CodeBytes)
  /\ Stop("aborted")
  /\ UNCHANGED << cpu, instruction_set, outcome, pagesVars >>

ReturnAndUnmap == FinishExecution /\ Munmap

RestOfProcess ==
  /\ ~Running \/ pc \in {0, HostReturn}
  /\ OtherMaps \/ OtherUnmaps
  /\ UNCHANGED jitVars

JitPagesNext ==
  \/ MapAndCall \/ MmapFails \/ ReturnAndUnmap \/ RestOfProcess
  \/ TranslateStep /\ UNCHANGED pagesVars
  \/ ExecuteStep /\ UNCHANGED pagesVars

JitPagesSpec == JitPagesInit /\ [][JitPagesNext]_jitPagesVars

-----------------------------------------------------------------------------
\* The processor fetches from pages of the call: the instruction at pc lies
\* on a page that mmap gave and nobody has taken (getFunctionPointer copies
\* the whole text, and nothing is unmapped before the return).
FetchesOwnPages ==
  Running /\ pc # HostReturn =>
    \E p \in Page : p = base + (4 * pc) \div PageBytes /\ owner[p] = "code"

\* Execute.hpp says of munmap "GC here": what is given back is what was
\* garbage, the pages of the call.  With more than half a page of code the
\* length, counted in characters, reaches the page behind.
OnlyGarbageCollected ==
  [][mapped /\ ~mapped' =>
       \A p \in Page : owner[p] # "code" => owner'[p] = owner[p]]_jitPagesVars
=============================================================================
