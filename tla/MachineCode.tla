---------------------------- MODULE MachineCode -----------------------------
(***************************************************************************)
(* The bytes of a translation, from the encoders' fields to the            *)
(* processor's view of the mapped pages.                                   *)
(***************************************************************************)
EXTENDS WasmFunction, InstructionWord, A64Decoding

\* A half is an immediate of 16 bits (encodeMovz, encodeMovk).  parse_code
\* reads the size of its section from one byte, so no body is longer.
ASSUME MachineAssumption ==
  /\ HalfBase <= 65536
  /\ \A body \in Bodies : Len(body.code_vec) < 256

\* executeWasmInstr: full_instructions.
FullInstructions == pre_instructions \o wasm_instructions

\* No encoder threw on the way to a translation that is ready: Encodable,
\* which stands for the out_of_range of setField, leaves no field out.
NoFieldOverflows ==
  phase = "ready" =>
    \A k \in DOMAIN FullInstructions : ~EncoderThrows(FullInstructions[k])

\* What the processor fetches at instruction k of the mapped code, and
\* decodes by the tables of the architecture, is the instruction that the
\* translator meant there: no field of an encoder overlaps or misses, and
\* swapping, printing, fix-up, concatenation and reading back of the text keep
\* every instruction in its four bytes.
FetchedAsEmitted ==
  phase = "ready" =>
    LET bytes == CharArray(FullInstructions)
    IN \A k \in DOMAIN FullInstructions :
         Decoded(Fetched(bytes, 4 * (k - 1))) = FullInstructions[k]
=============================================================================
