--------------------------- MODULE ParsedModules ----------------------------
(***************************************************************************)
(* What the parser owes the rest of the program: the tables of the module  *)
(* a file holds.  Each of Files says which module the parser is to find    *)
(* (module) and of which module it is the beginning and ends inside a      *)
(* section (cut); each is a set of at most one module.                     *)
(***************************************************************************)
EXTENDS Parser, WasmBinary

\* The parser reads numbers of one byte ("we assume that the length is at
\* max 1 byte"): it is to find the module when that is enough.
MayFind(m) == WellFormed(m) /\ OneByteSizes(m)

BeginningOf(bytes, m) ==
  /\ Len(bytes) <= Len(Encode(m))
  /\ bytes = SubSeq(Encode(m), 1, Len(bytes))

EndsInside(bytes, m) ==
  BeginningOf(bytes, m) /\ \A k \in 0 .. Len(Sections(m)) : Len(bytes) # SectionEnd(m, k)

ASSUME TruthAssumption ==
  \A f \in Files :
    /\ \A m \in f.module : MayFind(m) /\ f.bytes = Encode(m)
    /\ \A m \in f.cut : MayFind(m) /\ EndsInside(f.bytes, m)

\* The tables as the module defines them.
FunctionOf(c) ==
  [code_vec |-> FlattenSeq(c.locals) \o c.body,
   local_var_declare_count |-> Len(c.locals)]

HoldsModule(m) ==
  /\ wasmTypeVec = m.types
  /\ funcTypeVec = m.funcs
  /\ wasmFunctionVec = [k \in DOMAIN m.codes |-> FunctionOf(m.codes[k])]
  /\ DOMAIN funcNameIndexMapper = {m.exports[k].name : k \in DOMAIN m.exports}
  /\ \A k \in DOMAIN m.exports :
       /\ funcNameIndexMapper[m.exports[k].name] = m.exports[k].index
       /\ \E j \in DOMAIN m.exports :
            /\ m.exports[j].index = m.exports[k].index
            /\ funcIndexNameMapper[m.exports[k].index] = m.exports[j].name

FileOf(m) ==
  [bytes |-> Encode(m), module |-> IF OneByteSizes(m) THEN {m} ELSE {}, cut |-> {}]

PartOf(m, bytes) == [bytes |-> bytes, module |-> {}, cut |-> {m}]

NoModule(bytes) == [bytes |-> bytes, module |-> {}, cut |-> {}]

\* Where the next entry begins: parse_type keeps its offset on it, the other
\* handlers one byte before.
NextEntry == IF phase = "types" THEN base_offset ELSE base_offset + 1

-----------------------------------------------------------------------------
\* A module whose numbers take one byte is accepted, and the tables are its
\* own: the four handlers cut every entry where the format puts it, and skip
\* what they have no use for (parse and the four parse_ handlers).
ParsedAsEncoded ==
  \A m \in file.module :
    /\ phase \notin {"exited", "aborted"}
    /\ phase = "done" => HoldsModule(m)

\* The two accounts of a section agree: a handler that has read its last
\* entry stands where the length read in front of the section ends.  parse
\* crops by the length alone and never asks the handler.
CursorMeetsSectionEnd ==
  file.module # {} /\ phase \in Handler =>
    /\ NextEntry <= length
    /\ todo = 0 => NextEntry = length

\* A file that ends inside a section is not accepted.
CutNoticed == file.cut # {} => phase # "done"
=============================================================================
