------------------------------- MODULE Parser -------------------------------
(***************************************************************************)
(* class Parser of include/Parser.hpp: a binary is cut into sections, and  *)
(* four kinds of sections into entries, with every size, count and index   *)
(* read as one byte.                                                       *)
(*                                                                         *)
(* The source holds the binary as a string of two characters per byte and  *)
(* crops it from the left; here the bytes stay and pos counts those that   *)
(* were cropped.  Offsets count bytes from there.                          *)
(***************************************************************************)
EXTENDS Integers, SequencesExt, Maps

\* The binaries: bytes is what readBinary reads; the other two fields are
\* known to the statements about the parser only (ParsedModules).
CONSTANT Files

ASSUME FilesAssumption == \A f \in Files : f.bytes \in Seq(0 .. 255)

VARIABLES
  file,
  phase,                \* what parse is doing
  pos,                  \* how much of the binary is cropped
  length,               \* of the section, as read
  base_offset,          \* in the section, as the handler keeps it
  todo,                 \* entries the handler still has to read
  wasmTypeVec,
  funcTypeVec,
  funcNameIndexMapper,
  funcIndexNameMapper,
  wasmFunctionVec

tables == << wasmTypeVec, funcTypeVec, funcNameIndexMapper,
             funcIndexNameMapper, wasmFunctionVec >>

parserVars == << file, phase, pos, length, base_offset, todo, tables >>

Magic == << \h00, \h61, \h73, \h6D >>

\* The handler of each section that has one.
HandlerOf == [id \in {1, 3, 7, 10} |->
  CASE id = 1 -> "types" [] id = 3 -> "functions"
    [] id = 7 -> "exports" [] id = 10 -> "codes"]

Handler == {"types", "functions", "exports", "codes"}

Remaining == Len(file.bytes) - pos

\* stoul(s.substr(o, one byte)) gives a number: with nothing left at o one
\* of the two throws.
Has(o) == o < Remaining

\* s.substr(o, one byte) does not throw; at the end of s it is empty.
MayCut(o) == o <= Remaining

At(o) == file.bytes[pos + o + 1]

\* The byte string that substr cuts at the very end of s.
NoByte == 256

Cut(o, n) == [j \in 1 .. n |-> IF Has(o + j - 1) THEN At(o + j - 1) ELSE NoByte]

\* WasmType::add_data: a byte that is no type is reported and left out.
TypeName == [b \in {\h7F, \h7E, \h7D, \h7C} |->
  CASE b = \h7F -> "i" [] b = \h7E -> "l" [] b = \h7D -> "f" [] b = \h7C -> "d"]

\* Mutant: a byte that is no type is added all the same.
AddDataAll(bytes) ==
  [k \in DOMAIN bytes |->
     IF bytes[k] \in DOMAIN TypeName THEN TypeName[bytes[k]] ELSE "unknown"]

AddData(bytes) ==
  FlattenSeq([k \in DOMAIN bytes |->
    IF bytes[k] \in DOMAIN TypeName THEN << TypeName[bytes[k]] >> ELSE << >>])

ParserInit ==
  /\ file \in Files
  /\ phase = "check"
  /\ pos = 0 /\ length = 0 /\ base_offset = 0 /\ todo = 0
  /\ wasmTypeVec = << >> /\ funcTypeVec = << >> /\ wasmFunctionVec = << >>
  /\ funcNameIndexMapper = << >> /\ funcIndexNameMapper = << >>

\* An exception nobody catches, or exit.
ParserStops(how) ==
  /\ phase' = how
  /\ UNCHANGED << file, pos, length, base_offset, todo, tables >>

(***************************************************************************)
(* parse                                                                   *)
(***************************************************************************)
IsWasm == Remaining >= 4 /\ SubSeq(file.bytes, 1, 4) = Magic

InitialCheck ==
  /\ phase = "check"
  /\ IF IsWasm /\ Remaining >= 8
       THEN /\ pos' = 8 /\ phase' = "section"
            /\ UNCHANGED << file, length, base_offset, todo, tables >>
       ELSE ParserStops(IF IsWasm THEN "aborted" ELSE "exited")

\* The type and the length are cropped; a handler starts with its count.
BeginSection ==
  /\ phase = "section" /\ Has(0)
  /\ LET handled == At(0) \in DOMAIN HandlerOf
     IN IF Has(1) /\ (handled => Has(2))
          THEN /\ length' = At(1) /\ pos' = pos + 2
               /\ phase' = IF handled THEN HandlerOf[At(0)] ELSE "skipping"
               /\ todo' = IF handled THEN At(2) ELSE 0
               /\ base_offset' = IF At(0) = 1 THEN 1 ELSE 0
               /\ UNCHANGED << file, tables >>
          ELSE ParserStops("aborted")

\* Mutant: erase(0, n) instead of substr(n), which does not throw.
EndSectionErases ==
  /\ phase \in Handler \cup {"skipping"} /\ todo = 0
  /\ pos' = IF MayCut(length) THEN pos + length ELSE Len(file.bytes)
  /\ phase' = "section"
  /\ UNCHANGED << file, length, base_offset, todo, tables >>

\* s = s.substr(length): the handler's own offset is not asked.
EndSection ==
  /\ phase \in Handler \cup {"skipping"} /\ todo = 0
  /\ IF MayCut(length)
       THEN /\ pos' = pos + length /\ phase' = "section"
            /\ UNCHANGED << file, length, base_offset, todo, tables >>
       ELSE ParserStops("aborted")

Finish == phase = "section" /\ ~Has(0) /\ ParserStops("done")

\* What one turn of a handler's loop leaves alone.
Entry(handler) ==
  /\ phase = handler /\ todo > 0
  /\ UNCHANGED << file, length, pos >>

\* Mutant: the byte with the size is not counted.
AdvanceShort(bytes) ==
  /\ base_offset' = base_offset + bytes - 1
  /\ todo' = todo - 1
  /\ UNCHANGED phase

Advance(bytes) ==
  /\ base_offset' = base_offset + bytes
  /\ todo' = todo - 1
  /\ UNCHANGED phase

\* Mutant: the exception is caught around the entry, which is read again.
EntrySwallowed ==
  UNCHANGED << phase, base_offset, todo, tables >>

EntryThrows ==
  /\ phase' = "aborted" /\ UNCHANGED << base_offset, todo, tables >>

(***************************************************************************)
(* parse_type: the byte at base_offset is 60, followed by the counted      *)
(* parameters and the counted results.                                     *)
(***************************************************************************)
ParseType ==
  /\ Entry("types")
  /\ LET params == base_offset + 2
         results == params + At(base_offset + 1) + 1
     IN IF Has(base_offset + 1) /\ Has(results - 1)
             /\ (At(results - 1) > 0 => MayCut(results + At(results - 1) - 1))
          THEN /\ wasmTypeVec' = Append(wasmTypeVec,
                    [params |-> AddData(Cut(params, At(base_offset + 1))),
                     results |-> AddData(Cut(results, At(results - 1)))])
               /\ Advance(3 + At(base_offset + 1) + At(results - 1))
               /\ UNCHANGED << funcTypeVec, funcNameIndexMapper,
                               funcIndexNameMapper, wasmFunctionVec >>
          ELSE EntryThrows

ParseFunction ==
  /\ Entry("functions")
  /\ IF Has(base_offset + 1)
       THEN /\ funcTypeVec' = Append(funcTypeVec, At(base_offset + 1))
            /\ Advance(1)
            /\ UNCHANGED << wasmTypeVec, funcNameIndexMapper,
                            funcIndexNameMapper, wasmFunctionVec >>
       ELSE EntryThrows

\* Mutant: the kind of the export is taken for its index.
ParseExportKind ==
  /\ Entry("exports")
  /\ LET size == At(base_offset + 1)
     IN IF Has(base_offset + 1) /\ Has(base_offset + size + 3)
          THEN LET name == Cut(base_offset + 2, size)
                   index == At(base_offset + size + 2)
               IN /\ funcNameIndexMapper' = Update(funcNameIndexMapper, name, index)
                  /\ funcIndexNameMapper' = Update(funcIndexNameMapper, index, name)
                  /\ Advance(size + 3)
                  /\ UNCHANGED << wasmTypeVec, funcTypeVec, wasmFunctionVec >>
          ELSE EntryThrows

\* The export's kind is read and not used.
ParseExport ==
  /\ Entry("exports")
  /\ LET size == At(base_offset + 1)
     IN IF Has(base_offset + 1) /\ Has(base_offset + size + 3)
          THEN LET name == Cut(base_offset + 2, size)
                   index == At(base_offset + size + 3)
               IN /\ funcNameIndexMapper' = Update(funcNameIndexMapper, name, index)
                  /\ funcIndexNameMapper' = Update(funcIndexNameMapper, index, name)
                  /\ Advance(size + 3)
                  /\ UNCHANGED << wasmTypeVec, funcTypeVec, wasmFunctionVec >>
          ELSE EntryThrows

\* func_size counts the byte with the number of declarations, so a size of 0
\* wraps around and the loop runs until substr throws.
ParseCode ==
  /\ Entry("codes")
  /\ LET func_size == At(base_offset + 1)
     IN IF /\ Has(base_offset + 2) /\ func_size > 0
           /\ func_size > 1 => MayCut(base_offset + func_size + 1)
          THEN /\ wasmFunctionVec' = Append(wasmFunctionVec,
                    [code_vec |-> Cut(base_offset + 3, func_size - 1),
                     local_var_declare_count |-> At(base_offset + 2)])
               /\ Advance(func_size + 1)
               /\ UNCHANGED << wasmTypeVec, funcTypeVec, funcNameIndexMapper,
                               funcIndexNameMapper >>
          ELSE EntryThrows

ParserNext ==
  \/ InitialCheck \/ BeginSection \/ EndSection \/ Finish
  \/ ParseType \/ ParseFunction \/ ParseExport \/ ParseCode

\* The parser is a loop of one thread: it keeps running.
ParserSpec == ParserInit /\ [][ParserNext]_parserVars /\ WF_parserVars(ParserNext)

-----------------------------------------------------------------------------
Bytes == 0 .. 255

Name == Seq(Bytes \cup {NoByte})

ParserPhase ==
  Handler \cup {"check", "section", "skipping", "done", "exited", "aborted"}

\* Every variable keeps its type, whatever the bytes; a handler's count has
\* been read, and no crop passed the end.
ParserTypeOK ==
  /\ phase \in ParserPhase
  /\ pos \in 0 .. Len(file.bytes)
  /\ length \in Bytes /\ todo \in Bytes /\ base_offset \in Nat
  /\ wasmTypeVec \in Seq([params : Seq({"i", "l", "f", "d"}),
                          results : Seq({"i", "l", "f", "d"})])
  /\ funcTypeVec \in Seq(Bytes)
  /\ DOMAIN funcNameIndexMapper \subseteq Name
  /\ funcNameIndexMapper \in [DOMAIN funcNameIndexMapper -> Bytes]
  /\ DOMAIN funcIndexNameMapper \subseteq Bytes
  /\ funcIndexNameMapper \in [DOMAIN funcIndexNameMapper -> Name]
  /\ wasmFunctionVec \in Seq([code_vec : Name, local_var_declare_count : Bytes])

\* The parser comes to an end on every sequence of bytes: each section crops
\* at least its type and its length, and no count passes a byte.
ParsingEnds == <>(phase \in {"done", "exited", "aborted"})
=============================================================================
