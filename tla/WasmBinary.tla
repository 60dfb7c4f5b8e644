----------------------------- MODULE WasmBinary -----------------------------
(***************************************************************************)
(* The binary format of WebAssembly modules, from its definition and not   *)
(* from the repository: what the bytes of a module are.  A module is       *)
(*   types    sequence of [params, results], each a sequence of types      *)
(*   funcs    sequence of indices in types (from 0)                        *)
(*   exports  sequence of [name, kind, index]; kind 0 is a function        *)
(*   codes    sequence of [locals, body]; locals: sequence of << count,    *)
(*            type byte >>; body: the opcodes                              *)
(*   extra    sequence of [id, content]: sections between types and code   *)
(*            that the parser has no handler for                           *)
(***************************************************************************)
EXTENDS Integers, SequencesExt

TypeByte == [i |-> \h7F, l |-> \h7E, f |-> \h7D, d |-> \h7C]

\* Unsigned LEB128, of the numbers below 2^14.
U32(n) == IF n < 128 THEN << n >> ELSE << 128 + (n % 128), n \div 128 >>

Vec(items) == U32(Len(items)) \o FlattenSeq(items)

ValTypes(types) == Vec([k \in DOMAIN types |-> << TypeByte[types[k]] >>])

FuncType(t) == << \h60 >> \o ValTypes(t.params) \o ValTypes(t.results)

Export(e) == U32(Len(e.name)) \o e.name \o << e.kind >> \o U32(e.index)

Code(c) ==
  LET content == Vec([k \in DOMAIN c.locals |->
                        U32(c.locals[k][1]) \o << c.locals[k][2] >>]) \o c.body
  IN U32(Len(content)) \o content

TypeItems(m) == [k \in DOMAIN m.types |-> FuncType(m.types[k])]
FuncItems(m) == [k \in DOMAIN m.funcs |-> U32(m.funcs[k])]
ExportItems(m) == [k \in DOMAIN m.exports |-> Export(m.exports[k])]
CodeItems(m) == [k \in DOMAIN m.codes |-> Code(m.codes[k])]

\* The sections of a module, in order.
Sections(m) ==
  << [id |-> 1, content |-> Vec(TypeItems(m))], [id |-> 3, content |-> Vec(FuncItems(m))] >>
  \o m.extra
  \o << [id |-> 7, content |-> Vec(ExportItems(m))],
        [id |-> 10, content |-> Vec(CodeItems(m))] >>

SectionBytes(m) ==
  LET sections == Sections(m)
  IN [k \in DOMAIN sections |->
        << sections[k].id >> \o U32(Len(sections[k].content)) \o sections[k].content]

Header == << \h00, \h61, \h73, \h6D, 1, 0, 0, 0 >>

Encode(m) == Header \o FlattenSeq(SectionBytes(m))

\* How many bytes the first k of some items take.
Offset(items, k) == Len(FlattenSeq(SubSeq(items, 1, k)))

SectionEnd(m, k) == Len(Header) + Offset(SectionBytes(m), k)

\* What a module is made of.  Names are exported once.
WellFormed(m) ==
  LET Byte == 0 .. 255
      ValType == {"i", "l", "f", "d"}
  IN /\ m.types \in Seq([params : Seq(ValType), results : Seq(ValType)])
     /\ m.funcs \in Seq(0 .. Len(m.types) - 1)
     /\ m.exports \in Seq([name : Seq(Byte), kind : 0 .. 3, index : 0 .. 2^14 - 1])
     /\ \A j, k \in DOMAIN m.exports : m.exports[j].name = m.exports[k].name => j = k
     /\ m.codes \in Seq([locals : Seq((0 .. 2^14 - 1) \X Byte), body : Seq(Byte)])
     /\ m.extra \in Seq([id : Byte \ {1, 3, 7, 10}, content : Seq(Byte)])

\* Every number in the module takes one byte; so do those in the sections,
\* which are shorter.
OneByteSizes(m) ==
  /\ \A k \in DOMAIN Sections(m) : Len(Sections(m)[k].content) < 128
  /\ \A k \in DOMAIN m.exports : m.exports[k].index < 128
  /\ \A k \in DOMAIN m.codes : \A j \in DOMAIN m.codes[k].locals : m.codes[k].locals[j][1] < 128
=============================================================================
