------------------------------ MODULE MCParser ------------------------------
(***************************************************************************)
(* Files to parse: every module made of a choice of types, functions,      *)
(* exports, bodies and sections in between; a module of the repository's   *)
(* tests; files that end too early at any byte; files that are no module.  *)
(***************************************************************************)
EXTENDS ParsedModules

Module(types, funcs, exports, codes, extra) ==
  [types |-> types, funcs |-> funcs, exports |-> exports, codes |-> codes,
   extra |-> extra]

Signature(params, results) == [params |-> params, results |-> results]
ExportOf(name, kind, index) == [name |-> name, kind |-> kind, index |-> index]
Body(locals, body) == [locals |-> locals, body |-> body]

\* A body of n bytes.
Nops(n) == Body(<< >>, [k \in 1 .. n |-> IF k = n THEN \h0B ELSE 1])

TypeSections ==
  { << Signature(<< >>, << >>) >>,
    << Signature(<< "i", "l" >>, << "d" >>), Signature(<< >>, << "i", "f" >>) >>,
    << Signature(<< "l" >>, << "l" >>), Signature(<< "f", "d", "i" >>, << >>),
       Signature(<< >>, << "l" >>) >> }

\* One function under no, one or two names; a name of no byte; the memory
\* exported beside function 0.
ExportSections ==
  { << >>,
    << ExportOf(<< 97 >>, 0, 0) >>,
    << ExportOf(<< 97, 98 >>, 0, 1), ExportOf(<< >>, 0, 0) >>,
    << ExportOf(<< 97 >>, 0, 0), ExportOf(<< 98, 97, 97 >>, 0, 0) >>,
    << ExportOf(<< 97 >>, 0, 0), ExportOf(<< 109 >>, 2, 0), ExportOf(<< 98 >>, 0, 1) >> }

\* The last two make a code section of 127 and of 128 bytes.
CodeSections ==
  { << Body(<< >>, << \h0B >>), Body(<< << 2, \h7E >>, << 1, \h7C >> >>, << 1, \h0B >>) >>,
    << Body(<< << 1, \h7F >> >>, << \h20, 0, \h0B >>), Body(<< >>, << \h0B >>) >>,
    << Nops(60), Nops(62) >>, << Nops(60), Nops(63) >> }

ExtraSections ==
  { << >>, << [id |-> 5, content |-> << 1, 0, 1 >>] >>,
    << [id |-> 0, content |-> << 1, 97, 7, 7 >>], [id |-> 6, content |-> << >>] >>,
    << [id |-> 0, content |-> [k \in 1 .. 127 |-> 10]] >> }

SmallModules ==
  { Module(t, << 0, Len(t) - 1 >>, e, c, x) :
      t \in TypeSections, e \in ExportSections, c \in CodeSections, x \in ExtraSections }

\* test/CH04/div.0.wasm.
Div0 ==
  LET name(last) == << \h64, \h69, \h76, \h5F, last >>
      body(op) == Body(<< >>, << \h20, 0, \h20, 1, op, \h0B >>)
  IN Module(<< Signature(<< "i", "i" >>, << "i" >>) >>, << 0, 0 >>,
            << ExportOf(name(\h73), 0, 0), ExportOf(name(\h75), 0, 1) >>,
            << body(\h6D), body(\h6E) >>, << >>)

Div0Bytes ==
  << \h00, \h61, \h73, \h6D, \h01, \h00, \h00, \h00,
     \h01, \h07, \h01, \h60, \h02, \h7F, \h7F, \h01, \h7F,
     \h03, \h03, \h02, \h00, \h00,
     \h07, \h11, \h02, \h05, \h64, \h69, \h76, \h5F, \h73, \h00, \h00,
                       \h05, \h64, \h69, \h76, \h5F, \h75, \h00, \h01,
     \h0A, \h11, \h02, \h07, \h00, \h20, \h00, \h20, \h01, \h6D, \h0B,
                       \h07, \h00, \h20, \h00, \h20, \h01, \h6E, \h0B >>

ASSUME Div0Assumption == Encode(Div0) = Div0Bytes

\* A module with a section of every kind.
Longest == Module(<< Signature(<< "i" >>, << "l" >>), Signature(<< >>, << "d" >>) >>,
                  << 1, 0 >>, << ExportOf(<< 97 >>, 0, 1) >>,
                  << Body(<< << 1, \h7F >> >>, << \h0B >>), Body(<< >>, << 1, \h0B >>) >>,
                  << [id |-> 0, content |-> << 1, 97 >>] >>)

\* The first n bytes of the encoding, for every n inside a section.
Cuts(m) ==
  { PartOf(m, SubSeq(Encode(m), 1, n)) :
      n \in 0 .. Len(Encode(m)) \ {SectionEnd(m, k) : k \in 0 .. Len(Sections(m))} }

Replaced(m, n, byte) == NoModule([Encode(m) EXCEPT ![n] = byte])

\* One byte is another one: the magic number, counts, sizes, types.
Garbled == { Replaced(Longest, n, b) : n \in 1 .. Len(Encode(Longest)),
                                       b \in {0, 1, 3, \h70, 255} }

ParserFiles ==
  { FileOf(m) : m \in SmallModules \cup {Div0, Longest} }
  \cup Cuts(Longest) \cup Cuts(Div0) \cup Garbled
=============================================================================
