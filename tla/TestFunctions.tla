---------------------------- MODULE TestFunctions ---------------------------
(***************************************************************************)
(* The functions of the repository's test modules (test/CH02 to CH05), as  *)
(* parse_code leaves them: the bytes after the count of declarations.      *)
(***************************************************************************)
EXTENDS Naturals, Sequences

Function(code_vec, declares, params, results, inputs) ==
  [code_vec |-> code_vec, local_var_declare_count |-> declares,
   params |-> params, results |-> results, inputs |-> inputs]

\* One parameter p of type t, one result of type t.
Unary(code_vec, declares, t, inputs) ==
  Function(code_vec, declares, << t >>, << t >>, inputs)

Binary(op, t, inputs) ==
  Function(<< \h20, 0, \h20, 1, op, \h0B >>, 0, << t, t >>, << t >>, inputs)

\* test/CH02/local.0.wat: local.get of a local and of a parameter.
GetLocal(typeByte, t) ==
  Function(<< 1, typeByte, \h20, 0, \h0B >>, 1, << >>, << t >>, { << >> })
GetParam(t, inputs) == Unary(<< \h20, 0, \h0B >>, 0, t, inputs)

\* local.1.wat: set; mixed types.
SetLocal(const, typeByte) ==
  Function(<< 1, typeByte, const, 0, \h21, 0, \h0B >>, 1, << >>, << >>, { << >> })
SetMixed(inputs) ==
  Function(<< 2, \h7E, \h42, 0, \h21, 0, \h41, 0, \h21, 1, \h41, 0, \h21, 2,
              \h42, 0, \h21, 3, \h42, 0, \h21, 4, \h0B >>, 1,
           << "l", "i", "i" >>, << >>, inputs)

\* local.2.wat: tee, and a tee whose value is set or teed again.
TeeParam(const, t, inputs) == Unary(<< const, 10, \h22, 0, \h0B >>, 0, t, inputs)
TeeSet ==
  Function(<< 1, \h7F, \h41, 1, \h22, 0, \h21, 0, \h0B >>, 1, << >>, << >>, { << >> })

\* test/CH05/if.0.wat
IfSingular(inputs) ==
  Unary(<< \h20, 0, \h04, \h40, \h01, \h0B,
           \h20, 0, \h04, \h40, \h01, \h05, \h01, \h0B,
           \h20, 0, \h04, \h7F, \h41, 7, \h05, \h41, 8, \h0B, \h0B >>, 0, "i", inputs)
IfAsReturn(inputs) ==
  Unary(<< \h20, 0, \h04, \h7F, \h41, 1, \h05, \h41, 0, \h0B, \h0F, \h0B >>, 0,
        "i", inputs)
IfAsLocalSet(inputs) ==
  Unary(<< 1, \h7F, \h20, 0, \h04, \h7F, \h41, 1, \h05, \h41, 0, \h0B,
           \h21, 0, \h20, 0, \h0B >>, 1, "i", inputs)
IfAsLocalTee(inputs) ==
  Unary(<< \h20, 0, \h04, \h7F, \h41, 1, \h05, \h41, 0, \h0B, \h22, 0, \h0B >>, 0,
        "i", inputs)
Abs(inputs) ==
  Unary(<< \h20, 0, \h41, 0, \h48, \h04, \h7F, \h41, 0, \h20, 0, \h6B,
           \h05, \h20, 0, \h0B, \h0B >>, 0, "i", inputs)

\* An if in an arm of an if, with a division in the inner one.
NestedIf(inputs) ==
  Function(<< \h20, 0, \h04, \h7F,
                \h20, 1, \h04, \h7F, \h20, 0, \h20, 1, \h6D,
                \h05, \h41, 3, \h0B,
              \h05, \h20, 1, \h0B, \h0B >>, 0, << "i", "i" >>, << "i" >>, inputs)

ArithAndCompareOps32 == \h46 .. \h4F \cup \h6A .. \h6E
ArithAndCompareOps64 == \h51 .. \h5A \cup {\h7C, \h7D, \h7E, \h7F, \h80}
=============================================================================
