---------------------------- MODULE MCTranslate -----------------------------
(***************************************************************************)
(* Functions to translate.  StructuredBodies holds every body of up to     *)
(* five tokens if, else, end, div_s: nested well or not.  AllKinds holds   *)
(* the functions of the repository's tests and one function for every way  *)
(* the translator refuses or is lost.                                      *)
(***************************************************************************)
EXTENDS MachineCode, TestFunctions

Tokens == { << \h04, \h7F >>, << \h05 >>, << \h0B >>, << \h6D >> }

MaxTokens == 5

TokenSeqs ==
  LET seqs[n \in 0 .. MaxTokens] ==
        IF n = 0 THEN { << 1, \h7F >> }
                 ELSE seqs[n - 1] \cup
                        { s \o t : s \in seqs[n - 1], t \in Tokens }
  IN seqs[MaxTokens]

StructuredBodies ==
  { Function(s, 1, << "i" >>, << "i" >>, { << 5 >> }) : s \in TokenSeqs }

Zeros(n) == { [k \in 1 .. n |-> 0] }
Many(n, x) == [k \in 1 .. n |-> x]

Tests ==
  { GetLocal(\h7F, "i"), GetLocal(\h7E, "l"), GetParam("i", Zeros(1)),
    GetParam("l", Zeros(1)), SetLocal(\h41, \h7F), SetLocal(\h42, \h7E),
    SetMixed(Zeros(3)), TeeParam(\h41, "i", Zeros(1)),
    TeeParam(\h42, "l", Zeros(1)), TeeSet, IfSingular(Zeros(1)),
    IfAsReturn(Zeros(1)), IfAsLocalSet(Zeros(1)), IfAsLocalTee(Zeros(1)),
    Abs(Zeros(1)), NestedIf(Zeros(2)) }
  \cup { Binary(op, "i", Zeros(2)) : op \in ArithAndCompareOps32 }
  \cup { Binary(op, "l", Zeros(2)) : op \in ArithAndCompareOps64 }

Plain(code_vec) == Function(code_vec, 0, << >>, << >>, { << >> })

Refused ==
  { GetParam("f", Zeros(1)),                             \* float parameter
    Function(<< \h0B >>, 0, << >>, << "d" >>, { << >> }), \* float result
    Plain(<< \h43, 0, 0, 0, 0, \h0B >>),                 \* f32.const
    Plain(<< \h20, 0, \h0B >>),                          \* no such local
    Plain(<< \h41, 1, \h04, \h7D, \h0B, \h0B >>),        \* if of f32
    Function(<< \h0B >>, 0, Many(33, "i"), << >>, Zeros(33)),
    Function(<< \h0B >>, 0, << >>, Many(33, "i"), { << >> }),
    Function(<< 255, \h7C, \h0B >>, 1, << >>, << >>, { << >> }) }
                                         \* the frame of the second call

Lost ==
  { Plain(<< \h03, \h40, \h0B >>),                       \* loop
    Plain(<< \h20 >>), Plain(<< \h44, 0 >>),             \* operand missing
    Plain(<< \h0B, \h0B >>), Plain(<< \h0B, \h05 >>),    \* no open block
    Function(<< 1 >>, 1, << >>, << >>, { << >> }),       \* declaration missing
    Function(<< 1, \h70, 2, \h7D, 1, \h7C, \h20, 0, \h0B >>, 3, << >>, << >>,
             { << >> }) }                                \* funcref, floats

\* The functions that refute a statement of the repository.
TwoDivisions ==
  { Function(<< \h20, 0, \h20, 1, \h6D, \h20, 1, \h6D, \h0B >>, 0, << "i", "i" >>,
             << "i" >>, Zeros(2)) }
OneLocal == { GetLocal(\h7F, "i") }
MixedParams == { SetMixed(Zeros(3)) }
ParamAndLocal == { IfAsLocalSet(Zeros(1)) }

AllKinds == Tests \cup Refused \cup Lost

\* MCTranslate.cfg
TranslatedFunctions == StructuredBodies \cup AllKinds
=============================================================================
