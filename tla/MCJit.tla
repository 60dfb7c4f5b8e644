------------------------------- MODULE MCJit --------------------------------
(***************************************************************************)
(* Calls to check.  With HalfBase = 16 an i32 has 256 values and an i64    *)
(* 65536, and an address is an i64: -1 is 255, the least i32 is 128.       *)
(***************************************************************************)
EXTENDS Jit, TestFunctions

Words == {0, 1, 5, 127, 128, 255}
XWords == {0, 1, 300, 32767, 32768, 65535}

One(values) == { << v >> : v \in values }
Two(values) == values \X values

\* The operands of the binary operations: each pair of edges, and -5 by 2.
Pairs == Two(Words) \cup { << 251, 2 >> }
XPairs == Two(XWords) \cup { << 65531, 2 >> }

\* 0x80000000 / 0xFFFFFFFF, the pair that div_u refuses.
LeastByMinusOne == { << 128, 255 >>, << 32768, 65535 >> }

InputsOf(op, pairs) ==
  IF op \in {\h6E, \h80} THEN pairs \ LeastByMinusOne ELSE pairs

BinaryFunctions ==
  { Binary(op, "i", InputsOf(op, Pairs)) : op \in ArithAndCompareOps32 }
  \cup { Binary(op, "l", InputsOf(op, XPairs)) : op \in ArithAndCompareOps64 }

TestedFunctions ==
  { GetLocal(\h7F, "i"), GetLocal(\h7E, "l"), GetParam("i", One(Words)),
    GetParam("l", One(XWords)), SetLocal(\h41, \h7F), SetLocal(\h42, \h7E),
    TeeParam(\h41, "i", One(Words)), TeeParam(\h42, "l", One(XWords)),
    TeeSet, IfSingular(One({0, 255})), IfAsReturn(One({0, 255})),
    IfAsLocalSet(One({0, 255})), IfAsLocalTee(One({0, 255})), Abs(One(Words)) }

\* MCCalls.cfg: every function of the tests, every operation, one call.
CalledFunctions == TestedFunctions \cup BinaryFunctions

\* Four i32 locals, the third of them returned: inside the frame in a first
\* and in a second call.
FourLocals == Function(<< 4, \h7F, \h20, 2, \h0B >>, 1, << >>, << "i" >>, { << >> })

\* MCRepeat.cfg: calls that trap and calls that do not, in every order.
RepeatedFunctions ==
  { Binary(\h6D, "i", { << 5, 0 >>, << 5, 2 >>, << 128, 255 >> }),
    Binary(\h80, "l", { << 5, 0 >>, << 300, 2 >> }),
    IfAsReturn(One({0, 3})), FourLocals,
    TeeParam(\h42, "l", One({7})),
    NestedIf({ << 0, 3 >>, << 1, 0 >>, << 8, 2 >> }) }

\* The functions that refute a statement of the repository.
VoidIf == { Function(<< \h20, 0, \h04, \h40, \h01, \h0B, \h0B >>, 0, << "i" >>,
                     << >>, One({0, 1})) }
DivideByZero == { Binary(\h6D, "i", { << 5, 0 >> }) }
\* i32.const -1.
MinusOne == { Function(<< \h41, \h7F, \h0B >>, 0, << >>, << "i" >>, { << >> }) }
\* i32.const 3, return, i32.const 1.
EarlyReturn ==
  { Function(<< \h41, 3, \h0F, \h41, 1, \h0B >>, 0, << >>, << "i" >>, { << >> }) }
DivideUnsigned == { Binary(\h6E, "i", LeastByMinusOne \cap Pairs) }
=============================================================================
