----------------------------- MODULE MCJitPages -----------------------------
(***************************************************************************)
(* Calls to check with the pages of the process.                           *)
(***************************************************************************)
EXTENDS JitPages, MCJit

\* i32 parameter and 56 times nop: the code that loads the parameter and the
\* body's are 440 bytes, the body's alone 420.
Nops == Function([k \in 1 .. 56 |-> 1] \o << \h20, 0, \h0B >>, 0, << "i" >>, << "i" >>,
                 One({5}))

\* JitPages.cfg, with pages of 432 bytes: code of half a page, of more, of two
\* pages; a call that traps, one that is refused (a float constant).
PagedFunctions ==
  { GetParam("i", One({5})), Nops, Binary(\h6D, "i", { << 5, 0 >>, << 5, 2 >> }),
    Function(<< \h43, 0, 0, 0, 0, \h0B >>, 0, << >>, << "f" >>, { << >> }) }

\* LongCode.cfg, with the pages of the machine, 4096 bytes: i64.const 1 and 36
\* times i64.const 1, i64.add.  The body has 111 bytes, and its size takes one in
\* the file; the code has 2088.
LongFunction ==
  { Function(<< \h42, 1 >> \o [k \in 1 .. 108 |-> << \h42, 1, \h7C >>[1 + ((k - 1) % 3)]]
               \o << \h0B >>, 0, << >>, << "l" >>, { << >> }) }

\* No code is longer: a body has at most 254 bytes.
AnyLength == 0 .. 65535
=============================================================================
