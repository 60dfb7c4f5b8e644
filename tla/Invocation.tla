----------------------------- MODULE Invocation -----------------------------
(***************************************************************************)
(* What the JIT promises its caller (Parser and the test drivers): a       *)
(* function may be called again and again, and every call comes back with  *)
(* the outcome WebAssembly gives it, a value or a trap, and with nothing   *)
(* of an earlier call in it.                                               *)
(***************************************************************************)
EXTENDS WasmReference

CONSTANT Functions

VARIABLES
  function,   \* the function object
  arguments,  \* << >> or the arguments of the latest call
  pending,    \* a call is in progress
  outcome     \* of the latest call that came back

invocation == << function, arguments, pending, outcome >>

AbstractInit ==
  /\ function \in Functions
  /\ arguments = << >>
  /\ ~pending
  /\ outcome = Value(<< >>)

Call ==
  /\ ~pending
  /\ arguments' \in function.inputs
  /\ pending' = TRUE
  /\ UNCHANGED << function, outcome >>

Return ==
  /\ pending
  /\ outcome' = Invoke(function, arguments)
  /\ pending' = FALSE
  /\ UNCHANGED << function, arguments >>

AbstractSpec ==
  /\ AbstractInit /\ [][Call \/ Return]_invocation /\ WF_invocation(Return)
=============================================================================
