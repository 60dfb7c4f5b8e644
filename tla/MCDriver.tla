------------------------------ MODULE MCDriver ------------------------------
(***************************************************************************)
(* Every script of up to MaxCommands commands, of a choice that names two  *)
(* modules, exported and unknown functions, with results and without, with *)
(* arguments that are there, are no integers or are missing.               *)
(***************************************************************************)
EXTENDS JudgedRuns

CONSTANT MaxCommands

Tables(types, funcs, names, codes) ==
  [wasmTypeVec |-> types, funcTypeVec |-> funcs, funcNameIndexMapper |-> names,
   wasmFunctionVec |-> [k \in DOMAIN codes |->
     [code_vec |-> << codes[k] >>, local_var_declare_count |-> 0]]]

Signature(params, results) == [params |-> params, results |-> results]

\* In file 2 the name "f" is that of function 1, and function 0 takes a float.
TwoModules ==
  << Tables(<< Signature(<< "i", "l" >>, << "i" >>), Signature(<< >>, << >>) >>,
            << 0, 1 >>, "f" :> 0 @@ "g" :> 1, << "sum", "void" >>),
     Tables(<< Signature(<< "f" >>, << >>), Signature(<< "l" >>, << "l" >>) >>,
            << 0, 1 >>, "f" :> 1 @@ "h" :> 0, << "float", "loop" >>) >>

TrapOutcome == [kind |-> "trap", value |-> << >>]
ValueOutcome(v) == [kind |-> "value", value |-> v]

\* The outcomes that the two functions with a result may have.
CodeAnswers ==
  [code \in { << c >> : c \in {"sum", "loop", "void", "float"} } |->
     IF code[1] \in {"void", "float"} THEN { ValueOutcome(<< >>) }
     ELSE { TrapOutcome, ValueOutcome(<< 3 >>), ValueOutcome(<< 4 >>) }]

ModuleCommand(file) == [type |-> "module", filename |-> file]
Assertion(type, field, args, expected) ==
  [type |-> type, field |-> field, args |-> args, expected |-> expected]
Arg(type, value) == [type |-> type, value |-> value]

Commands ==
  { ModuleCommand(1), ModuleCommand(2),
    Assertion("assert_return", "f", << Arg("i", 1), Arg("l", 2) >>, << 3 >>),
    Assertion("assert_trap", "f", << Arg("f", 5) >>, << >>),
    Assertion("assert_return", "g", << >>, << >>),
    Assertion("assert_return", "h", << Arg("f", 1) >>, << >>),
    Assertion("assert_return", "f", << Arg("l", 7) >>, << >>) }

SmallScripts == UNION { [1 .. n -> Commands] : n \in 0 .. MaxCommands }

\* One chapter, or a short one behind another.
Suites ==
  { << script >> : script \in SmallScripts }
  \cup { << << ModuleCommand(2), Assertion("assert_return", "f", << Arg("l", 2) >>, << 3 >>) >>,
            script >> : script \in { s \in SmallScripts : Len(s) <= 2 } }

\* The choice is one for which the driver's steps are proved to be TestRun's.
ASSUME TrapsShow
=============================================================================
