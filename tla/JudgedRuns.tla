----------------------------- MODULE JudgedRuns -----------------------------
(***************************************************************************)
(* The driver with what it calls left open: parse gives the tables of the  *)
(* file or throws, a function gives any outcome its code may have or is    *)
(* refused.  What the driver then owes is TestRun.                         *)
(***************************************************************************)
EXTENDS Driver, Scripts

CONSTANTS
  Modules,   \* the tables of each file
  Answers    \* the outcomes of each code

AllCommands == UNION { UNION { Range(s[c]) : c \in DOMAIN s } : s \in TestSuites }

WasmType == {"i", "l", "f", "d"}

\* The scripts are those of Scripts, with arguments of their types.
ASSUME ScriptsAssumption ==
  /\ \A s \in TestSuites : s # << >> /\ s \in Seq(Seq(AllCommands))
  /\ \A c \in AllCommands :
       IF IsAssertion(c)
         THEN /\ c.type \in {"assert_return", "assert_trap"}
              /\ "field" \in DOMAIN c /\ "filename" \notin DOMAIN c
              /\ c.args \in Seq([type : WasmType, value : Nat])
              /\ \A k \in DOMAIN c.args :
                   /\ c.args[k].type = "i" => c.args[k].value < WordSize
                   /\ c.args[k].type = "l" => c.args[k].value < XWordSize
              /\ c.expected \in Seq(Nat) /\ Len(c.expected) <= 1
         ELSE "field" \notin DOMAIN c /\ "filename" \in DOMAIN c /\ c.filename \in 1 .. FileCount

\* The tables are such as the parser leaves, and a call has an outcome.
ASSUME ModulesAssumption ==
  /\ \A f \in 1 .. FileCount :
       /\ DOMAIN Modules[f] = DOMAIN EmptyParser
       /\ Modules[f].wasmTypeVec \in Seq([params : Seq(WasmType), results : Seq(WasmType)])
       /\ Modules[f].funcTypeVec \in Seq(Nat)
       /\ \A name \in DOMAIN Modules[f].funcNameIndexMapper :
            Modules[f].funcNameIndexMapper[name] \in Nat
       /\ Modules[f].wasmFunctionVec \in
            Seq([code_vec : DOMAIN Answers, local_var_declare_count : Nat])
  /\ \A code \in DOMAIN Answers : \A outcome \in Answers[code] :
       /\ outcome.kind \in {"trap", "value"}
       /\ outcome.value \in Seq(Nat) /\ Len(outcome.value) <= 1
       /\ outcome.kind = "trap" => outcome.value = << >>

SignatureOf(m, index) == m.wasmTypeVec[m.funcTypeVec[index + 1] + 1]

\* The driver can tell a trap from a return: no expected number is the one a
\* variable nobody assigned holds, and only functions with a result trap.
TrapsShow ==
  /\ \A c \in AllCommands :
       c.type = "assert_return" => \A garbage \in Garbage : c.expected # << garbage >>
  /\ \A f \in 1 .. FileCount : \A k \in DOMAIN Modules[f].wasmFunctionVec :
       HasFunction(Modules[f], k - 1) /\ SignatureOf(Modules[f], k - 1).results = << >>
         => \A outcome \in Answers[Modules[f].wasmFunctionVec[k].code_vec] : outcome.kind # "trap"

DriverNext ==
  \/ OwnStep
  \/ NewFile
  \/ step = "parse" /\ Parsed(Modules[cur_wasm_file])
  \/ ParseThrows
  \/ ProcessThrows
  \/ step = "execute" /\ \E outcome \in Answers[CurFunction.code_vec] : Execute(outcome)

\* A loop over commands and one over entries, of one thread.
DriverSpec == DriverInit /\ [][DriverNext]_driverVars /\ WF_driverVars(DriverNext)

-----------------------------------------------------------------------------
Stopped == {"passed", "unmatched", "aborted", "undefined"}

\* The step and the position in the script go together; entries are sorted
\* by file, come from commands read in this chapter, and the function at work
\* is one of the file's.
DriverTypeOK ==
  /\ step \in Stopped \cup {"collect", "parse", "lookup", "arguments", "process",
                            "execute", "judge"}
  /\ chapter \in 1 .. Len(suite)
  /\ i \in 1 .. Len(Script) + 1 /\ cur_wasm_file \in 0 .. FileCount
  /\ Len(command_map) < i
  /\ \A k, l \in DOMAIN command_map : k < l => command_map[k].file <= command_map[l].file
  /\ judging \in 0 .. Len(command_map) + 1
  /\ judging = 0 => step \in {"collect", "parse", "aborted"}
  /\ step \in {"collect", "parse"} => judging = 0
  /\ step \in {"arguments", "process", "execute", "judge"} =>
       function_index + 1 \in DOMAIN parser_map[File].wasmFunctionVec
  /\ exceptionThrown \in BOOLEAN

\* What an assertion means by a parameter: its argument when that is an integer;
\* the zero of the parameter's type stands for one that is no integer or missing.
ParameterMeant(args, k, type) ==
  IF k \in DOMAIN args /\ args[k].type \in {"i", "l"} THEN args[k]
  ELSE [type |-> type, value |-> 0]

\* When a function runs, the script asked for it: the assertion at hand is the
\* next one of the script in the order that the multimap promises (file by file,
\* as the script has them), its file is that of the last module command before
\* it, and the object is the function this file exports under the name - the
\* first one for a name it does not export, however often the name was looked
\* up - with the results of its type and every parameter as the assertion means
\* it, nothing left of an earlier call of the same object (test_chapter).
CalledAsAsserted ==
  step = "execute" =>
    /\ command_map[judging] = InOrder(Script)[judging]
    /\ File # 0
    /\ LET exports == Modules[File].funcNameIndexMapper
           signature == SignatureOf(Modules[File], function_index)
       IN /\ function_index = IF Command.field \in DOMAIN exports THEN exports[Command.field] ELSE 0
          /\ CurFunction.code_vec = Modules[File].wasmFunctionVec[function_index + 1].code_vec
          /\ CurFunction.result_data = signature.results
          /\ CurFunction.param_data =
               [k \in DOMAIN signature.params |->
                  ParameterMeant(Command.args, k, signature.params[k])]

\* A call is of a name that the file exports.  It does not hold: operator[] makes
\* an unknown name that of function 0, and the assertion is judged by it
\* (UnknownName.cfg).
CallsExported ==
  step = "execute" => Command.field \in DOMAIN Modules[File].funcNameIndexMapper

\* The assertions not judged yet: of the script while it is collected, of
\* command_map then.
Left ==
  IF judging = 0 THEN InOrderFrom(suite, chapter)
  ELSE SubSeq(command_map, judging, Len(command_map)) \o InOrderFrom(suite, chapter + 1)

Returned ==
  [kind |-> IF exceptionThrown THEN "trap" ELSE "value",
   value |-> IF exceptionThrown \/ CurFunction.result_data = << >> THEN << >>
             ELSE << ans >>]

Run == INSTANCE TestRun WITH
  left <- Left,
  called <- IF step = "judge" THEN << Returned >> ELSE << >>,
  verdict <- CASE step = "unmatched" -> "failed" [] step = "passed" -> "passed"
               [] step \in {"aborted", "undefined"} -> "stopped"
               [] OTHER -> "running"

\* The driver implements TestRun: the regrouping by the multimap loses and
\* doubles no assertion and keeps the order for each module, every assertion
\* is judged by the call made for it, the first that fails ends the program,
\* and "passed" means all of them hold.
Verdicts == Run!RunSpec

\* The driver comes to an end.
DriverEnds == <>(step \in Stopped)
=============================================================================
