------------------------------- MODULE System --------------------------------
(***************************************************************************)
(* The test program from the bytes of its modules to its verdict: the      *)
(* driver, the parser it runs on every new file, and the functions the     *)
(* parser leaves, called for the outcome WebAssembly gives them.           *)
(*                                                                         *)
(* A call stands for translation and execution (Jit): it is one step, and  *)
(* what it gives is what Jit!KeepsPromise says.                            *)
(***************************************************************************)
EXTENDS JudgedRuns, ParsedModules

CONSTANT Disk   \* the contents of the files, a sequence of members of Files

VARIABLE disk   \* where the program reads them

Wasm == INSTANCE WasmReference

\* The index and the tables of a module, as the parser is to leave them.
ExportNamed(m, name) == CHOOSE e \in Range(m.exports) : e.name = name

TablesOf(m) ==
  [wasmTypeVec |-> m.types, funcTypeVec |-> m.funcs,
   funcNameIndexMapper |->
     [name \in { e.name : e \in Range(m.exports) } |-> ExportNamed(m, name).index],
   wasmFunctionVec |-> [k \in DOMAIN m.codes |-> FunctionOf(m.codes[k])]]

\* What JudgedRuns leaves open are the modules of the files.
ASSUME DiskAssumption ==
  /\ Disk \in Seq(Files) /\ Disk # << >> /\ FileCount <= Len(Disk)
  /\ \A f \in 1 .. FileCount : \A m \in Disk[f].module : Modules[f] = TablesOf(m)

systemVars == << disk, driverVars, parserVars >>

\* Before the first file nothing is parsed.
SystemInit == disk = Disk /\ DriverInit /\ ParserInit /\ file = disk[1]

\* Parser(path), parser_map.insert and parse.
OpenFile ==
  /\ NewFile
  /\ file' = disk[cur_wasm_file']
  /\ phase' = "check"
  /\ pos' = 0 /\ length' = 0 /\ base_offset' = 0 /\ todo' = 0
  /\ wasmTypeVec' = << >> /\ funcTypeVec' = << >> /\ wasmFunctionVec' = << >>
  /\ funcNameIndexMapper' = << >> /\ funcIndexNameMapper' = << >>

ParseStep == step = "parse" /\ ParserNext /\ UNCHANGED driverVars

ParserReturns ==
  /\ phase = "done"
  /\ Parsed([wasmTypeVec |-> wasmTypeVec, funcTypeVec |-> funcTypeVec,
             funcNameIndexMapper |-> funcNameIndexMapper,
             wasmFunctionVec |-> wasmFunctionVec])
  /\ UNCHANGED parserVars

ParserFails == phase \in {"aborted", "exited"} /\ ParseThrows /\ UNCHANGED parserVars

\* The function object and its arguments as WasmReference has them.
ArgumentValues ==
  [k \in DOMAIN CurFunction.param_data |-> CurFunction.param_data[k].value]

CallOutcome ==
  Wasm!Invoke([code_vec |-> CurFunction.code_vec,
               local_var_declare_count |-> CurFunction.local_var_declare_count,
               results |-> CurFunction.result_data], ArgumentValues)

CallFunction == step = "execute" /\ Execute(CallOutcome) /\ UNCHANGED parserVars

SystemNext ==
  /\ \/ OwnStep /\ UNCHANGED parserVars
     \/ OpenFile \/ ParseStep \/ ParserReturns \/ ParserFails
     \/ CallFunction
  /\ UNCHANGED disk

\* One thread.
SystemSpec == SystemInit /\ [][SystemNext]_systemVars /\ WF_systemVars(SystemNext)

-----------------------------------------------------------------------------
(***************************************************************************)
(* The truth about a suite: each member of Files says which module its     *)
(* bytes encode (module), and the assertions are about those modules.      *)
(***************************************************************************)
FunctionNamed(m, name) ==
  LET index == ExportNamed(m, name).index
  IN [code_vec |-> FunctionOf(m.codes[index + 1]).code_vec,
      local_var_declare_count |-> FunctionOf(m.codes[index + 1]).local_var_declare_count,
      results |-> SignatureOf(TablesOf(m), index).results]

\* What the call of an assertion about m gives.
OutcomeOn(m, command) ==
  Wasm!Invoke(FunctionNamed(m, command.field),
              [k \in DOMAIN command.args |-> command.args[k].value])

True(assertion) ==
  \E m \in Disk[assertion.file].module :
    Holds(assertion.command, OutcomeOn(m, assertion.command))

AllTrue == \A k \in DOMAIN InOrderFrom(suite, 1) : True(InOrderFrom(suite, 1)[k])

\* A test that means something: it names exported functions, with arguments of
\* their types; the outcome is one that JudgedRuns expects of the code, with as
\* many values as the function has results.
WellPosed(assertion) ==
  \A m \in Disk[assertion.file].module :
    LET command == assertion.command
        index == ExportNamed(m, command.field).index
        types == SignatureOf(TablesOf(m), index).params
        outcome == OutcomeOn(m, command)
    IN /\ \E e \in Range(m.exports) : e.name = command.field
       /\ HasFunction(TablesOf(m), index)
            => /\ DOMAIN command.args = DOMAIN types
               /\ \A k \in DOMAIN types : command.args[k].type = types[k]
               /\ outcome \in Answers[FunctionNamed(m, command.field).code_vec]
               /\ outcome.kind = "value" =>
                    Len(outcome.value) = Len(FunctionNamed(m, command.field).results)

\* Every file holds a module or is cut off in one, and the tests are well posed.
TestsWellPosed ==
  /\ \A f \in 1 .. FileCount : Disk[f].module # {} \/ Disk[f].cut # {}
  /\ \A assertion \in UNION { Range(InOrderFrom(s, 1)) : s \in TestSuites } :
       assertion.file # 0 => WellPosed(assertion)

\* The driver with the parser itself is a driver with a parser that JudgedRuns
\* leaves open: whatever parse does with the bytes, it comes back with the
\* tables of the file's module, or throws.
AsJudged == DriverInit /\ [][DriverNext]_driverVars

\* The verdict is right, from bytes to verdict: a suite passes when its
\* assertions hold of the modules in the files, and fails when one does not.
VerdictIsRight ==
  /\ step = "passed" => AllTrue
  /\ step = "unmatched" => ~AllTrue

Readable ==
  \A c \in DOMAIN suite : \A k \in DOMAIN suite[c] :
    ~IsAssertion(suite[c][k]) => disk[suite[c][k].filename].module # {}

\* Every suite whose files are modules gets its verdict: nothing of it makes
\* the program stop on the way or run forever.
VerdictComes == Readable => <>(step \in {"passed", "unmatched"})

\* main.cpp prints "Result: []" of a call without result that it matched:
\* such a call has returned.
MatchedReturned ==
  [][step = "judge" /\ step' = "lookup" /\ Command.type = "assert_return"
       => ~exceptionThrown]_systemVars
=============================================================================
