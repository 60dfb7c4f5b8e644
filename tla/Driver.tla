------------------------------- MODULE Driver -------------------------------
(***************************************************************************)
(* main and test_chapter of main.cpp: the commands of a chapter are        *)
(* collected, then its assertions are judged in the order of a multimap    *)
(* keyed by file.  wasmtest.cc holds the same function, for one chapter in *)
(* a process, and reports a failure with EXPECT_EQ and break_on_failure.   *)
(*                                                                         *)
(* Scripts and outcomes are those of Scripts.  A name, a function's code   *)
(* and a value are what the script and the tables make them; numbers in    *)
(* the scripts are decimal texts below 2^64.                               *)
(***************************************************************************)
EXTENDS Integers, SequencesExt, Maps

CONSTANTS
  TestSuites,  \* each a sequence of chapters; a chapter is a script
  FileCount,   \* files are 1 .. FileCount, in the order of their names
  WordSize, XWordSize,  \* how many values an i32 and an i64 have
  Garbage      \* what a variable nobody assigned may hold

ASSUME DriverAssumption ==
  FileCount \in Nat /\ WordSize \in Nat \ {0} /\ XWordSize \in Nat \ {0}

VARIABLES
  suite, chapter,
  step,             \* what test_chapter is doing
  i,                \* command to collect
  cur_wasm_file,    \* 0 is the empty name
  parser_map,
  command_map,      \* its entries in order
  judging,          \* which entry; 0 while commands are collected
  function_index,
  ans, exceptionThrown

locals == << i, cur_wasm_file, parser_map, command_map, judging, function_index,
             ans, exceptionThrown >>

driverVars == << suite, chapter, step, locals >>

EmptyParser ==
  [wasmTypeVec |-> << >>, funcTypeVec |-> << >>, funcNameIndexMapper |-> << >>,
   wasmFunctionVec |-> << >>]

DriverInit ==
  /\ suite \in TestSuites /\ chapter = 1
  /\ step = "collect"
  /\ i = 1 /\ cur_wasm_file = 0
  /\ parser_map = << >> /\ command_map = << >>
  /\ judging = 0 /\ function_index = 0
  /\ ans = 0 /\ exceptionThrown = FALSE

Script == suite[chapter]

DriverStops(how) ==
  /\ step' = how
  /\ UNCHANGED << suite, chapter, locals >>

(***************************************************************************)
(* Collecting                                                              *)
(***************************************************************************)
Collecting == step = "collect" /\ i <= Len(Script)

HasFilename == Collecting /\ "filename" \in DOMAIN Script[i]

\* A file is parsed once.
NewFile ==
  /\ HasFilename /\ Script[i].filename \notin DOMAIN parser_map
  /\ cur_wasm_file' = Script[i].filename
  /\ parser_map' = Update(parser_map, cur_wasm_file', EmptyParser)
  /\ step' = "parse"
  /\ UNCHANGED << suite, chapter, i, command_map, judging, function_index, ans,
                  exceptionThrown >>

\* Mutant: the name is remembered only when the file is parsed.
KnownFileIgnored ==
  /\ HasFilename /\ Script[i].filename \in DOMAIN parser_map
  /\ i' = i + 1
  /\ UNCHANGED << suite, chapter, step, cur_wasm_file, parser_map, command_map, judging,
                  function_index, ans, exceptionThrown >>

KnownFile ==
  /\ HasFilename /\ Script[i].filename \in DOMAIN parser_map
  /\ cur_wasm_file' = Script[i].filename
  /\ i' = i + 1
  /\ UNCHANGED << suite, chapter, step, parser_map, command_map, judging,
                  function_index, ans, exceptionThrown >>

\* parse comes back with these tables.
Parsed(tables) ==
  /\ step = "parse"
  /\ parser_map' = Update(parser_map, cur_wasm_file, tables)
  /\ i' = i + 1 /\ step' = "collect"
  /\ UNCHANGED << suite, chapter, cur_wasm_file, command_map, judging,
                  function_index, ans, exceptionThrown >>

ParseThrows == step = "parse" /\ DriverStops("aborted")

\* multimap::insert puts an entry behind those with the same key: in front of
\* the first that has a greater one.
InsertCommand(map, entry) ==
  LET greater == { k \in DOMAIN map : map[k].file > entry.file }
  IN InsertAt(map, Min(greater \cup {Len(map) + 1}), entry)

CollectAction ==
  /\ Collecting /\ "field" \in DOMAIN Script[i]
  /\ command_map' = InsertCommand(command_map,
                      [file |-> cur_wasm_file, command |-> Script[i]])
  /\ i' = i + 1
  /\ UNCHANGED << suite, chapter, step, cur_wasm_file, parser_map, judging,
                  function_index, ans, exceptionThrown >>

Collected ==
  /\ step = "collect" /\ i > Len(Script)
  /\ step' = "lookup" /\ judging' = 1
  /\ UNCHANGED << suite, chapter, i, cur_wasm_file, parser_map, command_map,
                  function_index, ans, exceptionThrown >>

(***************************************************************************)
(* Judging                                                                 *)
(***************************************************************************)
File == command_map[judging].file
Command == command_map[judging].command
CurFunction == parser_map[File].wasmFunctionVec[function_index + 1]

Zero(types) == [k \in DOMAIN types |-> [type |-> types[k], value |-> 0]]

\* Parser::initFunctionbyType: the types of a function, as zeroes.
InitFunctionByType(parser, index) ==
  LET signature == parser.wasmTypeVec[parser.funcTypeVec[index + 1] + 1]
  IN [parser EXCEPT !.wasmFunctionVec[index + 1] =
        [code_vec |-> @.code_vec,
         local_var_declare_count |-> @.local_var_declare_count,
         param_data |-> Zero(signature.params),
         result_data |-> signature.results]]

HasFunction(parser, index) ==
  /\ index < Len(parser.funcTypeVec)
  /\ index < Len(parser.wasmFunctionVec)
  /\ parser.funcTypeVec[index + 1] < Len(parser.wasmTypeVec)

\* Mutant: a function that has its types is left as it is.
FunctionTypesOnce(parser, index) ==
  IF "param_data" \in DOMAIN parser.wasmFunctionVec[index + 1] THEN parser
  ELSE InitFunctionByType(parser, index)

FunctionTypes(parser, index) == InitFunctionByType(parser, index)

\* Both lookups are an operator[], which inserts what it does not find: an
\* empty parser, the index 0.
Lookup ==
  /\ step = "lookup" /\ judging <= Len(command_map)
  /\ LET found == IF File \in DOMAIN parser_map THEN parser_map[File] ELSE EmptyParser
         index == IF Command.field \in DOMAIN found.funcNameIndexMapper
                    THEN found.funcNameIndexMapper[Command.field] ELSE 0
         parser == [found EXCEPT !.funcNameIndexMapper = Update(@, Command.field, index)]
     IN IF HasFunction(parser, index)
          THEN /\ function_index' = index
               /\ parser_map' = Update(parser_map, File, FunctionTypes(parser, index))
               /\ step' = "arguments"
               /\ UNCHANGED << suite, chapter, i, cur_wasm_file, command_map, judging, ans,
                               exceptionThrown >>
          ELSE DriverStops("undefined")

\* The value is stored with the type the script gives it; one that is no
\* integer, or that is not there, leaves the zero.
Argument(args, k, zero) ==
  IF k \notin DOMAIN args THEN zero
  ELSE CASE args[k].type = "i" -> [type |-> "i", value |-> args[k].value % WordSize]
         [] args[k].type = "l" -> [type |-> "l", value |-> args[k].value % XWordSize]
         [] OTHER -> zero

SetArguments ==
  /\ step = "arguments"
  /\ parser_map' = [parser_map EXCEPT ![File].wasmFunctionVec[function_index + 1].param_data =
                      [k \in DOMAIN @ |-> Argument(Command.args, k, @[k])]]
  /\ step' = "process"
  /\ UNCHANGED << suite, chapter, i, cur_wasm_file, command_map, judging,
                  function_index, ans, exceptionThrown >>

\* funcSingleProcess: prepareParams refuses a float; what else the
\* translator refuses is known to WasmFunction.
Process ==
  /\ step = "process"
  /\ IF \A k \in DOMAIN CurFunction.param_data :
          CurFunction.param_data[k].type \in {"i", "l"}
       THEN /\ step' = "execute"
            /\ UNCHANGED << suite, chapter, locals >>
       ELSE DriverStops("aborted")

ProcessThrows == step = "process" /\ DriverStops("aborted")

\* executeWasmInstr returns or throws; ans and exceptionThrown are variables
\* of the loop's body, and a throw leaves ans as it was found.
Execute(outcome) ==
  /\ step = "execute"
  /\ exceptionThrown' = (outcome.kind = "trap")
  /\ IF outcome.value = << >> THEN ans' \in Garbage ELSE ans' = outcome.value[1]
  /\ step' = "judge"
  /\ UNCHANGED << suite, chapter, i, cur_wasm_file, parser_map, command_map, judging,
                  function_index >>

\* Mutant: the results are looked at before the kind of the assertion.
MatchedByResult ==
  IF CurFunction.result_data # << >> THEN Command.expected = << ans >>
  ELSE IF Command.type = "assert_trap" THEN exceptionThrown
  ELSE Command.expected = << >>

Matched ==
  IF Command.type = "assert_trap" THEN exceptionThrown
  ELSE IF CurFunction.result_data # << >> THEN Command.expected = << ans >>
  ELSE Command.expected = << >>

\* stoul of a value that is not there throws.
NoNumber ==
  /\ Command.type # "assert_trap" /\ CurFunction.result_data # << >>
  /\ Command.expected = << >>

\* Mutant: the iterator is not moved.
JudgeMatchedAgain ==
  /\ step = "judge" /\ ~NoNumber /\ Matched
  /\ step' = "lookup"
  /\ UNCHANGED << suite, chapter, locals >>

JudgeMatched ==
  /\ step = "judge" /\ ~NoNumber /\ Matched
  /\ judging' = judging + 1 /\ step' = "lookup"
  /\ UNCHANGED << suite, chapter, i, cur_wasm_file, parser_map, command_map,
                  function_index, ans, exceptionThrown >>

JudgeUnmatched == step = "judge" /\ ~NoNumber /\ ~Matched /\ DriverStops("unmatched")

JudgeThrows == step = "judge" /\ NoNumber /\ DriverStops("aborted")

ChapterDone == step = "lookup" /\ judging > Len(command_map)

\* Mutant: command_map is not a variable of test_chapter.
NextChapterKeepsEntries ==
  /\ ChapterDone /\ chapter < Len(suite)
  /\ chapter' = chapter + 1 /\ step' = "collect"
  /\ i' = 1 /\ cur_wasm_file' = 0 /\ parser_map' = << >>
  /\ judging' = 0 /\ function_index' = 0
  /\ UNCHANGED << suite, command_map, ans, exceptionThrown >>

\* test_chapter begins with variables of its own.
NextChapter ==
  /\ ChapterDone /\ chapter < Len(suite)
  /\ chapter' = chapter + 1 /\ step' = "collect"
  /\ i' = 1 /\ cur_wasm_file' = 0
  /\ parser_map' = << >> /\ command_map' = << >>
  /\ judging' = 0 /\ function_index' = 0
  /\ UNCHANGED << suite, ans, exceptionThrown >>

AllChaptersDone == ChapterDone /\ chapter = Len(suite) /\ DriverStops("passed")

\* The steps that call neither the parser nor the function.
OwnStep ==
  \/ KnownFile \/ CollectAction \/ Collected
  \/ Lookup \/ SetArguments \/ Process
  \/ JudgeMatched \/ JudgeUnmatched \/ JudgeThrows
  \/ NextChapter \/ AllChaptersDone
=============================================================================
