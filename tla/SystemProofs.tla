---------------------------- MODULE SystemProofs ----------------------------
(***************************************************************************)
(* Proofs about the whole test program, for all files, scripts and         *)
(* functions: the driver's guarantees and the parser's are put together.   *)
(***************************************************************************)
EXTENDS System, DriverProofs, ParserProofs

\* The parser at work has the file the driver asked for, and keeps its own
\* invariants.
ParsingFile == step = "parse" => file = Disk[cur_wasm_file]

ParserSide == FollowsAlways /\ CropsAlways /\ ParsingFile

\* A file that was accepted is a module.
Accepted ==
  step \notin Stopped =>
    \A f \in DOMAIN parser_map : (step = "parse" /\ f = cur_wasm_file) \/ Disk[f].module # {}

\* What the chapters from here on assert is asserted by the suite.
Listed == Range(InOrderFrom(suite, chapter)) \subseteq Range(InOrderFrom(suite, 1))

\* A function that runs has integer parameters.
Integral ==
  step = "execute" =>
    \A k \in DOMAIN CurFunction.param_data : CurFunction.param_data[k].type \in {"i", "l"}

SystemInv ==
  /\ disk = Disk /\ DriverInv /\ ParserSide
  /\ Accepted /\ Listed /\ Integral

-----------------------------------------------------------------------------
(***************************************************************************)
(* The parser under the driver                                             *)
(***************************************************************************)
LEMMA DiskTyped ==
  ASSUME NEW f \in 1 .. FileCount
  PROVE  /\ Disk[f] \in Files
         /\ \A m \in Disk[f].module : MayFind(m) /\ Modules[f] = TablesOf(m)
<1>1. f \in 1 .. Len(Disk)
      BY DiskAssumption, DriverAssumption
<1>2. Disk[f] \in Files
      BY <1>1, DiskAssumption, ElementOfSeq
<1> QED BY <1>2, DiskAssumption, TruthAssumption

\* A parser that holds a module has the tables TablesOf gives it.
LEMMA TablesHeld ==
  ASSUME NEW m, MayFind(m), HoldsModule(m), ParserTypeOK
  PROVE  [wasmTypeVec |-> wasmTypeVec, funcTypeVec |-> funcTypeVec,
          funcNameIndexMapper |-> funcNameIndexMapper,
          wasmFunctionVec |-> wasmFunctionVec] = TablesOf(m)
<1> DEFINE names == { e.name : e \in Range(m.exports) }
<1>1. DOMAIN funcNameIndexMapper = names
      BY DEF HoldsModule, Range
<1>2. ASSUME NEW name \in names
      PROVE  funcNameIndexMapper[name] = ExportNamed(m, name).index
      <2>1. \E e \in Range(m.exports) : e.name = name
            OBVIOUS
      <2>2. ExportNamed(m, name) \in Range(m.exports) /\ ExportNamed(m, name).name = name
            BY <2>1 DEF ExportNamed
      <2>3. PICK k \in DOMAIN m.exports : ExportNamed(m, name) = m.exports[k]
            BY <2>2 DEF Range
      <2> QED BY <2>2, <2>3 DEF HoldsModule
<1>3. funcNameIndexMapper = [name \in names |-> ExportNamed(m, name).index]
      <2>1. funcNameIndexMapper = [name \in DOMAIN funcNameIndexMapper |-> funcNameIndexMapper[name]]
            BY DEF ParserTypeOK
      <2> HIDE DEF names
      <2> QED BY <1>1, <1>2, <2>1
<1> QED BY <1>3 DEF TablesOf, HoldsModule

\* Parsers that begin keep their invariants from there.
LEMMA ParserBegins == ParserInit' => FollowsAlways' /\ CropsAlways'
BY FollowsBegins, CropsBegin, PTL

\* What parse comes back with is what JudgedRuns expects.
LEMMA ReturnsTables ==
  ASSUME TestsWellPosed, SystemInv, ParserReturns
  PROVE  /\ cur_wasm_file \in 1 .. FileCount /\ Disk[cur_wasm_file].module # {}
         /\ Parsed(Modules[cur_wasm_file])
<1>1. step = "parse" /\ phase = "done"
      BY DEF ParserReturns, Parsed
<1>2. cur_wasm_file \in 1 .. FileCount
      BY <1>1, CommandAt DEF SystemInv, DriverInv, Reading
<1>3. file = Disk[cur_wasm_file]
      BY <1>1 DEF SystemInv, ParserSide, ParsingFile
<1>4. file.cut = {}
      BY <1>1, CropsNotice DEF SystemInv, ParserSide, CutNoticed
<1>5. Disk[cur_wasm_file].module # {}
      BY <1>2, <1>3, <1>4 DEF TestsWellPosed
<1>6. PICK m \in file.module : TRUE
      BY <1>3, <1>5
<1>7. HoldsModule(m) /\ ParserTypeOK
      BY <1>1, FollowsFinds DEF SystemInv, ParserSide, ParsedAsEncoded, FollowsAlways, ParserTyped
<1>8. MayFind(m) /\ Modules[cur_wasm_file] = TablesOf(m)
      BY <1>2, <1>3, DiskTyped
<1>9. [wasmTypeVec |-> wasmTypeVec, funcTypeVec |-> funcTypeVec,
       funcNameIndexMapper |-> funcNameIndexMapper,
       wasmFunctionVec |-> wasmFunctionVec] = Modules[cur_wasm_file]
      BY <1>7, <1>8, TablesHeld
<1> QED BY <1>2, <1>5, <1>9 DEF ParserReturns

-----------------------------------------------------------------------------
(***************************************************************************)
(* The function under the driver                                           *)
(***************************************************************************)
\* The entry that is judged is one of the suite's.
LEMMA EntryListed ==
  ASSUME DriverInv, Listed, judging # 0, judging <= Len(command_map)
  PROVE  /\ suite \in TestSuites
         /\ command_map[judging] \in Range(InOrderFrom(suite, 1))
<1> DEFINE rest == InOrderFrom(suite, chapter + 1)
<1>1. command_map \in Seq(Entries) /\ rest \in Seq(Entries) /\ judging \in 1 .. Len(command_map)
      BY EntriesTyped, LeftTyped, EntryAt DEF DriverInv
<1>2. InOrderFrom(suite, chapter) = command_map \o rest
      BY LeftTyped
<1>3. /\ judging \in DOMAIN (command_map \o rest)
      /\ (command_map \o rest)[judging] = command_map[judging]
      <2> HIDE DEF rest
      <2> QED BY <1>1
<1>4. command_map[judging] \in Range(InOrderFrom(suite, chapter))
      BY <1>2, <1>3 DEF Range
<1> QED BY <1>4 DEF Listed, DriverInv, Positioned

\* It is well posed.
LEMMA EntryWellPosed ==
  ASSUME TestsWellPosed, DriverInv, Listed, judging # 0, judging <= Len(command_map), File # 0
  PROVE  WellPosed([file |-> File, command |-> Command])
<1>1. command_map[judging] = [file |-> File, command |-> Command]
      BY EntryAt DEF DriverInv
<1>2. \A assertion \in UNION { Range(InOrderFrom(s, 1)) : s \in TestSuites } :
        assertion.file # 0 => WellPosed(assertion)
      BY DEF TestsWellPosed
<1>3. command_map[judging] \in UNION { Range(InOrderFrom(s, 1)) : s \in TestSuites }
      BY EntryListed
<1> QED BY <1>1, <1>2, <1>3

\* A function gets the values of the script.
LEMMA ArgumentsPassed ==
  ASSUME NEW c \in Assertions, NEW types, DOMAIN c.args = DOMAIN types,
         \A k \in DOMAIN types : c.args[k].type = types[k],
         \A k \in DOMAIN types : Given(c.args, types)[k].type \in {"i", "l"}
  PROVE  [k \in DOMAIN Given(c.args, types) |-> Given(c.args, types)[k].value]
           = [k \in DOMAIN c.args |-> c.args[k].value]
<1> DEFINE given == Given(c.args, types)
<1>1. /\ c.args \in Seq([type : WasmType, value : Nat])
      /\ \A j \in DOMAIN c.args :
           /\ c.args[j].type = "i" => c.args[j].value < WordSize
           /\ c.args[j].type = "l" => c.args[j].value < XWordSize
      BY ScriptsAssumption DEF Assertions
<1>2. ASSUME NEW k \in DOMAIN c.args PROVE given[k].value = c.args[k].value
      <2> DEFINE v == c.args[k].value
      <2>1. c.args[k] \in [type : WasmType, value : Nat]
            <3>1. k \in 1 .. Len(c.args)
                  BY <1>1
            <3> QED BY <1>1, <3>1, ElementOfSeq
      <2>2. v \in Nat /\ types[k] = c.args[k].type /\ k \in DOMAIN types
            BY <2>1
      <2>3. given[k] = Argument(c.args, k, [type |-> types[k], value |-> 0])
            BY <2>2 DEF Given
      <2>4. CASE c.args[k].type = "i"
            <3>1. v < WordSize
                  BY <1>1, <2>4
            <3>2. v % WordSize = v
                  <4> HIDE DEF v
                  <4> QED BY <2>2, <3>1, DriverAssumption
            <3>3. given[k] = [type |-> "i", value |-> v % WordSize]
                  BY <2>3, <2>4 DEF Argument
            <3> QED BY <3>2, <3>3
      <2>5. CASE c.args[k].type = "l"
            <3>1. v < XWordSize
                  BY <1>1, <2>5
            <3>2. v % XWordSize = v
                  <4> HIDE DEF v
                  <4> QED BY <2>2, <3>1, DriverAssumption
            <3>3. given[k] = [type |-> "l", value |-> v % XWordSize]
                  BY <2>3, <2>5 DEF Argument
            <3> QED BY <3>2, <3>3
      <2>6. CASE c.args[k].type \notin {"i", "l"}
            <3>1. given[k] = [type |-> types[k], value |-> 0]
                  BY <2>3, <2>6 DEF Argument
            <3>2. given[k].type = types[k]
                  BY <3>1
            <3> QED BY <2>2, <2>6, <3>2
      <2> QED BY <2>4, <2>5, <2>6
<1>3. DOMAIN given = DOMAIN c.args
      BY DEF Given
<1> HIDE DEF given
<1> QED BY <1>2, <1>3 DEF given

\* A function that runs is the module's, runs on the script's values, and gives
\* what the assertion is about: an outcome that JudgedRuns expects.
LEMMA CallAsPosed ==
  ASSUME TestsWellPosed, SystemInv, step = "execute"
  PROVE  /\ File \in 1 .. FileCount /\ Disk[File].module # {}
         /\ \A m \in Disk[File].module : CallOutcome = OutcomeOn(m, Command)
         /\ CallOutcome \in Answers[CurFunction.code_vec]
         /\ CallOutcome.kind = "value" => Len(CallOutcome.value) = Len(CurFunction.result_data)
<1> DEFINE held == Modules[File]
           types == SignatureOf(held, function_index).params
<1>1. DriverInv /\ Listed
      BY DEF SystemInv
<1>2. judging # 0 /\ judging <= Len(command_map) /\ Command \in Assertions
      <2>1. judging # 0 /\ judging <= Len(command_map)
            BY <1>1 DEF DriverInv, Positioned, Running
      <2> QED BY <1>1, <2>1, EntryAt DEF DriverInv
<1>3. /\ File \in DOMAIN parser_map /\ HasFunction(held, function_index)
      /\ function_index = IF Command.field \in DOMAIN held.funcNameIndexMapper
                            THEN held.funcNameIndexMapper[Command.field] ELSE 0
      /\ CurFunction = FunctionWith(held, function_index, Given(Command.args, types))
      BY <1>1 DEF DriverInv, Calling, Running
<1>4. File \in 1 .. FileCount /\ File # 0
      <2>1. File \in 1 .. FileCount
            BY <1>1, <1>3 DEF DriverInv, Filled, Stopped
      <2> QED BY <2>1, DriverAssumption
<1>5. Disk[File].module # {}
      BY <1>3 DEF SystemInv, Accepted, Stopped
<1>6. WellPosed([file |-> File, command |-> Command])
      BY <1>1, <1>2, <1>4, EntryWellPosed
<1>7. ASSUME NEW m \in Disk[File].module
      PROVE  /\ CallOutcome = OutcomeOn(m, Command)
             /\ CallOutcome \in Answers[CurFunction.code_vec]
             /\ CallOutcome.kind = "value" => Len(CallOutcome.value) = Len(CurFunction.result_data)
      <2> DEFINE index == ExportNamed(m, Command.field).index
                 f == FunctionNamed(m, Command.field)
      <2>1. MayFind(m) /\ held = TablesOf(m)
            BY <1>4, DiskTyped
      <2>2. /\ \E e \in Range(m.exports) : e.name = Command.field
            /\ HasFunction(TablesOf(m), index)
                 => /\ DOMAIN Command.args = DOMAIN SignatureOf(TablesOf(m), index).params
                    /\ \A k \in DOMAIN SignatureOf(TablesOf(m), index).params :
                         Command.args[k].type = SignatureOf(TablesOf(m), index).params[k]
                    /\ OutcomeOn(m, Command) \in Answers[f.code_vec]
                    /\ OutcomeOn(m, Command).kind = "value" =>
                         Len(OutcomeOn(m, Command).value) = Len(f.results)
            BY <1>6 DEF WellPosed
      <2>3. function_index = index
            <3>1. /\ DOMAIN TablesOf(m).funcNameIndexMapper = { e.name : e \in Range(m.exports) }
                  /\ \A name \in { e.name : e \in Range(m.exports) } :
                       TablesOf(m).funcNameIndexMapper[name] = ExportNamed(m, name).index
                  BY DEF TablesOf
            <3>2. Command.field \in { e.name : e \in Range(m.exports) }
                  BY <2>2
            <3> QED BY <1>3, <2>1, <3>1, <3>2
      <2>4. /\ DOMAIN Command.args = DOMAIN types
            /\ \A k \in DOMAIN types : Command.args[k].type = types[k]
            /\ OutcomeOn(m, Command) \in Answers[f.code_vec]
            /\ OutcomeOn(m, Command).kind = "value" =>
                 Len(OutcomeOn(m, Command).value) = Len(f.results)
            BY <1>3, <2>1, <2>2, <2>3
      <2>5. /\ CurFunction.param_data = Given(Command.args, types)
            /\ CurFunction.code_vec = held.wasmFunctionVec[function_index + 1].code_vec
            /\ CurFunction.local_var_declare_count
                 = held.wasmFunctionVec[function_index + 1].local_var_declare_count
            /\ CurFunction.result_data = SignatureOf(held, function_index).results
            BY <1>3 DEF FunctionWith
      <2>6. ArgumentValues = [k \in DOMAIN Command.args |-> Command.args[k].value]
            <3>1. \A k \in DOMAIN types : Given(Command.args, types)[k].type \in {"i", "l"}
                  <4>1. DOMAIN Given(Command.args, types) = DOMAIN types
                        BY DEF Given
                  <4> QED BY <2>5, <4>1 DEF SystemInv, Integral
            <3>2. [k \in DOMAIN Given(Command.args, types) |-> Given(Command.args, types)[k].value]
                    = [k \in DOMAIN Command.args |-> Command.args[k].value]
                  BY <1>2, <2>4, <3>1, ArgumentsPassed
            <3> QED BY <2>5, <3>2 DEF ArgumentValues
      <2>7. held.wasmFunctionVec[function_index + 1] = FunctionOf(m.codes[index + 1])
            <3>1. held.wasmFunctionVec = [k \in DOMAIN m.codes |-> FunctionOf(m.codes[k])]
                  BY <2>1 DEF TablesOf
            <3>2. \E S : m.codes \in Seq(S)
                  BY <2>1 DEF MayFind, WellFormed
            <3>3. Len(held.wasmFunctionVec) = Len(m.codes) /\ Len(m.codes) \in Nat
                  /\ DOMAIN m.codes = 1 .. Len(m.codes)
                  BY <3>1, <3>2
            <3>4. function_index \in Nat
                  <4>1. \A name \in DOMAIN held.funcNameIndexMapper :
                          held.funcNameIndexMapper[name] \in Nat
                        BY <1>4, ModulesAssumption
                  <4> QED BY <1>3, <4>1
            <3>5. function_index < Len(held.wasmFunctionVec)
                  BY <1>3 DEF HasFunction
            <3>6. function_index + 1 \in DOMAIN m.codes
                  BY <3>3, <3>4, <3>5
            <3> QED BY <2>3, <3>1, <3>6
      <2>8. /\ CurFunction.code_vec = f.code_vec
            /\ CurFunction.local_var_declare_count = f.local_var_declare_count
            /\ CurFunction.result_data = f.results
            BY <2>1, <2>3, <2>5, <2>7 DEF FunctionNamed
      <2>9. [code_vec |-> CurFunction.code_vec,
             local_var_declare_count |-> CurFunction.local_var_declare_count,
             results |-> CurFunction.result_data] = f
            BY <2>8 DEF FunctionNamed
      <2>10. CallOutcome = OutcomeOn(m, Command)
             <3> HIDE DEF f
             <3>1. CallOutcome = Wasm!Invoke(f, ArgumentValues)
                   BY <2>9 DEF CallOutcome
             <3>2. OutcomeOn(m, Command) = Wasm!Invoke(f, [k \in DOMAIN Command.args |-> Command.args[k].value])
                   BY DEF OutcomeOn, f
             <3> QED BY <2>6, <3>1, <3>2
      <2> QED BY <2>4, <2>8, <2>10
<1> QED BY <1>4, <1>5, <1>7
-----------------------------------------------------------------------------
(***************************************************************************)
(* The steps                                                               *)
(***************************************************************************)
\* With the tests well posed every step is one of the driver of JudgedRuns.
LEMMA RefineStep ==
  ASSUME TestsWellPosed
  PROVE  SystemInv /\ [SystemNext]_systemVars => [DriverNext]_driverVars
<1> SUFFICES ASSUME SystemInv, [SystemNext]_systemVars PROVE [DriverNext]_driverVars
    OBVIOUS
<1>1. CASE OwnStep \/ OpenFile
      BY <1>1 DEF OpenFile, DriverNext
<1>2. CASE ParseStep \/ UNCHANGED systemVars
      BY <1>2 DEF ParseStep, systemVars
<1>3. CASE ParserReturns
      <2>1. step = "parse" /\ Parsed(Modules[cur_wasm_file])
            BY <1>3, TestsWellPosed, ReturnsTables DEF ParserReturns, Parsed
      <2> QED BY <2>1 DEF DriverNext
<1>4. CASE ParserFails
      BY <1>4 DEF ParserFails, DriverNext
<1>5. CASE CallFunction
      <2>1. step = "execute" /\ Execute(CallOutcome)
            BY <1>5 DEF CallFunction
      <2>2. CallOutcome \in Answers[CurFunction.code_vec]
            BY <2>1, TestsWellPosed, CallAsPosed
      <2> QED BY <2>1, <2>2 DEF DriverNext
<1> QED BY <1>1, <1>2, <1>3, <1>4, <1>5 DEF SystemNext

\* The parser is left alone, does a step of its own, or is a new one.
LEMMA ParserSideStep ==
  ASSUME SystemInv, [SystemNext]_systemVars PROVE ParserSide'
<1>1. CASE OpenFile
      <2>1. /\ step = "collect" /\ i <= Len(Script) /\ ~IsAssertion(Script[i])
            /\ Script[i].filename \in 1 .. FileCount /\ cur_wasm_file' = Script[i].filename
            /\ disk = Disk
            BY <1>1, CommandAt DEF OpenFile, NewFile, HasFilename, Collecting, SystemInv, DriverInv
      <2>2. file' = Disk[cur_wasm_file'] /\ file' \in Files
            BY <1>1, <2>1, DiskTyped DEF OpenFile
      <2>3. ParserInit'
            BY <1>1, <2>2 DEF OpenFile, ParserInit
      <2> QED BY <2>2, <2>3, ParserBegins DEF ParserSide, ParsingFile
<1>2. CASE ParseStep
      <2>1. [ParserNext]_parserVars /\ step' = step /\ cur_wasm_file' = cur_wasm_file
            BY <1>2 DEF ParseStep, driverVars, locals
      <2>2. FollowsAlways' /\ CropsAlways' /\ file' = file
            BY <2>1, FollowsKept, CropsKept, FileStays DEF SystemInv, ParserSide
      <2> QED BY <2>1, <2>2 DEF SystemInv, ParserSide, ParsingFile
<1>3. CASE /\ UNCHANGED parserVars
           /\ step' = "parse" => step = "parse" /\ cur_wasm_file' = cur_wasm_file
      <2>1. FollowsAlways' /\ CropsAlways' /\ file' = file
            BY <1>3, FollowsKept, CropsKept, FileStays DEF SystemInv, ParserSide
      <2> QED BY <1>3, <2>1 DEF SystemInv, ParserSide, ParsingFile
<1>4. CASE OwnStep /\ UNCHANGED parserVars
      <2>1. step' = "parse" => step = "parse" /\ cur_wasm_file' = cur_wasm_file
            BY <1>4 DEF OwnStep, KnownFile, CollectAction, Collected, Lookup, SetArguments, Process,
                        JudgeMatched, JudgeUnmatched, JudgeThrows, NextChapter, AllChaptersDone,
                        DriverStops, HasFilename, Collecting, ChapterDone
      <2> QED BY <1>3, <1>4, <2>1
<1>5. CASE ParserReturns \/ ParserFails \/ CallFunction \/ UNCHANGED systemVars
      <2>1. step' = "parse" => step = "parse" /\ cur_wasm_file' = cur_wasm_file
            BY <1>5 DEF ParserReturns, ParserFails, CallFunction, systemVars, Parsed, ParseThrows,
                        Execute, DriverStops, driverVars, locals
      <2>2. UNCHANGED parserVars
            BY <1>5 DEF ParserReturns, ParserFails, CallFunction, systemVars
      <2> QED BY <1>3, <2>1, <2>2
<1> QED BY <1>1, <1>2, <1>4, <1>5 DEF SystemNext

\* A file comes into parser_map empty, and stays there when it is a module.
LEMMA AcceptedStep ==
  ASSUME TestsWellPosed, SystemInv, [SystemNext]_systemVars PROVE Accepted'
<1> SUFFICES ASSUME step' \notin Stopped, NEW f \in DOMAIN parser_map'
             PROVE  (step' = "parse" /\ f = cur_wasm_file') \/ Disk[f].module # {}
    BY DEF Accepted
<1>1. CASE OpenFile
      <2>1. step = "collect" /\ step' = "parse" /\ DOMAIN parser_map' = DOMAIN parser_map \cup {cur_wasm_file'}
            BY <1>1 DEF OpenFile, NewFile, HasFilename, Collecting, Update
      <2> QED BY <2>1 DEF SystemInv, Accepted, Stopped
<1>2. CASE ParserReturns
      <2>1. /\ Disk[cur_wasm_file].module # {} /\ step = "parse"
            /\ DOMAIN parser_map' = DOMAIN parser_map \cup {cur_wasm_file}
            BY <1>2, TestsWellPosed, ReturnsTables DEF Parsed, Update
      <2> QED BY <2>1 DEF SystemInv, Accepted, Stopped
<1>3. CASE UNCHANGED << step, cur_wasm_file, parser_map >>
      BY <1>3 DEF SystemInv, Accepted
<1>4. CASE /\ step \notin Stopped \cup {"parse"} /\ step' # "parse"
           /\ DOMAIN parser_map' \subseteq DOMAIN parser_map
      BY <1>4 DEF SystemInv, Accepted
<1>5. CASE Lookup
      <2>1. step = "lookup" /\ step' = "arguments"
            BY <1>5 DEF Lookup, DriverStops, Stopped
      <2>2. File \in DOMAIN parser_map
            <3>1. File \notin DOMAIN parser_map => ~HasFunction(EmptyParser, 0)
                  BY DEF HasFunction, EmptyParser
            <3> SUFFICES ASSUME File \notin DOMAIN parser_map PROVE FALSE
                OBVIOUS
            <3> DEFINE parser == [EmptyParser EXCEPT !.funcNameIndexMapper = Update(@, Command.field, 0)]
            <3>2. Command.field \notin DOMAIN EmptyParser.funcNameIndexMapper
                  BY DEF EmptyParser
            <3>3. HasFunction(parser, 0)
                  BY <1>5, <2>1, <3>2 DEF Lookup, DriverStops, Stopped
            <3>4. parser.funcTypeVec = << >>
                  BY DEF EmptyParser
            <3> HIDE DEF parser
            <3> QED BY <3>3, <3>4 DEF HasFunction
      <2>3. DOMAIN parser_map' = DOMAIN parser_map \cup {File}
            BY <1>5, <2>1 DEF Lookup, DriverStops, Stopped, Update
      <2> QED BY <1>4, <2>1, <2>2, <2>3 DEF Stopped
<1>6. CASE SetArguments \/ NextChapter
      <2>1. DOMAIN parser_map' \subseteq DOMAIN parser_map
            BY <1>6 DEF SetArguments, NextChapter
      <2> QED BY <1>4, <1>6, <2>1 DEF SetArguments, NextChapter, ChapterDone, Stopped
<1>7. CASE KnownFile \/ CollectAction
      BY <1>7, <1>4 DEF KnownFile, CollectAction, HasFilename, Collecting, Stopped
<1>8. CASE Collected \/ JudgeMatched \/ CallFunction
      BY <1>8, <1>4 DEF Collected, JudgeMatched, CallFunction, Execute, Stopped
<1>9. CASE Process \/ JudgeUnmatched \/ JudgeThrows \/ AllChaptersDone \/ ParserFails
      <2>1. Process /\ step' = "execute" /\ UNCHANGED << suite, chapter, locals >>
            BY <1>9 DEF Process, JudgeUnmatched, JudgeThrows, AllChaptersDone, ParserFails,
                        ParseThrows, DriverStops, Stopped
      <2> QED BY <1>4, <2>1 DEF Process, locals, Stopped
<1>10. CASE ParseStep \/ UNCHANGED systemVars
       BY <1>3, <1>10 DEF ParseStep, systemVars, driverVars, locals
<1> QED BY <1>1, <1>2, <1>5, <1>6, <1>7, <1>8, <1>9, <1>10 DEF SystemNext, OwnStep

\* The next chapter's assertions come behind this one's.
LEMMA ListedStep ==
  ASSUME SystemInv, [DriverNext]_driverVars PROVE Listed'
<1>1. CASE suite' = suite /\ chapter' = chapter
      BY <1>1 DEF SystemInv, Listed
<1>2. CASE NextChapter
      <2>1. /\ suite' = suite /\ chapter' = chapter + 1
            /\ suite \in Seq(Seq(AllCommands)) /\ chapter \in 1 .. Len(suite)
            BY <1>2, SuiteTyped DEF NextChapter, SystemInv, DriverInv, Positioned
      <2> DEFINE rest == InOrderFrom(suite, chapter + 1)
      <2>2. /\ InOrderFrom(suite, chapter) = InOrder(suite[chapter]) \o rest
            /\ rest \in Seq(Entries) /\ InOrder(suite[chapter]) \in Seq(Entries)
            <3>1. suite[chapter] \in Seq(AllCommands)
                  BY <2>1, ElementOfSeq
            <3> QED BY <2>1, <3>1, InOrderFromStep, InOrderGrouped
      <2>3. Range(rest) \subseteq Range(InOrder(suite[chapter]) \o rest)
            <3> DEFINE first == InOrder(suite[chapter])
            <3> HIDE DEF first, rest
            <3>1. first \in Seq(Entries) /\ rest \in Seq(Entries)
                  BY <2>2 DEF first
            <3>2. ASSUME NEW k \in DOMAIN rest
                  PROVE  Len(first) + k \in DOMAIN (first \o rest)
                         /\ (first \o rest)[Len(first) + k] = rest[k]
                  BY <3>1
            <3>3. Range(rest) \subseteq Range(first \o rest)
                  BY <3>2 DEF Range
            <3> QED BY <3>3 DEF first
      <2> HIDE DEF rest
      <2> QED BY <2>1, <2>2, <2>3 DEF SystemInv, Listed, rest
<1>3. suite' = suite /\ (chapter' = chapter \/ NextChapter)
      BY DEF DriverNext, OwnStep, driverVars, NewFile, KnownFile, CollectAction, Collected, Parsed,
             ParseThrows, Lookup, SetArguments, Process, ProcessThrows, Execute, JudgeMatched,
             JudgeUnmatched, JudgeThrows, NextChapter, AllChaptersDone, DriverStops
<1> QED BY <1>1, <1>2, <1>3

\* Only functions with integer parameters are translated.
LEMMA IntegralStep ==
  ASSUME SystemInv, [DriverNext]_driverVars PROVE Integral'
<1> SUFFICES ASSUME step' = "execute" PROVE Integral'
    BY DEF Integral
<1>1. CASE UNCHANGED driverVars
      BY <1>1 DEF SystemInv, Integral, driverVars, locals, CurFunction, File
<1>2. CASE Process
      <2>1. /\ UNCHANGED << suite, chapter, locals >>
            /\ \A k \in DOMAIN CurFunction.param_data :
                 CurFunction.param_data[k].type \in {"i", "l"}
            BY <1>2 DEF Process, DriverStops
      <2> QED BY <2>1 DEF Integral, locals, CurFunction, File
<1>3. Process \/ UNCHANGED driverVars
      BY DEF DriverNext, OwnStep, NewFile, KnownFile, CollectAction, Collected, Parsed, ParseThrows,
             Lookup, SetArguments, ProcessThrows, Execute, JudgeMatched, JudgeUnmatched,
             JudgeThrows, NextChapter, AllChaptersDone, DriverStops, HasFilename, Collecting
<1> QED BY <1>1, <1>2, <1>3

\* The program keeps its invariant,
LEMMA SystemInvStep ==
  ASSUME TestsWellPosed
  PROVE  SystemInv /\ [SystemNext]_systemVars => SystemInv'
<1> SUFFICES ASSUME SystemInv, [SystemNext]_systemVars PROVE SystemInv'
    OBVIOUS
<1>1. [DriverNext]_driverVars
      BY TestsWellPosed, RefineStep
<1>2. DriverInv'
      BY <1>1, InvStep DEF SystemInv
<1>3. disk' = Disk
      BY DEF SystemInv, SystemNext, systemVars
<1>4. ParserSide' /\ Accepted' /\ Listed' /\ Integral'
      BY <1>1, TestsWellPosed, ParserSideStep, AcceptedStep, ListedStep, IntegralStep
<1> QED BY <1>2, <1>3, <1>4 DEF SystemInv

\* begins in it,
LEMMA SystemInvInit == SystemInit => SystemInv
<1> SUFFICES ASSUME SystemInit PROVE SystemInv
    OBVIOUS
<1>1. DriverInv /\ ParserInit /\ disk = Disk
      BY InvInit DEF SystemInit
<1>2. step = "collect" /\ parser_map = << >> /\ chapter = 1
      BY DEF SystemInit, DriverInit
<1>3. ParserSide
      BY <1>1, <1>2, FollowsBegins, CropsBegin DEF ParserSide, ParsingFile
<1>4. Accepted /\ Listed /\ Integral
      BY <1>2 DEF Accepted, Listed, Integral
<1> QED BY <1>1, <1>3, <1>4 DEF SystemInv

\* and is in it in every state.
LEMMA SystemInvAlways ==
  ASSUME TestsWellPosed PROVE SystemSpec => []SystemInv
<1>1. SystemInv /\ [SystemNext]_systemVars => SystemInv'
      BY TestsWellPosed, SystemInvStep
<1> QED BY <1>1, SystemInvInit, PTL DEF SystemSpec

\* The program with its parser and its functions is the driver of JudgedRuns:
\* from the bytes of every file of the tests parse comes back with the tables
\* of the module they encode, or throws, and each call gives an outcome of the
\* function the assertion names (test_chapter, Parser::parse).
THEOREM AsJudgedCorrect ==
  ASSUME TestsWellPosed PROVE SystemSpec => AsJudged
<1>1. SystemInv /\ [SystemNext]_systemVars => [DriverNext]_driverVars
      BY TestsWellPosed, RefineStep
<1>2. SystemInit => DriverInit
      BY DEF SystemInit
<1>3. SystemSpec => []SystemInv
      BY TestsWellPosed, SystemInvAlways
<1> QED BY <1>1, <1>2, <1>3, PTL DEF SystemSpec, AsJudged
-----------------------------------------------------------------------------
(***************************************************************************)
(* The verdict                                                             *)
(***************************************************************************)
\* What is looked at after a call is what the module gives.
Seen ==
  step = "judge" =>
    /\ Disk[File].module # {}
    /\ \A m \in Disk[File].module :
         /\ Returned.kind = OutcomeOn(m, Command).kind
         /\ Returned.value = OutcomeOn(m, Command).value

\* The suite's assertions are judged in their order, and the judged ones hold.
JudgedTrue ==
  LET all == InOrderFrom(suite, 1)
  IN \E n \in 0 .. Len(all) :
       /\ Left = SubSeq(all, n + 1, Len(all))
       /\ \A k \in 1 .. n : True(all[k])

Decided ==
  /\ step = "passed" => Left = << >>
  /\ step = "unmatched" => Left # << >> /\ ~True(Head(Left))

JudgedInv == SystemInv /\ TrapSeen /\ Seen /\ JudgedTrue /\ Decided

\* What is left of a sequence when n members are gone.
LEMMA RestOf ==
  ASSUME NEW S, NEW all \in Seq(S), NEW n \in 0 .. Len(all)
  PROVE  /\ SubSeq(all, n + 1, Len(all)) = << >> <=> n = Len(all)
         /\ n # Len(all) => /\ n + 1 \in 1 .. Len(all)
                            /\ Head(SubSeq(all, n + 1, Len(all))) = all[n + 1]
                            /\ Tail(SubSeq(all, n + 1, Len(all))) = SubSeq(all, n + 1 + 1, Len(all))
<1> DEFINE l == Len(all)
<1>1. l \in Nat /\ n \in 0 .. l
      OBVIOUS
<1>2. CASE n = l
      <2>1. SubSeq(all, n + 1, l) = << >>
            <3>1. l < n + 1 /\ n + 1 \in Int /\ l \in Int
                  BY <1>1, <1>2
            <3> QED BY <3>1, SubSeqEmpty
      <2> QED BY <1>2, <2>1
<1>3. CASE n # l
      <2>1. n + 1 \in 1 .. l /\ l \in n + 1 .. l
            <3> HIDE DEF l
            <3> QED BY <1>1, <1>3
      <2>2. /\ Head(SubSeq(all, n + 1, l)) = all[n + 1]
            /\ Tail(SubSeq(all, n + 1, l)) = SubSeq(all, n + 1 + 1, l)
            BY <2>1, HeadTailOfSubSeq
      <2>3. Len(SubSeq(all, n + 1, l)) = l - (n + 1) + 1
            <3>1. \A k \in n + 1 .. l : all[k] \in S
                  <4>1. \A k \in n + 1 .. l : k \in 1 .. l
                        <5> HIDE DEF l
                        <5> QED BY <2>1
                  <4> QED BY <4>1, ElementOfSeq
            <3>2. n + 1 \in Int /\ l \in Int /\ n + 1 <= l
                  <4> HIDE DEF l
                  <4> QED BY <2>1
            <3> QED BY <3>1, <3>2, SubSeqProperties
      <2>4. SubSeq(all, n + 1, l) # << >>
            <3>1. l - (n + 1) + 1 # 0
                  <4> HIDE DEF l
                  <4> QED BY <1>1, <1>3
            <3>2. Len(<< >>) = 0
                  OBVIOUS
            <3> QED BY <2>3, <3>1, <3>2
      <2> QED BY <1>3, <2>1, <2>2, <2>4
<1> QED BY <1>2, <1>3

LEMMA AllTyped == ASSUME suite \in TestSuites PROVE InOrderFrom(suite, 1) \in Seq(Entries)
<1>1. suite \in Seq(Seq(AllCommands)) /\ suite # << >>
      BY ScriptsAssumption
<1>2. 1 \in 1 .. Len(suite)
      <2>1. Len(suite) \in Nat /\ Len(suite) # 0
            BY <1>1, EmptySeq
      <2> QED BY <2>1
<1> QED BY <1>1, <1>2, InOrderFromStep

\* A call leaves what its function gives: ans is looked at where the function
\* has a result, and there the value is one number.
LEMMA SeenStep ==
  ASSUME TestsWellPosed, SystemInv, Seen, [SystemNext]_systemVars PROVE Seen'
<1> SUFFICES ASSUME step' = "judge" PROVE Seen'
    BY DEF Seen
<1>1. CASE UNCHANGED systemVars
      BY <1>1 DEF Seen, systemVars, driverVars, locals, Returned, File, Command, CurFunction
<1>2. CASE CallFunction
      <2> DEFINE outcome == CallOutcome
      <2>1. /\ step = "execute" /\ exceptionThrown' = (outcome.kind = "trap")
            /\ outcome.value = << >> \/ ans' = outcome.value[1]
            /\ UNCHANGED << parser_map, command_map, judging, function_index >>
            BY <1>2 DEF CallFunction, Execute
      <2>2. /\ File \in 1 .. FileCount /\ Disk[File].module # {}
            /\ \A m \in Disk[File].module : outcome = OutcomeOn(m, Command)
            /\ outcome \in Answers[CurFunction.code_vec]
            /\ outcome.kind = "value" => Len(outcome.value) = Len(CurFunction.result_data)
            BY <2>1, TestsWellPosed, CallAsPosed
      <2>3. CurFunction.code_vec \in DOMAIN Answers /\ CurFunction.result_data \in Seq(WasmType)
            <3> DEFINE m == Modules[File]
            <3>1. DriverInv /\ step \in Running
                  BY <2>1 DEF SystemInv, Running
            <3>2. /\ function_index = IF Command.field \in DOMAIN m.funcNameIndexMapper
                                        THEN m.funcNameIndexMapper[Command.field] ELSE 0
                  /\ HasFunction(m, function_index)
                  /\ CurFunction.code_vec = m.wasmFunctionVec[function_index + 1].code_vec
                  /\ CurFunction.result_data = SignatureOf(m, function_index).results
                  BY <2>1, <3>1 DEF DriverInv, Calling, FunctionWith
            <3>3. /\ m.wasmFunctionVec \in Seq([code_vec : DOMAIN Answers, local_var_declare_count : Nat])
                  /\ \A name \in DOMAIN m.funcNameIndexMapper : m.funcNameIndexMapper[name] \in Nat
                  BY <2>2, ModulesAssumption
            <3>4. function_index + 1 \in 1 .. Len(m.wasmFunctionVec)
                  BY <3>2, <3>3 DEF HasFunction
            <3>5. m.wasmFunctionVec[function_index + 1]
                    \in [code_vec : DOMAIN Answers, local_var_declare_count : Nat]
                  BY <3>3, <3>4, ElementOfSeq
            <3>6. SignatureOf(m, function_index).results \in Seq(WasmType)
                  BY <3>1, SignatureTyped
            <3> QED BY <3>2, <3>5, <3>6
      <2>4. /\ outcome.kind \in {"trap", "value"}
            /\ outcome.value \in Seq(Nat) /\ Len(outcome.value) <= 1
            /\ outcome.kind = "trap" => outcome.value = << >>
            BY <2>2, <2>3, ModulesAssumption
      <2>5. File' = File /\ Command' = Command /\ CurFunction' = CurFunction
            BY <2>1 DEF File, Command, CurFunction
      <2> HIDE DEF outcome
      <2>6. Returned'.kind = outcome.kind
            BY <2>1, <2>4 DEF Returned
      <2>7. Returned'.value = outcome.value
            <3>1. Returned'.value = IF exceptionThrown' \/ CurFunction.result_data = << >> THEN << >>
                                    ELSE << ans' >>
                  BY <2>5 DEF Returned
            <3>2. CASE outcome.kind = "trap"
                  BY <2>1, <2>4, <3>1, <3>2
            <3>3. CASE outcome.kind = "value" /\ CurFunction.result_data = << >>
                  <4>1. Len(outcome.value) = 0
                        BY <2>2, <3>3
                  <4>2. outcome.value = << >>
                        BY <2>4, <4>1, EmptySeq
                  <4> QED BY <3>1, <3>3, <4>2
            <3>4. CASE outcome.kind = "value" /\ CurFunction.result_data # << >>
                  <4>1. Len(CurFunction.result_data) \in Nat /\ Len(CurFunction.result_data) # 0
                        BY <2>3, <3>4, EmptySeq
                  <4>2. Len(outcome.value) = 1
                        <5> DEFINE count == Len(outcome.value)
                        <5>1. count = Len(CurFunction.result_data)
                              BY <2>2, <3>4
                        <5>2. count \in Nat /\ count # 0 /\ count <= 1
                              BY <2>4, <4>1, <5>1
                        <5> HIDE DEF count
                        <5>3. count = 1
                              BY <5>2
                        <5> QED BY <5>3 DEF count
                  <4>3. outcome.value = << outcome.value[1] >> /\ outcome.value # << >>
                        BY <2>4, <4>2
                  <4>4. exceptionThrown' = FALSE
                        BY <2>1, <3>4
                  <4> QED BY <2>1, <3>1, <3>4, <4>3, <4>4
            <3> QED BY <2>4, <3>2, <3>3, <3>4
      <2> QED BY <2>2, <2>5, <2>6, <2>7 DEF Seen, outcome
<1>3. ~(ParseStep \/ OpenFile \/ ParserReturns \/ ParserFails \/ OwnStep)
      <2>1. ~ParseStep
            <3>1. ParseStep => step = "parse" /\ step' = step
                  BY DEF ParseStep, driverVars
            <3> QED BY <3>1
      <2>2. ~(OpenFile \/ ParserReturns \/ ParserFails \/ OwnStep)
            BY DEF OpenFile, NewFile, ParserReturns, Parsed, ParserFails, ParseThrows, OwnStep,
                   KnownFile, CollectAction, Collected, Lookup, SetArguments, Process, JudgeMatched,
                   JudgeUnmatched, JudgeThrows, NextChapter, AllChaptersDone, DriverStops,
                   HasFilename, Collecting
      <2> QED BY <2>1, <2>2
<1> QED BY <1>1, <1>2, <1>3 DEF SystemNext

\* The judgement of a call is the truth of the assertion.
LEMMA JudgementTrue ==
  ASSUME DriverInv, Seen, step = "judge"
  PROVE  Left # << >> /\ (True(Head(Left)) <=> Run!Holds(Head(Left).command, Returned))
<1>1. judging # 0 /\ judging <= Len(command_map)
      BY DEF DriverInv, Positioned, Running
<1>2. /\ Left # << >> /\ Head(Left) = [file |-> File, command |-> Command]
      /\ Command \in Assertions
      BY <1>1, LeftAt, EntryAt DEF DriverInv
<1>3. True(Head(Left)) <=> \E m \in Disk[File].module : Holds(Command, OutcomeOn(m, Command))
      BY <1>2 DEF True
<1>4. ASSUME NEW m \in Disk[File].module
      PROVE  Holds(Command, OutcomeOn(m, Command)) <=> Holds(Command, Returned)
      <2>1. /\ Returned.kind = OutcomeOn(m, Command).kind
            /\ Returned.value = OutcomeOn(m, Command).value
            BY DEF Seen
      <2> QED BY <2>1 DEF Holds
<1>5. Disk[File].module # {}
      BY DEF Seen
<1> QED BY <1>2, <1>3, <1>4, <1>5, RunOperators

\* The prefix of judged assertions grows by the true ones,
LEMMA JudgedStep ==
  ASSUME TrapsShow, JudgedInv, [DriverNext]_driverVars PROVE JudgedTrue' /\ Decided'
<1> DEFINE all == InOrderFrom(suite, 1)
<1>1. Run!RunNext \/ UNCHANGED Run!testRun
      BY TrapsShow, RunStep DEF JudgedInv, SystemInv
<1>2. all \in Seq(Entries)
      BY AllTyped DEF JudgedInv, SystemInv, DriverInv, Positioned
<1>3. PICK n \in 0 .. Len(all) :
        Left = SubSeq(all, n + 1, Len(all)) /\ \A k \in 1 .. n : True(all[k])
      BY DEF JudgedInv, JudgedTrue
<1>4. /\ Verdict = "passed" <=> step = "passed"
      /\ Verdict = "failed" <=> step = "unmatched"
      BY DEF Verdict
<1>5. /\ Verdict' = "passed" <=> step' = "passed"
      /\ Verdict' = "failed" <=> step' = "unmatched"
      BY DEF Verdict
<1>6. ASSUME suite' = suite, Left' = Left PROVE JudgedTrue'
      BY <1>3, <1>6 DEF JudgedTrue, True
<1>7. CASE Run!CallNext \/ UNCHANGED Run!testRun
      <2>1. suite' = suite /\ Left' = Left /\ Verdict' = Verdict
            BY <1>7 DEF Run!CallNext, Run!testRun, Verdict
      <2> QED BY <1>4, <1>5, <1>6, <2>1 DEF JudgedInv, Decided, True
<1>8. CASE Run!GiveUp
      <2>1. suite' = suite /\ Left' = Left /\ Verdict' = "stopped"
            BY <1>8 DEF Run!GiveUp, Verdict
      <2> QED BY <1>5, <1>6, <2>1 DEF Decided
<1>9. CASE Run!Pass
      <2>1. suite' = suite /\ Left' = Left /\ Left = << >> /\ Verdict' = "passed"
            BY <1>9 DEF Run!Pass, Verdict
      <2> QED BY <1>5, <1>6, <2>1 DEF Decided
<1>10. CASE Run!JudgeCall
      <2>1. /\ Called # << >> /\ suite' = suite
            /\ IF Run!Holds(Head(Left).command, Called[1])
                 THEN Left' = Tail(Left) /\ Verdict' = Verdict
                 ELSE Verdict' = "failed" /\ Left' = Left
            /\ Verdict = "running"
            BY <1>10 DEF Run!JudgeCall, Called, Verdict
      <2>2. step = "judge" /\ Called[1] = Returned
            BY <2>1 DEF Called
      <2>3. Left # << >> /\ (True(Head(Left)) <=> Run!Holds(Head(Left).command, Called[1]))
            BY <2>2, JudgementTrue DEF JudgedInv, SystemInv
      <2>4. CASE True(Head(Left))
            <3>1. Left' = Tail(Left) /\ Verdict' = "running"
                  BY <2>1, <2>3, <2>4
            <3>2. /\ n + 1 \in 1 .. Len(all) /\ Head(Left) = all[n + 1]
                  /\ Tail(Left) = SubSeq(all, n + 1 + 1, Len(all))
                  BY <1>2, <1>3, <2>3, RestOf
            <3>3. \A k \in 1 .. n + 1 : True(all[k])
                  <4>1. \A k \in 1 .. n + 1 : k \in 1 .. n \/ k = n + 1
                        OBVIOUS
                  <4> HIDE DEF all
                  <4> QED BY <1>3, <2>4, <3>2, <4>1
            <3>4. n + 1 \in 0 .. Len(all)
                  <4> HIDE DEF all
                  <4> QED BY <3>2
            <3>5. all' = all
                  BY <2>1
            <3>6. JudgedTrue'
                  <4>1. /\ Left' = SubSeq(all', n + 1 + 1, Len(all'))
                        /\ \A k \in 1 .. n + 1 : True(all'[k])
                        /\ n + 1 \in 0 .. Len(all')
                        BY <3>1, <3>2, <3>3, <3>4, <3>5
                  <4>2. \E l \in 0 .. Len(all') :
                          /\ Left' = SubSeq(all', l + 1, Len(all'))
                          /\ \A k \in 1 .. l : True(all'[k])
                        BY <4>1
                  <4> QED BY <4>2 DEF JudgedTrue, True
            <3> QED BY <1>5, <3>1, <3>6 DEF Decided
      <2>5. CASE ~True(Head(Left))
            <3>1. Left' = Left /\ Verdict' = "failed"
                  BY <2>1, <2>3, <2>5
            <3> QED BY <1>5, <1>6, <2>1, <2>3, <2>5, <3>1 DEF Decided, True
      <2> QED BY <2>4, <2>5
<1> QED BY <1>1, <1>7, <1>8, <1>9, <1>10 DEF Run!RunNext

\* is empty when the program begins,
LEMMA JudgedInit == SystemInit => JudgedInv
<1> SUFFICES ASSUME SystemInit PROVE JudgedInv
    OBVIOUS
<1>1. /\ DriverInit /\ suite \in TestSuites /\ chapter = 1 /\ judging = 0 /\ step = "collect"
      BY DEF SystemInit, DriverInit
<1>2. SystemInv /\ TrapSeen
      BY <1>1, SystemInvInit, TrapSeenInit
<1> DEFINE all == InOrderFrom(suite, 1)
<1>3. all \in Seq(Entries) /\ Left = all
      BY <1>1, AllTyped DEF Left
<1>4. JudgedTrue
      <2>1. SubSeq(all, 0 + 1, Len(all)) = all
            BY <1>3, SubSeqFull
      <2>2. 0 \in 0 .. Len(all) /\ \A k \in 1 .. 0 : True(all[k])
            <3>1. Len(all) \in Nat
                  BY <1>3
            <3> HIDE DEF all
            <3> QED BY <3>1
      <2> QED BY <1>3, <2>1, <2>2 DEF JudgedTrue
<1> QED BY <1>1, <1>2, <1>4 DEF JudgedInv, Seen, Decided

\* and gives the verdict in the end.
LEMMA JudgedRight == JudgedInv => VerdictIsRight
<1> SUFFICES ASSUME JudgedInv PROVE VerdictIsRight
    OBVIOUS
<1> DEFINE all == InOrderFrom(suite, 1)
<1>1. all \in Seq(Entries)
      BY AllTyped DEF JudgedInv, SystemInv, DriverInv, Positioned
<1>2. PICK n \in 0 .. Len(all) :
        Left = SubSeq(all, n + 1, Len(all)) /\ \A k \in 1 .. n : True(all[k])
      BY DEF JudgedInv, JudgedTrue
<1>3. DOMAIN all = 1 .. Len(all)
      BY <1>1
<1>4. ASSUME step = "passed" PROVE AllTrue
      <2>1. n = Len(all)
            BY <1>1, <1>2, <1>4, RestOf DEF JudgedInv, Decided
      <2> QED BY <1>2, <1>3, <2>1 DEF AllTrue
<1>5. ASSUME step = "unmatched" PROVE ~AllTrue
      <2>1. Left # << >> /\ ~True(Head(Left))
            BY <1>5 DEF JudgedInv, Decided
      <2>2. n + 1 \in DOMAIN all /\ Head(Left) = all[n + 1]
            BY <1>1, <1>2, <1>3, <2>1, RestOf
      <2> QED BY <2>1, <2>2 DEF AllTrue
<1> QED BY <1>4, <1>5 DEF VerdictIsRight

\* The verdict is right, from the bytes of the files to the program's end: when
\* it passes, every assertion of the suite holds of the module in its file, by
\* the semantics of WebAssembly, and when it fails one does not - provided that
\* the tests are well posed and a trap shows in what the driver compares (main,
\* test_chapter, Parser::parse and a call that does what Jit promises).
THEOREM VerdictIsRightCorrect ==
  ASSUME TestsWellPosed, TrapsShow PROVE SystemSpec => []VerdictIsRight
<1>1. JudgedInv /\ [SystemNext]_systemVars => JudgedInv'
      <2> SUFFICES ASSUME JudgedInv, [SystemNext]_systemVars PROVE JudgedInv'
          OBVIOUS
      <2>1. SystemInv' /\ [DriverNext]_driverVars
            BY TestsWellPosed, SystemInvStep, RefineStep DEF JudgedInv
      <2>2. TrapSeen'
            BY TrapsShow, <2>1, TrapSeenStep DEF JudgedInv, SystemInv
      <2>3. Seen' /\ JudgedTrue' /\ Decided'
            BY TestsWellPosed, TrapsShow, <2>1, SeenStep, JudgedStep DEF JudgedInv
      <2> QED BY <2>1, <2>2, <2>3 DEF JudgedInv
<1> QED BY <1>1, JudgedInit, JudgedRight, PTL DEF SystemSpec
=============================================================================
