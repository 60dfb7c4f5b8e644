------------------------------ MODULE MCSystem -------------------------------
(***************************************************************************)
(* Test modules of the repository and a selection of the assertions its    *)
(* scripts make (test/CH02 to CH05), with one-byte names, and with i32 of  *)
(* 256 and i64 of 65536 values: a script's 2^31 is 128 or 32768 here, its  *)
(* 2^32-1 is 255.  Of div_u the scripts assert traps only; returns are     *)
(* added here.                                                             *)
(***************************************************************************)
EXTENDS System, TestFunctions

Module(types, funcs, exports, codes) ==
  [types |-> types, funcs |-> funcs, exports |-> exports, codes |-> codes,
   extra |-> << >>]

\* A module of these functions, the k-th of them exported under the name k.
\* The declarations of locals are the first bytes of code_vec.
ModuleOf(functions) ==
  LET declared(f) == [d \in 1 .. f.local_var_declare_count |->
                      << f.code_vec[2 * d - 1], f.code_vec[2 * d] >>]
      body(f) == SubSeq(f.code_vec, 2 * f.local_var_declare_count + 1, Len(f.code_vec))
  IN Module([k \in DOMAIN functions |->
               [params |-> functions[k].params, results |-> functions[k].results]],
            [k \in DOMAIN functions |-> k - 1],
            [k \in DOMAIN functions |-> [name |-> << k >>, kind |-> 0, index |-> k - 1]],
            [k \in DOMAIN functions |-> [locals |-> declared(functions[k]),
                                         body |-> body(functions[k])]])

NoInputs == {}

TestModules ==
  << \* local.0, local.2
     ModuleOf(<< GetLocal(\h7F, "i"), GetLocal(\h7E, "l"), GetParam("i", NoInputs),
                 GetParam("l", NoInputs) >>),
     ModuleOf(<< SetLocal(\h41, \h7F), SetLocal(\h42, \h7E), SetMixed(NoInputs) >>),
     \* arithmetic.0, div.0 and div.1
     ModuleOf(<< Binary(\h6A, "i", NoInputs), Binary(\h6B, "i", NoInputs), Binary(\h6C, "i", NoInputs) >>),
     ModuleOf(<< Binary(\h6D, "i", NoInputs), Binary(\h6E, "i", NoInputs) >>),
     ModuleOf(<< Binary(\h7F, "l", NoInputs), Binary(\h80, "l", NoInputs) >>),
     \* if.0
     ModuleOf(<< IfSingular(NoInputs), IfAsReturn(NoInputs), IfAsLocalSet(NoInputs),
                 IfAsLocalTee(NoInputs), Abs(NoInputs) >>) >>

\* A function without result that divides (TrapUnnoticed.cfg).
DividesForNothing ==
  ModuleOf(<< Function(<< \h20, 0, \h20, 1, \h6D, \h21, 0, \h0B >>, 0, << "i", "i" >>,
                       << >>, NoInputs) >>)

\* The last file is the first without its last byte.
TestDisk ==
  << FileOf(TestModules[1]), FileOf(TestModules[2]), FileOf(TestModules[3]),
     FileOf(TestModules[4]), FileOf(TestModules[5]), FileOf(TestModules[6]),
     PartOf(TestModules[1], Front(Encode(TestModules[1]))) >>

TestFiles == Range(TestDisk)

DiskModules == [f \in 1 .. FileCount |-> TablesOf(TestModules[IF f = 7 THEN 1 ELSE f])]

Use(f) == [type |-> "module", filename |-> f]
I(v) == [type |-> "i", value |-> v]
L(v) == [type |-> "l", value |-> v]
Return(name, args, expected) ==
  [type |-> "assert_return", field |-> << name >>, args |-> args, expected |-> expected]
Traps(name, args) ==
  [type |-> "assert_trap", field |-> << name >>, args |-> args, expected |-> << >>]

CH02 ==
  << Use(1), Return(1, << >>, << 0 >>), Return(2, << >>, << 0 >>),
     Return(3, << I(2) >>, << 2 >>), Return(4, << L(3) >>, << 3 >>),
     Use(2), Return(1, << >>, << >>), Return(2, << >>, << >>),
     Return(3, << L(0), I(0), I(0) >>, << >>) >>

CH03 ==
  << Use(3), Return(1, << I(255), I(255) >>, << 254 >>), Return(1, << I(128), I(128) >>, << 0 >>),
     Return(2, << I(127), I(255) >>, << 128 >>), Return(2, << I(128), I(1) >>, << 127 >>),
     Return(3, << I(128), I(255) >>, << 128 >>), Return(3, << I(1), I(0) >>, << 0 >>) >>

CH04 ==
  << Use(4), Traps(1, << I(1), I(0) >>), Traps(1, << I(128), I(255) >>),
     Return(1, << I(255), I(255) >>, << 1 >>), Return(1, << I(251), I(2) >>, << 254 >>),
     Traps(2, << I(1), I(0) >>), Return(2, << I(128), I(2) >>, << 64 >>),
     Use(5), Traps(1, << L(32768), L(65535) >>), Return(1, << L(65531), L(2) >>, << 65534 >>),
     Traps(2, << L(0), L(0) >>), Return(2, << L(65535), L(65535) >>, << 1 >>) >>

CH05 ==
  << Use(6), Return(5, << I(5) >>, << 5 >>), Return(5, << I(251) >>, << 5 >>),
     Return(1, << I(0) >>, << 8 >>), Return(1, << I(246) >>, << 7 >>),
     Return(2, << I(0) >>, << 0 >>), Return(2, << I(1) >>, << 1 >>),
     Return(3, << I(1) >>, << 1 >>), Return(4, << I(0) >>, << 0 >>) >>

TestChapters == << CH02, CH03, CH04, CH05 >>

\* The suite with another expectation for one assertion: a value for a trap,
\* a trap for a value, another value, a value for none.
Falsified(command) ==
  IF command.type = "assert_trap" THEN {[command EXCEPT !.type = "assert_return",
                                                        !.expected = << 1 >>]}
  ELSE {[command EXCEPT !.type = "assert_trap"],
        [command EXCEPT !.expected = << IF @ = << 1 >> THEN 2 ELSE 1 >>]}

FalseChapters ==
  { [TestChapters EXCEPT ![c][k] = command] :
      << c, k, command >> \in UNION { { << c, k, command >> : command \in Falsified(TestChapters[c][k]) } :
         << c, k >> \in UNION { { << c, k >> : k \in { k \in DOMAIN TestChapters[c] :
                                 IsAssertion(TestChapters[c][k]) } } : c \in DOMAIN TestChapters } } }

\* Files of one chapter in another order, and one of them twice.
Reordered ==
  << << Use(4), Traps(1, << I(5), I(0) >>), Use(3), Return(1, << I(5), I(0) >>, << 5 >>),
        Use(4), Return(1, << I(5), I(1) >>, << 5 >>), Use(1), Return(1, << >>, << 0 >>) >> >>

CutFile == << << Use(4), Traps(1, << I(5), I(0) >>), Use(7), Return(1, << >>, << 0 >>) >> >>

SystemSuites == {TestChapters, Reordered, CutFile} \cup FalseChapters

DivideDisk == << FileOf(DividesForNothing) >>
DivideFiles == Range(DivideDisk)
DivideModules == << TablesOf(DividesForNothing) >>
DivideSuites == { << << Use(1), Return(1, << I(5), I(0) >>, << >>) >> >> }

\* The outcomes of each code are those that the tests name.
Codes == UNION { UNION { { FunctionOf(c).code_vec : c \in Range(m.codes) } : m \in f.module } : f \in Files }

Outcome(command) ==
  IF command.type = "assert_trap" THEN [kind |-> "trap", value |-> << >>]
  ELSE [kind |-> "value", value |-> command.expected]

Calls ==
  { << FunctionNamed(TestModules[a.file], a.command.field).code_vec, Outcome(a.command) >> :
      a \in UNION { Range(InOrderFrom(s, 1)) : s \in {TestChapters, Reordered} } }

CallOutcomes == [code \in Codes |-> { call[2] : call \in { call \in Calls : call[1] = code } }]

DivideOutcomes == [code \in Codes |-> {[kind |-> "trap", value |-> << >>]}]

\* What the theorems about System assume of the tests.
ASSUME Hypotheses == TestsWellPosed /\ (FileCount # 1 => TrapsShow)
=============================================================================
