------------------------------ MODULE Scripts -------------------------------
(***************************************************************************)
(* What a script means, read from the tests and not from the driver.  It   *)
(* is a sequence of commands, with the fields the JSON files have:         *)
(*   [type |-> "module", filename |-> a number from 1 on], or              *)
(*   [type |-> "assert_return" or "assert_trap", field, args, expected],   *)
(* args a sequence of [type, value], expected of at most one number.  The  *)
(* outcome of a call is [kind |-> "trap" or "value", value |-> at most     *)
(* one number].                                                            *)
(***************************************************************************)
EXTENDS Integers, SequencesExt

IsAssertion(command) == command.type # "module"

\* The file an assertion speaks about: of the last module command before it.
FileAt(script, k) ==
  LET modules == { j \in 1 .. k : ~IsAssertion(script[j]) }
  IN IF modules = {} THEN 0 ELSE script[Max(modules)].filename

AssertionsOn(script, f) ==
  LET upTo[k \in 0 .. Len(script)] ==
        IF k = 0 THEN << >>
        ELSE upTo[k - 1] \o
               (IF IsAssertion(script[k]) /\ FileAt(script, k) = f
                  THEN << [file |-> f, command |-> script[k]] >> ELSE << >>)
  IN upTo[Len(script)]

\* File by file, and in the script's order for a file.
InOrder(script) ==
  LET files == Max({0} \cup { FileAt(script, k) : k \in DOMAIN script })
      below[n \in 0 .. files + 1] ==
        IF n = 0 THEN << >> ELSE below[n - 1] \o AssertionsOn(script, n - 1)
  IN below[files + 1]

InOrderFrom(scripts, k) ==
  FlattenSeq([n \in 1 .. Len(scripts) - k + 1 |-> InOrder(scripts[k + n - 1])])

Holds(command, outcome) ==
  IF command.type = "assert_trap" THEN outcome.kind = "trap"
  ELSE outcome.kind = "value" /\ outcome.value = command.expected
=============================================================================
