------------------------------- MODULE TestRun -------------------------------
(***************************************************************************)
(* What a test program promises: the assertions of its scripts are judged  *)
(* one by one, each by the outcome of the call it is about, and the        *)
(* program passes when every one of them holds.                            *)
(***************************************************************************)
EXTENDS Scripts

CONSTANT TestSuites  \* each a sequence of scripts

VARIABLES
  suite,    \* the scripts of this run
  left,     \* assertions not judged yet, each with its file
  called,   \* << >> or the outcome of the call to judge
  verdict

testRun == << suite, left, called, verdict >>

RunInit ==
  /\ suite \in TestSuites
  /\ left = InOrderFrom(suite, 1)
  /\ called = << >>
  /\ verdict = "running"

CallNext ==
  /\ verdict = "running" /\ called = << >> /\ left # << >>
  /\ Len(called') = 1
  /\ UNCHANGED << suite, left, verdict >>

JudgeCall ==
  /\ verdict = "running" /\ called # << >>
  /\ called' = << >>
  /\ IF Holds(Head(left).command, called[1])
       THEN left' = Tail(left) /\ UNCHANGED << suite, verdict >>
       ELSE verdict' = "failed" /\ UNCHANGED << suite, left >>

Pass ==
  /\ verdict = "running" /\ called = << >> /\ left = << >>
  /\ verdict' = "passed"
  /\ UNCHANGED << suite, left, called >>

\* The program may give up: a module that is none, a function it cannot
\* translate, an assertion it cannot read.
GiveUp ==
  /\ verdict = "running"
  /\ called' = << >> /\ verdict' = "stopped"
  /\ UNCHANGED << suite, left >>

RunNext == CallNext \/ JudgeCall \/ Pass \/ GiveUp

\* A judgement is never undone and never skipped; that the program comes to
\* one is for those that implement it to show.
RunSpec == RunInit /\ [][RunNext]_testRun
=============================================================================
