------------------------------- MODULE Runner --------------------------------
(***************************************************************************)
(* tools/runner/runner.c: load one BPF object, run libarena's              *)
(* arena_buddy_reset once, then every program whose name starts with       *)
(* test_, and report.  The object's programs are the sequence `object' of  *)
(* their kinds: "reset" (arena_buddy_reset), "test" and "other".           *)
(* What the kernel answers (libbpf and bpf_prog_test_run) is any answer.   *)
(***************************************************************************)
EXTENDS Integers, Sequences, FiniteSets

CONSTANTS
  Objects,     \* the objects given: sequences of program kinds
  OptionLists, \* the -k options given: sequences of their lengths
  Answers,     \* of a program of each kind: records of err and retval
  Room,        \* sizeof(kconfig)
  Statuses     \* how many exit statuses the system tells apart

\* A buffer holds at least its terminating zero; exit statuses 0 and 2 differ.
ASSUME RunnerAssumption == Room \in Nat \ {0} /\ Statuses \in Nat \ 0..2

\* Program kinds and lengths come in sequences, and an answer has both fields.
ASSUME InputsAssumption ==
  /\ Objects \subseteq Seq({"reset", "test", "other"})
  /\ OptionLists \subseteq Seq(Nat)
  /\ \A kind \in {"reset", "test"} : Answers[kind] \subseteq [err : BOOLEAN, retval : Int]

VARIABLES
  at,          \* where main() is
  object,      \* the object's programs
  options,     \* lengths of the -k options
  kconfig,     \* where each line of the kconfig buffer ends, the next begins
  next,        \* the next program of the loop over the object
  reset,       \* the program found as arena_buddy_reset, 0 if none
  answered,    \* what the programs that ran answered, by their places
  ran, failures,
  status       \* the exit status the parent sees

vars == <<at, object, options, kconfig, next, reset, answered, ran, failures, status>>

-----------------------------------------------------------------------------
\* strlen(kconfig), with n of its lines in it.
End(lines, n) == IF n = 0 THEN 0 ELSE lines[n]

(* snprintf of one option and its newline into what is left of the buffer: *)
(* it answers the length it would have written, which must leave room for  *)
(* the terminating zero.                                                   *)
(* A bug would be to forget the zero.                                      *)
FitsWithoutZero(len, used) == len + 1 \leq Room - used
Fits(len, used) == len + 1 < Room - used

(* What snprintf stores of it.                                             *)
Stored(len, used) == IF len + 1 < Room - used THEN len + 1 ELSE Room - used - 1

Exit(s) ==
  /\ at' = "exited"
  /\ status' = s % Statuses

Continue == UNCHANGED <<object, options, kconfig, next, reset, answered, ran, failures>>

ReadOption ==
  /\ at = "options"
  /\ Len(kconfig) < Len(options)
  /\ LET len == options[Len(kconfig) + 1]
         used == End(kconfig, Len(kconfig))
     IN  /\ kconfig' = Append(kconfig, used + Stored(len, used))
         /\ IF Fits(len, used) THEN UNCHANGED <<at, status>> ELSE Exit(2)
  /\ UNCHANGED <<object, options, next, reset, answered, ran, failures>>

(* Open and load the object, or a usage error, or either fails.            *)
Load ==
  /\ at = "options"
  /\ Len(kconfig) = Len(options)
  /\ \/ at' = "find" /\ UNCHANGED status
     \/ Exit(2)
  /\ Continue

FindReset ==
  /\ at = "find"
  /\ LET found == {i \in DOMAIN object : object[i] = "reset"}
     IN  \/ found = {} /\ Exit(2) /\ UNCHANGED reset
         \/ \E i \in found :
              /\ \A j \in found : j \leq i
              /\ reset' = i
              /\ at' = "reset"
              /\ UNCHANGED status
  /\ UNCHANGED <<object, options, kconfig, next, answered, ran, failures>>

(* run_prog: without an error the program's own return value.              *)
(* A bug would be to look at the error alone.                              *)
OnlyError(a) == a.err
Bad(a) == a.err \/ a.retval # 0

\* Program i has answered a.
Answer(i, a) ==
  answered' = [j \in DOMAIN answered \cup {i} |-> IF j = i THEN a ELSE answered[j]]

RunReset ==
  /\ at = "reset"
  /\ \E a \in Answers["reset"] :
       /\ Answer(reset, a)
       /\ IF Bad(a) THEN Exit(2) ELSE at' = "tests" /\ UNCHANGED status
  /\ UNCHANGED <<object, options, kconfig, next, reset, ran, failures>>

(* A bug would be to run whatever is not the reset program.               *)
NotReset(kind) == kind # "reset"
IsTest(kind) == kind = "test"

RunTest ==
  /\ at = "tests"
  /\ next \leq Len(object)
  /\ next' = next + 1
  /\ IF IsTest(object[next])
     THEN \E a \in Answers["test"] :
            /\ Answer(next, a)
            /\ ran' = ran + 1
            /\ failures' = IF Bad(a) THEN failures + 1 ELSE failures
     ELSE UNCHANGED <<answered, ran, failures>>
  /\ UNCHANGED <<at, object, options, kconfig, reset, status>>

Report ==
  /\ at = "tests"
  /\ next > Len(object)
  /\ Exit(failures)
  /\ Continue

-----------------------------------------------------------------------------
Init ==
  /\ at = "options"
  /\ object \in Objects
  /\ options \in OptionLists
  /\ kconfig = << >>
  /\ next = 1
  /\ reset = 0
  /\ answered = << >>
  /\ ran = 0
  /\ failures = 0
  /\ status = 0

Next == ReadOption \/ Load \/ FindReset \/ RunReset \/ RunTest \/ Report

Spec == Init /\ [][Next]_vars

-----------------------------------------------------------------------------
Ran == DOMAIN answered
Failed == {i \in Ran \ {reset} : answered[i].err \/ answered[i].retval # 0}
Tests == {i \in DOMAIN object : object[i] = "test"}

(* Types, and the two counters main() prints count what they say.          *)
TypeOK ==
  /\ at \in {"options", "find", "reset", "tests", "exited"}
  /\ reset \in {0} \cup DOMAIN object
  /\ next \in 1..(Len(object) + 1)
  /\ status \in 0..(Statuses - 1)
  /\ Ran \subseteq DOMAIN object
  /\ \A i \in Ran : object[i] \in {"reset", "test"} /\ answered[i] \in Answers[object[i]]
  /\ ran = Cardinality(Ran \ {reset})
  /\ failures = Cardinality(Failed)

(* While there are fewer tests than exit statuses, the parent sees zero    *)
(* only when the arena was reset and every test ran and answered zero.     *)
ZeroMeansAllPassed ==
  at = "exited" /\ status = 0 /\ Cardinality(Tests) < Statuses =>
    /\ reset # 0 /\ object[reset] = "reset"
    /\ Tests = Ran \ {reset}
    /\ \A i \in Ran : ~answered[i].err /\ answered[i].retval = 0

(* No test touches the arena before buddy_init has succeeded: what a test  *)
(* that ran finds is a heap that arena_buddy_reset set up and that only    *)
(* the tests before it, in the object's order, have used.                  *)
ResetThenInOrder ==
  \A i \in Ran \ {reset} :
    /\ reset \in Ran /\ ~answered[reset].err /\ answered[reset].retval = 0
    /\ \A j \in Tests : j < i => j \in Ran

(* The kernel configuration handed to libbpf holds every -k option whole,  *)
(* and its terminating zero, or the runner gives up before it loads.       *)
OptionsWhole ==
  /\ End(kconfig, Len(kconfig)) < Room
  /\ at \notin {"options", "exited"} =>
       /\ Len(kconfig) = Len(options)
       /\ \A i \in DOMAIN options : End(kconfig, i) = End(kconfig, i - 1) + options[i] + 1

(* runner.c: the exit code is the number of failures.                      *)
ExitIsFailures ==
  at = "exited" /\ reset \in Ran /\ ~(answered[reset].err \/ answered[reset].retval # 0)
    => status = Cardinality(Failed)
=============================================================================
