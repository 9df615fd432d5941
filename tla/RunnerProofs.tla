----------------------------- MODULE RunnerProofs -----------------------------
(***************************************************************************)
(* Proofs about Runner, for objects and options of any length and whatever *)
(* the kernel answers.                                                     *)
(***************************************************************************)
EXTENDS Runner, FiniteSetTheorems, TLAPS

-----------------------------------------------------------------------------
(* The inductive invariant.                                                *)

\* The lines in the kconfig buffer, each as long as its option unless the
\* runner has given up at the last.
Lines ==
  /\ kconfig \in Seq(Nat) /\ Len(kconfig) \leq Len(options)
  /\ End(kconfig, Len(kconfig)) < Room
  /\ at # "exited" =>
       \A i \in 1 .. Len(kconfig) : End(kconfig, i) = End(kconfig, i - 1) + options[i] + 1
  /\ at \notin {"options", "exited"} => Len(kconfig) = Len(options)

\* The arena is reset, and the tests before program n have run, and no other
\* program has.
Through(n) ==
  /\ reset # 0 /\ ~Bad(answered[reset])
  /\ Ran = {reset} \cup {i \in Tests : i < n}

Found ==
  /\ reset \in {0} \cup DOMAIN object
  /\ reset # 0 => object[reset] = "reset"
  /\ at \in {"reset", "tests"} => reset # 0

Progress ==
  /\ next \in 1 .. (Len(object) + 1)
  /\ at \in {"options", "find", "reset"} => Ran = {} /\ next = 1
  /\ at = "tests" => Through(next)
  /\ at = "exited" =>
       \/ status = 2 /\ Ran \subseteq {reset} /\ (reset \in Ran => Bad(answered[reset]))
       \/ Through(Len(object) + 1) /\ status = failures % Statuses

Counted ==
  /\ Ran \subseteq DOMAIN object
  /\ \A i \in Ran : object[i] \in {"reset", "test"} /\ answered[i] \in Answers[object[i]]
  /\ ran = Cardinality(Ran \ {reset})
  /\ failures = Cardinality(Failed)

IInv ==
  /\ at \in {"options", "find", "reset", "tests", "exited"}
  /\ object \in Seq({"reset", "test", "other"}) /\ options \in Seq(Nat)
  /\ status \in 0 .. (Statuses - 1)
  /\ Lines /\ Found /\ Progress /\ Counted

-----------------------------------------------------------------------------
(* What the steps rest on.                                                 *)

LEMMA ObjectShape ==
  ASSUME IInv
  PROVE  Len(object) \in Nat /\ DOMAIN object = 1 .. Len(object)
BY DEF IInv

\* The programs that ran are finitely many, and so are those of them that failed.
LEMMA RanFinite ==
  ASSUME IInv
  PROVE  /\ IsFiniteSet(Tests) /\ IsFiniteSet(Ran \ {reset}) /\ IsFiniteSet(Failed)
         /\ failures \in Nat /\ ran \in Nat /\ failures \leq ran
<1>1. IsFiniteSet(DOMAIN object)
  BY ObjectShape, FS_Interval
<1>2. Tests \in SUBSET DOMAIN object /\ Ran \ {reset} \in SUBSET DOMAIN object
      /\ Failed \in SUBSET (Ran \ {reset})
  BY DEF Tests, Failed, IInv, Counted
<1>3. IsFiniteSet(Tests) /\ IsFiniteSet(Ran \ {reset})
  BY <1>1, <1>2, FS_Subset
<1>4. IsFiniteSet(Failed) /\ Cardinality(Failed) \leq Cardinality(Ran \ {reset})
  BY <1>2, <1>3, FS_Subset
<1> QED BY <1>3, <1>4, FS_CardinalityType DEF IInv, Counted

LEMMA StatusRight ==
  /\ 2 % Statuses = 2 /\ 2 \in 0 .. (Statuses - 1)
  /\ \A n \in Nat : /\ n % Statuses \in 0 .. (Statuses - 1)
                    /\ n < Statuses => n % Statuses = n
BY RunnerAssumption

\* An option that fits leaves a whole line and room for the zero; what is
\* stored of one that does not leaves room for the zero.
LEMMA StoredRight ==
  ASSUME NEW len \in Nat, NEW used \in Nat, used < Room
  PROVE  /\ Stored(len, used) \in Nat /\ used + Stored(len, used) < Room
         /\ Fits(len, used) => Stored(len, used) = len + 1
BY RunnerAssumption DEF Stored, Fits

LEMMA ReadOptionStep ==
  ASSUME IInv, ReadOption PROVE IInv'
<1> DEFINE k == Len(kconfig)
           len == options[k + 1]
           used == End(kconfig, k)
           end == used + Stored(len, used)
<1>1. /\ at = "options" /\ k < Len(options)
      /\ kconfig' = Append(kconfig, end)
      /\ IF Fits(len, used) THEN UNCHANGED <<at, status>> ELSE Exit(2)
      /\ UNCHANGED <<object, options, next, reset, answered, ran, failures>>
  BY DEF ReadOption
<1>2. kconfig \in Seq(Nat) /\ options \in Seq(Nat) /\ used < Room
      /\ \A i \in 1 .. k : End(kconfig, i) = End(kconfig, i - 1) + options[i] + 1
  BY <1>1 DEF IInv, Lines
<1>3. k \in Nat /\ len \in Nat /\ used \in Nat
  BY <1>1, <1>2 DEF End
<1>4. end \in Nat /\ end < Room /\ (Fits(len, used) => end = used + len + 1)
  <2> DEFINE s == Stored(len, used)
  <2> HIDE DEF len, used
  <2>1. s \in Nat /\ used + s < Room /\ (Fits(len, used) => s = len + 1)
    BY <1>2, <1>3, StoredRight
  <2> HIDE DEF s
  <2>2. end = used + s
    BY DEF s
  <2> QED BY <1>3, <2>1, <2>2
<1> HIDE DEF end
<1>5. /\ kconfig' \in Seq(Nat) /\ Len(kconfig') = k + 1 /\ kconfig'[k + 1] = end
      /\ \A i \in 1 .. k : kconfig'[i] = kconfig[i]
  BY <1>1, <1>2, <1>4
<1>6. End(kconfig', k + 1) = end /\ \A i \in 0 .. k : End(kconfig', i) = End(kconfig, i)
  BY <1>3, <1>5 DEF End
<1>7. at' \in {"options", "exited"} /\ status' \in 0 .. (Statuses - 1)
      /\ (at' = "exited" => status' = 2) /\ (at' # "exited" => Fits(len, used))
  BY <1>1, StatusRight DEF Exit, IInv
<1>8. Lines'
  <2>1. k + 1 \leq Len(options)
    BY <1>1, <1>2, <1>3
  <2>2. ASSUME at' # "exited", NEW i \in 1 .. (k + 1)
        PROVE  End(kconfig', i) = End(kconfig', i - 1) + options[i] + 1
    <3>1. CASE i = k + 1
      <4>1. i - 1 = k
        BY <1>3, <3>1
      <4>2. End(kconfig', i - 1) = used
        BY <1>3, <1>6, <4>1
      <4> QED BY <1>4, <1>6, <1>7, <2>2, <3>1, <4>2
    <3>2. CASE i # k + 1
      <4>1. i \in 1 .. k /\ i \in 0 .. k /\ i - 1 \in 0 .. k
        BY <1>3, <3>2
      <4> QED BY <1>2, <1>6, <4>1
    <3> QED BY <3>1, <3>2
  <2>3. End(kconfig', Len(kconfig')) < Room
    BY <1>4, <1>5, <1>6
  <2> QED BY <1>1, <1>5, <1>7, <2>1, <2>2, <2>3 DEF Lines
<1>9. Ran = {} /\ next = 1
  BY <1>1 DEF IInv, Progress
<1>10. Found'
  BY <1>1, <1>7 DEF IInv, Found
<1>11. Progress'
  BY <1>1, <1>7, <1>9 DEF IInv, Progress, Ran
<1>12. Counted'
  BY <1>1 DEF IInv, Counted, Ran, Failed
<1> QED BY <1>1, <1>7, <1>8, <1>10, <1>11, <1>12 DEF IInv

LEMMA LinesStay ==
  ASSUME IInv, at # "exited", at' # "options", UNCHANGED <<options, kconfig>>,
         Len(kconfig) = Len(options)
  PROVE  Lines'
<1>1. \A i : End(kconfig', i) = End(kconfig, i)
  BY DEF End
<1> QED BY <1>1 DEF IInv, Lines

LEMMA LoadStep ==
  ASSUME IInv, Load PROVE IInv'
<1>1. /\ at = "options" /\ Len(kconfig) = Len(options)
      /\ \/ at' = "find" /\ UNCHANGED status
         \/ at' = "exited" /\ status' = 2 % Statuses
      /\ UNCHANGED <<object, options, kconfig, next, reset, answered, ran, failures>>
  BY DEF Load, Exit, Continue
<1>2. Lines'
  BY <1>1, LinesStay
<1>3. Ran = {} /\ next = 1
  BY <1>1 DEF IInv, Progress
<1>4. Found' /\ Counted'
  BY <1>1 DEF IInv, Found, Counted, Ran, Failed
<1>5. Progress'
  BY <1>1, <1>3, StatusRight DEF IInv, Progress, Ran
<1> QED BY <1>1, <1>2, <1>4, <1>5, StatusRight DEF IInv

LEMMA FindResetStep ==
  ASSUME IInv, FindReset PROVE IInv'
<1> DEFINE found == {i \in DOMAIN object : object[i] = "reset"}
<1>1. /\ at = "find"
      /\ UNCHANGED <<object, options, kconfig, next, answered, ran, failures>>
      /\ \/ at' = "exited" /\ status' = 2 % Statuses /\ UNCHANGED reset
         \/ at' = "reset" /\ UNCHANGED status /\ reset' \in found
  BY DEF FindReset, Exit
<1>2. Lines'
  BY <1>1, LinesStay DEF IInv, Lines
<1>3. Ran = {} /\ next = 1
  BY <1>1 DEF IInv, Progress
<1>4. Failed = {} /\ Failed' = {} /\ Ran' = {}
  BY <1>1, <1>3 DEF Failed, Ran
<1>5. Found'
  BY <1>1, ObjectShape DEF IInv, Found
<1>6. Progress'
  BY <1>1, <1>3, <1>4, StatusRight DEF IInv, Progress
<1>7. Counted'
  <2>1. ran = 0 /\ failures = 0
    BY <1>3, <1>4, FS_EmptySet DEF IInv, Counted
  <2> QED BY <1>1, <1>4, <2>1, FS_EmptySet DEF Counted
<1> QED BY <1>1, <1>2, <1>5, <1>6, <1>7, StatusRight DEF IInv

\* Program i, which had not run, has answered a.
LEMMA AnswerRight ==
  ASSUME NEW i, NEW a, Answer(i, a)
  PROVE  /\ Ran' = Ran \cup {i} /\ answered'[i] = a
         /\ \A j \in Ran : j # i => answered'[j] = answered[j]
BY DEF Answer, Ran

LEMMA RunResetStep ==
  ASSUME IInv, RunReset PROVE IInv'
<1>1. /\ at = "reset"
      /\ UNCHANGED <<object, options, kconfig, next, reset, ran, failures>>
  BY DEF RunReset
<1>2. PICK a \in Answers["reset"] :
        /\ Answer(reset, a)
        /\ \/ Bad(a) /\ at' = "exited" /\ status' = 2 % Statuses
           \/ ~Bad(a) /\ at' = "tests" /\ UNCHANGED status
  BY DEF RunReset, Exit
<1>3. Ran = {} /\ next = 1 /\ reset # 0 /\ reset \in DOMAIN object /\ object[reset] = "reset"
  BY <1>1 DEF IInv, Progress, Found
<1>4. Ran' = {reset} /\ answered'[reset] = a
  BY <1>2, <1>3, AnswerRight
<1>5. Lines'
  BY <1>1, <1>2, LinesStay DEF IInv, Lines
<1>6. Found'
  BY <1>1, <1>2 DEF IInv, Found
<1>7. Progress'
  <2>1. Tests' = Tests /\ {i \in Tests : i < 1} = {}
    BY <1>1, ObjectShape DEF Tests
  <2>2. at' = "tests" => Through(next)'
    BY <1>1, <1>2, <1>3, <1>4, <2>1 DEF Through
  <2> QED BY <1>1, <1>2, <1>3, <1>4, <2>2, StatusRight DEF IInv, Progress
<1>8. Counted'
  <2>1. Failed = {} /\ Failed' = {} /\ Ran \ {reset} = {} /\ (Ran \ {reset})' = {}
    BY <1>1, <1>3, <1>4 DEF Failed
  <2>2. ran = 0 /\ failures = 0
    BY <2>1, FS_EmptySet DEF IInv, Counted
  <2> QED BY <1>1, <1>2, <1>3, <1>4, <2>1, <2>2, FS_EmptySet DEF Counted
<1> QED BY <1>1, <1>2, <1>5, <1>6, <1>7, <1>8, StatusRight DEF IInv

\* One more test counts once in each counter it belongs to.
LEMMA CountRight ==
  ASSUME IInv, UNCHANGED <<object, reset>>, NEW i \in DOMAIN object, i \notin Ran, i # reset,
         NEW a, Answer(i, a), object[i] \in {"reset", "test"},
         a \in Answers[object[i]], ran' = ran + 1,
         failures' = IF Bad(a) THEN failures + 1 ELSE failures
  PROVE  Counted'
<1>1. /\ Ran' = Ran \cup {i} /\ answered'[i] = a
      /\ \A j \in Ran : answered'[j] = answered[j]
  BY AnswerRight
<1>2. (Ran \ {reset})' = (Ran \ {reset}) \cup {i}
  BY <1>1
<1>3. Failed' = IF Bad(a) THEN Failed \cup {i} ELSE Failed
  <2>1. ASSUME NEW j \in Ran
        PROVE  answered'[j].err = answered[j].err /\ answered'[j].retval = answered[j].retval
    BY <1>1
  <2> QED BY <1>1, <1>2, <2>1 DEF Failed, Bad
<1>4. i \notin Failed /\ i \notin Ran \ {reset}
  BY DEF Failed
<1>5. IsFiniteSet(Failed) /\ IsFiniteSet(Ran \ {reset})
  BY RanFinite
<1>6. Cardinality((Ran \ {reset})') = ran + 1
  BY <1>2, <1>4, <1>5, FS_AddElement DEF IInv, Counted
<1>7. Cardinality(Failed') = IF Bad(a) THEN failures + 1 ELSE failures
  BY <1>3, <1>4, <1>5, FS_AddElement DEF IInv, Counted
<1>8. /\ Ran' \subseteq DOMAIN object'
      /\ \A j \in Ran' : object'[j] \in {"reset", "test"} /\ answered'[j] \in Answers[object'[j]]
  BY <1>1 DEF IInv, Counted
<1> QED BY <1>6, <1>7, <1>8 DEF Counted

LEMMA RunTestStep ==
  ASSUME IInv, RunTest PROVE IInv'
<1>1. /\ at = "tests" /\ next \leq Len(object) /\ next' = next + 1
      /\ UNCHANGED <<at, object, options, kconfig, reset, status>>
  BY DEF RunTest
<1>2. Through(next) /\ next \in 1 .. Len(object) /\ next \in DOMAIN object
      /\ reset \in DOMAIN object /\ object[reset] = "reset"
  BY <1>1, ObjectShape DEF IInv, Progress, Found
<1>3. Lines'
  BY <1>1, LinesStay DEF IInv, Lines
<1>4. Found'
  BY <1>1 DEF IInv, Found
<1>5. Tests' = Tests /\ next' \in 1 .. (Len(object) + 1)
      /\ \A i \in Tests : i < next' <=> i < next \/ i = next
  BY <1>1, <1>2, ObjectShape DEF Tests
<1>6. CASE IsTest(object[next])
  <2>1. PICK a \in Answers["test"] :
          /\ Answer(next, a) /\ ran' = ran + 1
          /\ failures' = IF Bad(a) THEN failures + 1 ELSE failures
    BY <1>6 DEF RunTest
  <2>2. next \in Tests /\ next # reset /\ object[next] = "test"
    BY <1>2, <1>6 DEF Tests, IsTest
  <2>3. next \notin Ran
    <3>1. ~(next < next)
      BY <1>2
    <3> QED BY <1>2, <2>2, <3>1 DEF Through
  <2>4. Counted'
    BY <1>1, <1>2, <2>1, <2>2, <2>3, CountRight
  <2>5. Through(next)'
    <3>1. Ran' = Ran \cup {next} /\ answered'[reset] = answered[reset]
      BY <1>2, <2>1, <2>2, AnswerRight DEF Through
    <3>2. Ran' = {reset} \cup {i \in Tests' : i < next'}
      BY <1>2, <1>5, <2>2, <3>1 DEF Through
    <3> QED BY <1>1, <1>2, <3>1, <3>2 DEF Through
  <2>6. Progress'
    BY <1>1, <1>5, <2>5 DEF Progress
  <2> QED BY <1>1, <1>3, <1>4, <2>4, <2>6 DEF IInv
<1>7. CASE ~IsTest(object[next])
  <2>1. UNCHANGED <<answered, ran, failures>>
    BY <1>7 DEF RunTest
  <2>2. next \notin Tests
    BY <1>7 DEF Tests, IsTest
  <2>3. Through(next)'
    BY <1>1, <1>2, <1>5, <2>1, <2>2 DEF Through, Ran
  <2>4. Progress'
    BY <1>1, <1>5, <2>3 DEF Progress
  <2>5. Counted'
    BY <1>1, <2>1 DEF IInv, Counted, Ran, Failed
  <2> QED BY <1>1, <1>3, <1>4, <2>4, <2>5 DEF IInv
<1> QED BY <1>6, <1>7

LEMMA ReportStep ==
  ASSUME IInv, Report PROVE IInv'
<1>1. /\ at = "tests" /\ next > Len(object)
      /\ at' = "exited" /\ status' = failures % Statuses
      /\ UNCHANGED <<object, options, kconfig, next, reset, answered, ran, failures>>
  BY DEF Report, Exit, Continue
<1>2. Through(next) /\ next = Len(object) + 1
  BY <1>1, ObjectShape DEF IInv, Progress
<1>3. Through(Len(object) + 1)'
  BY <1>1, <1>2 DEF Through, Tests, Ran
<1>4. status' \in 0 .. (Statuses - 1)
  BY <1>1, StatusRight, RanFinite
<1>5. Lines'
  BY <1>1, LinesStay DEF IInv, Lines
<1>6. Found' /\ Counted'
  BY <1>1 DEF IInv, Found, Counted, Ran, Failed
<1>7. Progress'
  BY <1>1, <1>2, <1>3 DEF IInv, Progress
<1> QED BY <1>1, <1>4, <1>5, <1>6, <1>7 DEF IInv

-----------------------------------------------------------------------------
(* The invariant is one.                                                   *)

\* Where the runner is, what it has run and what it has counted agree,
\* whatever the kernel answers.
THEOREM Invariance == Spec => []IInv
<1>1. Init => IInv
  <2> SUFFICES ASSUME Init PROVE IInv
    OBVIOUS
  <2>1. /\ at = "options" /\ object \in Objects /\ options \in OptionLists
        /\ kconfig = << >> /\ next = 1 /\ reset = 0 /\ answered = << >>
        /\ ran = 0 /\ failures = 0 /\ status = 0
    BY DEF Init
  <2>2. object \in Seq({"reset", "test", "other"}) /\ options \in Seq(Nat)
    BY <2>1, InputsAssumption
  <2>3. Ran = {}
    BY <2>1 DEF Ran
  <2>4. Lines
    BY <2>1, <2>2, RunnerAssumption DEF Lines, End
  <2>5. Progress
    BY <2>1, <2>2, <2>3 DEF Progress
  <2>6. Counted
    <3>1. Failed = {} /\ Ran \ {reset} = {}
      BY <2>3 DEF Failed
    <3> QED BY <2>1, <2>3, <3>1, FS_EmptySet DEF Counted
  <2> QED BY <2>1, <2>2, <2>4, <2>5, <2>6, RunnerAssumption DEF IInv, Found
<1>2. ASSUME IInv, [Next]_vars PROVE IInv'
  <2>1. CASE UNCHANGED vars
    BY <1>2, <2>1 DEF vars, IInv, Lines, End, Found, Progress, Through, Counted, Ran, Failed, Tests
  <2> QED BY <1>2, <2>1, ReadOptionStep, LoadStep, FindResetStep, RunResetStep,
             RunTestStep, ReportStep DEF Next
<1> QED BY <1>1, <1>2, PTL DEF Spec

-----------------------------------------------------------------------------
(* What follows from it.                                                   *)

\* Types: the two counters main() prints count what they say.
THEOREM TypeCorrect == Spec => []TypeOK
<1>1. IInv => TypeOK
  BY DEF IInv, Found, Progress, Counted, TypeOK
<1> QED BY <1>1, Invariance, PTL

\* When every test has run, and they are fewer than the exit statuses, the
\* status is the number of failures.
LEMMA StatusCounts ==
  ASSUME IInv, Through(Len(object) + 1), Cardinality(Tests) < Statuses
  PROVE  /\ reset # 0 /\ object[reset] = "reset" /\ Tests = Ran \ {reset}
         /\ failures = Cardinality(Failed) /\ failures % Statuses = failures
<1>1. reset # 0 /\ object[reset] = "reset"
  BY DEF IInv, Found, Through
<1>2. Tests = Ran \ {reset}
  <2>1. \A i \in Tests : i < Len(object) + 1 /\ i # reset
    BY <1>1, ObjectShape DEF Tests
  <2> QED BY <2>1 DEF Through
<1>3. /\ failures \in Nat /\ ran \in Nat /\ failures \leq ran
      /\ ran = Cardinality(Tests) /\ failures = Cardinality(Failed)
  BY <1>2, RanFinite DEF IInv, Counted
<1>4. failures < Statuses
  BY <1>3, RunnerAssumption
<1> QED BY <1>1, <1>2, <1>3, <1>4, StatusRight

\* Exit status zero: the arena was reset and every test ran and passed, while
\* there are fewer tests than statuses.
THEOREM ZeroIsSuccess == Spec => []ZeroMeansAllPassed
<1>1. ASSUME IInv, at = "exited", status = 0, Cardinality(Tests) < Statuses
      PROVE  /\ reset # 0 /\ object[reset] = "reset"
             /\ Tests = Ran \ {reset}
             /\ \A i \in Ran : ~answered[i].err /\ answered[i].retval = 0
  <2>1. Through(Len(object) + 1) /\ status = failures % Statuses
    BY <1>1 DEF IInv, Progress
  <2>2. /\ reset # 0 /\ object[reset] = "reset" /\ Tests = Ran \ {reset}
        /\ failures = 0 /\ failures = Cardinality(Failed)
    BY <1>1, <2>1, StatusCounts
  <2>3. Failed = {}
    BY <1>1, <2>2, RanFinite, FS_EmptySet
  <2> QED BY <2>1, <2>2, <2>3 DEF Failed, Bad, Through
<1>2. IInv => ZeroMeansAllPassed
  BY <1>1 DEF ZeroMeansAllPassed
<1> QED BY <1>2, Invariance, PTL

\* What runner.c says of its exit code is so while the tests are fewer than the
\* exit statuses and the arena could be reset.
THEOREM StatusIsFailures == Spec => [](Cardinality(Tests) < Statuses => ExitIsFailures)
<1>1. ASSUME IInv, Cardinality(Tests) < Statuses, at = "exited",
             reset \in Ran, ~(answered[reset].err \/ answered[reset].retval # 0)
      PROVE  status = Cardinality(Failed)
  <2>1. Through(Len(object) + 1) /\ status = failures % Statuses
    BY <1>1 DEF IInv, Progress, Bad
  <2> QED BY <1>1, <2>1, StatusCounts
<1>2. IInv => (Cardinality(Tests) < Statuses => ExitIsFailures)
  BY <1>1 DEF ExitIsFailures
<1> QED BY <1>2, Invariance, PTL

\* No test ran before the arena was reset, and none out of the object's order.
THEOREM ResetFirst == Spec => []ResetThenInOrder
<1>1. ASSUME IInv, NEW i \in Ran \ {reset}
      PROVE  /\ reset \in Ran /\ ~answered[reset].err /\ answered[reset].retval = 0
             /\ \A j \in Tests : j < i => j \in Ran
  <2>1. PICK n \in Nat : Through(n)
    <3>1. at \in {"tests", "exited"} /\ (at = "exited" => Through(Len(object) + 1))
      BY <1>1 DEF IInv, Progress
    <3>2. next \in Nat /\ (at = "tests" => Through(next))
      BY <1>1, ObjectShape DEF IInv, Progress
    <3> QED BY <1>1, <3>1, <3>2, ObjectShape
  <2>2. i \in Tests /\ i < n
    BY <1>1, <2>1 DEF Through
  <2>3. \A j \in Tests : j < i => j < n
    BY <1>1, <2>1, <2>2, ObjectShape DEF Tests
  <2> QED BY <2>1, <2>3 DEF Through, Bad
<1>2. IInv => ResetThenInOrder
  BY <1>1 DEF ResetThenInOrder
<1> QED BY <1>2, Invariance, PTL

\* The kconfig buffer never overflows, and what libbpf gets of it is whole.
THEOREM ConfigWhole == Spec => []OptionsWhole
<1>1. ASSUME IInv PROVE OptionsWhole
  <2>1. End(kconfig, Len(kconfig)) < Room
    BY <1>1 DEF IInv, Lines
  <2>2. ASSUME at \notin {"options", "exited"}
        PROVE  /\ Len(kconfig) = Len(options)
               /\ \A i \in DOMAIN options : End(kconfig, i) = End(kconfig, i - 1) + options[i] + 1
    <3>1. DOMAIN options = 1 .. Len(options)
      BY <1>1 DEF IInv
    <3> QED BY <1>1, <2>2, <3>1 DEF IInv, Lines
  <2> QED BY <2>1, <2>2 DEF OptionsWhole
<1> QED BY <1>1, Invariance, PTL
=============================================================================
