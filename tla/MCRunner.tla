------------------------------- MODULE MCRunner ------------------------------
(* Objects and options for Runner.                                         *)
EXTENDS Runner

Cookie == 791021   \* 0xC0DED, what a panicking program answers

(* Program names are unique: at most one arena_buddy_reset.                *)
MCObjects ==
  {o \in UNION {[1..n -> {"reset", "test", "other"}] : n \in 1..4} :
     Cardinality({i \in DOMAIN o : o[i] = "reset"}) \leq 1}

MCOptionLists == UNION {[1..n -> {3, 4, 5}] : n \in 0..3}

MCAnswers ==
  [kind \in {"reset", "test"} |->
     {[err |-> FALSE, retval |-> 0], [err |-> FALSE, retval |-> Cookie],
      [err |-> TRUE, retval |-> 0]}]

(* An object with 256 tests, all of which panic.                           *)
BigObject == {<<"reset">> \o [i \in 1..256 |-> "test"]}

TestsPanic ==
  [kind \in {"reset", "test"} |->
     {[err |-> FALSE, retval |-> IF kind = "test" THEN Cookie ELSE 0]}]

NoOptions == {<< >>}
=============================================================================
