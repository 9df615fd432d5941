----------------------------- MODULE LinkOutput ------------------------------
(***************************************************************************)
(* What rustc may expect of arena-linker: the object at an output path is  *)
(* made of exactly what one link was given, whatever other links run at    *)
(* the same time or have run or failed before.  It appears in two steps,   *)
(* llvm-objcopy's and btf_rename.py's, and a link that succeeds has taken  *)
(* both.  The exception is a link that could not remove the directory an   *)
(* earlier one left (`cluttered').                                         *)
(***************************************************************************)
EXTENDS Naturals

CONSTANTS
  Outputs,    \* output paths, one link at a time on each
  Asks,       \* what a link may be given: members by the file they are from
  Clutter,    \* other members that an earlier link may have left
  NoObject

VARIABLES
  asked,      \* asked[o]: what the link that runs, or ran last, was given
  object,     \* object[o]: [members, renamed], or NoObject
  exit,       \* exit[o]: "running", "ok" or "failed"
  cluttered   \* cluttered[o]: its directory still held older files

vars == <<asked, object, exit, cluttered>>

Ask(o) ==
  /\ exit[o] # "running"
  /\ \E a \in Asks : asked' = [asked EXCEPT ![o] = a]
  /\ exit' = [exit EXCEPT ![o] = "running"]
  /\ cluttered' = [cluttered EXCEPT ![o] = FALSE]
  /\ UNCHANGED object

Litter(o) ==
  /\ exit[o] = "running"
  /\ cluttered' = [cluttered EXCEPT ![o] = TRUE]
  /\ UNCHANGED <<asked, object, exit>>

Write(o) ==
  /\ exit[o] = "running"
  /\ \E more \in SUBSET Clutter :
       /\ more # {} => cluttered[o]
       /\ object' = [object EXCEPT ![o] =
                       [members |-> asked[o] \cup more, renamed |-> FALSE]]
  /\ UNCHANGED <<asked, exit, cluttered>>

Rename(o) ==
  /\ exit[o] = "running" /\ object[o] # NoObject
  /\ object' = [object EXCEPT ![o].renamed = TRUE]
  /\ UNCHANGED <<asked, exit, cluttered>>

Succeed(o) ==
  /\ exit[o] = "running" /\ object[o] # NoObject
  /\ object[o].renamed /\ asked[o] \subseteq object[o].members
  /\ cluttered[o] \/ object[o].members = asked[o]
  /\ exit' = [exit EXCEPT ![o] = "ok"]
  /\ UNCHANGED <<asked, object, cluttered>>

Fail(o) ==
  /\ exit[o] = "running"
  /\ exit' = [exit EXCEPT ![o] = "failed"]
  /\ UNCHANGED <<asked, object, cluttered>>

Init ==
  /\ asked = [o \in Outputs |-> {}]
  /\ object = [o \in Outputs |-> NoObject]
  /\ exit = [o \in Outputs |-> "failed"]
  /\ cluttered = [o \in Outputs |-> FALSE]

Next == \E o \in Outputs : Ask(o) \/ Litter(o) \/ Write(o) \/ Rename(o)
                            \/ Succeed(o) \/ Fail(o)

Spec == Init /\ [][Next]_vars
=============================================================================
