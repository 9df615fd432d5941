---------------------------- MODULE HeapObjects -----------------------------
(***************************************************************************)
(* What the collections of a program rely on when `#[global_allocator]` is *)
(* ArenaAlloc: every allocation is an object of its own.  Its contents     *)
(* change only when its owner writes them, realloc keeps the common prefix *)
(* and alloc_zeroed starts at zero, whatever other programs do with the    *)
(* arena.  The exception is a program whose loop allowance has run out     *)
(* (`spent`): the lowered memcpy and memset may then stop early.           *)
(***************************************************************************)
EXTENDS Integers, Sequences

CONSTANTS
  Progs,      \* BPF program invocations
  Handles,    \* the variables of a program that can own an allocation
  Byte,       \* values of a byte
  Sizes       \* object sizes programs ask for

\* Objects are not empty, so the empty sequence says there is none.
Absent == << >>

VARIABLES
  obj,        \* obj[p][h]: the bytes of the object h owns, or Absent
  spent       \* spent[p]: p's loop allowance has run out

vars == <<obj, spent>>

Init ==
  /\ obj = [p \in Progs |-> [h \in Handles |-> Absent]]
  /\ spent = [p \in Progs |-> FALSE]

Set(p, h, bytes) == obj' = [obj EXCEPT ![p][h] = bytes]

\* A fresh object holds whatever the memory held.
Alloc(p, h) ==
  /\ obj[p][h] = Absent
  /\ \E n \in Sizes : \E bytes \in [1 .. n -> Byte] : Set(p, h, bytes)
  /\ UNCHANGED spent

AllocZeroed(p, h) ==
  /\ obj[p][h] = Absent
  /\ \E n \in Sizes : \E bytes \in [1 .. n -> Byte] :
       /\ spent[p] \/ \A k \in 1 .. n : bytes[k] = 0
       /\ Set(p, h, bytes)
  /\ UNCHANGED spent

Write(p, h) ==
  /\ obj[p][h] # Absent
  /\ \E k \in 1 .. Len(obj[p][h]), v \in Byte : Set(p, h, [obj[p][h] EXCEPT ![k] = v])
  /\ UNCHANGED spent

Realloc(p, h) ==
  /\ obj[p][h] # Absent
  /\ \E n \in Sizes : \E bytes \in [1 .. n -> Byte] :
       /\ spent[p] \/ \A k \in 1 .. n : k <= Len(obj[p][h]) => bytes[k] = obj[p][h][k]
       /\ Set(p, h, bytes)
  /\ UNCHANGED spent

Dealloc(p, h) ==
  /\ obj[p][h] # Absent
  /\ Set(p, h, Absent)
  /\ UNCHANGED spent

Exhaust(p) == spent' = [spent EXCEPT ![p] = TRUE] /\ UNCHANGED obj

\* The program ends, by returning or by a trap, and may run again.
End(p) ==
  /\ obj' = [obj EXCEPT ![p] = [h \in Handles |-> Absent]]
  /\ spent' = [spent EXCEPT ![p] = FALSE]

Next == \E p \in Progs :
  \/ \E h \in Handles :
       Alloc(p, h) \/ AllocZeroed(p, h) \/ Write(p, h) \/ Realloc(p, h) \/ Dealloc(p, h)
  \/ Exhaust(p)
  \/ End(p)

Spec == Init /\ [][Next]_vars
=============================================================================
