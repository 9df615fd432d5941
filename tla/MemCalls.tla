------------------------------ MODULE MemCalls ------------------------------
(***************************************************************************)
(* What the memory helpers promise their callers: each call takes effect   *)
(* on the whole of its destination in one step, as memmove, memset and     *)
(* memcmp do in C, whatever other programs do meanwhile.  The one          *)
(* exception is the kernel's bound on a program's loops: once it has run   *)
(* out (`spent`), a call may reach only part of its destination and memcmp *)
(* may answer 0 without having seen a difference.  GlueMem implements it.  *)
(***************************************************************************)
EXTENDS ByteCalls

VARIABLES
  mem,      \* the memory, as callers observe it
  pc,       \* pc[p]: "idle" outside a helper, "loop" inside, "ret" returning
  call,     \* call[p]: the arguments of p's current call
  ret,      \* ret[p]: what it returns (0 for void)
  spent     \* spent[p]: p's loop allowance has run out

vars == <<mem, pc, call, ret, spent>>

Init ==
  /\ mem \in [Addr -> Byte]
  /\ pc = [p \in Progs |-> "idle"]
  /\ call = [p \in Progs |-> NoCall]
  /\ ret = [p \in Progs |-> 0]
  /\ spent = [p \in Progs |-> FALSE]

Invoke(p, c) ==
  /\ pc[p] = "idle"
  /\ \A q \in Progs \ {p} : pc[q] # "idle" => Apart(c, call[q])
  /\ pc' = [pc EXCEPT ![p] = "loop"]
  /\ call' = [call EXCEPT ![p] = c]
  /\ UNCHANGED <<mem, ret, spent>>

\* The whole effect, in one step.
Complete(p) ==
  /\ pc[p] = "loop"
  /\ spent[p] => call[p].n = 0
  /\ mem' = Effect(call[p], mem, Writes(call[p]))
  /\ \E r \in {-1, 0, 1} : Answers(call[p], mem, r) /\ ret' = [ret EXCEPT ![p] = r]
  /\ pc' = [pc EXCEPT ![p] = "ret"]
  /\ UNCHANGED <<call, spent>>

\* Only some of the bytes, because the loop allowance has run out.
Curtail(p) ==
  /\ pc[p] = "loop"
  /\ call[p].n > 0
  /\ \E done \in SUBSET Writes(call[p]) : mem' = Effect(call[p], mem, done)
  /\ spent' = [spent EXCEPT ![p] = TRUE]
  /\ pc' = [pc EXCEPT ![p] = "ret"]
  /\ UNCHANGED <<call, ret>>

Resume(p) ==
  /\ pc[p] = "ret"
  /\ pc' = [pc EXCEPT ![p] = "idle"]
  /\ call' = [call EXCEPT ![p] = NoCall]
  /\ ret' = [ret EXCEPT ![p] = 0]
  /\ UNCHANGED <<mem, spent>>

\* The program exits and is run again, with a new loop allowance.
Rerun(p) ==
  /\ pc[p] = "idle"
  /\ spent' = [spent EXCEPT ![p] = FALSE]
  /\ UNCHANGED <<mem, pc, call, ret>>

\* Outside the helpers a program writes memory of its own.
Store(p, a, v) ==
  /\ pc[p] = "idle"
  /\ \A q \in Progs : pc[q] # "idle" => a \notin Footprint(call[q])
  /\ mem' = [mem EXCEPT ![a] = v]
  /\ UNCHANGED <<pc, call, ret, spent>>

Next == \E p \in Progs :
  \/ \E c \in Calls : Invoke(p, c)
  \/ Complete(p)
  \/ Curtail(p)
  \/ Resume(p)
  \/ Rerun(p)
  \/ \E a \in Addr, v \in Byte : Store(p, a, v)

Spec == Init /\ [][Next]_vars
=============================================================================
