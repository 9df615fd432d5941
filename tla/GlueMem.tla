------------------------------ MODULE GlueMem -------------------------------
(***************************************************************************)
(* The byte loops of csrc/arena_glue.bpf.c, one action per iteration, run  *)
(* by several BPF programs at once over the memory they share.  A loop     *)
(* goes on while `i < n && can_loop`; can_loop is the kernel's may_goto,   *)
(* which turns false for good once the program has looped too long.        *)
(***************************************************************************)
EXTENDS ByteCalls

CONSTANT
  StartMems   \* the contents the memory may start with

ASSUME StartMemsAssumption == StartMems \subseteq [Addr -> Byte]

VARIABLES
  mem,      \* the shared memory
  pc,       \* pc[p]: "idle", "loop" or "ret"
  call,     \* call[p]: arguments of the current call
  i,        \* i[p]: the loop index
  ret,      \* ret[p]: the value it returns (0 for void)
  spent,    \* spent[p]: can_loop has turned false for p
  snap      \* snap[p]: the bytes of p's call when it was made (history, read
            \* by no action)

vars == <<mem, pc, call, i, ret, spent, snap>>

NoMem == [a \in Addr |-> 0]

Init ==
  /\ mem \in StartMems
  /\ pc = [p \in Progs |-> "idle"]
  /\ call = [p \in Progs |-> NoCall]
  /\ i = [p \in Progs |-> 0]
  /\ ret = [p \in Progs |-> 0]
  /\ spent = [p \in Progs |-> FALSE]
  /\ snap = [p \in Progs |-> NoMem]

\* What a call can see of the memory when it is made.
Seen(c) == [a \in Addr |-> IF a \in Footprint(c) THEN mem[a] ELSE 0]

\* The caller enters a helper.
Invoke(p, c) ==
  /\ pc[p] = "idle"
  /\ \A q \in Progs \ {p} : pc[q] # "idle" => Apart(c, call[q])
  /\ pc' = [pc EXCEPT ![p] = "loop"]
  /\ call' = [call EXCEPT ![p] = c]
  /\ snap' = [snap EXCEPT ![p] = Seen(c)]
  /\ UNCHANGED <<mem, i, ret, spent>>

\* The direction of a copy: `if (dst < src)` goes up, its else-branch down.
\* (Slips, for the checks of the properties: never down; the test reversed.)
NeverDown(c) == FALSE
DownReversed(c) == c.op = "copy" /\ c.dst < c.src
Downward(c) == c.op = "copy" /\ ~(c.dst < c.src)

\* The byte an iteration works on: d[i], or d[k] with k = n - 1 - i.  The
\* `if (k >= n) break` after k is dead code, i < n here (see Progress).
\* (Slip: the pipeline turned the downward index form back into d[i].)
OffsetUp(c, x) == x
Offset(c, x) == IF Downward(c) THEN c.n - 1 - x ELSE x

\* One loop iteration is due: i < n && can_loop.
Iterating(p) == pc[p] = "loop" /\ i[p] < call[p].n /\ ~spent[p]

\* i++.  (Slip: i is a type too narrow for n, and wraps.)
AdvanceWraps(p) == i' = [i EXCEPT ![p] = (@ + 1) % Size]
Advance(p) == i' = [i EXCEPT ![p] = @ + 1]

\* d[k] = s[k]
CopyByte(p) ==
  LET c == call[p]
      k == Offset(c, i[p])
  IN  /\ Iterating(p) /\ c.op = "copy"
      /\ mem' = [mem EXCEPT ![c.dst + k] = mem[c.src + k]]
      /\ Advance(p)
      /\ UNCHANGED <<pc, call, ret, spent, snap>>

\* p[i] = (u8)c
SetByte(p) ==
  LET c == call[p]
  IN  /\ Iterating(p) /\ c.op = "set"
      /\ mem' = [mem EXCEPT ![c.dst + i[p]] = AsByte(c.c)]
      /\ Advance(p)
      /\ UNCHANGED <<pc, call, ret, spent, snap>>

\* if (x[i] != y[i]) return x[i] < y[i] ? -1 : 1;
\* (Slip: the answers swapped.)
CompareSwapped(x, y) == IF x < y THEN 1 ELSE -1
CompareBytes(x, y) == IF x < y THEN -1 ELSE 1

CompareByte(p) ==
  LET c == call[p]
      x == mem[c.dst + i[p]]
      y == mem[c.src + i[p]]
  IN  /\ Iterating(p) /\ c.op = "compare"
      /\ \/ /\ x = y
            /\ Advance(p)
            /\ UNCHANGED <<pc, ret>>
         \/ /\ x # y
            /\ ret' = [ret EXCEPT ![p] = CompareBytes(x, y)]
            /\ pc' = [pc EXCEPT ![p] = "ret"]
            /\ UNCHANGED i
      /\ UNCHANGED <<mem, call, spent, snap>>

\* The loop condition is false because i = n.  (Slip: i < n - 1.)
FinishEarly(p) ==
  /\ pc[p] = "loop" /\ i[p] >= call[p].n - 1
  /\ pc' = [pc EXCEPT ![p] = "ret"]
  /\ UNCHANGED <<mem, call, i, ret, spent, snap>>

FinishLoop(p) ==
  /\ pc[p] = "loop" /\ i[p] >= call[p].n
  /\ pc' = [pc EXCEPT ![p] = "ret"]
  /\ UNCHANGED <<mem, call, i, ret, spent, snap>>

\* The loop condition is false because can_loop is, now or since earlier in
\* this run of the program: the helper returns as if it had finished.
CanLoopFails(p) ==
  /\ pc[p] = "loop" /\ i[p] < call[p].n
  /\ spent' = [spent EXCEPT ![p] = TRUE]
  /\ pc' = [pc EXCEPT ![p] = "ret"]
  /\ UNCHANGED <<mem, call, i, ret, snap>>

\* The caller goes on; the frame of the call is gone.
Resume(p) ==
  /\ pc[p] = "ret"
  /\ pc' = [pc EXCEPT ![p] = "idle"]
  /\ call' = [call EXCEPT ![p] = NoCall]
  /\ i' = [i EXCEPT ![p] = 0]
  /\ ret' = [ret EXCEPT ![p] = 0]
  /\ snap' = [snap EXCEPT ![p] = NoMem]
  /\ UNCHANGED <<mem, spent>>

\* The kernel runs the program again: a new loop allowance.
Rerun(p) ==
  /\ pc[p] = "idle"
  /\ spent' = [spent EXCEPT ![p] = FALSE]
  /\ UNCHANGED <<mem, pc, call, i, ret, snap>>

\* Outside the helpers a program writes memory of its own: to what a call in
\* progress reads or writes it has no access (ArenaHeap's UsesMemCalls).
Store(p, a, v) ==
  /\ pc[p] = "idle"
  /\ \A q \in Progs : pc[q] # "idle" => a \notin Footprint(call[q])
  /\ mem' = [mem EXCEPT ![a] = v]
  /\ UNCHANGED <<pc, call, i, ret, spent, snap>>

\* What a program does inside a helper, without its caller.
Loop(p) ==
  \/ CopyByte(p)
  \/ SetByte(p)
  \/ CompareByte(p)
  \/ FinishLoop(p)
  \/ CanLoopFails(p)

Next == \E p \in Progs :
  \/ \E c \in Calls : Invoke(p, c)
  \/ Loop(p)
  \/ Resume(p)
  \/ Rerun(p)
  \/ \E a \in Addr, v \in Byte : Store(p, a, v)

Spec == Init /\ [][Next]_vars

\* The kernel keeps scheduling a program it has started.
Fairness == \A p \in Progs : WF_vars(Loop(p))

FairSpec == Spec /\ Fairness
-----------------------------------------------------------------------------
TypeOK ==
  /\ mem \in [Addr -> Byte]
  /\ pc \in [Progs -> {"idle", "loop", "ret"}]
  /\ call \in [Progs -> Calls]
  /\ i \in [Progs -> 0 .. Size]
  /\ ret \in [Progs -> {-1, 0, 1}]
  /\ spent \in [Progs -> BOOLEAN]
  /\ snap \in [Progs -> [Addr -> Byte]]

\* The bytes p's loop has already written.
Written(p) ==
  LET c == call[p]
  IN  IF c.op = "compare" THEN {}
      ELSE IF Downward(c) THEN Span(c.dst + c.n - i[p], i[p])
      ELSE Span(c.dst, i[p])

Inside(p) == pc[p] \in {"loop", "ret"}

(***************************************************************************)
(* bpf_arena_memcpy also serves memmove: when the loop ran to its end, the *)
(* destination holds what the source held when the call was made, however  *)
(* the two ranges overlap and whatever other programs wrote meanwhile; the *)
(* same for the two memsets.                                               *)
(***************************************************************************)
WholeEffect ==
  \A p \in Progs : pc[p] = "ret" /\ i[p] = call[p].n =>
    \A a \in Writes(call[p]) : mem[a] = NewByte(call[p], snap[p], a)

(***************************************************************************)
(* A loop that can_loop cut short has done no harm: every byte of its      *)
(* destination is either the old one or the final one, never a byte that   *)
(* was copied after being overwritten.                                     *)
(***************************************************************************)
NoMangledByte ==
  \A p \in Progs : Inside(p) =>
    \A a \in Writes(call[p]) :
      mem[a] \in {snap[p][a], NewByte(call[p], snap[p], a)}

(***************************************************************************)
(* memcmp decides by the first difference, and answers 0 only for equal    *)
(* ranges unless can_loop cut it short.                                    *)
(***************************************************************************)
CompareIsOrder ==
  \A p \in Progs : pc[p] = "ret" /\ call[p].op = "compare" =>
    \/ IsOrder(call[p], snap[p], ret[p])
    \/ spent[p] /\ ret[p] = 0 /\ i[p] < call[p].n

\* Every helper returns to its caller, whatever the other programs do.
EveryCallReturns == \A p \in Progs : pc[p] = "loop" ~> pc[p] = "ret"

(***************************************************************************)
(* The inductive invariant: calls in progress are apart, the bytes in      *)
(* Written have their final value, and the rest of p's footprint is still  *)
(* as it was at the call, in particular every byte p has yet to read.      *)
(***************************************************************************)
CallsApart ==
  \A p, q \in Progs : p # q /\ Inside(p) /\ Inside(q) => Apart(call[p], call[q])

InFootprint ==
  \A p \in Progs :
    /\ i[p] <= call[p].n
    /\ pc[p] = "idle" => i[p] = 0 /\ ret[p] = 0
    /\ pc[p] = "loop" /\ spent[p] => i[p] = 0

Progress ==
  \A p \in Progs : Inside(p) =>
    /\ \A a \in Written(p) : mem[a] = NewByte(call[p], snap[p], a)
    /\ \A a \in Footprint(call[p]) \ Written(p) : mem[a] = snap[p][a]

Comparing ==
  \A p \in Progs : Inside(p) =>
    /\ pc[p] = "loop" => ret[p] = 0
    /\ call[p].op # "compare" => ret[p] = 0
    /\ call[p].op = "compare" =>
         \A j \in 0 .. i[p] - 1 : snap[p][call[p].dst + j] = snap[p][call[p].src + j]
    /\ pc[p] = "ret" /\ call[p].op = "compare" /\ ret[p] # 0 => 
         /\ i[p] < call[p].n
         /\ LET x == snap[p][call[p].dst + i[p]]
                y == snap[p][call[p].src + i[p]]
            IN  x # y /\ ret[p] = IF x < y THEN -1 ELSE 1
    /\ pc[p] = "ret" /\ ret[p] = 0 => i[p] = call[p].n \/ spent[p]

IInv == TypeOK /\ CallsApart /\ InFootprint /\ Progress /\ Comparing

(***************************************************************************)
(* The refinement: while p is in its loop its callers cannot look at the   *)
(* bytes it writes, so the abstract memory shows them as they were at the  *)
(* call; the step that leaves the loop is the abstract step.               *)
(***************************************************************************)
Hidden(p) == IF pc[p] = "loop" THEN Writes(call[p]) ELSE {}

ObservedMem ==
  [a \in Addr |-> IF \E p \in Progs : a \in Hidden(p)
                    THEN snap[CHOOSE p \in Progs : a \in Hidden(p)][a]
                    ELSE mem[a]]

Abstract == INSTANCE MemCalls WITH mem <- ObservedMem

\* Each byte loop, run among others, is one memmove, memset or memcmp.
ImplementsMemCalls == Abstract!Spec
=============================================================================
