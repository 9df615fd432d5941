------------------------------ MODULE ByteCalls ------------------------------
(***************************************************************************)
(* Vocabulary of the memory helpers that csrc/arena_glue.bpf.c supplies    *)
(* to the lowered program: what a call of bpf_arena_memcpy,                *)
(* bpf_arena_memset / memset and bpf_arena_memcmp is given, and which      *)
(* bytes it may read and write.  The abstract specification (MemCalls)     *)
(* and the byte loops (GlueMem) share it.                                  *)
(***************************************************************************)
EXTENDS Integers

CONSTANTS
  Progs,      \* BPF program invocations, one per CPU, sharing the memory
  Size,       \* number of bytes the programs can address
  Radix,      \* number of values of a byte (256 in the code)
  Fills       \* the `int c` arguments memset is called with

ASSUME SizeAssumption  == Size \in Nat
ASSUME RadixAssumption == Radix \in Nat \ {0}
ASSUME FillsAssumption == Fills \subseteq Int /\ Fills # {}

Addr == 0 .. Size - 1
Byte == 0 .. Radix - 1

(***************************************************************************)
(* A call: op, the two pointers (the second is unused by "set"), the       *)
(* length n and memset's c.  Rust hands the helpers ranges inside          *)
(* allocations, so both ranges lie inside the memory; one empty call of    *)
(* each kind stands for all of them, as it touches nothing.                *)
(***************************************************************************)
Calls ==
  { c \in [op : {"copy", "set", "compare"}, dst : 0 .. Size, src : 0 .. Size,
           n : 0 .. Size, c : Fills] :
      /\ c.dst + c.n <= Size
      /\ c.src + c.n <= Size
      /\ c.op = "set" => c.src = c.dst
      /\ c.n = 0 => c.dst = 0 /\ c.src = 0 }

\* The arguments of a program that is in no helper.
NoCall == [op |-> "copy", dst |-> 0, src |-> 0, n |-> 0, c |-> CHOOSE c \in Fills : TRUE]

Span(start, n) == start .. start + n - 1

\* The bytes a call reads and the bytes it may write.
Reads(c)  == IF c.op = "set" THEN {} ELSE
               Span(c.src, c.n) \cup (IF c.op = "compare" THEN Span(c.dst, c.n) ELSE {})
Writes(c) == IF c.op = "compare" THEN {} ELSE Span(c.dst, c.n)

Footprint(c) == Reads(c) \cup Writes(c)

\* Two calls that may run at once on different CPUs: Rust's aliasing rules
\* give a writer exclusive access to the range it writes.
Apart(c, d) ==
  /\ Writes(c) \cap Footprint(d) = {}
  /\ Writes(d) \cap Footprint(c) = {}

\* memset narrows its int argument to a byte, (u8)c.  (Slip: it does not.)
NotNarrowed(c) == c
AsByte(c) == c % Radix

\* What one byte of the destination becomes, given the memory m at the call.
NewByte(c, m, a) == IF c.op = "copy" THEN m[a - c.dst + c.src] ELSE AsByte(c.c)

\* The memory a call leaves when only the bytes of `done` were reached.
Effect(c, m, done) == [a \in Addr |-> IF a \in done THEN NewByte(c, m, a) ELSE m[a]]

\* r is memcmp's answer for the two ranges of c in m.
IsOrder(c, m, r) ==
  \/ /\ r = 0
     /\ \A j \in 0 .. c.n - 1 : m[c.dst + j] = m[c.src + j]
  \/ \E j \in 0 .. c.n - 1 :
       /\ \A h \in 0 .. j - 1 : m[c.dst + h] = m[c.src + h]
       /\ m[c.dst + j] # m[c.src + j]
       /\ r = IF m[c.dst + j] < m[c.src + j] THEN -1 ELSE 1

Answers(c, m, r) == IF c.op = "compare" THEN IsOrder(c, m, r) ELSE r = 0
=============================================================================
