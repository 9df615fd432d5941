--------------------------- MODULE GlueMemProofs ---------------------------
(***************************************************************************)
(* Proofs about the byte loops of GlueMem, for every number of programs,   *)
(* every memory size and every byte width.                                 *)
(***************************************************************************)
EXTENDS GlueMem, TLAPS

\* A footprint is always seen as what is read and what is written.
USE DEF Footprint

LEMMA CallType ==
  ASSUME NEW c \in Calls
  PROVE  /\ c.op \in {"copy", "set", "compare"}
         /\ c.dst \in 0 .. Size /\ c.src \in 0 .. Size /\ c.n \in 0 .. Size
         /\ c.c \in Fills
         /\ c.dst + c.n <= Size /\ c.src + c.n <= Size
         /\ c.op = "set" => c.src = c.dst
BY DEF Calls

LEMMA NoCallType == NoCall \in Calls
BY SizeAssumption, FillsAssumption DEF NoCall, Calls

LEMMA AsByteType == \A c \in Fills : AsByte(c) \in Byte
BY FillsAssumption, RadixAssumption DEF AsByte, Byte

LEMMA NoMemType == NoMem \in [Addr -> Byte]
BY RadixAssumption DEF NoMem, Byte

\* An iteration addresses bytes of the call's ranges only.
LEMMA OffsetInRange ==
  ASSUME NEW c \in Calls, NEW x \in Nat, x < c.n
  PROVE  /\ Offset(c, x) \in 0 .. c.n - 1
         /\ c.dst + Offset(c, x) \in Addr
         /\ c.src + Offset(c, x) \in Addr
BY CallType, SizeAssumption DEF Offset, Addr

THEOREM TypeCorrect == Spec => []TypeOK
<1>1. Init => TypeOK
  BY NoCallType, NoMemType, StartMemsAssumption, SizeAssumption DEF Init, TypeOK
<1>2. TypeOK /\ [Next]_vars => TypeOK'
  <2> SUFFICES ASSUME TypeOK, [Next]_vars PROVE TypeOK'
    OBVIOUS
  <2> USE DEF TypeOK
  <2>1. ASSUME NEW p \in Progs, NEW c \in Calls, Invoke(p, c)  PROVE TypeOK'
    <3>1. Seen(c) \in [Addr -> Byte]
      BY RadixAssumption DEF Seen, Byte
    <3> QED BY <2>1, <3>1, SizeAssumption DEF Invoke
  <2>2. ASSUME NEW p \in Progs, CopyByte(p)  PROVE TypeOK'
    <3>1. i[p] + 1 \in 0 .. Size
      BY <2>2, CallType, SizeAssumption DEF CopyByte, Iterating
    <3>2. mem[call[p].src + Offset(call[p], i[p])] \in Byte
      BY <2>2, OffsetInRange, SizeAssumption DEF CopyByte, Iterating
    <3> QED BY <2>2, <3>1, <3>2 DEF CopyByte, Advance
  <2>3. ASSUME NEW p \in Progs, SetByte(p)  PROVE TypeOK'
    <3>1. i[p] + 1 \in 0 .. Size
      BY <2>3, CallType, SizeAssumption DEF SetByte, Iterating
    <3>2. AsByte(call[p].c) \in Byte
      BY AsByteType, CallType
    <3> QED BY <2>3, <3>1, <3>2 DEF SetByte, Advance
  <2>4. ASSUME NEW p \in Progs, CompareByte(p)  PROVE TypeOK'
    <3>1. i[p] + 1 \in 0 .. Size
      BY <2>4, CallType, SizeAssumption DEF CompareByte, Iterating
    <3> QED BY <2>4, <3>1 DEF CompareByte, Advance, CompareBytes
  <2>5. ASSUME NEW p \in Progs, FinishLoop(p)  PROVE TypeOK'
    BY <2>5 DEF FinishLoop
  <2>6. ASSUME NEW p \in Progs, CanLoopFails(p)  PROVE TypeOK'
    BY <2>6 DEF CanLoopFails
  <2>7. ASSUME NEW p \in Progs, Resume(p)  PROVE TypeOK'
    BY <2>7, NoCallType, NoMemType, SizeAssumption DEF Resume
  <2>8. ASSUME NEW p \in Progs, Rerun(p)  PROVE TypeOK'
    BY <2>8 DEF Rerun
  <2>9. ASSUME NEW p \in Progs, NEW a \in Addr, NEW v \in Byte, Store(p, a, v)  PROVE TypeOK'
    BY <2>9 DEF Store
  <2>10. CASE UNCHANGED vars
    BY <2>10 DEF vars
  <2> QED
    BY <2>1, <2>2, <2>3, <2>4, <2>5, <2>6, <2>7, <2>8, <2>9, <2>10 DEF Next, Loop
<1> QED BY <1>1, <1>2, PTL DEF Spec

-----------------------------------------------------------------------------
\* What an iteration has written lies in the call's destination, and the byte
\* it writes next is a new one there.
LEMMA NextByteIsNew ==
  ASSUME TypeOK, NEW p \in Progs, i[p] <= call[p].n
  PROVE  /\ Written(p) \subseteq Writes(call[p])
         /\ call[p].op # "compare" /\ i[p] < call[p].n =>
              /\ call[p].dst + Offset(call[p], i[p]) \in Writes(call[p])
              /\ call[p].dst + Offset(call[p], i[p]) \notin Written(p)
         /\ call[p].op = "copy" /\ i[p] < call[p].n =>
              /\ call[p].src + Offset(call[p], i[p]) \in Reads(call[p])
              /\ call[p].src + Offset(call[p], i[p]) \notin Written(p)
         /\ i[p] = 0 => Written(p) = {}
         /\ i[p] = call[p].n => Written(p) = Writes(call[p])
<1> DEFINE c == call[p]
<1>1. /\ c \in Calls /\ i[p] \in 0 .. Size
      /\ c.dst \in Nat /\ c.src \in Nat /\ c.n \in Nat
  BY CallType, SizeAssumption DEF TypeOK
<1>2. Written(p) \subseteq Writes(c)
  BY <1>1 DEF Written, Writes, Span
<1>3. c.op # "compare" /\ i[p] < c.n => c.dst + Offset(c, i[p]) \in Writes(c)
  BY <1>1 DEF Writes, Span, Offset
<1>4. ASSUME c.op # "compare", i[p] < c.n
      PROVE  c.dst + Offset(c, i[p]) \notin Written(p)
  <2>1. CASE Downward(c)
    BY <1>1, <1>4, <2>1 DEF Written, Span, Offset
  <2>2. CASE ~Downward(c)
    BY <1>1, <1>4, <2>2 DEF Written, Span, Offset
  <2> QED BY <2>1, <2>2
<1>5. c.op = "copy" /\ i[p] < c.n => c.src + Offset(c, i[p]) \in Reads(c)
  BY <1>1 DEF Reads, Span, Offset
<1>6. ASSUME c.op = "copy", i[p] < c.n
      PROVE  c.src + Offset(c, i[p]) \notin Written(p)
  <2>1. CASE Downward(c)
    BY <1>1, <1>6, <2>1 DEF Written, Span, Offset, Downward
  <2>2. CASE ~Downward(c)
    BY <1>1, <1>6, <2>2 DEF Written, Span, Offset, Downward
  <2> QED BY <2>1, <2>2
<1>7. i[p] = 0 => Written(p) = {}
  BY <1>1 DEF Written, Span
<1>8. i[p] = c.n => Written(p) = Writes(c)
  BY <1>1 DEF Written, Writes, Span
<1> QED BY <1>2, <1>3, <1>4, <1>5, <1>6, <1>7, <1>8

\* An iteration of p on the byte x adds x to what p has written.
LEMMA WrittenGrows ==
  ASSUME TypeOK, NEW p \in Progs, i[p] < call[p].n, call[p].op # "compare",
         Advance(p), UNCHANGED call
  PROVE  /\ Written(p)' = Written(p) \cup {call[p].dst + Offset(call[p], i[p])}
         /\ \A q \in Progs \ {p} : Written(q)' = Written(q)
<1> DEFINE c == call[p]
<1>1. /\ c \in Calls /\ i[p] \in 0 .. Size
      /\ c.dst \in Nat /\ c.src \in Nat /\ c.n \in Nat
  BY CallType, SizeAssumption DEF TypeOK
<1>2. i'[p] = i[p] + 1 /\ \A q \in Progs \ {p} : i'[q] = i[q]
  BY DEF TypeOK, Advance
<1>3. \A a \in Int : a \in Written(p)' <=> a \in Written(p) \/ a = c.dst + Offset(c, i[p])
  BY <1>1, <1>2 DEF Written, Span, Offset
<1>4. c.dst + Offset(c, i[p]) \in Int /\ Written(p) \subseteq Int /\ Written(p)' \subseteq Int
  BY <1>1, <1>2 DEF Written, Span, Offset
<1>5. \A q \in Progs \ {p} : Written(q)' = Written(q)
  BY <1>2 DEF Written
<1> QED BY <1>3, <1>4, <1>5

\* A byte written by p is in no other program's footprint.
LEMMA OthersUntouched ==
  ASSUME TypeOK, CallsApart, NEW p \in Progs, Inside(p), NEW x \in Writes(call[p]),
         NEW v, mem' = [mem EXCEPT ![x] = v],
         NEW q \in Progs \ {p}, Inside(q)
  PROVE  \A a \in Footprint(call[q]) : mem'[a] = mem[a]
<1>1. call[q] \in Calls /\ call[p] \in Calls
  BY DEF TypeOK
<1>2. Footprint(call[q]) \subseteq Addr
  BY <1>1, CallType, SizeAssumption DEF Reads, Writes, Span, Addr
<1>3. x \notin Footprint(call[q])
  BY DEF CallsApart, Apart
<1> QED BY <1>2, <1>3 DEF TypeOK

LEMMA FootprintInMemory ==
  ASSUME NEW c \in Calls
  PROVE  Footprint(c) \subseteq Addr
BY CallType, SizeAssumption DEF Reads, Writes, Span, Addr

\* Entering a helper: its footprint is as it was at the call, trivially.
LEMMA InvokeStep ==
  ASSUME IInv, NEW p \in Progs, NEW c \in Calls, Invoke(p, c)
  PROVE  CallsApart' /\ InFootprint' /\ Progress' /\ Comparing'
<1> USE DEF IInv
<1>1. /\ pc[p] = "idle" /\ pc'[p] = "loop" /\ call'[p] = c /\ snap'[p] = Seen(c)
      /\ i[p] = 0 /\ ret[p] = 0 /\ UNCHANGED <<mem, i, ret, spent>>
      /\ \A q \in Progs \ {p} : pc'[q] = pc[q] /\ call'[q] = call[q] /\ snap'[q] = snap[q]
      /\ \A q \in Progs \ {p} : pc[q] # "idle" => Apart(c, call[q])
  BY DEF Invoke, TypeOK, InFootprint
<1>2. CallsApart'
  BY <1>1 DEF CallsApart, Inside, Apart
<1>3. InFootprint'
  BY <1>1, CallType, SizeAssumption DEF InFootprint, TypeOK
<1>4. Progress'
  <2>1. Written(p)' = {}
    BY <1>1, CallType, SizeAssumption DEF Written, Span
  <2>2. \A a \in Footprint(c) : mem'[a] = snap'[p][a]
    BY <1>1, FootprintInMemory DEF Seen
  <2>3. \A q \in Progs \ {p} : Written(q)' = Written(q) /\ (Inside(q)' <=> Inside(q))
    BY <1>1 DEF Written, Inside
  <2> QED BY <1>1, <2>1, <2>2, <2>3 DEF Progress
<1>5. Comparing'
  BY <1>1 DEF Comparing, Inside
<1> QED BY <1>2, <1>3, <1>4, <1>5

\* An iteration that writes: one more byte is final, no other footprint moves.
LEMMA WriteStep ==
  ASSUME IInv, NEW p \in Progs, Iterating(p), call[p].op # "compare", Advance(p),
         UNCHANGED <<pc, call, ret, spent, snap>>,
         mem' = [mem EXCEPT ![call[p].dst + Offset(call[p], i[p])] =
                   NewByte(call[p], snap[p], call[p].dst + Offset(call[p], i[p]))]
  PROVE  CallsApart' /\ InFootprint' /\ Progress' /\ Comparing'
<1> USE DEF IInv
<1> DEFINE c == call[p]
           x == c.dst + Offset(c, i[p])
<1>1. /\ pc[p] = "loop" /\ i[p] < c.n /\ ~spent[p] /\ Inside(p)
      /\ c \in Calls /\ c.n \in Nat /\ i[p] \in Nat
      /\ i'[p] = i[p] + 1 /\ \A q \in Progs \ {p} : i'[q] = i[q]
  BY CallType, SizeAssumption DEF Iterating, Advance, TypeOK, Inside
<1>2. CallsApart'
  BY DEF CallsApart, Inside
<1>3. InFootprint'
  BY <1>1 DEF InFootprint
<1>4. Progress'
  <2>1. /\ x \in Writes(c) /\ x \notin Written(p) /\ Written(p) \subseteq Writes(c)
        /\ Writes(c) \subseteq Addr /\ Reads(c) \subseteq Addr
    BY <1>1, NextByteIsNew, FootprintInMemory
  <2>2. /\ Written(p)' = Written(p) \cup {x}
        /\ \A q \in Progs \ {p} : Written(q)' = Written(q)
    BY <1>1, WrittenGrows
  <2>3. mem'[x] = NewByte(c, snap[p], x) /\ \A a \in Addr \ {x} : mem'[a] = mem[a]
    BY <2>1 DEF TypeOK
  <2>4. /\ \A a \in Written(p)' : mem'[a] = NewByte(c, snap[p], a)
        /\ \A a \in Footprint(c) \ Written(p)' : mem'[a] = snap[p][a]
    BY <1>1, <2>1, <2>2, <2>3 DEF Progress
  <2>5. ASSUME NEW q \in Progs \ {p}, Inside(q)
        PROVE  /\ \A a \in Written(q) : mem'[a] = NewByte(call[q], snap[q], a)
               /\ \A a \in Footprint(call[q]) \ Written(q) : mem'[a] = snap[q][a]
    <3>1. \A a \in Footprint(call[q]) : mem'[a] = mem[a]
      BY <1>1, <2>1, <2>5, OthersUntouched
    <3>2. Written(q) \subseteq Writes(call[q])
      BY NextByteIsNew DEF InFootprint
    <3> QED BY <2>5, <3>1, <3>2 DEF Progress
  <2> QED BY <2>2, <2>4, <2>5 DEF Progress, Inside
<1>5. Comparing'
  BY <1>1 DEF Comparing, Inside
<1> QED BY <1>2, <1>3, <1>4, <1>5

\* A comparison reads bytes that are still as they were at the call.
LEMMA CompareStep ==
  ASSUME IInv, NEW p \in Progs, CompareByte(p)
  PROVE  CallsApart' /\ InFootprint' /\ Progress' /\ Comparing'
<1> USE DEF IInv
<1> DEFINE c == call[p]
           x == c.dst + i[p]
           y == c.src + i[p]
<1>1. /\ pc[p] = "loop" /\ i[p] < c.n /\ ~spent[p] /\ Inside(p) /\ c.op = "compare"
      /\ c \in Calls /\ c.n \in Nat /\ i[p] \in Nat /\ c.dst \in Nat /\ c.src \in Nat
      /\ UNCHANGED <<mem, call, spent, snap>>
      /\ \A q \in Progs \ {p} : i'[q] = i[q] /\ pc'[q] = pc[q] /\ ret'[q] = ret[q]
  BY CallType, SizeAssumption DEF CompareByte, Iterating, Advance, TypeOK, Inside
<1>2. \/ /\ mem[x] = mem[y] /\ i'[p] = i[p] + 1 /\ pc'[p] = "loop" /\ ret'[p] = ret[p]
      \/ /\ mem[x] # mem[y] /\ i'[p] = i[p] /\ pc'[p] = "ret"
         /\ ret'[p] = IF mem[x] < mem[y] THEN -1 ELSE 1
  BY <1>1 DEF CompareByte, Advance, TypeOK, CompareBytes
<1>3. CallsApart'
  BY <1>1, <1>2 DEF CallsApart, Inside
<1>4. InFootprint'
  BY <1>1, <1>2 DEF InFootprint
<1>5. /\ Written(p)' = {} /\ Written(p) = {}
      /\ \A q \in Progs \ {p} : Written(q)' = Written(q) /\ (Inside(q)' <=> Inside(q))
  BY <1>1 DEF Written, Inside
<1>6. Progress'
  BY <1>1, <1>5 DEF Progress
<1>7. mem[x] = snap[p][x] /\ mem[y] = snap[p][y]
  <2>1. x \in Reads(c) /\ y \in Reads(c)
    BY <1>1 DEF Reads, Span
  <2> QED BY <1>1, <1>5, <2>1 DEF Progress
<1>8. Comparing'
  <2>1. \A j \in 0 .. i'[p] - 1 : snap[p][c.dst + j] = snap[p][c.src + j]
    BY <1>1, <1>2, <1>7 DEF Comparing
  <2>2. ret[p] = 0
    BY <1>1 DEF Comparing
  <2>3. ret'[p] # 0 => pc'[p] = "ret" /\ i'[p] = i[p] /\ mem[x] # mem[y]
                       /\ ret'[p] = IF mem[x] < mem[y] THEN -1 ELSE 1
    BY <1>2, <2>2
  <2>4. pc'[p] = "ret" => ret'[p] # 0
    BY <1>1, <1>2
  <2>5. pc'[p] = "loop" => ret'[p] = 0
    BY <1>2, <2>2
  <2> QED BY <1>1, <1>7, <2>1, <2>3, <2>4, <2>5 DEF Comparing, Inside
<1> QED BY <1>3, <1>4, <1>6, <1>8

\* Steps that neither write nor move the index of a call in progress.
LEMMA LeaveStep ==
  ASSUME IInv, NEW p \in Progs, FinishLoop(p) \/ CanLoopFails(p)
  PROVE  CallsApart' /\ InFootprint' /\ Progress' /\ Comparing'
<1> USE DEF IInv
<1>1. /\ pc[p] = "loop" /\ pc'[p] = "ret" /\ UNCHANGED <<mem, call, i, ret, snap>>
      /\ i[p] \in Nat /\ call[p].n \in Nat
      /\ i[p] >= call[p].n \/ spent'[p]
      /\ \A q \in Progs \ {p} : pc'[q] = pc[q] /\ spent'[q] = spent[q]
  BY CallType, SizeAssumption DEF FinishLoop, CanLoopFails, TypeOK
<1>2. \A q \in Progs : Written(q)' = Written(q) /\ (Inside(q)' <=> Inside(q))
  BY <1>1 DEF Written, Inside
<1>3. CallsApart'
  BY <1>1, <1>2 DEF CallsApart
<1>4. InFootprint'
  BY <1>1 DEF InFootprint
<1>5. Progress'
  BY <1>1, <1>2 DEF Progress
<1>6. Comparing'
  <2>1. i[p] = call[p].n \/ spent'[p]
    BY <1>1 DEF InFootprint
  <2> QED BY <1>1, <1>2, <2>1 DEF Comparing
<1> QED BY <1>3, <1>4, <1>5, <1>6

\* Outside the helpers: the frame is dropped, or the program starts over.
LEMMA CallerStep ==
  ASSUME IInv, NEW p \in Progs, Resume(p) \/ Rerun(p)
  PROVE  CallsApart' /\ InFootprint' /\ Progress' /\ Comparing'
<1> USE DEF IInv
<1>1. /\ pc'[p] = "idle" /\ i'[p] = 0 /\ ret'[p] = 0 /\ call'[p].n \in Nat /\ mem' = mem
      /\ \A q \in Progs \ {p} :
           /\ pc'[q] = pc[q] /\ call'[q] = call[q] /\ i'[q] = i[q]
           /\ ret'[q] = ret[q] /\ spent'[q] = spent[q] /\ snap'[q] = snap[q]
  BY NoCallType, CallType, SizeAssumption DEF Resume, Rerun, TypeOK, InFootprint
<1>2. ~Inside(p)' /\ \A q \in Progs \ {p} : Written(q)' = Written(q) /\ (Inside(q)' <=> Inside(q))
  BY <1>1 DEF Written, Inside
<1>3. CallsApart'
  BY <1>1, <1>2 DEF CallsApart
<1>4. InFootprint'
  BY <1>1 DEF InFootprint
<1>5. Progress'
  BY <1>1, <1>2 DEF Progress
<1>6. Comparing'
  BY <1>1, <1>2 DEF Comparing
<1> QED BY <1>3, <1>4, <1>5, <1>6

(***************************************************************************)
(* The invariant of the byte loops: however the programs interleave, every *)
(* byte a loop has reached is final and every byte it has yet to read is   *)
(* as it was when the helper was called.                                   *)
(***************************************************************************)
\* What a program writes outside the helpers is in no footprint.
LEMMA StoreStep ==
  ASSUME IInv, NEW p \in Progs, NEW x \in Addr, NEW v \in Byte, Store(p, x, v)
  PROVE  CallsApart' /\ InFootprint' /\ Progress' /\ Comparing'
<1> USE DEF IInv
<1>1. /\ \A q \in Progs : Inside(q) => x \notin Footprint(call[q])
      /\ mem' = [mem EXCEPT ![x] = v] /\ UNCHANGED <<pc, call, i, ret, spent, snap>>
  BY DEF Store, Inside
<1>2. CallsApart' /\ InFootprint' /\ Comparing'
  BY <1>1 DEF CallsApart, InFootprint, Comparing, Inside
<1>3. ASSUME NEW q \in Progs, Inside(q)
      PROVE  /\ \A a \in Footprint(call[q]) : mem'[a] = mem[a]
             /\ Written(q) \subseteq Footprint(call[q])
  <2>1. Written(q) \subseteq Footprint(call[q])
    BY NextByteIsNew DEF InFootprint
  <2>2. Footprint(call[q]) \subseteq Addr
    BY FootprintInMemory DEF TypeOK
  <2> QED BY <1>1, <1>3, <2>1, <2>2 DEF TypeOK
<1>4. Progress'
  <2>1. \A q \in Progs : Written(q)' = Written(q) /\ (Inside(q)' <=> Inside(q))
    BY <1>1 DEF Written, Inside
  <2> QED BY <1>1, <1>3, <2>1 DEF Progress
<1> QED BY <1>2, <1>4

THEOREM Correct == Spec => []IInv
<1>1. Init => CallsApart /\ InFootprint /\ Progress /\ Comparing
  BY NoCallType, CallType DEF Init, CallsApart, InFootprint, Progress, Comparing, Inside
<1>2. TypeOK /\ TypeOK' /\ IInv /\ [Next]_vars => IInv'
  <2> SUFFICES ASSUME TypeOK', IInv, [Next]_vars
               PROVE  CallsApart' /\ InFootprint' /\ Progress' /\ Comparing'
    BY DEF IInv
  <2>1. ASSUME NEW p \in Progs, CopyByte(p)
        PROVE  CallsApart' /\ InFootprint' /\ Progress' /\ Comparing'
    <3> DEFINE c == call[p]
               k == Offset(c, i[p])
    <3>1. /\ c \in Calls /\ c.n \in Nat /\ c.dst \in Nat /\ c.src \in Nat /\ i[p] \in Nat
          /\ i[p] < c.n /\ i[p] <= c.n /\ c.op = "copy" /\ Inside(p) /\ k \in Int
      BY <2>1, CallType, OffsetInRange, SizeAssumption DEF CopyByte, Iterating, IInv, TypeOK, Inside
    <3>2. mem[c.src + k] = snap[p][c.src + k]
      BY <3>1, NextByteIsNew DEF IInv, Progress
    <3>3. (c.dst + k) - c.dst + c.src = c.src + k
      BY <3>1
    <3>4. mem[c.src + k] = NewByte(c, snap[p], c.dst + k)
      BY <3>1, <3>2, <3>3 DEF NewByte
    <3> QED BY <2>1, <3>1, <3>4, WriteStep DEF CopyByte
  <2>2. ASSUME NEW p \in Progs, SetByte(p)
        PROVE  CallsApart' /\ InFootprint' /\ Progress' /\ Comparing'
    <3>1. call[p].op = "set" /\ Offset(call[p], i[p]) = i[p]
      BY <2>2 DEF SetByte, Offset, Downward
    <3> QED BY <2>2, <3>1, WriteStep DEF SetByte, NewByte
  <2>3. CASE UNCHANGED vars
    BY <2>3 DEF vars, IInv, CallsApart, InFootprint, Progress, Comparing, Inside, Written
  <2> QED
    BY <2>1, <2>2, <2>3, InvokeStep, CompareStep, LeaveStep, CallerStep, StoreStep DEF Next, Loop
<1> QED BY <1>1, <1>2, TypeCorrect, PTL DEF Spec, IInv

(***************************************************************************)
(* bpf_arena_memcpy is memmove and the memsets are memset: a loop that ran *)
(* to its end has left exactly the bytes the caller asked for.             *)
(***************************************************************************)
THEOREM MoveCorrect == Spec => []WholeEffect
<1>1. IInv => WholeEffect
  BY NextByteIsNew DEF IInv, WholeEffect, InFootprint, Progress, Inside
<1> QED BY <1>1, Correct, PTL

(***************************************************************************)
(* A loop cut short by can_loop leaves old bytes and final bytes, nothing  *)
(* else.                                                                   *)
(***************************************************************************)
THEOREM CutIsHarmless == Spec => []NoMangledByte
<1>1. IInv => NoMangledByte
  BY DEF IInv, NoMangledByte, Progress
<1> QED BY <1>1, Correct, PTL

\* bpf_arena_memcmp answers by the first difference, unless cut short.
THEOREM CompareCorrect == Spec => []CompareIsOrder
<1>1. IInv => CompareIsOrder
  <2> SUFFICES ASSUME IInv, NEW p \in Progs, pc[p] = "ret", call[p].op = "compare"
               PROVE  \/ IsOrder(call[p], snap[p], ret[p])
                      \/ spent[p] /\ ret[p] = 0 /\ i[p] < call[p].n
    BY DEF CompareIsOrder
  <2>1. /\ i[p] \in Nat /\ call[p].n \in Nat /\ i[p] <= call[p].n
        /\ \A j \in 0 .. i[p] - 1 : snap[p][call[p].dst + j] = snap[p][call[p].src + j]
    BY CallType, SizeAssumption DEF IInv, TypeOK, InFootprint, Comparing, Inside
  <2>2. CASE ret[p] = 0
    BY <2>1, <2>2 DEF IInv, Comparing, Inside, IsOrder
  <2>3. CASE ret[p] # 0
    BY <2>1, <2>3 DEF IInv, Comparing, Inside, IsOrder
  <2> QED BY <2>2, <2>3
<1> QED BY <1>1, Correct, PTL

-----------------------------------------------------------------------------
\* The abstract specification speaks of the same calls.
LEMMA SameVocabulary ==
  /\ Abstract!Calls = Calls /\ Abstract!NoCall = NoCall
  /\ Abstract!Addr = Addr /\ Abstract!Byte = Byte
  /\ \A c, d : Abstract!Apart(c, d) = Apart(c, d)
  /\ \A c : Abstract!Writes(c) = Writes(c) /\ Abstract!Footprint(c) = Footprint(c)
  /\ \A c, m, done : Abstract!Effect(c, m, done) = Effect(c, m, done)
  /\ \A c, m, r : Abstract!Answers(c, m, r) = Answers(c, m, r)
<1>1. Abstract!Calls = Calls /\ Abstract!NoCall = NoCall
  BY DEF Abstract!Calls, Calls, Abstract!NoCall, NoCall
<1>2. Abstract!Addr = Addr /\ Abstract!Byte = Byte
  BY DEF Abstract!Addr, Addr, Abstract!Byte, Byte
<1>3. \A c : Abstract!Writes(c) = Writes(c) /\ Abstract!Footprint(c) = Footprint(c)
  BY DEF Abstract!Writes, Writes, Abstract!Footprint, Abstract!Reads, Reads,
         Abstract!Span, Span
<1>4. \A c, d : Abstract!Apart(c, d) = Apart(c, d)
  BY <1>3 DEF Abstract!Apart, Apart
<1>5. \A c, m, done : Abstract!Effect(c, m, done) = Effect(c, m, done)
  BY <1>2 DEF Abstract!Effect, Effect, Abstract!NewByte, NewByte, Abstract!AsByte, AsByte
<1>6. \A c, m, r : Abstract!Answers(c, m, r) = Answers(c, m, r)
  BY DEF Abstract!Answers, Answers, Abstract!IsOrder, IsOrder
<1> QED BY <1>1, <1>2, <1>3, <1>4, <1>5, <1>6

\* At most one program hides a byte, and what callers observe there is what
\* it held when that program's helper was called.
ObservedOK ==
  /\ ObservedMem \in [Addr -> Byte]
  /\ \A p \in Progs : \A a \in Hidden(p) : a \in Addr /\ ObservedMem[a] = snap[p][a]
  /\ \A a \in Addr : (\A p \in Progs : a \notin Hidden(p)) => ObservedMem[a] = mem[a]

LEMMA Observed == IInv => ObservedOK
<1> SUFFICES ASSUME IInv PROVE ObservedOK
  OBVIOUS
<1> USE DEF IInv
<1>1. ASSUME NEW p \in Progs, NEW q \in Progs, NEW a \in Hidden(p) \cap Hidden(q)
      PROVE  p = q
  BY <1>1 DEF Hidden, CallsApart, Inside, Apart
<1>2. ASSUME NEW p \in Progs, NEW a \in Hidden(p)
      PROVE  a \in Addr /\ ObservedMem[a] = snap[p][a]
  <2>1. a \in Addr
    BY FootprintInMemory DEF Hidden, TypeOK
  <2>2. (CHOOSE q \in Progs : a \in Hidden(q)) = p
    BY <1>1
  <2> QED BY <2>1, <2>2 DEF ObservedMem
<1>3. ASSUME NEW a \in Addr, \A p \in Progs : a \notin Hidden(p)
      PROVE  ObservedMem[a] = mem[a]
  BY <1>3 DEF ObservedMem
<1>4. \A a \in Addr : ObservedMem[a] \in Byte
  BY <1>2, <1>3 DEF TypeOK
<1>5. ObservedMem = [a \in Addr |-> ObservedMem[a]]
  BY DEF ObservedMem
<1> QED BY <1>2, <1>3, <1>4, <1>5 DEF ObservedOK

LEMMA ObservedNext == IInv' => ObservedOK'
BY Observed, PTL

\* Inside a helper, its footprint is observed as it was at the call.
LEMMA ObservedFootprint ==
  ASSUME IInv, NEW p \in Progs, pc[p] = "loop"
  PROVE  \A a \in Footprint(call[p]) :
           a \in Addr /\ ObservedMem[a] = snap[p][a]
<1> USE DEF IInv
<1>1. SUFFICES ASSUME NEW a \in Footprint(call[p])
               PROVE  a \in Addr /\ ObservedMem[a] = snap[p][a]
  OBVIOUS
<1>2. a \in Addr
  BY FootprintInMemory DEF TypeOK
<1>3. CASE a \in Writes(call[p])
  BY <1>3, Observed DEF ObservedOK, Hidden
<1>4. CASE a \notin Writes(call[p])
  <2>1. \A q \in Progs : a \notin Hidden(q)
    BY <1>4 DEF Hidden, CallsApart, Inside, Apart
  <2>2. Written(p) \subseteq Writes(call[p])
    BY NextByteIsNew DEF InFootprint
  <2>3. mem[a] = snap[p][a]
    BY <1>4, <2>2 DEF Progress, Inside
  <2> QED BY <1>2, <2>1, <2>3, Observed DEF ObservedOK
<1> QED BY <1>2, <1>3, <1>4

\* Leaving the loop shows callers exactly the bytes written so far.
LEMMA Revealed ==
  ASSUME IInv, IInv', NEW p \in Progs, pc[p] = "loop",
         pc' = [pc EXCEPT ![p] = "ret"], UNCHANGED <<mem, call, snap>>
  PROVE  ObservedMem' = Effect(call[p], ObservedMem, Written(p))
<1> DEFINE c == call[p]
<1>1. /\ Hidden(p)' = {} /\ Hidden(p) = Writes(c)
      /\ \A q \in Progs \ {p} : Hidden(q)' = Hidden(q)
  BY DEF Hidden, IInv, TypeOK
<1>2. Written(p) \subseteq Writes(c) /\ c \in Calls
  BY NextByteIsNew DEF InFootprint, IInv, TypeOK
<1>3. ASSUME NEW a \in Addr
      PROVE  ObservedMem'[a] = Effect(c, ObservedMem, Written(p))[a]
  <2>1. CASE a \in Written(p)
    <3>1. \A q \in Progs : a \notin Hidden(q)'
      BY <1>1, <1>2, <2>1 DEF IInv, Hidden, CallsApart, Inside, Apart
    <3>2. ObservedMem'[a] = mem[a]
      BY <3>1, ObservedNext DEF ObservedOK
    <3>3. mem[a] = NewByte(c, snap[p], a)
      BY <2>1 DEF IInv, Progress, Inside
    <3>4. NewByte(c, snap[p], a) = NewByte(c, ObservedMem, a)
      <4>1. CASE c.op = "copy"
        <5>1. a - c.dst + c.src \in Reads(c)
          BY <1>2, <2>1, <4>1, CallType, SizeAssumption DEF Reads, Writes, Span
        <5> QED BY <5>1, <4>1, ObservedFootprint DEF NewByte
      <4>2. CASE c.op # "copy"
        BY <4>2 DEF NewByte
      <4> QED BY <4>1, <4>2
    <3> QED BY <2>1, <3>2, <3>3, <3>4 DEF Effect
  <2>2. CASE a \in Writes(c) \ Written(p)
    <3>1. \A q \in Progs : a \notin Hidden(q)'
      BY <1>1, <2>2 DEF IInv, Hidden, CallsApart, Inside, Apart
    <3>2. ObservedMem'[a] = mem[a]
      BY <3>1, ObservedNext DEF ObservedOK
    <3>3. mem[a] = snap[p][a]
      BY <2>2 DEF IInv, Progress, Inside
    <3>4. ObservedMem[a] = snap[p][a]
      BY <1>1, <2>2, Observed DEF ObservedOK
    <3> QED BY <2>2, <3>2, <3>3, <3>4 DEF Effect
  <2>3. CASE a \notin Writes(c)
    <3>1. Effect(c, ObservedMem, Written(p))[a] = ObservedMem[a]
      BY <1>2, <2>3 DEF Effect
    <3>2. CASE \E q \in Progs : a \in Hidden(q)
      <4>1. PICK q \in Progs : a \in Hidden(q)
        BY <3>2
      <4>2. a \in Hidden(q)'
        BY <1>1, <2>3, <4>1
      <4>3. ObservedMem[a] = snap[q][a]
        BY <4>1, Observed DEF ObservedOK
      <4>4. ObservedMem'[a] = snap[q][a]
        BY <4>2, ObservedNext DEF ObservedOK
      <4> QED BY <3>1, <4>3, <4>4
    <3>3. CASE \A q \in Progs : a \notin Hidden(q)
      <4>1. \A q \in Progs : a \notin Hidden(q)'
        BY <1>1, <3>3
      <4>2. ObservedMem[a] = mem[a]
        BY <3>3, Observed DEF ObservedOK
      <4>3. ObservedMem'[a] = mem[a]
        BY <4>1, ObservedNext DEF ObservedOK
      <4> QED BY <3>1, <4>2, <4>3
    <3> QED BY <3>2, <3>3
  <2> QED BY <2>1, <2>2, <2>3
<1>4. ObservedMem' \in [Addr -> Byte]
  BY ObservedNext DEF ObservedOK
<1>5. Effect(c, ObservedMem, Written(p)) = [a \in Addr |-> Effect(c, ObservedMem, Written(p))[a]]
  BY DEF Effect
<1> QED BY <1>3, <1>4, <1>5

\* Callers observe what is written outside the helpers, where it is written.
LEMMA StoreObserved ==
  ASSUME IInv, IInv', NEW p \in Progs, NEW x \in Addr, NEW v \in Byte, Store(p, x, v)
  PROVE  ObservedMem' = [ObservedMem EXCEPT ![x] = v]
<1>1. /\ \A q \in Progs : Hidden(q)' = Hidden(q) /\ x \notin Hidden(q)
      /\ mem' = [mem EXCEPT ![x] = v] /\ snap' = snap /\ mem \in [Addr -> Byte]
  BY DEF Store, Hidden, IInv, TypeOK
<1>2. ASSUME NEW a \in Addr
      PROVE  ObservedMem'[a] = IF a = x THEN v ELSE ObservedMem[a]
  <2>1. CASE \E q \in Progs : a \in Hidden(q)
    BY <1>1, <2>1, Observed, ObservedNext DEF ObservedOK
  <2>2. CASE \A q \in Progs : a \notin Hidden(q)
    BY <1>1, <2>2, Observed, ObservedNext DEF ObservedOK
  <2> QED BY <2>1, <2>2
<1>3. ObservedMem' \in [Addr -> Byte] /\ ObservedMem \in [Addr -> Byte]
  BY Observed, ObservedNext DEF ObservedOK
<1> QED BY <1>2, <1>3

\* A step that hides and reveals nothing, and writes hidden bytes only, is not
\* seen by any caller.
LEMMA NotObserved ==
  ASSUME IInv, IInv',
         \A q \in Progs : Hidden(q)' = Hidden(q),
         \A q \in Progs : \A a \in Hidden(q) : snap'[q][a] = snap[q][a],
         \A a \in Addr : (\A q \in Progs : a \notin Hidden(q)) => mem'[a] = mem[a]
  PROVE  ObservedMem' = ObservedMem
<1>1. ASSUME NEW a \in Addr
      PROVE  ObservedMem'[a] = ObservedMem[a]
  <2>1. CASE \E q \in Progs : a \in Hidden(q)
    BY <2>1, Observed, ObservedNext DEF ObservedOK
  <2>2. CASE \A q \in Progs : a \notin Hidden(q)
    BY <2>2, Observed, ObservedNext DEF ObservedOK
  <2> QED BY <2>1, <2>2
<1>2. ObservedMem' \in [Addr -> Byte] /\ ObservedMem \in [Addr -> Byte]
  BY Observed, ObservedNext DEF ObservedOK
<1> QED BY <1>1, <1>2

\* Entering a helper hides bytes that callers observe unchanged.
LEMMA EnterObserved ==
  ASSUME IInv, IInv', NEW p \in Progs, NEW c \in Calls, Invoke(p, c)
  PROVE  ObservedMem' = ObservedMem
<1>1. /\ pc[p] = "idle" /\ mem' = mem /\ snap'[p] = Seen(c)
      /\ Hidden(p)' = Writes(c) /\ Hidden(p) = {}
      /\ \A q \in Progs \ {p} : Hidden(q)' = Hidden(q) /\ snap'[q] = snap[q]
      /\ \A q \in Progs \ {p} : Writes(c) \cap Hidden(q) = {}
  BY DEF Invoke, IInv, TypeOK, Hidden, Apart
<1>2. ASSUME NEW a \in Addr
      PROVE  ObservedMem'[a] = ObservedMem[a]
  <2>1. CASE a \in Writes(c)
    <3>1. ObservedMem'[a] = Seen(c)[a]
      BY <1>1, <2>1, ObservedNext DEF ObservedOK
    <3>2. ObservedMem[a] = mem[a]
      BY <1>1, <2>1, Observed DEF ObservedOK
    <3> QED BY <2>1, <3>1, <3>2 DEF Seen
  <2>2. CASE a \notin Writes(c)
    <3>1. CASE \E q \in Progs : a \in Hidden(q)
      <4>1. PICK q \in Progs \ {p} : a \in Hidden(q)
        BY <1>1, <3>1
      <4>2. ObservedMem[a] = snap[q][a]
        BY <4>1, Observed DEF ObservedOK
      <4>3. ObservedMem'[a] = snap'[q][a]
        BY <1>1, <4>1, ObservedNext DEF ObservedOK
      <4> QED BY <1>1, <4>2, <4>3
    <3>2. CASE \A q \in Progs : a \notin Hidden(q)
      <4>1. ObservedMem[a] = mem[a]
        BY <3>2, Observed DEF ObservedOK
      <4>2. \A q \in Progs : a \notin Hidden(q)'
        BY <1>1, <2>2, <3>2
      <4>3. ObservedMem'[a] = mem'[a]
        BY <4>2, ObservedNext DEF ObservedOK
      <4> QED BY <1>1, <4>1, <4>3
    <3> QED BY <3>1, <3>2
  <2> QED BY <2>1, <2>2
<1>3. ObservedMem' \in [Addr -> Byte] /\ ObservedMem \in [Addr -> Byte]
  BY Observed, ObservedNext DEF ObservedOK
<1> QED BY <1>2, <1>3

\* An iteration writes a byte its callers cannot look at yet.
LEMMA WriteNotObserved ==
  ASSUME IInv, IInv', NEW p \in Progs, Iterating(p), call[p].op # "compare", NEW v,
         UNCHANGED <<pc, call, snap>>,
         mem' = [mem EXCEPT ![call[p].dst + Offset(call[p], i[p])] = v]
  PROVE  ObservedMem' = ObservedMem
<1>1. i[p] \in Nat /\ call[p].n \in Nat /\ i[p] < call[p].n /\ i[p] <= call[p].n
  BY CallType, SizeAssumption DEF IInv, TypeOK, Iterating
<1>2. call[p].dst + Offset(call[p], i[p]) \in Hidden(p)
  BY <1>1, NextByteIsNew DEF IInv, Iterating, Hidden
<1>3. \A a \in Addr : (\A q \in Progs : a \notin Hidden(q)) => mem'[a] = mem[a]
  BY <1>2 DEF IInv, TypeOK
<1>4. \A q \in Progs : Hidden(q)' = Hidden(q)
  BY DEF Hidden
<1> QED BY <1>3, <1>4, NotObserved

\* memcmp's answer about the bytes at the call is one about the bytes callers
\* observe.
LEMMA AnswerObserved ==
  ASSUME IInv, NEW p \in Progs, pc[p] = "loop", call[p].op = "compare", NEW r,
         IsOrder(call[p], snap[p], r)
  PROVE  IsOrder(call[p], ObservedMem, r)
<1> DEFINE c == call[p]
<1>1. c.dst \in Nat /\ c.src \in Nat /\ c.n \in Nat
  BY CallType, SizeAssumption DEF IInv, TypeOK
<1>2. \A j \in 0 .. c.n - 1 : c.dst + j \in Reads(c) /\ c.src + j \in Reads(c)
  BY <1>1 DEF Reads, Span
<1>3. \A j \in 0 .. c.n - 1 :
        ObservedMem[c.dst + j] = snap[p][c.dst + j] /\ ObservedMem[c.src + j] = snap[p][c.src + j]
  BY <1>2, ObservedFootprint
<1>4. CASE r = 0 /\ \A j \in 0 .. c.n - 1 : snap[p][c.dst + j] = snap[p][c.src + j]
  BY <1>3, <1>4 DEF IsOrder
<1>5. CASE \E j \in 0 .. c.n - 1 :
             /\ \A h \in 0 .. j - 1 : snap[p][c.dst + h] = snap[p][c.src + h]
             /\ snap[p][c.dst + j] # snap[p][c.src + j]
             /\ r = IF snap[p][c.dst + j] < snap[p][c.src + j] THEN -1 ELSE 1
  <2>1. PICK j \in 0 .. c.n - 1 :
             /\ \A h \in 0 .. j - 1 : snap[p][c.dst + h] = snap[p][c.src + h]
             /\ snap[p][c.dst + j] # snap[p][c.src + j]
             /\ r = IF snap[p][c.dst + j] < snap[p][c.src + j] THEN -1 ELSE 1
    BY <1>5
  <2>2. \A h \in 0 .. j - 1 : h \in 0 .. c.n - 1
    BY <1>1
  <2>3. \A h \in 0 .. j - 1 : ObservedMem[c.dst + h] = ObservedMem[c.src + h]
    BY <1>3, <2>1, <2>2
  <2>4. /\ ObservedMem[c.dst + j] # ObservedMem[c.src + j]
        /\ r = IF ObservedMem[c.dst + j] < ObservedMem[c.src + j] THEN -1 ELSE 1
    BY <1>3, <2>1
  <2> QED BY <2>3, <2>4 DEF IsOrder
<1> QED BY <1>4, <1>5 DEF IsOrder

\* The abstract step a loop takes when it ends by its own test.
LEMMA FinishObserved ==
  ASSUME IInv, IInv', NEW p \in Progs, FinishLoop(p)
  PROVE  Abstract!Complete(p)
<1>0. i[p] \in Nat /\ call[p].n \in Nat /\ i[p] <= call[p].n
  BY CallType, SizeAssumption DEF IInv, TypeOK, InFootprint
<1>1. /\ pc[p] = "loop" /\ pc' = [pc EXCEPT ![p] = "ret"]
      /\ UNCHANGED <<mem, call, i, ret, spent, snap>>
      /\ i[p] \in Nat /\ call[p].n \in Nat /\ i[p] = call[p].n
  BY <1>0 DEF FinishLoop
<1>2. spent[p] => call[p].n = 0
  BY <1>1 DEF IInv, InFootprint
<1>3. ObservedMem' = Effect(call[p], ObservedMem, Writes(call[p]))
  <2>1. Written(p) = Writes(call[p])
    BY <1>0, <1>1, NextByteIsNew DEF IInv
  <2>2. ObservedMem' = Effect(call[p], ObservedMem, Written(p))
    BY <1>1, Revealed
  <2> QED BY <2>1, <2>2
<1>4. ret[p] = 0 /\ ret' = [ret EXCEPT ![p] = 0]
  BY <1>1 DEF IInv, TypeOK, Comparing, Inside
<1>5. Answers(call[p], ObservedMem, 0)
  <2>1. CASE call[p].op = "compare"
    <3>1. IsOrder(call[p], snap[p], 0)
      BY <1>1, <2>1 DEF IsOrder, IInv, Comparing, Inside
    <3> QED BY <1>1, <2>1, <3>1, AnswerObserved DEF Answers
  <2>2. CASE call[p].op # "compare"
    BY <2>2 DEF Answers
  <2> QED BY <2>1, <2>2
<1> QED BY <1>1, <1>2, <1>3, <1>4, <1>5, SameVocabulary DEF Abstract!Complete

\* The abstract step memcmp takes at the first difference.
LEMMA DifferObserved ==
  ASSUME IInv, IInv', NEW p \in Progs, CompareByte(p), pc' # pc
  PROVE  Abstract!Complete(p)
<1> DEFINE c == call[p]
           x == mem[c.dst + i[p]]
           y == mem[c.src + i[p]]
<1>1. /\ pc[p] = "loop" /\ i[p] < c.n /\ ~spent[p] /\ c.op = "compare"
      /\ i[p] \in Nat /\ c.n \in Nat /\ c.dst \in Nat /\ c.src \in Nat
      /\ UNCHANGED <<mem, call, spent, snap, i>>
      /\ pc' = [pc EXCEPT ![p] = "ret"]
      /\ ret' = [ret EXCEPT ![p] = CompareBytes(x, y)] /\ x # y
  BY CallType, SizeAssumption DEF CompareByte, Iterating, IInv, TypeOK
<1>2. Writes(c) = {} /\ Written(p) = {}
  BY <1>1 DEF Writes, Written
<1>3. ObservedMem' = Effect(c, ObservedMem, Writes(c))
  BY <1>1, <1>2, Revealed
<1>4. x = snap[p][c.dst + i[p]] /\ y = snap[p][c.src + i[p]]
  <2>1. c.dst + i[p] \in Reads(c) /\ c.src + i[p] \in Reads(c)
    BY <1>1 DEF Reads, Span
  <2> QED BY <1>1, <1>2, <2>1 DEF IInv, Progress, Inside
<1>5. IsOrder(c, snap[p], CompareBytes(x, y))
  <2>1. i[p] \in 0 .. c.n - 1
    BY <1>1
  <2>2. \A h \in 0 .. i[p] - 1 : snap[p][c.dst + h] = snap[p][c.src + h]
    BY <1>1 DEF IInv, Comparing, Inside
  <2> QED BY <1>1, <1>4, <2>1, <2>2 DEF IsOrder, CompareBytes
<1>6. Answers(c, ObservedMem, CompareBytes(x, y)) /\ CompareBytes(x, y) \in {-1, 0, 1}
  BY <1>1, <1>5, AnswerObserved DEF Answers, CompareBytes
<1> QED BY <1>1, <1>3, <1>6, SameVocabulary DEF Abstract!Complete

\* The abstract step of a loop that can_loop cuts short.
LEMMA CutObserved ==
  ASSUME IInv, IInv', NEW p \in Progs, CanLoopFails(p)
  PROVE  Abstract!Curtail(p)
<1>1. /\ pc[p] = "loop" /\ pc' = [pc EXCEPT ![p] = "ret"]
      /\ UNCHANGED <<mem, call, ret, snap>> /\ spent' = [spent EXCEPT ![p] = TRUE]
      /\ i[p] \in Nat /\ call[p].n \in Nat /\ i[p] < call[p].n /\ i[p] <= call[p].n
  BY CallType, SizeAssumption DEF CanLoopFails, IInv, TypeOK
<1>2. call[p].n > 0
  BY <1>1
<1>3. Written(p) \in SUBSET Writes(call[p])
  BY <1>1, NextByteIsNew DEF IInv
<1>4. ObservedMem' = Effect(call[p], ObservedMem, Written(p))
  BY <1>1, Revealed
<1> QED BY <1>1, <1>2, <1>3, <1>4, SameVocabulary DEF Abstract!Curtail

(***************************************************************************)
(* The byte loops implement MemCalls: whatever the programs' interleaving, *)
(* callers cannot tell a helper of arena_glue.bpf.c from one that moves,   *)
(* fills or compares its whole range at once, unless can_loop cut it.      *)
(***************************************************************************)
THEOREM Implements == Spec => ImplementsMemCalls
<1>1. Init => Abstract!Init
  <2> SUFFICES ASSUME Init PROVE Abstract!Init
    OBVIOUS
  <2>1. ObservedMem = [a \in Addr |-> mem[a]]
    BY DEF Init, ObservedMem, Hidden
  <2>2. ObservedMem \in [Addr -> Byte]
    BY <2>1, StartMemsAssumption DEF Init
  <2> QED BY <2>2, SameVocabulary DEF Init, Abstract!Init
<1>2. IInv /\ IInv' /\ [Next]_vars => [Abstract!Next]_(Abstract!vars)
  <2> SUFFICES ASSUME IInv, IInv', [Next]_vars
               PROVE  [Abstract!Next]_(Abstract!vars)
    OBVIOUS
  <2>1. ASSUME NEW p \in Progs, NEW c \in Calls, Invoke(p, c)
        PROVE  Abstract!Invoke(p, c)
    BY <2>1, EnterObserved, SameVocabulary DEF Invoke, Abstract!Invoke
  <2>2. ASSUME NEW p \in Progs, CopyByte(p)
        PROVE  UNCHANGED Abstract!vars
    <3>1. ObservedMem' = ObservedMem
      BY <2>2, WriteNotObserved DEF CopyByte, Iterating
    <3> QED BY <2>2, <3>1 DEF CopyByte, Abstract!vars
  <2>3. ASSUME NEW p \in Progs, SetByte(p)
        PROVE  UNCHANGED Abstract!vars
    <3>1. call[p].op = "set" /\ Offset(call[p], i[p]) = i[p]
      BY <2>3 DEF SetByte, Offset, Downward
    <3>2. ObservedMem' = ObservedMem
      BY <2>3, <3>1, WriteNotObserved DEF SetByte
    <3> QED BY <2>3, <3>2 DEF SetByte, Abstract!vars
  <2>4. ASSUME NEW p \in Progs, CompareByte(p), pc' = pc
        PROVE  UNCHANGED Abstract!vars
    <3>1. UNCHANGED <<mem, call, spent, snap, ret>>
      BY <2>4 DEF CompareByte, IInv, TypeOK, Iterating
    <3>2. \A q \in Progs : Hidden(q)' = Hidden(q)
      BY <2>4, <3>1 DEF Hidden
    <3>3. ObservedMem' = ObservedMem
      BY <3>1, <3>2, NotObserved
    <3> QED BY <2>4, <3>1, <3>3 DEF Abstract!vars
  <2>5. ASSUME NEW p \in Progs, Resume(p) \/ Rerun(p)
        PROVE  ObservedMem' = ObservedMem
    <3>1. /\ mem' = mem /\ pc[p] # "loop" /\ pc'[p] = "idle"
          /\ \A q \in Progs \ {p} : pc'[q] = pc[q] /\ call'[q] = call[q] /\ snap'[q] = snap[q]
      BY <2>5 DEF Resume, Rerun, IInv, TypeOK
    <3>2. \A q \in Progs : Hidden(q)' = Hidden(q)
      BY <3>1 DEF Hidden
    <3>3. Hidden(p) = {}
      BY <3>1 DEF Hidden
    <3> QED BY <3>1, <3>2, <3>3, NotObserved
  <2>6. ASSUME NEW p \in Progs, Resume(p)
        PROVE  Abstract!Resume(p)
    BY <2>5, <2>6, SameVocabulary DEF Resume, Abstract!Resume
  <2>7. ASSUME NEW p \in Progs, Rerun(p)
        PROVE  Abstract!Rerun(p)
    BY <2>5, <2>7 DEF Rerun, Abstract!Rerun
  <2>8. ASSUME NEW p \in Progs, NEW a \in Addr, NEW v \in Byte, Store(p, a, v)
        PROVE  Abstract!Store(p, a, v)
    BY <2>8, StoreObserved, SameVocabulary DEF Store, Abstract!Store
  <2>9. CASE UNCHANGED vars
    <3>1. ObservedMem' = ObservedMem
      BY <2>9 DEF vars, ObservedMem, Hidden
    <3> QED BY <2>9, <3>1 DEF vars, Abstract!vars
  <2> QED
    BY <2>1, <2>2, <2>3, <2>4, <2>6, <2>7, <2>8, <2>9, FinishObserved, DifferObserved,
       CutObserved, SameVocabulary DEF Next, Loop, Abstract!Next
<1> QED BY <1>1, <1>2, Correct, PTL DEF Spec, ImplementsMemCalls, Abstract!Spec

=============================================================================
