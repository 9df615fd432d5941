------------------------- MODULE HeapObjectsProofs --------------------------
(***************************************************************************)
(* ArenaHeap implements HeapObjects, for every number of programs, every   *)
(* arena and every set of layouts.  The abstract state forgets addresses:  *)
(* what is shown is that every step writes in blocks of its own program,   *)
(* so that the contents of all other objects stay what they were.  And it  *)
(* uses the memory helpers as MemCalls promises them: allocations that are *)
(* apart make calls that are apart.                                        *)
(***************************************************************************)
EXTENDS ArenaHeapProofs, Sequences, SequenceTheorems

\* The contents of allocation o in memory m.
View(m, o) == IF o = Nothing THEN << >> ELSE [k \in 1 .. o.size |-> m[o.ptr.addr + k - 1]]

\* Memory m has the common prefix of the allocations old and new in both.
Keeps(m, old, new) ==
  \A k \in 1 .. new.size : k <= old.size => m[new.ptr.addr + k - 1] = m[old.ptr.addr + k - 1]

\* Allocation o holds zeros in memory m.
Cleared(m, o) == \A k \in 1 .. o.size : m[o.ptr.addr + k - 1] = 0

\* Between realloc's copy and its free, nothing happens to either block: the
\* copy is still the old contents when the old block goes.  And what
\* alloc_zeroed has cleared is still clear when the handle takes it.
Prepared(at, m, old, new) ==
  /\ at = "free" => Keeps(m, old, new)
  /\ at = "give" => Cleared(m, new)

Copied ==
  \A p \in Progs : ~spent[p] => Prepared(job[p].at, mem, held[p][job[p].h], held[p][New])

\* Allocation o lies in the arena.
InArena(o) == /\ o # Nothing /\ o.ptr.addr \in Nat /\ o.size \in Nat \ {0}
              /\ o.ptr.addr + o.size <= Size

LEMMA HeldInArena ==
  ASSUME IInv, NEW p \in Progs, NEW s \in Slots, Owning(p, s)
  PROVE  InArena(held[p][s]) /\ held[p][s].size \in Sizes
BY ObjectInBlock DEF InArena, Owning

LEMMA ViewType ==
  ASSUME NEW m \in [Addr -> Byte], NEW o, InArena(o)
  PROVE  /\ View(m, o) \in [1 .. o.size -> Byte]
         /\ Len(View(m, o)) = o.size /\ View(m, o) # << >>
         /\ \A k \in 1 .. o.size : View(m, o)[k] = m[o.ptr.addr + k - 1]
<1>1. o.ptr.addr \in Nat /\ o.size \in Nat /\ 1 <= o.size /\ o.ptr.addr + o.size <= Size /\ Size \in Nat
  BY SizeAssumption DEF InArena
<1>2. \A k \in 1 .. o.size : o.ptr.addr + k - 1 \in Addr
  BY <1>1 DEF Addr
<1>3. View(m, o) = [k \in 1 .. o.size |-> m[o.ptr.addr + k - 1]]
  BY DEF View, InArena
<1>4. View(m, o) \in [1 .. o.size -> Byte]
  BY <1>2, <1>3
<1>5. View(m, o) \in Seq(Byte)
  BY <1>1, <1>4, IsASeq
<1>6. DOMAIN View(m, o) = 1 .. o.size
  BY <1>3
<1>7. Len(View(m, o)) = o.size
  BY <1>1, <1>5, <1>6, LenProperties
<1>8. View(m, o) # << >>
  BY <1>1, <1>7
<1> QED BY <1>3, <1>4, <1>7, <1>8

\* A view shows the bytes of its span only.
LEMMA ViewSame ==
  ASSUME NEW m, NEW n, NEW o,
         o # Nothing => /\ InArena(o)
                        /\ \A a \in Span(o.ptr.addr, o.size) : n[a] = m[a]
  PROVE  View(n, o) = View(m, o)
<1>1. CASE o = Nothing
  BY <1>1 DEF View
<1>2. CASE o # Nothing
  <2>1. o.ptr.addr \in Nat /\ o.size \in Nat
    BY <1>2 DEF InArena
  <2>2. \A k \in 1 .. o.size : o.ptr.addr + k - 1 \in Span(o.ptr.addr, o.size)
    BY <2>1 DEF Span
  <2> QED BY <1>2, <2>2 DEF View
<1> QED BY <1>1, <1>2

\* The abstract objects, at the beginning of a step and at its end.
LEMMA ObjIs ==
  /\ Obj = [p \in Progs |-> [h \in Handles |-> View(mem, held[p][h])]]
  /\ Obj' = [p \in Progs |-> [h \in Handles |-> View(mem', held'[p][h])]]
<1>1. ASSUME NEW p \in Progs, NEW h \in Handles
      PROVE  (IF Owning(p, h) THEN Bytes(held[p][h]) ELSE << >>) = View(mem, held[p][h])
  BY DEF Owning, Bytes, View
<1>2. ASSUME NEW p \in Progs, NEW h \in Handles
      PROVE  (IF Owning(p, h)' THEN Bytes(held[p][h])' ELSE << >>) = View(mem', held'[p][h])
  BY DEF Owning, Bytes, View
<1> QED BY <1>1, <1>2 DEF Obj
-----------------------------------------------------------------------------
(* A step of program p leaves the others alone.                            *)

Alone(p) ==
  \A q \in Progs \ {p} :
    /\ held'[q] = held[q] /\ job'[q] = job[q] /\ spent'[q] = spent[q]
    /\ \A s \in Slots : View(mem', held[q][s]) = View(mem, held[q][s])
    /\ \A s \in Slots : Owning(q, s) =>
         \A a \in Span(held[q][s].ptr.addr, held[q][s].size) : mem'[a] = mem[a]

\* p writes in an allocation of its own, if at all.
OwnWrites(p) ==
  \/ mem' = mem
  \/ \E s \in Slots :
       /\ Owning(p, s)
       /\ \A a \in Addr \ Span(held[p][s].ptr.addr, held[p][s].size) : mem'[a] = mem[a]

LEMMA OwnWritesApart ==
  ASSUME IInv, NEW p \in Progs, NEW s \in Slots, Owning(p, s),
         \A a \in Addr \ Span(held[p][s].ptr.addr, held[p][s].size) : mem'[a] = mem[a],
         NEW q \in Progs, NEW t \in Slots, Owning(q, t), q # p \/ t # s
  PROVE  \A a \in Span(held[q][t].ptr.addr, held[q][t].size) : mem'[a] = mem[a]
<1>1. Span(held[p][s].ptr.addr, held[p][s].size) \cap Span(held[q][t].ptr.addr, held[q][t].size) = {}
  BY ObjectsApart
<1>2. Span(held[q][t].ptr.addr, held[q][t].size) \subseteq Addr
  BY ObjectInBlock, SizeAssumption DEF Span, Addr
<1> QED BY <1>1, <1>2

LEMMA StepsAlone ==
  ASSUME IInv, NEW p \in Progs, OwnWrites(p),
         \A q \in Progs \ {p} : held'[q] = held[q] /\ job'[q] = job[q] /\ spent'[q] = spent[q]
  PROVE  Alone(p)
<1>1. ASSUME NEW q \in Progs \ {p}, NEW t \in Slots, Owning(q, t)
      PROVE  \A a \in Span(held[q][t].ptr.addr, held[q][t].size) : mem'[a] = mem[a]
  BY <1>1, OwnWritesApart DEF OwnWrites
<1>2. ASSUME NEW q \in Progs \ {p}, NEW t \in Slots
      PROVE  View(mem', held[q][t]) = View(mem, held[q][t])
  BY <1>1, HeldInArena, ViewSame DEF Owning
<1> QED BY <1>1, <1>2 DEF Alone

\* The copies of the other programs stay as they are.
LEMMA CopiesStay ==
  ASSUME IInv, Copied, NEW p \in Progs, Alone(p),
         ~spent'[p] => Prepared(job'[p].at, mem', held'[p][job'[p].h], held'[p][New])
  PROVE  Copied'
<1>1. ASSUME NEW q \in Progs, ~spent'[q]
      PROVE  Prepared(job'[q].at, mem', held'[q][job'[q].h], held'[q][New])
  <2>1. CASE q = p
    BY <1>1, <2>1
  <2>2. CASE q # p
    <3> DEFINE old == held[q][job[q].h]
               new == held[q][New]
    <3>1. /\ ~spent[q] /\ job'[q] = job[q] /\ held'[q] = held[q]
          /\ \A s \in Slots : Owning(q, s) =>
               \A a \in Span(held[q][s].ptr.addr, held[q][s].size) : mem'[a] = mem[a]
      BY <1>1, <2>2 DEF Alone
    <3>2. Prepared(job[q].at, mem, old, new)
      BY <3>1 DEF Copied
    <3>3. ASSUME job[q].at \in {"free", "give"}
          PROVE  /\ InArena(new) /\ \A a \in Span(new.ptr.addr, new.size) : mem'[a] = mem[a]
                 /\ job[q].at = "free" =>
                      InArena(old) /\ \A a \in Span(old.ptr.addr, old.size) : mem'[a] = mem[a]
      <4>1. /\ job[q].h \in Slots /\ New \in Slots /\ Owning(q, New)
            /\ job[q].at = "free" => Owning(q, job[q].h)
        BY <3>3, SlotFacts DEF IInv, JobsConsistent, JobOK, Running
      <4> QED BY <3>1, <4>1, HeldInArena
    <3> HIDE DEF old, new
    <3>4. ASSUME job[q].at = "free"
          PROVE  Keeps(mem', old, new)
      <4>1. ASSUME NEW k \in 1 .. new.size, k <= old.size
            PROVE  mem'[new.ptr.addr + k - 1] = mem'[old.ptr.addr + k - 1]
        <5>1. /\ new.ptr.addr + k - 1 \in Span(new.ptr.addr, new.size)
              /\ old.ptr.addr + k - 1 \in Span(old.ptr.addr, old.size)
          BY <3>3, <3>4, <4>1 DEF InArena, Span
        <5> QED BY <3>2, <3>3, <3>4, <4>1, <5>1 DEF Keeps, Prepared
      <4> QED BY <4>1 DEF Keeps
    <3>5. ASSUME job[q].at = "give"
          PROVE  Cleared(mem', new)
      <4>1. ASSUME NEW k \in 1 .. new.size
            PROVE  mem'[new.ptr.addr + k - 1] = 0
        <5>1. new.ptr.addr + k - 1 \in Span(new.ptr.addr, new.size)
          BY <3>3, <3>5, <4>1 DEF InArena, Span
        <5> QED BY <3>2, <3>3, <3>5, <4>1, <5>1 DEF Cleared, Prepared
      <4> QED BY <4>1 DEF Cleared
    <3> QED BY <3>1, <3>4, <3>5 DEF Prepared, old, new
  <2> QED BY <2>1, <2>2
<1> QED BY <1>1 DEF Copied

\* Steps that change nothing of p's objects, and steps that change one.
LEMMA ObjSame ==
  ASSUME NEW p \in Progs, Alone(p),
         \A h \in Handles : View(mem', held'[p][h]) = View(mem, held[p][h])
  PROVE  Obj' = Obj
<1>1. \A q \in Progs, h \in Handles : View(mem', held'[q][h]) = View(mem, held[q][h])
  BY SlotFacts DEF Alone
<1> QED BY <1>1, ObjIs

LEMMA ObjOne ==
  ASSUME NEW p \in Progs, Alone(p), NEW h \in Handles,
         \A g \in Handles \ {h} : View(mem', held'[p][g]) = View(mem, held[p][g])
  PROVE  Obj' = [Obj EXCEPT ![p][h] = View(mem', held'[p][h])] /\ Obj[p][h] = View(mem, held[p][h])
<1>1. \A q \in Progs, g \in Handles : q # p \/ g # h => View(mem', held'[q][g]) = View(mem, held[q][g])
  BY SlotFacts DEF Alone
<1> QED BY <1>1, ObjIs
-----------------------------------------------------------------------------
Steps == [Abstract!Next]_<<Obj, spent>>

\* What HelperCall leaves of memory, of which p reached the bytes in done.
LEMMA HelpWrites ==
  ASSUME IInv, NEW p \in Progs, Helping(p), Help(p)
  PROVE  /\ OwnWrites(p) /\ Owning(p, New)
         /\ \A s \in Slots \ {New} : View(mem', held[p][s]) = View(mem, held[p][s])
         /\ \/ spent' = spent /\ ~spent[p] /\ mem' = Effect(HelperCall(p), mem, Writes(HelperCall(p)))
            \/ spent' = [spent EXCEPT ![p] = TRUE]
<1> DEFINE c == HelperCall(p)
           new == held[p][New]
<1>1. Writes(c) \subseteq Span(new.ptr.addr, new.size) /\ Owning(p, New) /\ New \in Slots
  BY HelperCallGood, SlotFacts
<1>2. /\ \/ spent' = spent /\ ~spent[p] /\ mem' = Effect(c, mem, Writes(c))
         \/ spent' = [spent EXCEPT ![p] = TRUE]
      /\ \E done \in SUBSET Writes(c) : mem' = Effect(c, mem, done)
  BY DEF Help
<1> HIDE DEF c, new
<1>3. \A a \in Addr \ Span(new.ptr.addr, new.size) : mem'[a] = mem[a]
  BY <1>1, <1>2 DEF Effect
<1>4. ASSUME NEW s \in Slots \ {New}
      PROVE  View(mem', held[p][s]) = View(mem, held[p][s])
  <2>1. Owning(p, s) => \A a \in Span(held[p][s].ptr.addr, held[p][s].size) : mem'[a] = mem[a]
    BY <1>1, <1>3, OwnWritesApart DEF new
  <2> QED BY <2>1, HeldInArena, ViewSame DEF Owning
<1> QED BY <1>1, <1>2, <1>3, <1>4 DEF OwnWrites, c, new

\* A handle takes a new allocation, which holds whatever the memory held.
LEMMA GainSteps ==
  ASSUME IInv, Copied, NEW p \in Progs, NEW h \in Handles, Running(p), ~Owning(p, h),
         NEW n \in Nat, NEW ptr \in Pointer, arena_malloc(n, ptr) \/ arena_malloc_internal(n, ptr),
         NEW size \in Sizes, NEW align \in Aligns, size <= n,
         Hold(p, h, ptr, size, align), UNCHANGED <<mem, job, spent>>
  PROVE  Copied' /\ Abstract!Alloc(p, h)
<1> DEFINE o == [ptr |-> ptr, size |-> size, align |-> align]
<1>1. PICK b \in Places(n) : ptr.addr = b.base
  BY MallocGives
<1>2. b \in Blocks /\ n <= b.size /\ b.base + b.size <= Size
  BY DEF Places
<1>3. b.base \in Nat /\ b.size \in Nat /\ size \in Nat \ {0}
  BY <1>2, BlockType, SizesType
<1>4. o \in Objects /\ o # Nothing
  BY NullAssumption DEF Objects
<1>5. InArena(o)
  BY <1>1, <1>2, <1>3, <1>4, SizeAssumption DEF InArena
<1>6. /\ held'[p][h] = o /\ h \in Slots /\ h # New
      /\ \A q \in Progs \ {p} : held'[q] = held[q]
      /\ \A s \in Slots \ {h} : held'[p][s] = held[p][s]
  BY <1>4, SlotFacts DEF Hold, IInv, TypeOK
<1>7. Alone(p)
  BY <1>6, StepsAlone DEF OwnWrites
<1>8. job'[p].at = "run"
  BY DEF Running
<1>9. Copied'
  BY <1>7, <1>8, CopiesStay DEF Prepared
<1>10. /\ Obj' = [Obj EXCEPT ![p][h] = View(mem', o)] /\ Obj[p][h] = << >>
  <2>1. \A g \in Handles \ {h} : View(mem', held'[p][g]) = View(mem, held[p][g])
    BY <1>6, SlotFacts
  <2>2. View(mem, held[p][h]) = << >>
    BY DEF View, Owning
  <2> QED BY <1>6, <1>7, <2>1, <2>2, ObjOne
<1>11. View(mem', o) \in [1 .. size -> Byte]
  BY <1>5, ViewType DEF IInv, TypeOK
<1> HIDE DEF o
<1> QED BY <1>9, <1>10, <1>11 DEF Abstract!Alloc, Abstract!Set, Abstract!Absent

\* A handle gives up its allocation.
LEMMA LoseSteps ==
  ASSUME IInv, Copied, NEW p \in Progs, NEW h \in Handles, Running(p), Owning(p, h),
         held' = [held EXCEPT ![p][h] = Nothing], UNCHANGED <<mem, job, spent>>
  PROVE  Copied' /\ Abstract!Dealloc(p, h)
<1>1. /\ held'[p][h] = Nothing /\ h \in Slots
      /\ \A q \in Progs \ {p} : held'[q] = held[q]
      /\ \A s \in Slots \ {h} : held'[p][s] = held[p][s]
  BY SlotFacts DEF IInv, TypeOK
<1>2. Alone(p)
  BY <1>1, StepsAlone DEF OwnWrites
<1>3. Copied'
  <2>1. job'[p].at = "run"
    BY DEF Running
  <2> QED BY <1>2, <2>1, CopiesStay DEF Prepared
<1>4. Obj' = [Obj EXCEPT ![p][h] = View(mem', held'[p][h])] /\ Obj[p][h] = View(mem, held[p][h])
  <2>1. \A g \in Handles \ {h} : View(mem', held'[p][g]) = View(mem, held[p][g])
    BY <1>1, SlotFacts
  <2> QED BY <1>2, <2>1, ObjOne
<1>5. View(mem', held'[p][h]) = << >> /\ View(mem, held[p][h]) # << >>
  <2>1. InArena(held[p][h]) /\ mem \in [Addr -> Byte]
    BY <1>1, HeldInArena DEF IInv, TypeOK
  <2>2. View(mem, held[p][h]) # << >>
    BY <2>1, ViewType
  <2> QED BY <1>1, <2>2 DEF View
<1> QED BY <1>3, <1>4, <1>5 DEF Abstract!Dealloc, Abstract!Set, Abstract!Absent

\* Only slot New, which no object shows, or the view of a pointer changes.
LEMMA HiddenSteps ==
  ASSUME IInv, Copied, NEW p \in Progs, job'[p].at \notin {"free", "give"},
         mem' = mem, spent' = spent,
         \A q \in Progs \ {p} : held'[q] = held[q] /\ job'[q] = job[q],
         \A h \in Handles : View(mem, held'[p][h]) = View(mem, held[p][h])
  PROVE  Copied' /\ Obj' = Obj
<1>1. Alone(p)
  BY StepsAlone DEF OwnWrites
<1>2. Copied'
  BY <1>1, CopiesStay DEF Prepared
<1>3. Obj' = Obj
  BY <1>1, ObjSame
<1> QED BY <1>2, <1>3

\* The owner writes a byte of its object.
LEMMA WriteSteps ==
  ASSUME IInv, Copied, NEW p \in Progs, NEW h \in Handles, NEW k \in Addr, NEW v \in Byte,
         Write(p, h, k, v)
  PROVE  Copied' /\ Abstract!Write(p, h)
<1> DEFINE o == held[p][h]
<1>1. /\ Running(p) /\ Owning(p, h) /\ k < o.size
      /\ mem' = [mem EXCEPT ![o.ptr.addr + k] = v]
      /\ UNCHANGED <<blocks, held, job, spent, lost>>
  BY DEF Write
<1>2. InArena(o) /\ h \in Slots /\ mem \in [Addr -> Byte] /\ mem' \in [Addr -> Byte] /\ o # Nothing
  BY <1>1, SlotFacts, HeldInArena DEF IInv, TypeOK, Owning
<1>3. o.ptr.addr \in Nat /\ o.size \in Nat /\ k \in Nat /\ k + 1 \in 1 .. o.size /\ o.ptr.addr + k \in Addr
  BY <1>1, <1>2, SizeAssumption DEF InArena, Addr
<1> HIDE DEF o
<1>4. \A a \in Addr \ Span(o.ptr.addr, o.size) : mem'[a] = mem[a]
  BY <1>1, <1>2, <1>3 DEF Span
<1>5. Alone(p)
  <2>1. OwnWrites(p)
    BY <1>1, <1>2, <1>4 DEF OwnWrites, o
  <2> QED BY <1>1, <2>1, StepsAlone
<1>6. Copied'
  <2>1. job'[p].at = "run"
    BY <1>1 DEF Running
  <2> QED BY <1>5, <2>1, CopiesStay DEF Prepared
<1>7. Obj' = [Obj EXCEPT ![p][h] = View(mem', o)] /\ Obj[p][h] = View(mem, o)
  <2>1. ASSUME NEW g \in Handles \ {h}
        PROVE  View(mem', held'[p][g]) = View(mem, held[p][g])
    <3>1. Owning(p, g) => \A a \in Span(held[p][g].ptr.addr, held[p][g].size) : mem'[a] = mem[a]
      BY <1>1, <1>2, <1>4, SlotFacts, OwnWritesApart DEF o
    <3>2. View(mem', held[p][g]) = View(mem, held[p][g])
      BY <3>1, SlotFacts, HeldInArena, ViewSame DEF Owning
    <3> QED BY <1>1, <3>2
  <2> QED BY <1>1, <1>5, <2>1, ObjOne DEF o
<1>8. View(mem', o) = [View(mem, o) EXCEPT ![k + 1] = v]
  <2>1. ASSUME NEW j \in 1 .. o.size
        PROVE  mem'[o.ptr.addr + j - 1] = IF j = k + 1 THEN v ELSE mem[o.ptr.addr + j - 1]
    <3> DEFINE a == o.ptr.addr
    <3>1. a \in Nat /\ o.size \in Nat /\ a + o.size <= Size /\ Size \in Nat /\ k \in Nat
      BY <1>2, <1>3, SizeAssumption DEF InArena
    <3> HIDE DEF a
    <3>2. a + j - 1 \in Addr
      BY <3>1 DEF Addr
    <3>3. a + j - 1 = a + k <=> j = k + 1
      BY <3>1
    <3> QED BY <1>1, <1>2, <1>3, <3>2, <3>3 DEF a
  <2> QED BY <1>2, <1>3, <2>1 DEF View
<1>9. Len(View(mem, o)) = o.size /\ View(mem, o) # << >>
  BY <1>2, ViewType
<1> HIDE DEF o
<1>10. /\ Obj[p][h] # << >> /\ k + 1 \in 1 .. Len(Obj[p][h])
       /\ Obj' = [Obj EXCEPT ![p][h] = [Obj[p][h] EXCEPT ![k + 1] = v]]
  <2>1. View(mem', o) = [Obj[p][h] EXCEPT ![k + 1] = v]
    BY <1>7, <1>8
  <2> QED BY <1>3, <1>7, <1>9, <2>1
<1>11. Abstract!Write(p, h)
  BY <1>1, <1>10 DEF Abstract!Write, Abstract!Set, Abstract!Absent
<1> QED BY <1>6, <1>11

\* realloc copies and alloc_zeroed clears a block that is nobody's object yet;
\* if the loop allowance ends there, that is what programs see of it.
LEMMA HelperSteps ==
  ASSUME IInv, Copied, NEW p \in Progs, RunHelper(p)
  PROVE  Copied' /\ Obj' = Obj /\ (spent' = spent \/ Abstract!Exhaust(p))
<1> DEFINE new == held[p][New]
           old == held[p][job[p].h]
           c == HelperCall(p)
<1>1. /\ job[p].at \in {"zero", "copy"} /\ Help(p) /\ Helping(p) /\ ~Running(p)
      /\ job' = [job EXCEPT ![p].at = IF job[p].at = "zero" THEN "give" ELSE "free"]
      /\ held' = held
  BY DEF RunHelper, Helping, Running
<1>2. /\ job[p].h \in Handles /\ Owning(p, New) /\ job[p].h \in Slots
      /\ New \in Slots /\ job[p].h # New
      /\ job[p].at = "copy" => Owning(p, job[p].h)
  BY <1>1, SlotFacts DEF IInv, JobsConsistent, JobOK
<1>3. InArena(new) /\ (job[p].at = "copy" => InArena(old))
  BY <1>2, HeldInArena
<1>4. /\ job'[p].h = job[p].h
      /\ job'[p].at = IF job[p].at = "zero" THEN "give" ELSE "free"
      /\ \A q \in Progs \ {p} : held'[q] = held[q] /\ job'[q] = job[q] /\ spent'[q] = spent[q]
  <2>1. spent' = spent \/ spent' = [spent EXCEPT ![p] = TRUE]
    BY <1>1, HelpWrites
  <2> QED BY <1>1, <2>1 DEF IInv, TypeOK
<1>5. Alone(p)
  BY <1>1, <1>4, HelpWrites, StepsAlone
<1>6. ASSUME ~spent'[p], job[p].at = "copy"
      PROVE  Keeps(mem', old, new)
  <2>1. spent' # [spent EXCEPT ![p] = TRUE]
    BY <1>6 DEF IInv, TypeOK
  <2>2. mem' = Effect(c, mem, Writes(c))
    BY <1>1, <2>1, HelpWrites
  <2>3. c = [op |-> "copy", dst |-> new.ptr.addr, src |-> old.ptr.addr,
             n |-> CopySize(old.size, new.size), c |-> 0]
    BY <1>6 DEF HelperCall
  <2>4. Span(new.ptr.addr, new.size) \cap Span(old.ptr.addr, old.size) = {}
    BY <1>2, <1>6, ObjectsApart
  <2>5. /\ new.ptr.addr \in Nat /\ old.ptr.addr \in Nat /\ new.size \in Nat /\ old.size \in Nat
        /\ Size \in Nat /\ new.ptr.addr + new.size <= Size /\ old.ptr.addr + old.size <= Size
    BY <1>3, <1>6, SizeAssumption DEF InArena
  <2> HIDE DEF new, old
  <2>6. ASSUME NEW k \in 1 .. new.size, k <= old.size
        PROVE  mem'[new.ptr.addr + k - 1] = mem'[old.ptr.addr + k - 1]
    <3> DEFINE a == new.ptr.addr + k - 1
               b == old.ptr.addr + k - 1
    <3>1. a \in Addr /\ b \in Addr /\ a - new.ptr.addr + old.ptr.addr = b
      BY <2>5, <2>6 DEF Addr
    <3>2. a \in Writes(c) /\ b \notin Writes(c)
      <4>1. Writes(c) = Span(new.ptr.addr, CopySize(old.size, new.size))
        BY <2>3 DEF Writes
      <4>2. a \in Span(new.ptr.addr, CopySize(old.size, new.size))
        BY <2>5, <2>6 DEF Span, CopySize
      <4>3. b \in Span(old.ptr.addr, old.size)
        BY <2>5, <2>6 DEF Span
      <4>4. Span(new.ptr.addr, CopySize(old.size, new.size)) \subseteq Span(new.ptr.addr, new.size)
        BY <2>5, ShorterSpan DEF CopySize
      <4> QED BY <2>4, <4>1, <4>2, <4>3, <4>4
    <3>3. NewByte(c, mem, a) = mem[b]
      BY <2>3, <3>1 DEF NewByte
    <3> HIDE DEF a, b, c
    <3>4. mem'[a] = mem[b] /\ mem'[b] = mem[b]
      BY <2>2, <3>1, <3>2, <3>3 DEF Effect
    <3> QED BY <3>4 DEF a, b
  <2> QED BY <2>6 DEF Keeps
<1>7. ASSUME ~spent'[p], job[p].at = "zero"
      PROVE  Cleared(mem', new)
  <2>1. spent' # [spent EXCEPT ![p] = TRUE]
    BY <1>7 DEF IInv, TypeOK
  <2>2. mem' = Effect(c, mem, Writes(c))
    BY <1>1, <2>1, HelpWrites
  <2>3. c = [op |-> "set", dst |-> new.ptr.addr, src |-> new.ptr.addr, n |-> new.size, c |-> 0]
    BY <1>7 DEF HelperCall
  <2>4. Writes(c) = Span(new.ptr.addr, new.size) /\ \A a : NewByte(c, mem, a) = 0
    BY <2>3, RadixAssumption DEF Writes, NewByte, AsByte
  <2> HIDE DEF c, new
  <2>5. ASSUME NEW k \in 1 .. new.size
        PROVE  mem'[new.ptr.addr + k - 1] = 0
    <3>1. new.ptr.addr + k - 1 \in Span(new.ptr.addr, new.size) /\ new.ptr.addr + k - 1 \in Addr
      BY <1>3, SizeAssumption DEF InArena, Span, Addr
    <3> QED BY <2>2, <2>4, <3>1 DEF Effect
  <2> QED BY <2>5 DEF Cleared
<1>8. Copied'
  <2>1. ~spent'[p] => Prepared(job'[p].at, mem', held'[p][job'[p].h], held'[p][New])
    BY <1>1, <1>4, <1>6, <1>7 DEF Prepared
  <2> QED BY <1>5, <2>1, CopiesStay
<1>9. Obj' = Obj
  <2>1. \A g \in Handles : View(mem', held'[p][g]) = View(mem, held[p][g])
    BY <1>1, SlotFacts, HelpWrites
  <2> QED BY <1>5, <2>1, ObjSame
<1>10. spent' = spent \/ spent' = [spent EXCEPT ![p] = TRUE]
  BY <1>1, HelpWrites
<1> QED BY <1>8, <1>9, <1>10 DEF Abstract!Exhaust

\* alloc_zeroed has cleared the block, and the handle takes it.
LEMMA ZeroedSteps ==
  ASSUME IInv, Copied, NEW p \in Progs, FinishZeroed(p)
  PROVE  Copied' /\ \E h \in Handles : Abstract!AllocZeroed(p, h)
<1> DEFINE h == job[p].h
           new == held[p][New]
<1>1. /\ job[p].at = "give" /\ ~Running(p)
      /\ held' = [held EXCEPT ![p][h] = new, ![p][New] = Nothing]
      /\ job' = [job EXCEPT ![p] = Idle]
      /\ mem' = mem /\ spent' = spent
  BY DEF FinishZeroed, Running
<1>2. h \in Handles /\ Owning(p, New) /\ ~Owning(p, h) /\ h \in Slots /\ New \in Slots /\ h # New
  BY <1>1, SlotFacts DEF IInv, JobsConsistent, JobOK
<1>3. InArena(new) /\ new.size \in Sizes /\ mem \in [Addr -> Byte]
  BY <1>1, <1>2, HeldInArena DEF IInv, TypeOK
<1>4. /\ held'[p][h] = new /\ held'[p][New] = Nothing /\ job'[p].at = "run"
      /\ \A q \in Progs \ {p} : held'[q] = held[q] /\ job'[q] = job[q] /\ spent'[q] = spent[q]
      /\ \A s \in Slots : s \notin {h, New} => held'[p][s] = held[p][s]
  <2>1. /\ held' = [held EXCEPT ![p] = [held[p] EXCEPT ![h] = new, ![New] = Nothing]]
        /\ held[p] \in [Slots -> Objects \cup {Nothing}]
    BY <1>1 DEF IInv, TypeOK
  <2> HIDE DEF new, h
  <2> QED BY <1>1, <1>2, <2>1 DEF IInv, TypeOK, Idle
<1>5. Alone(p)
  BY <1>1, <1>4, StepsAlone DEF OwnWrites
<1>6. Copied'
  BY <1>4, <1>5, CopiesStay DEF Prepared
<1>7. Obj' = [Obj EXCEPT ![p][h] = View(mem, new)] /\ Obj[p][h] = << >>
  <2>1. ASSUME NEW g \in Handles \ {h}
        PROVE  View(mem', held'[p][g]) = View(mem, held[p][g])
    <3>1. g \in Slots /\ g # New /\ held'[p][g] = held[p][g]
      BY <1>4, SlotFacts
    <3> QED BY <1>1, <3>1
  <2>2. View(mem, held[p][h]) = << >>
    BY <1>2 DEF View, Owning
  <2> HIDE DEF h
  <2>3. Obj' = [Obj EXCEPT ![p][h] = View(mem', held'[p][h])] /\ Obj[p][h] = View(mem, held[p][h])
    BY <1>2, <1>5, <2>1, ObjOne
  <2> HIDE DEF new
  <2> QED BY <1>1, <1>4, <2>2, <2>3
<1>8. spent[p] \/ Cleared(mem, new)
  BY <1>1 DEF Copied, Prepared
<1>9. /\ View(mem, new) \in [1 .. new.size -> Byte]
      /\ \A k \in 1 .. new.size : View(mem, new)[k] = mem[new.ptr.addr + k - 1]
  BY <1>3, ViewType
<1> HIDE DEF new, h
<1>10. spent[p] \/ \A k \in 1 .. new.size : View(mem, new)[k] = 0
  BY <1>8, <1>9 DEF Cleared
<1>11. Abstract!AllocZeroed(p, h)
  BY <1>1, <1>3, <1>7, <1>9, <1>10 DEF Abstract!AllocZeroed, Abstract!Set, Abstract!Absent
<1> QED BY <1>2, <1>6, <1>11

\* realloc frees the old block, and the handle takes the copy.
LEMMA ReallocSteps ==
  ASSUME IInv, Copied, NEW p \in Progs, FinishRealloc(p)
  PROVE  Copied' /\ \E h \in Handles : Abstract!Realloc(p, h)
<1> DEFINE h == job[p].h
           new == held[p][New]
           old == held[p][h]
<1>1. /\ job[p].at = "free" /\ ~Running(p)
      /\ held' = [held EXCEPT ![p][h] = new, ![p][New] = Nothing]
      /\ job' = [job EXCEPT ![p] = Idle]
      /\ mem' = mem /\ spent' = spent
  BY DEF FinishRealloc, Running
<1>2. h \in Handles /\ Owning(p, New) /\ Owning(p, h) /\ h \in Slots /\ New \in Slots /\ h # New
  BY <1>1, SlotFacts DEF IInv, JobsConsistent, JobOK
<1>3. InArena(new) /\ new.size \in Sizes /\ InArena(old) /\ mem \in [Addr -> Byte]
  BY <1>2, HeldInArena DEF IInv, TypeOK
<1>4. /\ held'[p][h] = new /\ held'[p][New] = Nothing /\ job'[p].at = "run"
      /\ \A q \in Progs \ {p} : held'[q] = held[q] /\ job'[q] = job[q] /\ spent'[q] = spent[q]
      /\ \A s \in Slots : s \notin {h, New} => held'[p][s] = held[p][s]
  <2>1. /\ held' = [held EXCEPT ![p] = [held[p] EXCEPT ![h] = new, ![New] = Nothing]]
        /\ held[p] \in [Slots -> Objects \cup {Nothing}]
    BY <1>1 DEF IInv, TypeOK
  <2> HIDE DEF new, h
  <2> QED BY <1>1, <1>2, <2>1 DEF IInv, TypeOK, Idle
<1>5. Alone(p)
  BY <1>1, <1>4, StepsAlone DEF OwnWrites
<1>6. Copied'
  BY <1>4, <1>5, CopiesStay DEF Prepared
<1>7. Obj' = [Obj EXCEPT ![p][h] = View(mem, new)] /\ Obj[p][h] = View(mem, old)
  <2>1. ASSUME NEW g \in Handles \ {h}
        PROVE  View(mem', held'[p][g]) = View(mem, held[p][g])
    <3>1. g \in Slots /\ g # New /\ held'[p][g] = held[p][g]
      BY <1>4, SlotFacts
    <3> QED BY <1>1, <3>1
  <2> HIDE DEF h
  <2>2. Obj' = [Obj EXCEPT ![p][h] = View(mem', held'[p][h])] /\ Obj[p][h] = View(mem, held[p][h])
    BY <1>2, <1>5, <2>1, ObjOne
  <2> HIDE DEF new
  <2> QED BY <1>1, <1>4, <2>2
<1>8. spent[p] \/ Keeps(mem, old, new)
  BY <1>1 DEF Copied, Prepared
<1>9. /\ View(mem, new) \in [1 .. new.size -> Byte]
      /\ View(mem, old) # << >> /\ Len(View(mem, old)) = old.size
      /\ \A k \in 1 .. new.size : View(mem, new)[k] = mem[new.ptr.addr + k - 1]
      /\ \A k \in 1 .. old.size : View(mem, old)[k] = mem[old.ptr.addr + k - 1]
  BY <1>3, ViewType
<1> HIDE DEF new, old, h
<1>10. spent[p] \/ \A k \in 1 .. new.size :
         k <= Len(View(mem, old)) => View(mem, new)[k] = View(mem, old)[k]
  <2>1. ASSUME Keeps(mem, old, new), NEW k \in 1 .. new.size, k <= Len(View(mem, old))
        PROVE  View(mem, new)[k] = View(mem, old)[k]
    <3>1. k <= old.size /\ k \in 1 .. old.size
      BY <1>3, <1>9, <2>1 DEF InArena
    <3>2. mem[new.ptr.addr + k - 1] = mem[old.ptr.addr + k - 1]
      BY <2>1, <3>1 DEF Keeps
    <3> QED BY <1>9, <3>1, <3>2
  <2> QED BY <1>8, <2>1
<1>11. Abstract!Realloc(p, h)
  BY <1>1, <1>3, <1>7, <1>9, <1>10 DEF Abstract!Realloc, Abstract!Set, Abstract!Absent
<1> QED BY <1>2, <1>6, <1>11

\* The program returns with nothing left, or traps and loses all it had.
LEMMA EndSteps ==
  ASSUME IInv, Copied, NEW p \in Progs, Return(p) \/ Panic(p)
  PROVE  Copied' /\ Abstract!End(p)
<1>1. /\ Running(p) /\ mem' = mem /\ job' = job /\ spent' = [spent EXCEPT ![p] = FALSE]
      /\ \A q \in Progs \ {p} : held'[q] = held[q] /\ job'[q] = job[q] /\ spent'[q] = spent[q]
      /\ \A h \in Handles : held'[p][h] = Nothing
  BY SlotFacts DEF Return, Panic, Owning, IInv, TypeOK
<1>2. Alone(p)
  BY <1>1, StepsAlone DEF OwnWrites
<1>3. Copied'
  <2>1. job'[p].at = "run"
    BY <1>1 DEF Running
  <2> QED BY <1>2, <2>1, CopiesStay DEF Prepared
<1>4. Obj' = [Obj EXCEPT ![p] = [h \in Handles |-> << >>]]
  <2>1. \A q \in Progs \ {p}, h \in Handles : View(mem', held'[q][h]) = View(mem, held[q][h])
    BY <1>2, SlotFacts DEF Alone
  <2>2. \A h \in Handles : View(mem', held'[p][h]) = << >>
    BY <1>1 DEF View
  <2> QED BY <2>1, <2>2, ObjIs
<1> QED BY <1>1, <1>3, <1>4 DEF Abstract!End, Abstract!Absent
-----------------------------------------------------------------------------
LEMMA StepsRefine ==
  ASSUME IInv, HostEnough, Copied, Next, ~UNCHANGED vars
  PROVE  Copied' /\ Steps
<1> USE DEF Steps, Abstract!Next, Abstract!vars
<1>1. ASSUME NEW p \in Progs, NEW h \in Handles, NEW l \in Layouts, Alloc(p, h, l)
      PROVE  Copied' /\ Steps
  <2>1. l.size \in Sizes /\ l.align \in Aligns
    BY LayoutType
  <2>2. request_size(l) \in Nat /\ l.size <= request_size(l)
    BY <2>1, RequestCovers
  <2>3. PICK ptr \in Pointer : arena_malloc(request_size(l), ptr) /\ Hold(p, h, ptr, l.size, l.align)
    BY <1>1 DEF Alloc
  <2>4. Copied' /\ Abstract!Alloc(p, h)
    BY <1>1, <2>1, <2>2, <2>3, GainSteps DEF Alloc
  <2> QED BY <2>4
<1>2. ASSUME NEW p \in Progs, NEW h \in Handles, NEW n \in RawSizes, RawMalloc(p, h, n)
      PROVE  Copied' /\ Steps
  <2>1. n \in Sizes /\ n \in Nat /\ 1 \in Aligns /\ n <= n
    <3>1. n \in Nat \ {0}
      BY RawAssumption
    <3> QED BY <3>1 DEF Sizes, Aligns
  <2>2. PICK ptr \in Pointer : /\ arena_malloc(n, ptr) \/ arena_malloc_internal(n, ptr)
                               /\ Hold(p, h, ptr, n, 1)
    BY <1>2 DEF RawMalloc
  <2>3. Copied' /\ Abstract!Alloc(p, h)
    BY <1>2, <2>1, <2>2, GainSteps DEF RawMalloc
  <2> QED BY <2>3
<1>3. ASSUME NEW p \in Progs, NEW h \in Handles,
             \/ \E l \in Layouts : StartZeroed(p, h, l)
             \/ \E n \in Sizes : StartRealloc(p, h, n)
      PROVE  Copied' /\ Steps
  <2>1. /\ \E ptr, size, align : Hold(p, New, ptr, size, align)
        /\ \/ job' = [job EXCEPT ![p] = [at |-> "zero", h |-> h]]
           \/ job' = [job EXCEPT ![p] = [at |-> "copy", h |-> h]]
        /\ mem' = mem /\ spent' = spent
    BY <1>3 DEF StartZeroed, StartRealloc
  <2>2. /\ \A q \in Progs \ {p} : held'[q] = held[q] /\ job'[q] = job[q]
        /\ \A g \in Handles : held'[p][g] = held[p][g]
        /\ job'[p].at \notin {"free", "give"}
    BY <2>1, SlotFacts DEF Hold, IInv, TypeOK
  <2>3. Copied' /\ Obj' = Obj
    BY <2>1, <2>2, HiddenSteps
  <2> QED BY <2>1, <2>3
<1>4. ASSUME NEW p \in Progs, NEW h \in Handles, Dealloc(p, h) \/ RawFreeUser(p, h)
      PROVE  Copied' /\ Steps
  <2>1. Copied' /\ Abstract!Dealloc(p, h)
    BY <1>4, LoseSteps DEF Dealloc, RawFreeUser
  <2> QED BY <2>1
<1>5. ASSUME NEW p \in Progs, NEW h \in Handles, CastHandle(p, h)
      PROVE  Copied' /\ Steps
  <2>1. PICK ptr \in {cast_kern(held[p][h].ptr), cast_user(held[p][h].ptr)} :
          held' = [held EXCEPT ![p][h].ptr = ptr]
    BY <1>5 DEF CastHandle
  <2>2. /\ Running(p) /\ Owning(p, h) /\ UNCHANGED <<mem, blocks, job, spent, lost>> /\ h \in Slots
        /\ held[p][h] \in Objects /\ held[p][h].ptr \in Pointer
    BY <1>5, SlotFacts, ObjectInBlock DEF CastHandle
  <2>3. ptr \in Pointer /\ ptr.addr = held[p][h].ptr.addr
    BY <2>1, <2>2, CastType
  <2> DEFINE o == [ptr |-> ptr, size |-> held[p][h].size, align |-> held[p][h].align]
  <2>4. o # Nothing /\ held[p][h] # Nothing /\ [held[p][h] EXCEPT !.ptr = ptr] = o
    BY <2>2, <2>3, NullAssumption DEF Objects
  <2>5. /\ held'[p][h] = o
        /\ \A q \in Progs \ {p} : held'[q] = held[q] /\ job'[q] = job[q]
        /\ \A s \in Slots \ {h} : held'[p][s] = held[p][s]
    BY <2>1, <2>2, <2>4 DEF IInv, TypeOK
  <2>6. View(mem, o) = View(mem, held[p][h])
    BY <2>3, <2>4 DEF View
  <2>7. \A g \in Handles : View(mem, held'[p][g]) = View(mem, held[p][g])
    BY <2>5, <2>6, SlotFacts
  <2>8. Copied' /\ Obj' = Obj
    BY <2>2, <2>5, <2>7, HiddenSteps DEF Running
  <2> QED BY <2>2, <2>8
<1>6. ASSUME NEW p \in Progs, NEW h \in Handles, NEW k \in Addr, NEW v \in Byte, Write(p, h, k, v)
      PROVE  Copied' /\ Steps
  <2>1. Copied' /\ Abstract!Write(p, h)
    BY <1>6, WriteSteps
  <2> QED BY <2>1
<1>7. ASSUME NEW p \in Progs, FinishZeroed(p)
      PROVE  Copied' /\ Steps
  <2>1. Copied' /\ \E h \in Handles : Abstract!AllocZeroed(p, h)
    BY <1>7, ZeroedSteps
  <2> QED BY <2>1
<1>8. ASSUME NEW p \in Progs, RunHelper(p)
      PROVE  Copied' /\ Steps
  <2>1. Copied' /\ Obj' = Obj /\ (spent' = spent \/ Abstract!Exhaust(p))
    BY <1>8, HelperSteps
  <2> QED BY <2>1
<1>9. ASSUME NEW p \in Progs, FinishRealloc(p)
      PROVE  Copied' /\ Steps
  <2>1. Copied' /\ \E h \in Handles : Abstract!Realloc(p, h)
    BY <1>9, ReallocSteps
  <2> QED BY <2>1
<1>10. ASSUME NEW p \in Progs, Return(p) \/ Panic(p)
       PROVE  Copied' /\ Steps
  <2>1. Copied' /\ Abstract!End(p)
    BY <1>10, EndSteps
  <2> QED BY <2>1
<1> QED
  BY <1>1, <1>2, <1>3, <1>4, <1>5, <1>6, <1>7, <1>8, <1>9, <1>10, RefusalIsVain DEF Next

(***************************************************************************)
(* The allocator gives every program objects of its own, whatever the      *)
(* interleaving of allocations, reallocations and writes: ArenaHeap        *)
(* implements HeapObjects.                                                 *)
(***************************************************************************)
THEOREM ImplementsObjects == HostEnough => (Spec => ImplementsHeapObjects)
<1> SUFFICES ASSUME HostEnough PROVE Spec => ImplementsHeapObjects
  OBVIOUS
<1>1. Init => Abstract!Init /\ Copied
  <2> SUFFICES ASSUME Init PROVE Abstract!Init /\ Copied
    OBVIOUS
  <2>1. \A p \in Progs, h \in Handles : View(mem, held[p][h]) = << >>
    BY SlotFacts DEF Init, View
  <2>2. Obj = [p \in Progs |-> [h \in Handles |-> << >>]]
    BY <2>1, ObjIs
  <2>3. Copied
    BY DEF Init, Copied, Prepared, Idle
  <2> QED BY <2>2, <2>3 DEF Init, Abstract!Init, Abstract!Absent
<1>2. IInv /\ Copied /\ [Next]_vars => Copied' /\ Steps
  <2> SUFFICES ASSUME IInv, Copied, [Next]_vars PROVE Copied' /\ Steps
    OBVIOUS
  <2>1. CASE Next /\ ~UNCHANGED vars
    BY <2>1, StepsRefine
  <2>2. CASE UNCHANGED vars
    <3>1. UNCHANGED <<mem, held, job, spent>>
      BY <2>2 DEF vars
    <3>2. Copied'
      BY <3>1 DEF Copied, Prepared, Keeps, Cleared
    <3>3. Obj' = Obj
      BY <3>1, ObjIs
    <3> QED BY <3>1, <3>2, <3>3 DEF Steps
  <2> QED BY <2>1, <2>2
<1>3. Steps => [Abstract!Next]_(Abstract!vars)
  BY DEF Steps, Abstract!vars
<1>4. Spec => []IInv
  BY HeapCorrect
<1> QED BY <1>1, <1>2, <1>3, <1>4, PTL DEF Spec, ImplementsHeapObjects, Abstract!Spec
-----------------------------------------------------------------------------
(* The allocator as a client of the memory helpers.                        *)

\* The abstract helpers speak of the same calls.
LEMMA HelperVocabulary ==
  /\ Helpers!Calls = Calls /\ Helpers!NoCall = NoCall
  /\ Helpers!Addr = Addr /\ Helpers!Byte = Byte
  /\ \A c : Helpers!Writes(c) = Writes(c) /\ Helpers!Footprint(c) = Footprint(c)
  /\ \A c, d : Helpers!Apart(c, d) = Apart(c, d)
  /\ \A c, m, done : Helpers!Effect(c, m, done) = Effect(c, m, done)
<1>1. /\ Helpers!Calls = Calls /\ Helpers!NoCall = NoCall
      /\ Helpers!Addr = Addr /\ Helpers!Byte = Byte
  BY DEF Helpers!Calls, Calls, Helpers!NoCall, NoCall, Helpers!Addr, Addr, Helpers!Byte, Byte
<1>2. \A c : Helpers!Writes(c) = Writes(c) /\ Helpers!Footprint(c) = Footprint(c)
  BY DEF Helpers!Writes, Writes, Helpers!Footprint, Footprint, Helpers!Reads, Reads,
         Helpers!Span, Span
<1>3. \A c, d : Helpers!Apart(c, d) = Apart(c, d)
  BY <1>2 DEF Helpers!Apart, Apart
<1>4. \A c, m, done : Helpers!Effect(c, m, done) = Effect(c, m, done)
  BY <1>1 DEF Helpers!Effect, Effect, Helpers!NewByte, NewByte, Helpers!AsByte, AsByte
<1> QED BY <1>1, <1>2, <1>3, <1>4

\* Where p is, as the helpers see it.
LEMMA HelperAt ==
  ASSUME NEW p \in Progs
  PROVE  /\ Running(p) => HelperPc[p] = "idle" /\ HelperArgs[p] = NoCall
         /\ Helping(p) => HelperPc[p] # "idle" /\ HelperArgs[p] = HelperCall(p)
         /\ job[p].at \in {"zero", "copy"} => HelperPc[p] = "loop"
         /\ job[p].at \in {"give", "free"} => HelperPc[p] = "ret"
BY DEF HelperPc, HelperArgs, Helping, Running

LEMMA HelperAtNext ==
  ASSUME NEW p \in Progs
  PROVE  /\ Running(p)' => HelperPc'[p] = "idle" /\ HelperArgs'[p] = NoCall
         /\ Helping(p)' => HelperPc'[p] # "idle" /\ HelperArgs'[p] = HelperCall(p)'
         /\ job'[p].at \in {"zero", "copy"} => HelperPc'[p] = "loop"
         /\ job'[p].at \in {"give", "free"} => HelperPc'[p] = "ret"
BY DEF HelperPc, HelperArgs, Helping, Running

\* A step of p changes no other program's call.
LEMMA HelperChange ==
  ASSUME NEW p \in Progs, \A q \in Progs \ {p} : held'[q] = held[q] /\ job'[q] = job[q]
  PROVE  /\ HelperPc' = [HelperPc EXCEPT ![p] = HelperPc'[p]]
         /\ HelperArgs' = [HelperArgs EXCEPT ![p] = HelperArgs'[p]]
         /\ \A q \in Progs \ {p} : HelperCall(q)' = HelperCall(q) /\ (Helping(q)' <=> Helping(q))
<1>1. \A q \in Progs \ {p} : /\ HelperCall(q)' = HelperCall(q)
                             /\ (Running(q)' <=> Running(q)) /\ (Helping(q)' <=> Helping(q))
  BY DEF HelperCall, Running, Helping
<1>2. \A q \in Progs \ {p} : HelperPc'[q] = HelperPc[q] /\ HelperArgs'[q] = HelperArgs[q]
  BY <1>1 DEF HelperPc, HelperArgs
<1>3. /\ HelperPc = [q \in Progs |-> HelperPc[q]] /\ HelperPc' = [q \in Progs |-> HelperPc'[q]]
      /\ HelperArgs = [q \in Progs |-> HelperArgs[q]]
      /\ HelperArgs' = [q \in Progs |-> HelperArgs'[q]]
  BY DEF HelperPc, HelperArgs
<1> HIDE DEF HelperPc, HelperArgs
<1> QED BY <1>1, <1>2, <1>3

\* A program that is in no helper gains, loses or casts an allocation.
LEMMA HandleUnseen ==
  ASSUME NEW p \in Progs, Running(p), UNCHANGED <<mem, job, spent>>,
         \A q \in Progs \ {p} : held'[q] = held[q]
  PROVE  UNCHANGED Helpers!vars
<1>1. Running(p)' /\ HelperPc'[p] = HelperPc[p] /\ HelperArgs'[p] = HelperArgs[p]
  BY HelperAt, HelperAtNext DEF Running
<1>2. HelperPc' = [HelperPc EXCEPT ![p] = HelperPc[p]] /\ HelperArgs' = [HelperArgs EXCEPT ![p] = HelperArgs[p]]
  BY <1>1, HelperChange
<1>3. HelperPc' = HelperPc /\ HelperArgs' = HelperArgs
  BY <1>2 DEF HelperPc, HelperArgs
<1> QED BY <1>3 DEF Helpers!vars

\* realloc or alloc_zeroed calls its helper.
LEMMA StartInvokes ==
  ASSUME IInv, IInv', NEW p \in Progs, Running(p), Helping(p)', UNCHANGED <<mem, spent>>,
         job'[p].at \in {"zero", "copy"},
         \A q \in Progs \ {p} : held'[q] = held[q] /\ job'[q] = job[q]
  PROVE  \E c \in Calls : Helpers!Invoke(p, c)
<1> DEFINE c == HelperCall(p)'
<1>1. HelpersUsedWell' /\ HelpersUsedWell
  BY UsedWell, PTL
<1>2. /\ c \in Calls
      /\ \A q \in Progs \ {p} : Helping(q) => Apart(c, HelperCall(q))
  <2>1. c \in Calls /\ \A q \in Progs \ {p} : Helping(q)' => Apart(HelperCall(p), HelperCall(q))'
    BY <1>1 DEF HelpersUsedWell
  <2>2. \A q \in Progs \ {p} : Helping(q)' => Apart(c, HelperCall(q)')
    BY <2>1 DEF Apart, Footprint, Writes, Reads
  <2> HIDE DEF c
  <2> QED BY <2>1, <2>2, HelperChange
<1>3. HelperPc[p] = "idle" /\ HelperPc'[p] = "loop" /\ HelperArgs'[p] = c
  BY HelperAt, HelperAtNext
<1>4. \A q \in Progs \ {p} : HelperPc[q] # "idle" => Helping(q) /\ HelperArgs[q] = HelperCall(q)
  BY HelperAt DEF Helping
<1>5. HelperPc' = [HelperPc EXCEPT ![p] = "loop"] /\ HelperArgs' = [HelperArgs EXCEPT ![p] = c]
  BY <1>3, HelperChange
<1> HIDE DEF c
<1>6. Helpers!Invoke(p, c)
  BY <1>2, <1>3, <1>4, <1>5, HelperVocabulary DEF Helpers!Invoke
<1> QED BY <1>2, <1>6

\* The helper's step, whole or cut short.
LEMMA HelperRuns ==
  ASSUME IInv, NEW p \in Progs, RunHelper(p)
  PROVE  Helpers!Complete(p) \/ Helpers!Curtail(p)
<1> DEFINE c == HelperCall(p)
           Zeros == [q \in Progs |-> 0]
<1>1. /\ job[p].at \in {"zero", "copy"} /\ Help(p) /\ Helping(p) /\ held' = held
      /\ job' = [job EXCEPT ![p].at = IF job[p].at = "zero" THEN "give" ELSE "free"]
  BY DEF RunHelper, Helping, Running
<1>2. /\ \A q \in Progs \ {p} : held'[q] = held[q] /\ job'[q] = job[q]
      /\ job'[p].at \in {"give", "free"} /\ Helping(p)' /\ HelperCall(p)' = c
  BY <1>1 DEF IInv, TypeOK, Helping, Running, HelperCall
<1>3. HelperPc[p] = "loop" /\ HelperPc'[p] = "ret" /\ HelperArgs[p] = c /\ HelperArgs'[p] = c
  BY <1>1, <1>2, HelperAt, HelperAtNext
<1>4. HelperPc' = [HelperPc EXCEPT ![p] = "ret"] /\ HelperArgs' = HelperArgs
  <2>1. HelperPc' = [HelperPc EXCEPT ![p] = "ret"] /\ HelperArgs' = [HelperArgs EXCEPT ![p] = c]
    BY <1>2, <1>3, HelperChange
  <2>2. HelperArgs = [HelperArgs EXCEPT ![p] = HelperArgs[p]]
    BY DEF HelperArgs
  <2> HIDE DEF c
  <2> QED BY <1>3, <2>1, <2>2
<1>5. c \in Calls /\ c.n \in Nat /\ c.n > 0 /\ c.op # "compare"
  <2>1. c \in Calls /\ Owning(p, New) /\ New \in Slots
    BY <1>1, HelperCallGood, SlotFacts
  <2>2. held[p][New].size \in Nat \ {0}
    BY <2>1, ObjectInBlock
  <2>3. c.op # "compare" /\ c.n \in {held[p][New].size, CopySize(held[p][job[p].h].size, held[p][New].size)}
    BY DEF HelperCall
  <2>4. job[p].at = "copy" => held[p][job[p].h].size \in Nat \ {0}
    <3>1. job[p].at = "copy" => Owning(p, job[p].h) /\ job[p].h \in Slots
      BY <1>1, HelperCallGood, SlotFacts
    <3> QED BY <3>1, ObjectInBlock
  <2>5. c.n \in Nat \ {0}
    BY <1>1, <2>2, <2>4 DEF HelperCall, CopySize
  <2> HIDE DEF c
  <2> QED BY <2>1, <2>3, <2>5
<1>6. Zeros = [Zeros EXCEPT ![p] = 0] /\ Answers(c, mem, 0)
  BY <1>5 DEF Answers
<1>7. CASE ~spent[p] /\ mem' = Effect(c, mem, Writes(c)) /\ spent' = spent
  <2> HIDE DEF c
  <2>1. Helpers!Answers(c, mem, 0)
    BY <1>5 DEF Helpers!Answers
  <2> QED BY <1>3, <1>4, <1>6, <1>7, <2>1, HelperVocabulary DEF Helpers!Complete
<1>8. CASE /\ \E done \in SUBSET Writes(c) : mem' = Effect(c, mem, done)
           /\ spent' = [spent EXCEPT ![p] = TRUE]
  <2> HIDE DEF c
  <2> QED BY <1>3, <1>4, <1>5, <1>8, HelperVocabulary DEF Helpers!Curtail
<1> QED BY <1>1, <1>7, <1>8 DEF Help

\* realloc or alloc_zeroed goes on to its end.
LEMMA FinishResumes ==
  ASSUME IInv, NEW p \in Progs, FinishZeroed(p) \/ FinishRealloc(p)
  PROVE  Helpers!Resume(p)
<1>1. /\ job[p].at \in {"give", "free"} /\ job' = [job EXCEPT ![p] = Idle]
      /\ held' = [held EXCEPT ![p][job[p].h] = held[p][New], ![p][New] = Nothing]
      /\ UNCHANGED <<mem, spent>>
  BY DEF FinishZeroed, FinishRealloc
<1>2. Running(p)' /\ \A q \in Progs \ {p} : held'[q] = held[q] /\ job'[q] = job[q]
  BY <1>1 DEF IInv, TypeOK, Running, Idle
<1>3. HelperPc[p] = "ret" /\ HelperPc'[p] = "idle" /\ HelperArgs'[p] = NoCall
  BY <1>1, <1>2, HelperAt, HelperAtNext
<1>4. HelperPc' = [HelperPc EXCEPT ![p] = "idle"] /\ HelperArgs' = [HelperArgs EXCEPT ![p] = NoCall]
  BY <1>2, <1>3, HelperChange
<1> QED BY <1>1, <1>3, <1>4, HelperVocabulary DEF Helpers!Resume

\* What an owner writes belongs to no call in progress.
LEMMA WriteStores ==
  ASSUME IInv, NEW p \in Progs, NEW h \in Handles, NEW k \in Addr, NEW v \in Byte,
         Write(p, h, k, v)
  PROVE  \E a \in Addr : Helpers!Store(p, a, v)
<1> DEFINE o == held[p][h]
           x == o.ptr.addr + k
<1>1. /\ Running(p) /\ Owning(p, h) /\ k < o.size /\ h \in Slots
      /\ mem' = [mem EXCEPT ![x] = v] /\ UNCHANGED <<held, job, spent>>
  BY SlotFacts DEF Write
<1>2. /\ x \in Addr /\ x \in Span(o.ptr.addr, o.size)
  <2>1. o.ptr.addr \in Nat /\ o.size \in Nat /\ o.ptr.addr + o.size <= Size /\ k \in Nat
    BY <1>1, ObjectInBlock, SizeAssumption DEF Addr
  <2> HIDE DEF o
  <2> QED BY <1>1, <2>1, SizeAssumption DEF Addr, Span
<1>3. ASSUME NEW q \in Progs, HelperPc[q] # "idle"
      PROVE  x \notin Footprint(HelperArgs[q])
  <2> DEFINE Own(s) == Span(held[q][s].ptr.addr, held[q][s].size)
  <2>1. Helping(q) /\ q # p /\ HelperArgs[q] = HelperCall(q)
    BY <1>1, <1>3, HelperAt DEF Helping
  <2>2. \A s \in Slots : Owning(q, s) => x \notin Own(s)
    BY <1>1, <1>2, <2>1, ObjectsApart
  <2>3. /\ Owning(q, New) /\ Writes(HelperCall(q)) \subseteq Own(New) /\ New \in Slots
        /\ job[q].h \in Slots
        /\ \/ Reads(HelperCall(q)) = {}
           \/ Owning(q, job[q].h) /\ Reads(HelperCall(q)) \subseteq Own(job[q].h)
    BY <2>1, HelperCallGood, SlotFacts
  <2> HIDE DEF Own, x
  <2> QED BY <2>1, <2>2, <2>3 DEF Footprint
<1>4. HelperPc' = HelperPc /\ HelperArgs' = HelperArgs /\ HelperPc[p] = "idle"
  BY <1>1, HelperAt DEF HelperPc, HelperArgs, HelperCall, Running
<1> HIDE DEF x
<1>5. Helpers!Store(p, x, v)
  BY <1>1, <1>3, <1>4, HelperVocabulary DEF Helpers!Store
<1> QED BY <1>2, <1>5

\* A program ends outside every helper.
LEMMA EndReruns ==
  ASSUME IInv, NEW p \in Progs, Return(p) \/ Panic(p)
  PROVE  Helpers!Rerun(p)
<1>1. /\ Running(p) /\ mem' = mem /\ job' = job /\ spent' = [spent EXCEPT ![p] = FALSE]
      /\ \A q \in Progs \ {p} : held'[q] = held[q]
  BY DEF Return, Panic, IInv, TypeOK
<1>2. HelperPc[p] = "idle" /\ HelperPc'[p] = HelperPc[p] /\ HelperArgs'[p] = HelperArgs[p]
  BY <1>1, HelperAt, HelperAtNext DEF Running
<1>3. HelperPc' = [HelperPc EXCEPT ![p] = HelperPc[p]] /\ HelperArgs' = [HelperArgs EXCEPT ![p] = HelperArgs[p]]
  BY <1>1, <1>2, HelperChange
<1>4. HelperPc' = HelperPc /\ HelperArgs' = HelperArgs
  BY <1>3 DEF HelperPc, HelperArgs
<1> QED BY <1>1, <1>2, <1>4 DEF Helpers!Rerun

(***************************************************************************)
(* The allocator keeps to the contract on which the helpers were proved    *)
(* correct: every step of it is a step that MemCalls allows its callers.   *)
(***************************************************************************)
THEOREM KeepsContract == HostEnough => (Spec => UsesMemCalls)
<1> SUFFICES ASSUME HostEnough PROVE Spec => UsesMemCalls
  OBVIOUS
<1>1. Init => Helpers!Init
  <2> SUFFICES ASSUME Init PROVE Helpers!Init
    OBVIOUS
  <2>1. HelperPc = [p \in Progs |-> "idle"] /\ HelperArgs = [p \in Progs |-> NoCall]
    BY DEF Init, Idle, HelperPc, HelperArgs, Running
  <2> QED BY <2>1, HelperVocabulary DEF Init, Helpers!Init
<1>2. IInv /\ IInv' /\ [Next]_vars => [Helpers!Next]_(Helpers!vars)
  <2> SUFFICES ASSUME IInv, IInv', [Next]_vars PROVE [Helpers!Next]_(Helpers!vars)
    OBVIOUS
  <2>1. ASSUME NEW p \in Progs, NEW h \in Handles,
               \/ \E l \in Layouts : Alloc(p, h, l)
               \/ \E n \in RawSizes : RawMalloc(p, h, n)
               \/ Dealloc(p, h) \/ RawFreeUser(p, h) \/ CastHandle(p, h)
        PROVE  UNCHANGED Helpers!vars
    <3>1. /\ Running(p) /\ UNCHANGED <<mem, job, spent>>
          /\ \/ \E o : held' = [held EXCEPT ![p][h] = o]
             \/ \E ptr : held' = [held EXCEPT ![p][h].ptr = ptr]
      BY <2>1 DEF Alloc, RawMalloc, Dealloc, RawFreeUser, CastHandle, Hold
    <3>2. \A q \in Progs \ {p} : held'[q] = held[q]
      BY <3>1 DEF IInv, TypeOK
    <3> QED BY <3>1, <3>2, HandleUnseen
  <2>2. ASSUME NEW p \in Progs, NEW h \in Handles,
               \/ \E l \in Layouts : StartZeroed(p, h, l)
               \/ \E n \in Sizes : StartRealloc(p, h, n)
        PROVE  \E c \in Calls : Helpers!Invoke(p, c)
    <3>1. /\ Running(p) /\ UNCHANGED <<mem, spent>>
          /\ \E o : held' = [held EXCEPT ![p][New] = o]
          /\ \/ job' = [job EXCEPT ![p] = [at |-> "zero", h |-> h]]
             \/ job' = [job EXCEPT ![p] = [at |-> "copy", h |-> h]]
      BY <2>2 DEF StartZeroed, StartRealloc, Hold
    <3>2. /\ job'[p].at \in {"zero", "copy"} /\ Helping(p)'
          /\ \A q \in Progs \ {p} : held'[q] = held[q] /\ job'[q] = job[q]
      BY <3>1 DEF IInv, TypeOK, Helping, Running
    <3> QED BY <3>1, <3>2, StartInvokes
  <2>3. CASE UNCHANGED vars
    <3>1. UNCHANGED <<mem, held, job, spent>>
      BY <2>3 DEF vars
    <3>2. HelperPc' = HelperPc /\ HelperArgs' = HelperArgs
      BY <3>1 DEF HelperPc, HelperArgs, HelperCall, Running
    <3> QED BY <3>1, <3>2 DEF Helpers!vars
  <2> QED
    BY <2>1, <2>2, <2>3, RefusalIsVain, HelperRuns, FinishResumes, WriteStores, EndReruns, HelperVocabulary
       DEF Next, Helpers!Next
<1>3. Spec => []IInv
  BY HeapCorrect
<1> QED BY <1>1, <1>2, <1>3, PTL DEF Spec, UsesMemCalls, Helpers!Spec
=============================================================================
