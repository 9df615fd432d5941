----------------------------- MODULE ArenaHeap ------------------------------
(***************************************************************************)
(* ArenaAlloc (src/arena_alloc.rs) and the raw entry points (src/raw.rs,   *)
(* src/cast.rs): BPF programs on several CPUs allocate from one arena.     *)
(* The libarena buddy allocator, Rust's default realloc and alloc_zeroed   *)
(* and the addr_space_cast instruction are external and modelled as this   *)
(* crate uses them.  realloc is several steps, with other programs' steps  *)
(* between them; its copy is a bpf_arena_memcpy, here the one step that    *)
(* MemCalls promises and GlueMem implements.                               *)
(***************************************************************************)
EXTENDS ByteCalls

CONSTANTS
  Handles,     \* variables of a program that can own an allocation
  New,         \* the slot of the block that realloc or alloc_zeroed prepares
  Nothing,     \* a slot that owns no allocation
  Null,        \* the null pointer
  Target,      \* "bpf", or "hosted": the stand-ins behind the unit tests
  BlockSizes,  \* sizes of the allocator's blocks (16 B .. 512 KiB)
  HostAlign,   \* the alignment posix_memalign is asked for at most (4096)
  Layouts,     \* [size, align] records that collections ask for
  RawSizes     \* sizes that hand-rolled structures ask for

Slots  == Handles \cup {New}
Sizes  == {l.size : l \in Layouts} \cup RawSizes
Aligns == {l.align : l \in Layouts} \cup {1}

\* x is a multiple of a.
Aligned(x, a) == \E k \in 0 .. x : x = k * a

Blocks  == [base : Addr, size : BlockSizes]
Pointer == [view : {"user", "kern"}, addr : Addr]
Objects == [ptr : Pointer, size : Sizes, align : Aligns]

ASSUME TargetAssumption == Target \in {"bpf", "hosted"}
ASSUME SlotAssumption == New \notin Handles
ASSUME NullAssumption == Null \notin Pointer /\ Nothing \notin Objects
ASSUME LayoutAssumption == Layouts \subseteq [size : Nat \ {0}, align : Nat \ {0}]
ASSUME RawAssumption == RawSizes \subseteq Nat \ {0}
ASSUME BlockAssumption == BlockSizes \subseteq Nat \ {0} /\ HostAlign \in Nat \ {0}
\* alloc_zeroed is memset(0).
ASSUME ZeroAssumption == 0 \in Fills
\* Block sizes and alignments are powers of two: of any two, the larger is a
\* multiple of the smaller.
ASSUME PowerAssumption ==
  \A x, y \in BlockSizes \cup Aligns \cup {HostAlign} : x <= y => Aligned(y, x)

VARIABLES
  mem,      \* the bytes of the arena
  blocks,   \* the allocator's live blocks
  held,     \* held[p][s]: the allocation that slot s of p owns, or Nothing
  job,      \* job[p]: [at, h], where p is in an allocator call and for which
            \* handle: before ("zero", "copy") or after ("give", "free") its helper
  spent,    \* spent[p]: can_loop has turned false for p
  lost      \* blocks whose owner trapped (history, read by no action)

vars == <<mem, blocks, held, job, spent, lost>>

Stages == {"run", "zero", "give", "copy", "free"}
Idle == [at |-> "run", h |-> New]

\* arena_buddy_reset has run; the arena still holds whatever it held.
Init ==
  /\ mem \in [Addr -> Byte]
  /\ blocks = {}
  /\ held = [p \in Progs |-> [s \in Slots |-> Nothing]]
  /\ job = [p \in Progs |-> Idle]
  /\ spent = [p \in Progs |-> FALSE]
  /\ lost = {}
-----------------------------------------------------------------------------
\* The bytes to request from the buddy allocator for a layout.
\* (Slips: the alignment is forgotten; the smaller of the two is taken.)
SizeOnly(l) == l.size
SmallerOf(l) == IF l.size > l.align THEN l.align ELSE l.size
request_size(l) ==
  LET sz == IF l.size > l.align THEN l.size ELSE l.align
  IN  IF sz = 0 THEN 1 ELSE sz

\* The alignment of a block.  The stand-in is `posix_memalign(sz.min(4096))`.
BlockAlign(size) ==
  IF Target = "hosted" /\ HostAlign < size THEN HostAlign ELSE size

\* The free places for n bytes: the smallest block that holds them.
Places(n) ==
  { b \in Blocks :
      /\ n <= b.size /\ \A s \in BlockSizes : n <= s => b.size <= s
      /\ b.base + b.size <= Size
      /\ Aligned(b.base, BlockAlign(b.size))
      /\ \A d \in blocks : Span(b.base, b.size) \cap Span(d.base, d.size) = {} }

UserForm(a) == [view |-> "user", addr |-> a]

\* arena_malloc_internal(n) returns ua: a new block, or null at any time (no
\* block is large enough, or none is free).
arena_malloc_internal(n, ua) ==
  \/ ua = Null /\ UNCHANGED blocks
  \/ \E b \in Places(n) : ua = UserForm(b.base) /\ blocks' = blocks \cup {b}

\* arena_free_u64(ua): the allocator knows its blocks by their user form.
arena_free_u64(ua) == blocks' = {b \in blocks : ua # UserForm(b.base)}

\* addr_space_cast to the kernel view and back; the identity off BPF.
cast_kern(ptr) == IF Target = "bpf" THEN [ptr EXCEPT !.view = "kern"] ELSE ptr
cast_user(ptr) == IF Target = "bpf" THEN [ptr EXCEPT !.view = "user"] ELSE ptr

\* arena_malloc(n) returns ptr.
arena_malloc(n, ptr) ==
  \E ua \in Pointer \cup {Null} :
    /\ ptr = IF ua = Null THEN Null ELSE cast_kern(ua)
    /\ arena_malloc_internal(n, ua)

arena_free(ptr) == arena_free_u64(cast_user(ptr))

\* A pointer that can be dereferenced.
Dereferenceable(ptr) == ptr.view = (IF Target = "bpf" THEN "kern" ELSE "user")

Owning(p, s) == held[p][s] # Nothing
Running(p) == job[p].at = "run"
Hold(p, s, ptr, size, align) ==
  held' = [held EXCEPT ![p][s] = [ptr |-> ptr, size |-> size, align |-> align]]
-----------------------------------------------------------------------------
\* GlobalAlloc::alloc.  On null the collection reports the failure, or calls
\* handle_alloc_error (Panic).
Alloc(p, h, l) ==
  /\ Running(p) /\ ~Owning(p, h)
  /\ \E ptr \in Pointer : arena_malloc(request_size(l), ptr) /\ Hold(p, h, ptr, l.size, l.align)
  /\ UNCHANGED <<mem, job, spent, lost>>

\* GlobalAlloc::dealloc
Dealloc(p, h) ==
  /\ Running(p) /\ Owning(p, h) /\ Dereferenceable(held[p][h].ptr)
  /\ arena_free(held[p][h].ptr)
  /\ held' = [held EXCEPT ![p][h] = Nothing]
  /\ UNCHANGED <<mem, job, spent, lost>>

\* The default alloc_zeroed and realloc start with an alloc.
StartZeroed(p, h, l) ==
  /\ Running(p) /\ ~Owning(p, h)
  /\ \E ptr \in Pointer : arena_malloc(request_size(l), ptr) /\ Hold(p, New, ptr, l.size, l.align)
  /\ job' = [job EXCEPT ![p] = [at |-> "zero", h |-> h]]
  /\ UNCHANGED <<mem, spent, lost>>

StartRealloc(p, h, newSize) ==
  LET l == [size |-> newSize, align |-> held[p][h].align]
  IN  /\ Running(p) /\ Owning(p, h) /\ Dereferenceable(held[p][h].ptr)
      /\ \E ptr \in Pointer : arena_malloc(request_size(l), ptr) /\ Hold(p, New, ptr, l.size, l.align)
      /\ job' = [job EXCEPT ![p] = [at |-> "copy", h |-> h]]
      /\ UNCHANGED <<mem, spent, lost>>

\* The allocator answers null: realloc returns null and has done nothing, the
\* program goes on with the old allocation or panics.
\* (Slip: the old block is given back although there is no new one.)
RefusedFrees(p, h, newSize) ==
  /\ Running(p) /\ Owning(p, h) /\ Dereferenceable(held[p][h].ptr)
  /\ arena_free(held[p][h].ptr)
  /\ UNCHANGED <<mem, held, job, spent, lost>>

ReallocRefused(p, h, newSize) ==
  /\ Running(p) /\ Owning(p, h) /\ Dereferenceable(held[p][h].ptr)
  /\ arena_malloc(request_size([size |-> newSize, align |-> held[p][h].align]), Null)
  /\ UNCHANGED <<mem, held, job, spent, lost>>

\* The helper call p makes: memcpy of the common prefix, or memset(0).
\* (Slip: as many bytes as the new block holds.)
CopyNewSize(old, new) == new
CopySize(old, new) == IF old <= new THEN old ELSE new

HelperCall(p) ==
  LET new == held[p][New]
      old == held[p][job[p].h]
  IN  IF job[p].at \in {"zero", "give"}
        THEN [op |-> "set", dst |-> new.ptr.addr, src |-> new.ptr.addr, n |-> new.size, c |-> 0]
        ELSE [op |-> "copy", dst |-> new.ptr.addr, src |-> old.ptr.addr,
              n |-> CopySize(old.size, new.size), c |-> 0]

\* What MemCalls promises of it (its Complete and Curtail).
Help(p) ==
  LET c == HelperCall(p)
  IN  \/ /\ ~spent[p]
         /\ mem' = Effect(c, mem, Writes(c))
         /\ UNCHANGED spent
      \/ /\ \E done \in SUBSET Writes(c) : mem' = Effect(c, mem, done)
         /\ spent' = [spent EXCEPT ![p] = TRUE]

RunHelper(p) ==
  /\ job[p].at \in {"zero", "copy"}
  /\ Help(p)
  /\ job' = [job EXCEPT ![p].at = IF job[p].at = "zero" THEN "give" ELSE "free"]
  /\ UNCHANGED <<blocks, held, lost>>

FinishZeroed(p) ==
  /\ job[p].at = "give"
  /\ held' = [held EXCEPT ![p][job[p].h] = held[p][New], ![p][New] = Nothing]
  /\ job' = [job EXCEPT ![p] = Idle]
  /\ UNCHANGED <<mem, blocks, spent, lost>>

FinishRealloc(p) ==
  /\ job[p].at = "free"
  /\ arena_free(held[p][job[p].h].ptr)
  /\ held' = [held EXCEPT ![p][job[p].h] = held[p][New], ![p][New] = Nothing]
  /\ job' = [job EXCEPT ![p] = Idle]
  /\ UNCHANGED <<mem, spent, lost>>
-----------------------------------------------------------------------------
\* Hand-rolled structures: arena_malloc, arena_malloc_user.
RawMalloc(p, h, n) ==
  /\ Running(p) /\ ~Owning(p, h)
  /\ \E ptr \in Pointer :
       /\ arena_malloc(n, ptr) \/ arena_malloc_internal(n, ptr)
       /\ Hold(p, h, ptr, n, 1)
  /\ UNCHANGED <<mem, job, spent, lost>>

\* arena_free_user, of an address in user form.
RawFreeUser(p, h) ==
  /\ Running(p) /\ Owning(p, h) /\ held[p][h].ptr.view = "user"
  /\ arena_free_u64(held[p][h].ptr)
  /\ held' = [held EXCEPT ![p][h] = Nothing]
  /\ UNCHANGED <<mem, job, spent, lost>>

\* cast_kern_ptr, cast_user_ptr
CastHandle(p, h) ==
  /\ Running(p) /\ Owning(p, h)
  /\ \E ptr \in {cast_kern(held[p][h].ptr), cast_user(held[p][h].ptr)} :
       held' = [held EXCEPT ![p][h].ptr = ptr]
  /\ UNCHANGED <<mem, blocks, job, spent, lost>>

\* The owner writes byte k of its allocation.
Write(p, h, k, v) ==
  /\ Running(p) /\ Owning(p, h) /\ Dereferenceable(held[p][h].ptr) /\ k < held[p][h].size
  /\ mem' = [mem EXCEPT ![held[p][h].ptr.addr + k] = v]
  /\ UNCHANGED <<blocks, held, job, spent, lost>>

\* The program returns, having dropped all it owned, and may be run again.
Return(p) ==
  /\ Running(p) /\ \A h \in Handles : ~Owning(p, h)
  /\ spent' = [spent EXCEPT ![p] = FALSE]
  /\ UNCHANGED <<mem, blocks, held, job, lost>>

\* A panic or an allocation error: a trap, which drops nothing.
Panic(p) ==
  /\ Running(p)
  /\ lost' = lost \cup {b \in blocks : \E h \in Handles : Owning(p, h) /\ held[p][h].ptr.addr = b.base}
  /\ held' = [held EXCEPT ![p] = [s \in Slots |-> Nothing]]
  /\ spent' = [spent EXCEPT ![p] = FALSE]
  /\ UNCHANGED <<mem, blocks, job>>

Next == \E p \in Progs :
  \/ \E h \in Handles :
       \/ \E l \in Layouts : Alloc(p, h, l) \/ StartZeroed(p, h, l)
       \/ \E n \in Sizes : StartRealloc(p, h, n) \/ ReallocRefused(p, h, n)
       \/ \E n \in RawSizes : RawMalloc(p, h, n)
       \/ \E k \in Addr, v \in Byte : Write(p, h, k, v)
       \/ Dealloc(p, h)
       \/ RawFreeUser(p, h)
       \/ CastHandle(p, h)
  \/ RunHelper(p)
  \/ FinishZeroed(p)
  \/ FinishRealloc(p)
  \/ Return(p)
  \/ Panic(p)

Spec == Init /\ [][Next]_vars
-----------------------------------------------------------------------------
TypeOK ==
  /\ mem \in [Addr -> Byte]
  /\ blocks \in SUBSET Blocks
  /\ held \in [Progs -> [Slots -> Objects \cup {Nothing}]]
  /\ job \in [Progs -> [at : Stages, h : Slots]]
  /\ spent \in [Progs -> BOOLEAN]
  /\ lost \in SUBSET blocks

(***************************************************************************)
(* request_size is enough for any layout: whatever a slot owns is a live   *)
(* block, at least as large as asked for and aligned as asked for.         *)
(***************************************************************************)
LayoutSatisfied ==
  \A p \in Progs, s \in Slots : Owning(p, s) =>
    LET o == held[p][s]
    IN  /\ \E b \in blocks : b.base = o.ptr.addr /\ o.size <= b.size
        /\ Aligned(o.ptr.addr, o.align)

(***************************************************************************)
(* Every block of the allocator is owned exactly once: no double free, no  *)
(* two owners, and nothing leaks but what a trapped program owned.         *)
(***************************************************************************)
Accounted ==
  /\ \A p, q \in Progs, s, t \in Slots :
       /\ Owning(p, s) /\ Owning(q, t) /\ held[p][s].ptr.addr = held[q][t].ptr.addr
       => p = q /\ s = t
  /\ \A b \in blocks :
       b \in lost <=> ~ \E p \in Progs, s \in Slots : Owning(p, s) /\ held[p][s].ptr.addr = b.base

(***************************************************************************)
(* The allocator gives realloc and alloc_zeroed what the memory helpers    *)
(* require of their callers: ranges inside the arena, and no other program *)
(* in a helper, or on its way back, on a range they touch.                 *)
(***************************************************************************)
Helping(p) == ~Running(p)

HelpersUsedWell ==
  \A p \in Progs : Helping(p) =>
    /\ HelperCall(p) \in Calls
    /\ \A q \in Progs \ {p} : Helping(q) => Apart(HelperCall(p), HelperCall(q))

\* The blocks of the allocator (external): apart and inside the arena.
BlocksApart ==
  /\ \A b \in blocks : b.base + b.size <= Size
  /\ \A b, d \in blocks : b # d => Span(b.base, b.size) \cap Span(d.base, d.size) = {}

\* What a program is in the middle of.
JobOK(p) ==
  /\ Owning(p, New) <=> ~Running(p)
  /\ Owning(p, New) => Dereferenceable(held[p][New].ptr)
  /\ ~Running(p) => job[p].h \in Handles
  /\ job[p].at \in {"zero", "give"} => ~Owning(p, job[p].h)
  /\ job[p].at \in {"copy", "free"} =>
       Owning(p, job[p].h) /\ Dereferenceable(held[p][job[p].h].ptr)
  /\ Target = "hosted" => \A s \in Slots : Owning(p, s) => held[p][s].ptr.view = "user"

JobsConsistent == \A p \in Progs : JobOK(p)

IInv == TypeOK /\ LayoutSatisfied /\ Accounted /\ BlocksApart /\ JobsConsistent

\* The condition under which the stand-in does satisfy every layout.
HostEnough == Target = "hosted" => \A a \in Aligns : a <= HostAlign

(***************************************************************************)
(* The refinement: an object is the bytes between its owner's pointer and  *)
(* its size; a block being prepared is nobody's object yet.                *)
(***************************************************************************)
Bytes(o) == [k \in 1 .. o.size |-> mem[o.ptr.addr + k - 1]]

Obj == [p \in Progs |->
         [h \in Handles |-> IF Owning(p, h) THEN Bytes(held[p][h]) ELSE << >>]]

Abstract == INSTANCE HeapObjects WITH obj <- Obj

\* Programs see the objects of HeapObjects, however their calls interleave.
ImplementsHeapObjects == Abstract!Spec

(***************************************************************************)
(* The memory helpers as the allocator uses them: whoever is in realloc or *)
(* alloc_zeroed past its alloc is in a helper, or back from it.            *)
(***************************************************************************)
HelperPc ==
  [p \in Progs |-> IF Running(p) THEN "idle"
                   ELSE IF job[p].at \in {"zero", "copy"} THEN "loop" ELSE "ret"]

HelperArgs == [p \in Progs |-> IF Running(p) THEN NoCall ELSE HelperCall(p)]

Helpers == INSTANCE MemCalls WITH
             pc <- HelperPc, call <- HelperArgs, ret <- [p \in Progs |-> 0]

(***************************************************************************)
(* Programs keep to the helpers' contract, and use no more of it: calls at *)
(* once are apart, and while one is in progress its arguments stay what    *)
(* they were and nobody writes what it reads or writes.  So GlueMem's byte *)
(* loops, which implement MemCalls, may stand where the one step is taken  *)
(* here.                                                                   *)
(***************************************************************************)
UsesMemCalls == Helpers!Spec
=============================================================================
