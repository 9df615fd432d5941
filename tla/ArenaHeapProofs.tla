-------------------------- MODULE ArenaHeapProofs ---------------------------
(***************************************************************************)
(* Proofs about ArenaHeap, for every number of programs, every arena,      *)
(* every set of layouts and every power-of-two block size.                 *)
(***************************************************************************)
EXTENDS ArenaHeap, TLAPS

LEMMA AlignedTransitive ==
  ASSUME NEW x \in Nat, NEW y \in Nat, NEW a \in Nat \ {0}, Aligned(x, y), Aligned(y, a)
  PROVE  Aligned(x, a)
<1>1. PICK k \in 0 .. x : x = k * y
  BY DEF Aligned
<1>2. PICK j \in 0 .. y : y = j * a
  BY DEF Aligned
<1>3. k * j \in Nat /\ x = (k * j) * a
  BY <1>1, <1>2
<1> DEFINE m == k * j
<1>4. m <= m * a
  <2> HIDE DEF m
  <2>1. m \in Nat
    BY <1>3 DEF m
  <2>2. m * (a - 1) \in Nat /\ m * a = m + m * (a - 1)
    BY <2>1
  <2> QED BY <2>1, <2>2
<1>5. k * j \in 0 .. x
  BY <1>3, <1>4
<1> QED BY <1>3, <1>5 DEF Aligned

LEMMA SizesType == Sizes \subseteq Nat \ {0} /\ Aligns \subseteq Nat \ {0}
<1>1. \A l \in Layouts : l.size \in Nat \ {0} /\ l.align \in Nat \ {0}
  BY LayoutAssumption
<1>2. \A n \in RawSizes : n \in Nat \ {0}
  BY RawAssumption
<1> QED BY <1>1, <1>2 DEF Sizes, Aligns

LEMMA BlockType ==
  ASSUME NEW b \in Blocks
  PROVE  /\ b.base \in Addr /\ b.base \in Nat
         /\ b.size \in BlockSizes /\ b.size \in Nat \ {0}
<1>1. b.base \in Addr /\ b.size \in BlockSizes
  BY DEF Blocks
<1>2. \A s \in BlockSizes : s \in Nat \ {0}
  BY BlockAssumption
<1> QED BY <1>1, <1>2, SizeAssumption DEF Addr

LEMMA LayoutType ==
  ASSUME NEW l \in Layouts
  PROVE  l.size \in Sizes /\ l.align \in Aligns
BY DEF Sizes, Aligns

\* request_size asks for no less than the size, and no less than the alignment.
LEMMA RequestCovers ==
  ASSUME NEW l, l.size \in Sizes, l.align \in Aligns
  PROVE  /\ request_size(l) \in Nat
         /\ l.size <= request_size(l) /\ l.align <= request_size(l)
<1>1. l.size \in Nat \ {0} /\ l.align \in Nat \ {0}
  BY SizesType
<1> QED BY <1>1 DEF request_size

\* A place for n bytes is aligned for every alignment up to n.
LEMMA PlaceAligned ==
  ASSUME HostEnough, NEW n \in Nat, NEW b \in Places(n), NEW a \in Aligns, a <= n
  PROVE  Aligned(b.base, a)
<1>1. /\ b \in Blocks /\ n <= b.size /\ Aligned(b.base, BlockAlign(b.size))
  BY DEF Places
<1>2. b.base \in Nat /\ b.size \in Nat /\ b.size \in BlockSizes
  BY <1>1, BlockType
<1>3. a \in Nat \ {0}
  BY SizesType
<1>4. BlockAlign(b.size) \in BlockSizes \cup {HostAlign} /\ BlockAlign(b.size) \in Nat
  BY <1>2, BlockAssumption DEF BlockAlign
<1>5. a <= BlockAlign(b.size)
  BY <1>1, <1>2, <1>3, BlockAssumption, TargetAssumption DEF BlockAlign, HostEnough
<1>6. Aligned(BlockAlign(b.size), a)
  BY <1>4, <1>5, PowerAssumption
<1> QED BY <1>1, <1>2, <1>3, <1>4, <1>6, AlignedTransitive

\* Blocks lie inside the arena, so their bases tell them apart.
LEMMA BasesDistinct ==
  ASSUME blocks \in SUBSET Blocks, BlocksApart,
         NEW b \in blocks, NEW d \in blocks, b.base = d.base
  PROVE  b = d
<1>1. b.base \in Nat /\ b.size \in Nat \ {0} /\ d.size \in Nat \ {0}
  BY BlockType
<1>2. b.base \in Span(b.base, b.size) /\ b.base \in Span(d.base, d.size)
  BY <1>1 DEF Span
<1> QED BY <1>2 DEF BlocksApart

\* A new block starts where no live block does.
LEMMA PlaceFresh ==
  ASSUME blocks \in SUBSET Blocks, NEW n \in Nat, NEW b \in Places(n)
  PROVE  \A d \in blocks : b # d /\ b.base # d.base
<1> SUFFICES ASSUME NEW d \in blocks, b.base = d.base
             PROVE  FALSE
  OBVIOUS
<1>1. b.base \in Nat /\ b.size \in Nat \ {0} /\ d.size \in Nat \ {0}
  BY BlockType DEF Places
<1>2. b.base \in Span(b.base, b.size) /\ b.base \in Span(d.base, d.size)
  BY <1>1 DEF Span
<1> QED BY <1>2 DEF Places

\* What the two malloc entry points return when they do not return null.
LEMMA MallocGives ==
  ASSUME NEW n \in Nat, NEW ptr \in Pointer,
         arena_malloc(n, ptr) \/ arena_malloc_internal(n, ptr)
  PROVE  \E b \in Places(n) : ptr.addr = b.base /\ blocks' = blocks \cup {b}
<1>1. CASE arena_malloc_internal(n, ptr)
  BY <1>1, NullAssumption DEF arena_malloc_internal, UserForm
<1>2. CASE arena_malloc(n, ptr)
  <2>1. PICK ua \in Pointer \cup {Null} :
          arena_malloc_internal(n, ua) /\ ptr = IF ua = Null THEN Null ELSE cast_kern(ua)
    BY <1>2 DEF arena_malloc
  <2>2. ua # Null /\ ptr = cast_kern(ua)
    BY <2>1, NullAssumption
  <2>3. PICK b \in Places(n) : ua = UserForm(b.base) /\ blocks' = blocks \cup {b}
    BY <2>1, <2>2 DEF arena_malloc_internal
  <2>4. ptr.addr = b.base
    BY <2>2, <2>3 DEF cast_kern, UserForm
  <2> QED BY <2>3, <2>4
<1> QED BY <1>1, <1>2

\* arena_malloc's pointer can be dereferenced.
LEMMA MallocView ==
  ASSUME NEW n, NEW ptr \in Pointer, arena_malloc(n, ptr)
  PROVE  Dereferenceable(ptr) /\ (Target = "hosted" => ptr.view = "user")
<1>1. PICK ua \in Pointer \cup {Null} :
        arena_malloc_internal(n, ua) /\ ptr = IF ua = Null THEN Null ELSE cast_kern(ua)
  BY DEF arena_malloc
<1>2. ua # Null /\ ptr = cast_kern(ua)
  BY <1>1, NullAssumption
<1>3. PICK b \in Places(n) : ua = UserForm(b.base)
  BY <1>1, <1>2 DEF arena_malloc_internal
<1> QED BY <1>2, <1>3, TargetAssumption DEF cast_kern, UserForm, Dereferenceable

LEMMA InternalView ==
  ASSUME NEW n, NEW ptr \in Pointer, arena_malloc_internal(n, ptr)
  PROVE  ptr.view = "user"
BY NullAssumption DEF arena_malloc_internal, UserForm

LEMMA CastType ==
  ASSUME NEW ptr \in Pointer
  PROVE  /\ cast_kern(ptr) \in Pointer /\ cast_kern(ptr).addr = ptr.addr
         /\ cast_user(ptr) \in Pointer /\ cast_user(ptr).addr = ptr.addr
         /\ Target = "hosted" => cast_kern(ptr) = ptr /\ cast_user(ptr) = ptr
         /\ Target = "bpf" \/ ptr.view = "user" => cast_user(ptr) = UserForm(ptr.addr)
BY TargetAssumption DEF cast_kern, cast_user, Pointer, UserForm

\* An allocation that fails leaves everything as it was.
LEMMA RefusalIsVain ==
  ASSUME NEW p, NEW h, NEW n, ReallocRefused(p, h, n)
  PROVE  UNCHANGED vars
<1> DEFINE n1 == request_size([size |-> n, align |-> held[p][h].align])
<1>1. PICK ua \in Pointer \cup {Null} :
        arena_malloc_internal(n1, ua) /\ Null = IF ua = Null THEN Null ELSE cast_kern(ua)
  BY DEF ReallocRefused, arena_malloc
<1> HIDE DEF n1
<1>2. ua = Null
  BY <1>1, CastType, NullAssumption
<1>3. \A b \in Places(n1) : Null # UserForm(b.base)
  BY BlockType, NullAssumption DEF UserForm, Places, Pointer, Blocks
<1>4. UNCHANGED blocks
  BY <1>1, <1>2, <1>3 DEF arena_malloc_internal
<1> QED BY <1>4 DEF ReallocRefused, vars

\* Freeing the address a slot owns frees that block and no other.
LEMMA FreeTakes ==
  ASSUME NEW ptr \in Pointer, Target = "hosted" => ptr.view = "user",
         arena_free(ptr) \/ (ptr.view = "user" /\ arena_free_u64(ptr))
  PROVE  blocks' = {b \in blocks : b.base # ptr.addr}
<1>1. CASE arena_free(ptr)
  <2>1. cast_user(ptr) = UserForm(ptr.addr)
    BY CastType, TargetAssumption
  <2> QED BY <1>1, <2>1 DEF arena_free, arena_free_u64, UserForm
<1>2. CASE ptr.view = "user" /\ arena_free_u64(ptr)
  <2>1. ptr = UserForm(ptr.addr)
    BY <1>2 DEF Pointer, UserForm
  <2> QED BY <1>2, <2>1 DEF arena_free_u64, UserForm
<1> QED BY <1>1, <1>2
-----------------------------------------------------------------------------
Ownership == LayoutSatisfied /\ Accounted /\ BlocksApart

\* A slot takes a new block.
LEMMA Gain ==
  ASSUME IInv, HostEnough, NEW p \in Progs, NEW s \in Slots, ~Owning(p, s),
         NEW n \in Nat, NEW b \in Places(n), blocks' = blocks \cup {b}, lost' = lost,
         NEW ptr \in Pointer, ptr.addr = b.base,
         NEW size \in Sizes, NEW align \in Aligns, size <= n, align <= n,
         Hold(p, s, ptr, size, align)
  PROVE  /\ held' \in [Progs -> [Slots -> Objects \cup {Nothing}]]
         /\ blocks' \in SUBSET Blocks /\ lost' \in SUBSET blocks'
         /\ Ownership'
<1> USE DEF IInv
<1> DEFINE o == [ptr |-> ptr, size |-> size, align |-> align]
<1>1. o \in Objects /\ o # Nothing
  BY NullAssumption DEF Objects
<1>2. /\ held' \in [Progs -> [Slots -> Objects \cup {Nothing}]]
      /\ held'[p][s] = o
      /\ \A q \in Progs, t \in Slots : q # p \/ t # s => held'[q][t] = held[q][t]
  BY <1>1 DEF Hold, TypeOK
<1>3. b \in Blocks /\ n <= b.size /\ b.base + b.size <= Size /\ b.size \in Nat
  BY BlockType DEF Places
<1>4. blocks' \in SUBSET Blocks /\ lost' \in SUBSET blocks'
  BY <1>3 DEF TypeOK
<1>5. \A d \in blocks : b # d /\ b.base # d.base
  BY PlaceFresh DEF TypeOK
<1>6. LayoutSatisfied'
  <2>1. b \in blocks' /\ b.base = o.ptr.addr /\ o.size <= b.size
    BY <1>3, SizesType
  <2>2. Aligned(o.ptr.addr, o.align)
    BY PlaceAligned
  <2>3. ASSUME NEW q \in Progs, NEW t \in Slots, q # p \/ t # s, Owning(q, t)
        PROVE  \E d \in blocks' : d.base = held[q][t].ptr.addr /\ held[q][t].size <= d.size
    BY <2>3 DEF LayoutSatisfied
  <2> QED BY <1>2, <2>1, <2>2, <2>3 DEF LayoutSatisfied, Owning
<1>7. Accounted'
  <2>1. ASSUME NEW q \in Progs, NEW t \in Slots, Owning(q, t)
        PROVE  held[q][t].ptr.addr # b.base
    BY <1>5, <2>1 DEF LayoutSatisfied
  <2>2. ASSUME NEW q \in Progs, NEW t \in Slots, NEW r \in Progs, NEW u \in Slots,
               Owning(q, t)', Owning(r, u)', held'[q][t].ptr.addr = held'[r][u].ptr.addr
        PROVE  q = r /\ t = u
    <3>1. CASE (q = p /\ t = s) \/ (r = p /\ u = s)
      BY <1>2, <2>1, <2>2, <3>1 DEF Owning
    <3>2. CASE ~(q = p /\ t = s) /\ ~(r = p /\ u = s)
      <4>1. held'[q][t] = held[q][t] /\ held'[r][u] = held[r][u]
        BY <1>2, <3>2
      <4>2. Owning(q, t) /\ Owning(r, u) /\ held[q][t].ptr.addr = held[r][u].ptr.addr
        BY <2>2, <4>1 DEF Owning
      <4> QED BY <4>2 DEF Accounted
    <3> QED BY <3>1, <3>2
  <2>3. ASSUME NEW d \in blocks'
        PROVE  d \in lost' <=> ~ \E q \in Progs, t \in Slots : Owning(q, t)' /\ held'[q][t].ptr.addr = d.base
    <3>1. CASE d = b
      <4>1. d \notin lost'
        BY <1>5, <3>1 DEF TypeOK
      <4>2. Owning(p, s)' /\ held'[p][s].ptr.addr = d.base
        BY <1>1, <1>2, <3>1 DEF Owning
      <4> QED BY <4>1, <4>2
    <3>2. CASE d # b
      <4>1. d \in blocks /\ d.base # b.base
        BY <1>5, <3>2
      <4>2. d \in lost <=> ~ \E q \in Progs, t \in Slots : Owning(q, t) /\ held[q][t].ptr.addr = d.base
        BY <4>1 DEF Accounted
      <4>3. \A q \in Progs, t \in Slots :
              Owning(q, t)' /\ held'[q][t].ptr.addr = d.base <=>
              Owning(q, t) /\ held[q][t].ptr.addr = d.base
        BY <1>2, <4>1 DEF Owning
      <4> QED BY <4>2, <4>3
    <3> QED BY <3>1, <3>2
  <2> QED BY <2>2, <2>3 DEF Accounted
<1>8. BlocksApart'
  <2>1. \A d \in blocks : Span(b.base, b.size) \cap Span(d.base, d.size) = {}
    BY DEF Places
  <2> QED BY <1>3, <2>1 DEF BlocksApart, Span
<1> QED BY <1>2, <1>4, <1>6, <1>7, <1>8 DEF Ownership

\* A block is freed, and the slot that owned it no longer does: it is emptied,
\* or takes what slot t owned.
LEMMA Lose ==
  ASSUME IInv, NEW p \in Progs, NEW s \in Slots, Owning(p, s), NEW t \in Slots,
         t = s \/ Owning(p, t),
         blocks' = {b \in blocks : b.base # held[p][s].ptr.addr}, lost' = lost,
         t = s => held' = [held EXCEPT ![p][s] = Nothing],
         t # s => held' = [held EXCEPT ![p][s] = held[p][t], ![p][t] = Nothing]
  PROVE  /\ held' \in [Progs -> [Slots -> Objects \cup {Nothing}]]
         /\ blocks' \in SUBSET Blocks /\ lost' \in SUBSET blocks'
         /\ Ownership'
<1> USE DEF IInv
<1> DEFINE a == held[p][s].ptr.addr
<1>1. /\ held' \in [Progs -> [Slots -> Objects \cup {Nothing}]]
      /\ held'[p][s] = IF t = s THEN Nothing ELSE held[p][t]
      /\ held'[p][t] = Nothing
      /\ \A q \in Progs, u \in Slots : q # p \/ u \notin {s, t} => held'[q][u] = held[q][u]
  <2>1. held \in [Progs -> [Slots -> Objects \cup {Nothing}]]
    BY DEF TypeOK
  <2>2. CASE t = s
    BY <2>1, <2>2
  <2>3. CASE t # s
    <3>1. /\ held' = [held EXCEPT ![p] = [held[p] EXCEPT ![s] = held[p][t], ![t] = Nothing]]
          /\ held[p] \in [Slots -> Objects \cup {Nothing}]
      BY <2>1, <2>3
    <3> QED BY <2>1, <2>3, <3>1
  <2> QED BY <2>2, <2>3
\* Each owner was the owner of the same block, and not the one that freed its own.
<1>2. \A q \in Progs, u \in Slots : Owning(q, u)' =>
        \E w \in Slots : /\ Owning(q, w) /\ held'[q][u] = held[q][w] /\ ~(q = p /\ w = s)
                        /\ w = IF q = p /\ u = s THEN t ELSE u
  BY <1>1 DEF Owning
<1>3. \A q \in Progs, w \in Slots : Owning(q, w) /\ ~(q = p /\ w = s) =>
        \E u \in Slots : Owning(q, u)' /\ held'[q][u] = held[q][w]
  BY <1>1 DEF Owning
<1>4. \A q \in Progs, w \in Slots : Owning(q, w) /\ ~(q = p /\ w = s) => held[q][w].ptr.addr # a
  BY DEF Accounted
<1>5. blocks' \in SUBSET Blocks /\ lost' \in SUBSET blocks'
  <2>1. \A b \in lost : b \in blocks /\ b.base # a
    BY DEF Accounted, TypeOK
  <2> QED BY <2>1 DEF TypeOK
<1>6. LayoutSatisfied'
  <2> SUFFICES ASSUME NEW q \in Progs, NEW u \in Slots, Owning(q, u)'
               PROVE  /\ \E b \in blocks' : b.base = held'[q][u].ptr.addr /\ held'[q][u].size <= b.size
                      /\ Aligned(held'[q][u].ptr.addr, held'[q][u].align)
    BY DEF LayoutSatisfied
  <2>1. PICK w \in Slots : Owning(q, w) /\ held'[q][u] = held[q][w] /\ ~(q = p /\ w = s)
    BY <1>2
  <2>2. PICK b \in blocks : b.base = held[q][w].ptr.addr /\ held[q][w].size <= b.size
    BY <2>1 DEF LayoutSatisfied
  <2>3. b \in blocks'
    BY <1>4, <2>1, <2>2
  <2>4. Aligned(held[q][w].ptr.addr, held[q][w].align)
    BY <2>1 DEF LayoutSatisfied
  <2> QED BY <2>1, <2>2, <2>3, <2>4
<1>7. Accounted'
  <2>1. ASSUME NEW q \in Progs, NEW u \in Slots, NEW r \in Progs, NEW v \in Slots,
               Owning(q, u)', Owning(r, v)', held'[q][u].ptr.addr = held'[r][v].ptr.addr
        PROVE  q = r /\ u = v
    <3>1. PICK w \in Slots : /\ Owning(q, w) /\ held'[q][u] = held[q][w]
                             /\ w = IF q = p /\ u = s THEN t ELSE u
      BY <1>2, <2>1
    <3>2. PICK x \in Slots : /\ Owning(r, x) /\ held'[r][v] = held[r][x]
                             /\ x = IF r = p /\ v = s THEN t ELSE v
      BY <1>2, <2>1
    <3>3. q = r /\ w = x
      BY <2>1, <3>1, <3>2 DEF Accounted
    <3>4. ~(q = p /\ u = t) /\ ~(r = p /\ v = t)
      BY <1>1, <2>1 DEF Owning
    <3> QED BY <3>1, <3>2, <3>3, <3>4
  <2>2. ASSUME NEW d \in blocks'
        PROVE  d \in lost' <=> ~ \E q \in Progs, u \in Slots : Owning(q, u)' /\ held'[q][u].ptr.addr = d.base
    <3>1. d \in blocks /\ d.base # a
      OBVIOUS
    <3>2. d \in lost <=> ~ \E q \in Progs, u \in Slots : Owning(q, u) /\ held[q][u].ptr.addr = d.base
      BY <3>1 DEF Accounted
    <3>3. (\E q \in Progs, u \in Slots : Owning(q, u)' /\ held'[q][u].ptr.addr = d.base)
          <=> \E q \in Progs, u \in Slots : Owning(q, u) /\ held[q][u].ptr.addr = d.base
      <4>1. ASSUME NEW q \in Progs, NEW u \in Slots, Owning(q, u)', held'[q][u].ptr.addr = d.base
            PROVE  \E w \in Slots : Owning(q, w) /\ held[q][w].ptr.addr = d.base
        BY <1>2, <4>1
      <4>2. ASSUME NEW q \in Progs, NEW w \in Slots, Owning(q, w), held[q][w].ptr.addr = d.base
            PROVE  \E u \in Slots : Owning(q, u)' /\ held'[q][u].ptr.addr = d.base
        BY <1>3, <3>1, <4>2
      <4> QED BY <4>1, <4>2
    <3> QED BY <3>2, <3>3
  <2> QED BY <2>1, <2>2 DEF Accounted
<1>8. BlocksApart'
  BY DEF BlocksApart, Span
<1> QED BY <1>1, <1>5, <1>6, <1>7, <1>8 DEF Ownership
-----------------------------------------------------------------------------
\* An allocation lies inside the block its slot owns, hence inside the arena.
LEMMA ObjectInBlock ==
  ASSUME IInv, NEW p \in Progs, NEW s \in Slots, Owning(p, s)
  PROVE  /\ held[p][s] \in Objects /\ held[p][s].ptr \in Pointer
         /\ held[p][s].ptr.addr \in Nat /\ held[p][s].size \in Nat \ {0}
         /\ held[p][s].size \in Sizes /\ held[p][s].align \in Aligns
         /\ held[p][s].ptr.addr + held[p][s].size <= Size
         /\ \E b \in blocks : /\ b.base = held[p][s].ptr.addr
                             /\ Span(held[p][s].ptr.addr, held[p][s].size) \subseteq Span(b.base, b.size)
<1> USE DEF IInv
<1>1. held[p][s] \in Objects
  BY DEF TypeOK, Owning
<1>2. /\ held[p][s].ptr \in Pointer /\ held[p][s].size \in Sizes /\ held[p][s].align \in Aligns
      /\ held[p][s].ptr.addr \in Addr
  BY <1>1 DEF Objects, Pointer
<1>3. held[p][s].ptr.addr \in Nat /\ held[p][s].size \in Nat \ {0}
  <2>1. held[p][s].ptr.addr \in Nat
    BY <1>2, SizeAssumption DEF Addr
  <2>2. held[p][s].size \in Nat \ {0}
    BY <1>2, SizesType
  <2> QED BY <2>1, <2>2
<1>4. PICK b \in blocks : b.base = held[p][s].ptr.addr /\ held[p][s].size <= b.size
  BY DEF LayoutSatisfied
<1>5. b.size \in Nat \ {0} /\ b.base + b.size <= Size
  BY BlockType DEF TypeOK, BlocksApart
<1>6. held[p][s].ptr.addr + held[p][s].size <= Size
  BY <1>3, <1>4, <1>5, SizeAssumption
<1>7. Span(held[p][s].ptr.addr, held[p][s].size) \subseteq Span(b.base, b.size)
  BY <1>3, <1>4, <1>5 DEF Span
<1> QED BY <1>1, <1>2, <1>3, <1>4, <1>6, <1>7

\* Two allocations share no byte.
LEMMA ObjectsApart ==
  ASSUME IInv, NEW p \in Progs, NEW s \in Slots, Owning(p, s),
         NEW q \in Progs, NEW t \in Slots, Owning(q, t), p # q \/ s # t
  PROVE  Span(held[p][s].ptr.addr, held[p][s].size) \cap Span(held[q][t].ptr.addr, held[q][t].size) = {}
<1>1. PICK b \in blocks :
        /\ b.base = held[p][s].ptr.addr
        /\ Span(held[p][s].ptr.addr, held[p][s].size) \subseteq Span(b.base, b.size)
  BY ObjectInBlock
<1>2. PICK d \in blocks :
        /\ d.base = held[q][t].ptr.addr
        /\ Span(held[q][t].ptr.addr, held[q][t].size) \subseteq Span(d.base, d.size)
  BY ObjectInBlock
<1>3. b # d
  BY <1>1, <1>2 DEF IInv, Accounted
<1>4. Span(b.base, b.size) \cap Span(d.base, d.size) = {}
  BY <1>3 DEF IInv, BlocksApart
<1> QED BY <1>1, <1>2, <1>4

(* A prefix of a range of bytes lies inside the range.                      *)
LEMMA ShorterSpan ==
  ASSUME NEW a \in Nat, NEW m \in Nat, NEW n \in Nat, m <= n
  PROVE  Span(a, m) \subseteq Span(a, n)
BY DEF Span

\* The call that realloc or alloc_zeroed makes: it writes bytes of the block in
\* preparation, and reads bytes of the old allocation.
LEMMA HelperCallGood ==
  ASSUME IInv, NEW p \in Progs, Helping(p)
  PROVE  /\ HelperCall(p) \in Calls
         /\ Owning(p, New) /\ job[p].h \in Handles
         /\ Writes(HelperCall(p)) \subseteq Span(held[p][New].ptr.addr, held[p][New].size)
         /\ job[p].at \in {"zero", "give"} => Reads(HelperCall(p)) = {}
         /\ job[p].at \notin {"zero", "give"} =>
              /\ Owning(p, job[p].h)
              /\ Reads(HelperCall(p)) \subseteq
                   Span(held[p][job[p].h].ptr.addr, held[p][job[p].h].size)
<1> DEFINE c == HelperCall(p)
           new == held[p][New]
           old == held[p][job[p].h]
<1>1. Owning(p, New) /\ job[p].h \in Handles /\ New \in Slots /\ job[p].h \in Slots
  BY DEF IInv, JobsConsistent, JobOK, Helping, Running, Slots
<1>2. /\ new.ptr.addr \in Nat /\ new.size \in Nat \ {0} /\ new.ptr.addr + new.size <= Size
  BY <1>1, ObjectInBlock
<1>3. CASE job[p].at \in {"zero", "give"}
  <2>1. c = [op |-> "set", dst |-> new.ptr.addr, src |-> new.ptr.addr, n |-> new.size, c |-> 0]
    BY <1>3 DEF HelperCall
  <2>2. c \in Calls
    BY <1>2, <2>1, SizeAssumption, ZeroAssumption DEF Calls
  <2> QED BY <1>1, <1>3, <2>1, <2>2 DEF Writes, Reads
<1>4. CASE job[p].at \in {"copy", "free"}
  <2>1. Owning(p, job[p].h)
    BY <1>4 DEF IInv, JobsConsistent, JobOK
  <2>2. /\ old.ptr.addr \in Nat /\ old.size \in Nat \ {0} /\ old.ptr.addr + old.size <= Size
    BY <1>1, <2>1, ObjectInBlock
  <2>3. c = [op |-> "copy", dst |-> new.ptr.addr, src |-> old.ptr.addr,
             n |-> CopySize(old.size, new.size), c |-> 0]
    BY <1>4 DEF HelperCall
  <2>4. /\ CopySize(old.size, new.size) \in Nat \ {0}
        /\ CopySize(old.size, new.size) <= old.size /\ CopySize(old.size, new.size) <= new.size
    BY <1>2, <2>2 DEF CopySize
  <2>5. c \in Calls
    BY <1>2, <2>2, <2>3, <2>4, SizeAssumption, ZeroAssumption DEF Calls
  <2>6. Writes(c) \subseteq Span(new.ptr.addr, new.size)
    <3>1. Writes(c) = Span(new.ptr.addr, CopySize(old.size, new.size))
      BY <2>3 DEF Writes
    <3>2. Span(new.ptr.addr, CopySize(old.size, new.size)) \subseteq Span(new.ptr.addr, new.size)
      BY <1>2, <2>4, ShorterSpan
    <3> QED BY <3>1, <3>2
  <2>7. Reads(c) \subseteq Span(old.ptr.addr, old.size)
    <3>1. Reads(c) = Span(old.ptr.addr, CopySize(old.size, new.size))
      BY <2>3 DEF Reads
    <3>2. Span(old.ptr.addr, CopySize(old.size, new.size)) \subseteq Span(old.ptr.addr, old.size)
      BY <2>2, <2>4, ShorterSpan
    <3> QED BY <3>1, <3>2
  <2>8. job[p].at \notin {"zero", "give"}
    BY <1>4
  <2> QED BY <1>1, <2>1, <2>5, <2>6, <2>7, <2>8
<1> QED BY <1>3, <1>4 DEF Helping, Running, Stages, IInv, TypeOK

LEMMA HelpType ==
  ASSUME IInv, NEW p \in Progs, Helping(p), Help(p)
  PROVE  mem' \in [Addr -> Byte] /\ spent' \in [Progs -> BOOLEAN]
<1> DEFINE c == HelperCall(p)
<1>1. /\ c \in Calls /\ c.op \in {"copy", "set"} /\ c.c \in Fills
      /\ c.dst \in Nat /\ c.src \in Nat /\ c.n \in Nat
      /\ c.src + c.n <= Size
  <2>1. c \in Calls
    BY HelperCallGood
  <2>2. c.op \in {"copy", "set"}
    BY DEF HelperCall
  <2>3. /\ c.c \in Fills /\ c.dst \in 0 .. Size /\ c.src \in 0 .. Size /\ c.n \in 0 .. Size
        /\ c.src + c.n <= Size
    BY <2>1 DEF Calls
  <2> HIDE DEF c
  <2> QED BY <2>1, <2>2, <2>3, SizeAssumption
<1>2. mem \in [Addr -> Byte]
  BY DEF IInv, TypeOK
<1>3. ASSUME NEW a \in Writes(c)
      PROVE  NewByte(c, mem, a) \in Byte
  <2>1. CASE c.op = "copy"
    <3>1. a - c.dst + c.src \in Addr
      BY <1>1, <2>1, SizeAssumption DEF Writes, Span, Addr
    <3> QED BY <1>2, <2>1, <3>1 DEF NewByte
  <2>2. CASE c.op = "set"
    <3>1. c.c \in Int
      BY <1>1, FillsAssumption
    <3>2. AsByte(c.c) \in Byte
      BY <3>1, RadixAssumption DEF AsByte, Byte
    <3> QED BY <2>2, <3>2 DEF NewByte
  <2> QED BY <1>1, <2>1, <2>2
<1>4. \A done \in SUBSET Writes(c) : Effect(c, mem, done) \in [Addr -> Byte]
  BY <1>2, <1>3 DEF Effect
<1>5. spent \in [Progs -> BOOLEAN]
  BY DEF IInv, TypeOK
<1> QED BY <1>4, <1>5 DEF Help

(***************************************************************************)
(* realloc and alloc_zeroed call the memory helpers as MemCalls asks: the  *)
(* ranges lie in the arena and no other program is in a helper on them.    *)
(***************************************************************************)
LEMMA UsedWell ==
  ASSUME IInv
  PROVE  HelpersUsedWell
<1> SUFFICES ASSUME NEW p \in Progs, Helping(p), NEW q \in Progs \ {p}, Helping(q)
             PROVE  Apart(HelperCall(p), HelperCall(q))
  BY HelperCallGood DEF HelpersUsedWell
<1> DEFINE P(s) == Span(held[p][s].ptr.addr, held[p][s].size)
           Q(s) == Span(held[q][s].ptr.addr, held[q][s].size)
<1>1. \A s, t \in Slots : Owning(p, s) /\ Owning(q, t) => P(s) \cap Q(t) = {}
  BY ObjectsApart
<1>2. /\ Writes(HelperCall(p)) \subseteq P(New) /\ Writes(HelperCall(q)) \subseteq Q(New)
      /\ Owning(p, New) /\ Owning(q, New)
      /\ New \in Slots /\ job[p].h \in Slots /\ job[q].h \in Slots
  BY HelperCallGood DEF Slots
<1>3. /\ Reads(HelperCall(p)) = {} \/ (Owning(p, job[p].h) /\ Reads(HelperCall(p)) \subseteq P(job[p].h))
      /\ Reads(HelperCall(q)) = {} \/ (Owning(q, job[q].h) /\ Reads(HelperCall(q)) \subseteq Q(job[q].h))
  BY HelperCallGood
<1> HIDE DEF P, Q
<1> QED BY <1>1, <1>2, <1>3 DEF Apart, Footprint
-----------------------------------------------------------------------------
LEMMA SlotFacts == New \in Slots /\ \A h \in Handles : h \in Slots /\ h # New
BY SlotAssumption DEF Slots

\* The parts of the invariant that Gain and Lose do not establish.
Rest == mem \in [Addr -> Byte] /\ spent \in [Progs -> BOOLEAN]
        /\ job \in [Progs -> [at : Stages, h : Slots]]
        /\ JobsConsistent

\* A handle of p, which is in no call, gains or loses an allocation.
LEMMA HandleChange ==
  ASSUME IInv, NEW p \in Progs, Running(p), NEW h \in Handles,
         held' \in [Progs -> [Slots -> Objects \cup {Nothing}]],
         \A q \in Progs, t \in Slots : q # p \/ t # h => held'[q][t] = held[q][t],
         Target = "hosted" /\ Owning(p, h)' => held'[p][h].ptr.view = "user",
         UNCHANGED <<mem, job, spent>>
  PROVE  Rest'
<1>1. New \in Slots /\ h \in Slots /\ h # New
  BY SlotFacts
<1>2. \A q \in Progs, t \in Slots : q # p \/ t # h => held'[q][t] = held[q][t]
  OBVIOUS
<1>3. \A q \in Progs : JobOK(q)
  BY DEF IInv, JobsConsistent
<1>4. ASSUME NEW q \in Progs
      PROVE  JobOK(q)'
  <2>1. CASE q = p
    <3>1. held'[p][New] = held[p][New] /\ job'[p] = job[p] /\ job[p].at = "run"
      BY <1>1, <1>2 DEF Running
    <3>2. ~Owning(p, New)' /\ Running(p)'
      BY <1>3, <3>1 DEF JobOK, Owning, Running
    <3>3. Target = "hosted" => \A t \in Slots : Owning(p, t)' => held'[p][t].ptr.view = "user"
      BY <1>2, <1>3 DEF JobOK, Owning
    <3> QED BY <2>1, <3>1, <3>2, <3>3 DEF JobOK
  <2>2. CASE q # p
    <3>1. held'[q] = held[q] /\ job'[q] = job[q]
      BY <1>2, <2>2 DEF IInv, TypeOK
    <3> QED BY <1>3, <3>1 DEF JobOK, Owning, Running, Dereferenceable
  <2> QED BY <2>1, <2>2
<1>5. JobsConsistent'
  BY <1>4 DEF JobsConsistent
<1> QED BY <1>5 DEF Rest, IInv, TypeOK

\* alloc, arena_malloc and arena_malloc_user
LEMMA HandleGains ==
  ASSUME IInv, HostEnough, NEW p \in Progs, NEW h \in Handles, Running(p), ~Owning(p, h),
         NEW n \in Nat, NEW ptr \in Pointer, arena_malloc(n, ptr) \/ arena_malloc_internal(n, ptr),
         NEW size \in Sizes, NEW align \in Aligns, size <= n, align <= n,
         Hold(p, h, ptr, size, align), UNCHANGED <<mem, job, spent, lost>>
  PROVE  IInv'
<1>1. PICK b \in Places(n) : ptr.addr = b.base /\ blocks' = blocks \cup {b}
  BY MallocGives
<1>2. /\ held' \in [Progs -> [Slots -> Objects \cup {Nothing}]]
      /\ blocks' \in SUBSET Blocks /\ lost' \in SUBSET blocks' /\ Ownership'
  BY <1>1, SlotFacts, Gain
<1>3. Target = "hosted" => ptr.view = "user"
  BY MallocView, InternalView
<1>4. held'[p][h].ptr = ptr
  BY SlotFacts DEF Hold, IInv, TypeOK
<1>5. \A q \in Progs, t \in Slots : q # p \/ t # h => held'[q][t] = held[q][t]
  BY SlotFacts DEF Hold, IInv, TypeOK
<1>6. Rest'
  BY <1>2, <1>3, <1>4, <1>5, HandleChange
<1> QED BY <1>2, <1>6 DEF IInv, TypeOK, Rest, Ownership

\* dealloc, arena_free and arena_free_user
LEMMA HandleLoses ==
  ASSUME IInv, NEW p \in Progs, NEW h \in Handles, Running(p), Owning(p, h),
         \/ arena_free(held[p][h].ptr)
         \/ held[p][h].ptr.view = "user" /\ arena_free_u64(held[p][h].ptr),
         held' = [held EXCEPT ![p][h] = Nothing], UNCHANGED <<mem, job, spent, lost>>
  PROVE  IInv'
<1>1. blocks' = {b \in blocks : b.base # held[p][h].ptr.addr}
  <2>1. held[p][h].ptr \in Pointer /\ (Target = "hosted" => held[p][h].ptr.view = "user")
    BY SlotFacts, ObjectInBlock DEF IInv, JobsConsistent, JobOK
  <2> QED BY <2>1, FreeTakes
<1>2. /\ held' \in [Progs -> [Slots -> Objects \cup {Nothing}]]
      /\ blocks' \in SUBSET Blocks /\ lost' \in SUBSET blocks' /\ Ownership'
  BY <1>1, SlotFacts, Lose
<1>3. /\ \A q \in Progs, t \in Slots : q # p \/ t # h => held'[q][t] = held[q][t]
      /\ held'[p][h] = Nothing
  BY SlotFacts DEF IInv, TypeOK
<1>4. Rest'
  BY <1>2, <1>3, HandleChange DEF Owning
<1> QED BY <1>2, <1>4 DEF IInv, TypeOK, Rest, Ownership

\* The first step of alloc_zeroed and of realloc: an alloc for slot New.
LEMMA NewGains ==
  ASSUME IInv, HostEnough, NEW p \in Progs, NEW h \in Handles, Running(p),
         NEW l, l.size \in Sizes, l.align \in Aligns,
         NEW ptr \in Pointer, arena_malloc(request_size(l), ptr),
         Hold(p, New, ptr, l.size, l.align), UNCHANGED <<mem, spent, lost>>,
         \/ job' = [job EXCEPT ![p] = [at |-> "zero", h |-> h]] /\ ~Owning(p, h)
         \/ /\ job' = [job EXCEPT ![p] = [at |-> "copy", h |-> h]]
            /\ Owning(p, h) /\ Dereferenceable(held[p][h].ptr)
  PROVE  IInv'
<1>1. ~Owning(p, New) /\ New \in Slots /\ h \in Slots /\ h # New
  BY SlotFacts DEF IInv, JobsConsistent, JobOK
<1>2. PICK b \in Places(request_size(l)) : ptr.addr = b.base /\ blocks' = blocks \cup {b}
  BY MallocGives, RequestCovers
<1>3. /\ held' \in [Progs -> [Slots -> Objects \cup {Nothing}]]
      /\ blocks' \in SUBSET Blocks /\ lost' \in SUBSET blocks' /\ Ownership'
  BY <1>1, <1>2, Gain, RequestCovers
<1>4. /\ held'[p][New].ptr = ptr /\ held'[p][New] # Nothing
      /\ \A q \in Progs, t \in Slots : q # p \/ t # New => held'[q][t] = held[q][t]
  <2>1. [ptr |-> ptr, size |-> l.size, align |-> l.align] \in Objects
    BY DEF Objects
  <2> QED BY <1>1, <2>1, NullAssumption DEF Hold, IInv, TypeOK
<1>5. Dereferenceable(ptr) /\ (Target = "hosted" => ptr.view = "user")
  BY MallocView
<1>6. /\ job' \in [Progs -> [at : Stages, h : Slots]]
      /\ \A q \in Progs \ {p} : job'[q] = job[q]
      /\ job'[p].h = h
      /\ \/ job'[p].at = "zero" /\ ~Owning(p, h)
         \/ job'[p].at = "copy" /\ Owning(p, h) /\ Dereferenceable(held[p][h].ptr)
  BY <1>1 DEF IInv, TypeOK, Stages
<1>7. JobsConsistent'
  BY <1>1, <1>4, <1>5, <1>6 DEF IInv, JobsConsistent, JobOK, Owning, Running, Dereferenceable
<1> QED BY <1>3, <1>6, <1>7 DEF IInv, TypeOK, Ownership

\* The call is over: the handle takes the block prepared in slot New.
LEMMA NewMoves ==
  ASSUME IInv, NEW p \in Progs, ~Running(p), held' \in [Progs -> [Slots -> Objects \cup {Nothing}]],
         held' = [held EXCEPT ![p][job[p].h] = held[p][New], ![p][New] = Nothing],
         job' = [job EXCEPT ![p] = Idle]
  PROVE  /\ job' \in [Progs -> [at : Stages, h : Slots]]
         /\ JobsConsistent'
         /\ held'[p][New] = Nothing /\ held'[p][job[p].h] = held[p][New]
         /\ \A q \in Progs, t \in Slots : q # p \/ t \notin {job[p].h, New} => held'[q][t] = held[q][t]
<1>1. /\ job[p].h \in Handles /\ job[p].h \in Slots /\ job[p].h # New /\ New \in Slots
      /\ Owning(p, New) /\ Dereferenceable(held[p][New].ptr)
  BY SlotFacts DEF IInv, JobsConsistent, JobOK
<1>2. /\ job' \in [Progs -> [at : Stages, h : Slots]]
      /\ job'[p].at = "run" /\ \A q \in Progs \ {p} : job'[q] = job[q]
  BY <1>1 DEF IInv, TypeOK, Idle, Stages
<1>3. /\ held'[p][New] = Nothing /\ held'[p][job[p].h] = held[p][New]
      /\ \A q \in Progs, t \in Slots : q # p \/ t \notin {job[p].h, New} => held'[q][t] = held[q][t]
  <2>1. /\ held' = [held EXCEPT ![p] = [held[p] EXCEPT ![job[p].h] = held[p][New], ![New] = Nothing]]
        /\ held[p] \in [Slots -> Objects \cup {Nothing}]
    BY DEF IInv, TypeOK
  <2> QED BY <1>1, <2>1 DEF IInv, TypeOK
<1>4. JobsConsistent'
  BY <1>1, <1>2, <1>3 DEF IInv, JobsConsistent, JobOK, Owning, Running, Dereferenceable
<1> QED BY <1>2, <1>3, <1>4

\* Steps that change no ownership.
LEMMA SameOwnership ==
  ASSUME IInv, UNCHANGED <<blocks, lost>>,
         \A q \in Progs, t \in Slots :
           /\ Owning(q, t)' <=> Owning(q, t)
           /\ Owning(q, t) => /\ held'[q][t].ptr.addr = held[q][t].ptr.addr
                              /\ held'[q][t].size = held[q][t].size
                              /\ held'[q][t].align = held[q][t].align
  PROVE  Ownership'
<1>1. LayoutSatisfied'
  BY DEF IInv, LayoutSatisfied
<1>2. Accounted'
  BY DEF IInv, Accounted
<1>3. BlocksApart'
  BY DEF IInv, BlocksApart
<1> QED BY <1>1, <1>2, <1>3 DEF Ownership

LEMMA SameHeld ==
  ASSUME IInv, UNCHANGED <<blocks, held, job, lost>>,
         mem' \in [Addr -> Byte], spent' \in [Progs -> BOOLEAN]
  PROVE  IInv'
<1>1. TypeOK'
  BY DEF IInv, TypeOK
<1>2. Ownership'
  BY SameOwnership DEF Owning
<1>3. JobsConsistent'
  BY DEF IInv, JobsConsistent, JobOK, Owning, Running, Dereferenceable
<1> QED BY <1>1, <1>2, <1>3 DEF IInv, Ownership

\* A handle that owned nothing takes the block prepared in slot New.
LEMMA Move ==
  ASSUME IInv, NEW p \in Progs, NEW s \in Slots, NEW t \in Slots, ~Owning(p, s), Owning(p, t),
         held'[p][s] = held[p][t], held'[p][t] = Nothing,
         \A q \in Progs, u \in Slots : q # p \/ u \notin {s, t} => held'[q][u] = held[q][u],
         UNCHANGED <<blocks, lost>>
  PROVE  Ownership'
<1> USE DEF IInv
<1>1. /\ s # t /\ held'[p][s] = held[p][t] /\ held'[p][t] = Nothing
      /\ \A q \in Progs, u \in Slots : q # p \/ u \notin {s, t} => held'[q][u] = held[q][u]
  OBVIOUS
<1>2. \A q \in Progs, u \in Slots : Owning(q, u)' =>
        \E w \in Slots : /\ Owning(q, w) /\ held'[q][u] = held[q][w]
                        /\ w = IF q = p /\ u = s THEN t ELSE u
  BY <1>1 DEF Owning
<1>3. \A q \in Progs, w \in Slots : Owning(q, w) =>
        \E u \in Slots : Owning(q, u)' /\ held'[q][u] = held[q][w]
  BY <1>1 DEF Owning
<1>4. LayoutSatisfied'
  BY <1>2 DEF LayoutSatisfied
<1>5. Accounted'
  <2>1. ASSUME NEW q \in Progs, NEW u \in Slots, NEW r \in Progs, NEW v \in Slots,
               Owning(q, u)', Owning(r, v)', held'[q][u].ptr.addr = held'[r][v].ptr.addr
        PROVE  q = r /\ u = v
    <3>1. PICK w \in Slots : /\ Owning(q, w) /\ held'[q][u] = held[q][w]
                             /\ w = IF q = p /\ u = s THEN t ELSE u
      BY <1>2, <2>1
    <3>2. PICK x \in Slots : /\ Owning(r, x) /\ held'[r][v] = held[r][x]
                             /\ x = IF r = p /\ v = s THEN t ELSE v
      BY <1>2, <2>1
    <3>3. q = r /\ w = x
      BY <2>1, <3>1, <3>2 DEF Accounted
    <3>4. ~(q = p /\ u = t) /\ ~(r = p /\ v = t)
      BY <1>1, <2>1 DEF Owning
    <3> QED BY <3>1, <3>2, <3>3, <3>4
  <2>2. ASSUME NEW d \in blocks'
        PROVE  d \in lost' <=> ~ \E q \in Progs, u \in Slots : Owning(q, u)' /\ held'[q][u].ptr.addr = d.base
    <3>1. d \in lost <=> ~ \E q \in Progs, u \in Slots : Owning(q, u) /\ held[q][u].ptr.addr = d.base
      BY DEF Accounted
    <3>2. ASSUME NEW q \in Progs, NEW u \in Slots, Owning(q, u)', held'[q][u].ptr.addr = d.base
          PROVE  \E w \in Slots : Owning(q, w) /\ held[q][w].ptr.addr = d.base
      BY <1>2, <3>2
    <3>3. ASSUME NEW q \in Progs, NEW w \in Slots, Owning(q, w), held[q][w].ptr.addr = d.base
          PROVE  \E u \in Slots : Owning(q, u)' /\ held'[q][u].ptr.addr = d.base
      BY <1>3, <3>3
    <3> QED BY <3>1, <3>2, <3>3
  <2> QED BY <2>1, <2>2 DEF Accounted
<1>6. BlocksApart'
  BY DEF BlocksApart
<1> QED BY <1>4, <1>5, <1>6 DEF Ownership

\* A trap: what the program owned is lost, and nothing else.
LEMMA PanicLoses ==
  ASSUME IInv, NEW p \in Progs, Panic(p)
  PROVE  IInv'
<1> USE DEF IInv
<1>1. /\ Running(p) /\ UNCHANGED <<mem, blocks, job>> /\ spent' \in [Progs -> BOOLEAN]
      /\ held' \in [Progs -> [Slots -> Objects \cup {Nothing}]]
      /\ \A t \in Slots : held'[p][t] = Nothing
      /\ \A q \in Progs \ {p} : held'[q] = held[q]
      /\ lost' = lost \cup {b \in blocks : \E h \in Handles : Owning(p, h) /\ held[p][h].ptr.addr = b.base}
  BY DEF Panic, TypeOK
<1>2. TypeOK'
  BY <1>1 DEF TypeOK
<1>3. \A s \in Slots : Owning(p, s) => s \in Handles
  BY <1>1 DEF JobsConsistent, JobOK, Slots
<1>4. LayoutSatisfied'
  BY <1>1 DEF LayoutSatisfied, Owning
<1>5. Accounted'
  <2>1. ASSUME NEW q \in Progs, NEW s \in Slots, NEW r \in Progs, NEW t \in Slots,
               Owning(q, s)', Owning(r, t)', held'[q][s].ptr.addr = held'[r][t].ptr.addr
        PROVE  q = r /\ s = t
    <3>1. q # p /\ r # p
      BY <1>1, <2>1 DEF Owning
    <3>2. held'[q] = held[q] /\ held'[r] = held[r]
      BY <1>1, <3>1
    <3>3. Owning(q, s) /\ Owning(r, t) /\ held[q][s].ptr.addr = held[r][t].ptr.addr
      BY <2>1, <3>2 DEF Owning
    <3> QED BY <3>3 DEF Accounted
  <2>2. ASSUME NEW b \in blocks'
        PROVE  b \in lost' <=> ~ \E q \in Progs, s \in Slots : Owning(q, s)' /\ held'[q][s].ptr.addr = b.base
    <3>1. b \in lost <=> ~ \E q \in Progs, s \in Slots : Owning(q, s) /\ held[q][s].ptr.addr = b.base
      BY <1>1 DEF Accounted
    <3>2. CASE \E h \in Handles : Owning(p, h) /\ held[p][h].ptr.addr = b.base
      <4>1. b \in lost'
        BY <1>1, <3>2
      <4>2. ASSUME NEW q \in Progs, NEW s \in Slots, Owning(q, s)', held'[q][s].ptr.addr = b.base
            PROVE  FALSE
        <5>1. q # p /\ Owning(q, s) /\ held[q][s].ptr.addr = b.base
          BY <1>1, <4>2 DEF Owning
        <5> QED BY <3>2, <5>1, SlotFacts DEF Accounted
      <4> QED BY <4>1, <4>2
    <3>3. CASE ~ \E h \in Handles : Owning(p, h) /\ held[p][h].ptr.addr = b.base
      <4>1. b \in lost' <=> b \in lost
        BY <1>1, <3>3
      <4>2. \A q \in Progs, s \in Slots : Owning(q, s)' /\ held'[q][s].ptr.addr = b.base <=>
                                         Owning(q, s) /\ held[q][s].ptr.addr = b.base
        BY <1>1, <1>3, <3>3 DEF Owning
      <4> QED BY <3>1, <4>1, <4>2
    <3> QED BY <3>2, <3>3
  <2> QED BY <2>1, <2>2 DEF Accounted
<1>6. BlocksApart'
  BY <1>1 DEF BlocksApart
<1>7. JobsConsistent'
  <2>1. \A q \in Progs \ {p} : /\ held'[q] = held[q] /\ job'[q] = job[q]
    BY <1>1
  <2>2. Running(p)' /\ \A t \in Slots : ~Owning(p, t)'
    BY <1>1 DEF Running, Owning
  <2> QED BY <2>1, <2>2, SlotFacts DEF JobsConsistent, JobOK, Owning, Running, Dereferenceable
<1> QED BY <1>2, <1>4, <1>5, <1>6, <1>7

(***************************************************************************)
(* The invariant of the allocator, for any interleaving of any number of   *)
(* programs: every allocation satisfies its layout, and every block is     *)
(* owned once, unless the program that owned it trapped.                   *)
(***************************************************************************)
THEOREM HeapCorrect == HostEnough => (Spec => []IInv)
<1> SUFFICES ASSUME HostEnough PROVE Spec => []IInv
  OBVIOUS
<1>1. Init => IInv
  <2> SUFFICES ASSUME Init PROVE IInv
    OBVIOUS
  <2>1. TypeOK
    BY DEF Init, TypeOK, Idle, Slots, Stages
  <2>2. \A p \in Progs, s \in Slots : ~Owning(p, s) /\ Running(p) /\ job[p].at = "run"
    BY DEF Init, Owning, Running, Idle
  <2>3. LayoutSatisfied /\ Accounted /\ BlocksApart
    BY <2>2 DEF Init, LayoutSatisfied, Accounted, BlocksApart
  <2>4. JobsConsistent
    BY <2>2, SlotFacts DEF JobsConsistent, JobOK
  <2> QED BY <2>1, <2>3, <2>4 DEF IInv
<1>2. IInv /\ [Next]_vars => IInv'
  <2> SUFFICES ASSUME IInv, [Next]_vars PROVE IInv'
    OBVIOUS
  <2>1. ASSUME NEW p \in Progs, NEW h \in Handles, NEW l \in Layouts, Alloc(p, h, l)
        PROVE  IInv'
    BY <2>1, LayoutType, RequestCovers, HandleGains DEF Alloc
  <2>2. ASSUME NEW p \in Progs, NEW h \in Handles, NEW l \in Layouts, StartZeroed(p, h, l)
        PROVE  IInv'
    BY <2>2, LayoutType, NewGains DEF StartZeroed
  <2>3. ASSUME NEW p \in Progs, NEW h \in Handles, NEW n \in Sizes, StartRealloc(p, h, n)
        PROVE  IInv'
    <3> DEFINE l == [size |-> n, align |-> held[p][h].align]
    <3>1. l.size = n /\ l.align = held[p][h].align /\ Owning(p, h)
      BY <2>3 DEF StartRealloc
    <3>2. l.size \in Sizes /\ l.align \in Aligns
      BY <3>1, SlotFacts, ObjectInBlock
    <3> QED BY <2>3, <3>2, NewGains DEF StartRealloc
  <2>4. ASSUME NEW p \in Progs, NEW h \in Handles, NEW n \in RawSizes, RawMalloc(p, h, n)
        PROVE  IInv'
    <3>1. n \in Sizes /\ 1 \in Aligns /\ n \in Nat /\ n <= n /\ 1 <= n
      <4>1. n \in Nat \ {0}
        BY RawAssumption
      <4> QED BY <4>1 DEF Sizes, Aligns
    <3> QED BY <2>4, <3>1, HandleGains DEF RawMalloc
  <2>5. ASSUME NEW p \in Progs, NEW h \in Handles, Dealloc(p, h) \/ RawFreeUser(p, h)
        PROVE  IInv'
    BY <2>5, HandleLoses DEF Dealloc, RawFreeUser
  <2>6. ASSUME NEW p \in Progs, NEW h \in Handles, CastHandle(p, h)
        PROVE  IInv'
    <3>1. PICK ptr \in {cast_kern(held[p][h].ptr), cast_user(held[p][h].ptr)} :
            held' = [held EXCEPT ![p][h].ptr = ptr]
      BY <2>6 DEF CastHandle
    <3>2. /\ h \in Slots /\ Owning(p, h) /\ Running(p) /\ UNCHANGED <<mem, blocks, job, spent, lost>>
          /\ held[p][h] \in Objects /\ held[p][h].ptr \in Pointer
      BY <2>6, SlotFacts, ObjectInBlock DEF CastHandle
    <3>3. /\ ptr \in Pointer /\ ptr.addr = held[p][h].ptr.addr
          /\ Target = "hosted" => ptr = held[p][h].ptr
      BY <3>2, CastType
    <3> DEFINE o == [ptr |-> ptr, size |-> held[p][h].size, align |-> held[p][h].align]
    <3>4. o \in Objects /\ o # Nothing /\ [held[p][h] EXCEPT !.ptr = ptr] = o
      BY <3>2, <3>3, NullAssumption DEF Objects
    <3>5. /\ held' \in [Progs -> [Slots -> Objects \cup {Nothing}]] /\ held'[p][h] = o
          /\ \A q \in Progs, t \in Slots : q # p \/ t # h => held'[q][t] = held[q][t]
      BY <3>1, <3>2, <3>4 DEF IInv, TypeOK
    <3>6. Target = "hosted" => held'[p][h].ptr.view = "user"
      BY <3>2, <3>3, <3>5 DEF IInv, JobsConsistent, JobOK
    <3>7. Rest'
      BY <3>2, <3>5, <3>6, HandleChange
    <3>8. Ownership'
      BY <3>2, <3>3, <3>4, <3>5, SameOwnership DEF Owning
    <3> QED BY <3>2, <3>5, <3>7, <3>8 DEF IInv, TypeOK, Rest, Ownership
  <2>7. ASSUME NEW p \in Progs, NEW h \in Handles, NEW k \in Addr, NEW v \in Byte, Write(p, h, k, v)
        PROVE  IInv'
    <3>1. mem' \in [Addr -> Byte] /\ UNCHANGED <<blocks, held, job, spent, lost>>
      BY <2>7 DEF Write, IInv, TypeOK
    <3> QED BY <3>1, SameHeld DEF IInv, TypeOK
  <2>8. ASSUME NEW p \in Progs, FinishZeroed(p)
        PROVE  IInv'
    <3>1. /\ ~Running(p) /\ UNCHANGED <<mem, blocks, spent, lost>>
          /\ New \in Slots /\ job[p].h \in Slots /\ Owning(p, New) /\ ~Owning(p, job[p].h)
      BY <2>8, SlotFacts DEF FinishZeroed, Running, IInv, JobsConsistent, JobOK
    <3>2. held' \in [Progs -> [Slots -> Objects \cup {Nothing}]]
      BY <2>8, <3>1 DEF FinishZeroed, IInv, TypeOK
    <3>3. /\ job' \in [Progs -> [at : Stages, h : Slots]]
          /\ JobsConsistent'
          /\ held'[p][New] = Nothing /\ held'[p][job[p].h] = held[p][New]
          /\ \A q \in Progs, t \in Slots : q # p \/ t \notin {job[p].h, New} => held'[q][t] = held[q][t]
      BY <2>8, <3>1, <3>2, NewMoves DEF FinishZeroed
    <3>4. Ownership'
      BY <3>1, <3>3, Move
    <3> QED BY <3>1, <3>2, <3>3, <3>4 DEF IInv, TypeOK, Ownership
  <2>9. ASSUME NEW p \in Progs, RunHelper(p)
        PROVE  IInv'
    <3>1. Helping(p) /\ Help(p) /\ UNCHANGED <<blocks, held, lost>>
      BY <2>9 DEF RunHelper, Helping, Running
    <3>2. mem' \in [Addr -> Byte] /\ spent' \in [Progs -> BOOLEAN]
      BY <3>1, HelpType
    <3>3. /\ job' \in [Progs -> [at : Stages, h : Slots]]
          /\ \/ job[p].at = "zero" /\ job'[p].at = "give"
             \/ job[p].at = "copy" /\ job'[p].at = "free"
          /\ job'[p].h = job[p].h
          /\ \A q \in Progs \ {p} : job'[q] = job[q]
      BY <2>9 DEF RunHelper, IInv, TypeOK, Stages
    <3>4. Ownership'
      BY <3>1, SameOwnership DEF Owning
    <3>5. JobsConsistent'
      BY <3>1, <3>3 DEF IInv, JobsConsistent, JobOK, Owning, Running, Dereferenceable
    <3> QED BY <3>1, <3>2, <3>3, <3>4, <3>5 DEF IInv, TypeOK, Ownership
  <2>10. ASSUME NEW p \in Progs, FinishRealloc(p)
         PROVE  IInv'
    <3>1. /\ ~Running(p) /\ New \in Slots /\ job[p].h \in Slots /\ job[p].h # New
          /\ Owning(p, New) /\ Owning(p, job[p].h)
          /\ UNCHANGED <<mem, spent, lost>>
      BY <2>10, SlotFacts DEF FinishRealloc, Running, IInv, JobsConsistent, JobOK
    <3>2. blocks' = {b \in blocks : b.base # held[p][job[p].h].ptr.addr}
      <4>1. /\ held[p][job[p].h].ptr \in Pointer
            /\ Target = "hosted" => held[p][job[p].h].ptr.view = "user"
        BY <3>1, ObjectInBlock DEF IInv, JobsConsistent, JobOK
      <4> QED BY <2>10, <4>1, FreeTakes DEF FinishRealloc
    <3>3. /\ held' \in [Progs -> [Slots -> Objects \cup {Nothing}]]
          /\ blocks' \in SUBSET Blocks /\ lost' \in SUBSET blocks' /\ Ownership'
      BY <2>10, <3>1, <3>2, Lose DEF FinishRealloc
    <3>4. /\ job' \in [Progs -> [at : Stages, h : Slots]]
          /\ JobsConsistent'
      BY <2>10, <3>1, <3>3, NewMoves DEF FinishRealloc
    <3> QED BY <3>1, <3>3, <3>4 DEF IInv, TypeOK, Ownership
  <2>11. ASSUME NEW p \in Progs, Return(p)
         PROVE  IInv'
    <3>1. spent' \in [Progs -> BOOLEAN] /\ UNCHANGED <<mem, blocks, held, job, lost>>
      BY <2>11 DEF Return, IInv, TypeOK
    <3> QED BY <3>1, SameHeld DEF IInv, TypeOK
  <2>12. ASSUME NEW p \in Progs, Panic(p)
         PROVE  IInv'
    BY <2>12, PanicLoses
  <2>13. CASE \/ UNCHANGED vars
              \/ \E p \in Progs, h \in Handles, n \in Sizes : ReallocRefused(p, h, n)
    <3>1. UNCHANGED <<mem, blocks, held, job, spent, lost>>
      BY <2>13, RefusalIsVain DEF vars
    <3> QED BY <3>1, SameHeld DEF IInv, TypeOK
  <2> QED
    BY <2>1, <2>2, <2>3, <2>4, <2>5, <2>6, <2>7, <2>8, <2>9, <2>10, <2>11, <2>12, <2>13 DEF Next
<1> QED BY <1>1, <1>2, PTL DEF Spec

(***************************************************************************)
(* Whatever the interleaving, realloc and alloc_zeroed call the memory     *)
(* helpers under the conditions on which the helpers were proved correct.  *)
(***************************************************************************)
THEOREM HelpersCalledWell == HostEnough => (Spec => []HelpersUsedWell)
<1>1. IInv => HelpersUsedWell
  BY UsedWell
<1> QED BY <1>1, HeapCorrect, PTL

(***************************************************************************)
(* max(size, align) bytes satisfy every layout on BPF, and off BPF when    *)
(* HostEnough holds; and no block leaks or is owned twice.        *)
(***************************************************************************)
THEOREM LayoutsHold == HostEnough => (Spec => [](LayoutSatisfied /\ Accounted))
<1>1. IInv => LayoutSatisfied /\ Accounted
  BY DEF IInv
<1> QED BY <1>1, HeapCorrect, PTL
=============================================================================
