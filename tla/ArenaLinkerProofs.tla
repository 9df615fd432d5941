-------------------------- MODULE ArenaLinkerProofs --------------------------
(***************************************************************************)
(* Proofs about ArenaLinker, for every program, environment and libarena   *)
(* that meet the assumptions of the module, whatever O2 inlines.           *)
(***************************************************************************)
EXTENDS ArenaLinker, TLAPS

-----------------------------------------------------------------------------
(* The graph of calls.                                                     *)

\* A closure starts with S and adds members of via only.
LEMMA ClosureBounds ==
  ASSUME NEW E, NEW S, NEW via
  PROVE  S \subseteq Closure(E, S, via) /\ Closure(E, S, via) \subseteq S \cup via
BY DEF Closure

\* It is closed: what a member calls, if in via, is a member.
LEMMA ClosureClosed ==
  ASSUME NEW E, NEW S, NEW via, NEW f \in Closure(E, S, via), f \in DOMAIN E,
         NEW g \in E[f], g \in via
  PROVE  g \in Closure(E, S, via)
<1>1. ASSUME NEW C \in SUBSET via,
             \A x \in (S \cup C) \cap DOMAIN E : E[x] \cap via \subseteq S \cup C
      PROVE  g \in S \cup C
  BY <1>1 DEF Closure
<1> QED BY <1>1 DEF Closure

\* And it is the least: it has nothing that nobody calls.
LEMMA ClosureAvoids ==
  ASSUME NEW E, NEW S, NEW via, NEW X, S \cap X = {},
         \A f \in (S \cup via) \cap DOMAIN E : E[f] \cap X = {}
  PROVE  Closure(E, S, via) \cap X = {}
<1> DEFINE C == via \ X
<1>1. C \in SUBSET via /\ \A f \in (S \cup C) \cap DOMAIN E : E[f] \cap via \subseteq S \cup C
  OBVIOUS
<1> QED BY <1>1 DEF Closure

\* What is closed under the calls stays among itself.
LEMMA ClosureWithin ==
  ASSUME NEW E, NEW S, NEW via, NEW F, S \subseteq F,
         \A f \in F \cap DOMAIN E : E[f] \cap via \subseteq F
  PROVE  Closure(E, S, via) \subseteq F
<1> DEFINE C == via \cap F
<1>1. C \in SUBSET via /\ \A f \in (S \cup C) \cap DOMAIN E : E[f] \cap via \subseteq S \cup C
  OBVIOUS
<1> QED BY <1>1 DEF Closure

\* globaldce keeps functions as they are, keeps what is visible, and keeps what
\* these call.
LEMMA DCE ==
  ASSUME NEW m
  PROVE  /\ DOMAIN GlobalDCE(m) \subseteq DOMAIN m
         /\ Roots(m) \subseteq DOMAIN GlobalDCE(m)
         /\ \A f \in DOMAIN GlobalDCE(m) :
              /\ GlobalDCE(m)[f] = m[f]
              /\ m[f].calls \cap DOMAIN m \subseteq DOMAIN GlobalDCE(m)
<1> DEFINE E == [f \in DOMAIN m |-> m[f].calls]
           live == Closure(E, Roots(m), DOMAIN m \ Roots(m))
<1>1. GlobalDCE(m) = [f \in live |-> m[f]]
  BY DEF GlobalDCE
<1>2. Roots(m) \subseteq DOMAIN m
  BY DEF Roots
<1>3. Roots(m) \subseteq live /\ live \subseteq DOMAIN m
  BY <1>2, ClosureBounds
<1>4. ASSUME NEW f \in live, NEW g \in m[f].calls \cap DOMAIN m
      PROVE  g \in live
  <2>1. CASE g \in Roots(m)
    BY <1>3, <2>1
  <2>2. CASE g \notin Roots(m)
    <3>1. f \in DOMAIN E /\ g \in E[f] /\ g \in DOMAIN m \ Roots(m)
      BY <1>3, <2>2
    <3> HIDE DEF E
    <3> QED BY <3>1, ClosureClosed
  <2> QED BY <2>1, <2>2
<1> QED BY <1>1, <1>3, <1>4

\* And it drops what is not visible and nobody calls.
LEMMA DCEAvoids ==
  ASSUME NEW m, NEW X, Roots(m) \cap X = {}, \A f \in DOMAIN m : m[f].calls \cap X = {}
  PROVE  DOMAIN GlobalDCE(m) \cap X = {}
<1> DEFINE E == [f \in DOMAIN m |-> m[f].calls]
           live == Closure(E, Roots(m), DOMAIN m \ Roots(m))
<1>1. GlobalDCE(m) = [f \in live |-> m[f]]
  BY DEF GlobalDCE
<1>2. \A f \in DOMAIN E : E[f] \cap X = {}
  OBVIOUS
<1> HIDE DEF E
<1>3. live \cap X = {}
  BY <1>2, ClosureAvoids
<1> QED BY <1>1, <1>3

-----------------------------------------------------------------------------
(* What one function may become when others are inlined into it.           *)
Absorbs(fn, old, m, into, via) ==
  /\ fn.origin = old.origin /\ fn.linkage = old.linkage /\ fn.section = old.section
  /\ fn.ret = old.ret /\ fn.used = old.used
  /\ fn.calls  = UNION {(m[g].calls \ via) \cup m[g].cold : g \in into}
  /\ fn.cold   = UNION {m[g].cold : g \in into}
  /\ fn.exits  = UNION {m[g].exits : g \in into}
  /\ fn.parts  = UNION {m[g].parts : g \in into}

LEMMA InlineEffect ==
  ASSUME NEW N, NEW m, NEW via \in SUBSET DOMAIN m, \A f \in DOMAIN m : m[f] \in Funcs(N)
  PROVE  /\ DOMAIN Inline(m, via) = DOMAIN m
         /\ \A f \in DOMAIN m : \E into \in SUBSET DOMAIN m :
              /\ f \in into /\ into \subseteq {f} \cup via
              /\ \A F : f \in F /\ (\A g \in F \cap DOMAIN m : m[g].calls \cap via \subseteq F)
                        => into \subseteq F
              /\ Inline(m, via)[f] \in Funcs(N)
              /\ Absorbs(Inline(m, via)[f], m[f], m, into, via)
<1> DEFINE E == [f \in DOMAIN m |-> m[f].calls \ m[f].cold]
<1>1. DOMAIN Inline(m, via) = DOMAIN m
  BY DEF Inline
<1>2. ASSUME NEW f \in DOMAIN m
      PROVE  \E into \in SUBSET DOMAIN m :
               /\ f \in into /\ into \subseteq {f} \cup via
               /\ \A F : f \in F /\ (\A g \in F \cap DOMAIN m : m[g].calls \cap via \subseteq F)
                         => into \subseteq F
               /\ Inline(m, via)[f] \in Funcs(N)
               /\ Absorbs(Inline(m, via)[f], m[f], m, into, via)
  <2> DEFINE into == Closure(E, {f}, via)
             fn == Inline(m, via)[f]
  <2>1. fn = [m[f] EXCEPT
               !.calls  = UNION {(m[g].calls \ via) \cup m[g].cold : g \in into},
               !.cold   = UNION {m[g].cold : g \in into},
               !.exits  = UNION {m[g].exits : g \in into},
               !.invoke = \E g \in into : m[g].invoke,
               !.parts  = UNION {m[g].parts : g \in into}]
    BY DEF Inline
  <2>2. f \in into /\ into \subseteq {f} \cup via
    BY ClosureBounds
  <2>4. ASSUME NEW F, f \in F, \A g \in F \cap DOMAIN m : m[g].calls \cap via \subseteq F
        PROVE  into \subseteq F
    <3>1. \A g \in F \cap DOMAIN E : E[g] \cap via \subseteq F
      BY <2>4
    <3>2. {f} \subseteq F
      BY <2>4
    <3> HIDE DEF E
    <3> QED BY <3>1, <3>2, ClosureWithin
  <2> HIDE DEF into, fn
  <2>3. Absorbs(fn, m[f], m, into, via) /\ fn \in Funcs(N)
    <3>1. \A g \in into : m[g] \in Funcs(N)
      BY <2>2
    <3> DEFINE c == UNION {(m[g].calls \ via) \cup m[g].cold : g \in into}
               d == UNION {m[g].cold : g \in into}
               x == UNION {m[g].exits : g \in into}
               i == \E g \in into : m[g].invoke
               p == UNION {m[g].parts : g \in into}
    <3>2. /\ c \subseteq N /\ d \subseteq N /\ x \subseteq {"trap", "loose", "throw", "ret"}
          /\ i \in BOOLEAN /\ p \subseteq N
      BY <3>1 DEF Funcs
    <3>3. fn = [m[f] EXCEPT !.calls = c, !.cold = d, !.exits = x, !.invoke = i, !.parts = p]
      BY <2>1
    <3> HIDE DEF c, d, x, i, p
    <3> DEFINE f1 == [m[f] EXCEPT !.calls = c]
               f2 == [f1 EXCEPT !.cold = d]
               f3 == [f2 EXCEPT !.exits = x]
               f4 == [f3 EXCEPT !.invoke = i]
               f5 == [f4 EXCEPT !.parts = p]
               Keeps(fn1) == /\ fn1.origin = m[f].origin /\ fn1.linkage = m[f].linkage
                             /\ fn1.section = m[f].section /\ fn1.ret = m[f].ret
                             /\ fn1.used = m[f].used
    <3>4. m[f] \in Funcs(N)
      OBVIOUS
    <3>5. f1 \in Funcs(N) /\ Keeps(f1) /\ f1.calls = c
      BY <3>2, <3>4 DEF Funcs
    <3> HIDE DEF f1
    <3>6. f2 \in Funcs(N) /\ Keeps(f2) /\ f2.calls = c /\ f2.cold = d
      BY <3>2, <3>5 DEF Funcs
    <3> HIDE DEF f2
    <3>7. f3 \in Funcs(N) /\ Keeps(f3) /\ f3.calls = c /\ f3.cold = d /\ f3.exits = x
      BY <3>2, <3>6 DEF Funcs
    <3> HIDE DEF f3
    <3>8. f4 \in Funcs(N) /\ Keeps(f4) /\ f4.calls = c /\ f4.cold = d /\ f4.exits = x
      BY <3>2, <3>7 DEF Funcs
    <3> HIDE DEF f4
    <3>9. /\ f5 \in Funcs(N) /\ Keeps(f5) /\ f5.calls = c /\ f5.cold = d /\ f5.exits = x
          /\ f5.parts = p
      BY <3>2, <3>8 DEF Funcs
    <3>10. fn = f5
      BY <3>3 DEF f1, f2, f3, f4
    <3> HIDE DEF f5
    <3> QED BY <3>9, <3>10 DEF Absorbs, c, d, x, p
  <2> QED BY <2>2, <2>3, <2>4 DEF fn
<1> QED BY <1>1, <1>2

-----------------------------------------------------------------------------
(* The inductive invariant.  in and s stand for input and set, N for Names. *)

NamesOf(in, s) ==
  DOMAIN in \cup DOMAIN Arena \cup Glue \cup {"memset.1"}
  \cup LibCalls \cup CbNames \cup LateMem \cup Called(in) \cup Called(Arena) \cup Extra(s)

Case(in, s) == \E c \in Cases : in = c.program /\ s = c.settings

Linked(in) == Join(Join(in, Arena), GlueFunctions(Join(in, Arena)))

(* What came with the bitcode, except compiler_builtins' memory functions. *)
SourceNames(in) == (DOMAIN in \cup DOMAIN Arena) \ LibCalls
Source(in, f) == IF f \in DOMAIN in THEN in[f] ELSE Arena[f]

Same(fn, old) ==
  /\ fn.origin = old.origin /\ fn.section = old.section
  /\ fn.ret = old.ret /\ fn.used = old.used

WellFormed(m, N) ==
  /\ DOMAIN m \subseteq N
  /\ \A f \in DOMAIN m :
       m[f] \in Funcs(N) /\ m[f].cold \subseteq m[f].calls /\ f \in m[f].parts

(* Names of routines that lower_mem.py has bound for good.                 *)
Stale == CbNames \cup {"memcpy", "memset.1", "bpf_throw"}

Avoids(m, X) == \A f \in DOMAIN m : m[f].calls \cap X = {}

GlueKept(m) ==
  /\ Glue \subseteq DOMAIN m
  /\ \A f \in Glue : /\ m[f].origin = "glue" /\ m[f].linkage = "internal"
                      /\ m[f].used /\ ~m[f].section

(* After lower_mem.py: the program, libarena, the glue, and what is left   *)
(* of compiler_builtins.                                                   *)
Lowered(m, in, N) ==
  /\ WellFormed(m, N)
  /\ GlueKept(m)
  /\ SourceNames(in) \subseteq DOMAIN m
  /\ DOMAIN m \subseteq Glue \cup SourceNames(in) \cup CbNames
  /\ \A f \in DOMAIN m :
       /\ f \in SourceNames(in) =>
            /\ Same(m[f], Source(in, f))
            /\ m[f].linkage = Source(in, f).linkage
            /\ m[f].exits = Source(in, f).exits
            /\ m[f].calls \cap SourceNames(in) \subseteq Source(in, f).calls
       /\ f \in Glue => m[f].calls = {} /\ m[f].exits = {}
       /\ f \in CbNames => ~m[f].used
       /\ m[f].parts = {f}
       /\ m[f].exits \subseteq Traps
  /\ Avoids(m, Stale \cup LateMem)

(* The functions that Rust code defines, and the C side, if it does not    *)
(* call them.                                                              *)
RustNames(in) == DOMAIN in \ LibCalls
CSide == Glue \cup DOMAIN Arena
NoCallbacks(in) == \A a \in DOMAIN Arena : Arena[a].calls \cap DOMAIN in \subseteq LibCalls

(* One of these bodies panics in the bitcode.                              *)
Panics(in, bodies) == \E p \in bodies \ Glue : Source(in, p).exits # {}

(* From internalize on: what was kept is visible, all else is static; what *)
(* a function contains says whether it leaves early, and libarena contains *)
(* no Rust.                                                                *)
Derived(m, in, kp, N) ==
  /\ WellFormed(m, N)
  /\ GlueKept(m)
  /\ DOMAIN m \subseteq Glue \cup SourceNames(in)
  /\ \A f \in DOMAIN m :
       /\ f \in SourceNames(in) =>
            /\ Same(m[f], Source(in, f))
            /\ m[f].linkage = IF f \in kp \/ Source(in, f).used
                              THEN Source(in, f).linkage ELSE "internal"
       /\ m[f].calls \cap SourceNames(in) \subseteq DOMAIN m
       /\ m[f].parts \subseteq Glue \cup SourceNames(in)
       /\ m[f].exits # {} <=> Panics(in, m[f].parts)
       /\ f \in CSide /\ NoCallbacks(in)
            => (m[f].calls \cup m[f].parts) \cap RustNames(in) = {}
  /\ \A f \in kp \cap SourceNames(in) : Source(in, f).linkage # "internal" => f \in DOMAIN m
  /\ Avoids(m, Stale)

OwnBodies(m) == \A f \in DOMAIN m : m[f].parts = {f}
Outlined(m) == \A f \in DOMAIN m : \A a \in DOMAIN Arena : a \in m[f].parts => a = f

RustCallees(m, s) ==
  \A f, g \in DOMAIN m :
    g \in m[f].calls /\ m[g].origin = "rust" => g \in Extra(s) \/ m[g].section

(* The kept weak functions are nowhere but in themselves.                  *)
WeakOutlined(m, in, kp) ==
  \A f \in DOMAIN m : \A k \in kp \cap SourceNames(in) :
    Source(in, k).linkage = "weak" /\ k \in m[f].parts => k = f

(* Nothing of Rust is left but the entry programs.                         *)
OnlyPrograms(m, in, s) ==
  (\A f \in DOMAIN in : (f \in Extra(s) => in[f].section) /\ ~in[f].used)
    => \A f \in DOMAIN m \cap RustNames(in) : f \in Glue \/ m[f].section

(* What the forced inlining has achieved.                                  *)
Forced(m, in, kp, s) ==
  RustCallees(m, s) /\ WeakOutlined(m, in, kp) /\ OnlyPrograms(m, in, s)

Exits(m, X) == \A f \in DOMAIN m : m[f].exits \subseteq X

(* What a trap has become after trap_to_ret.py, and after bpf_finalize.py. *)
CookiesIn(m, mode) ==
  IF mode = "ret"
  THEN \A f \in DOMAIN m :
         /\ m[f].exits \subseteq Traps \cup {"ret"}
         /\ "trap" \in m[f].exits
              => m[f].ret = "other" \/ (m[f].ret = "void" /\ m[f].linkage = "global")
  ELSE Exits(m, Traps)
Left(m, mode) ==
  IF mode = "throw" THEN Exits(m, {"throw"}) ELSE CookiesIn(m, mode)

Tagged(m, in, tags) ==
  /\ Called(m) \ (DOMAIN m \cup {"llvm.memset"}) \subseteq tags
  /\ tags \cap (SourceNames(in) \cup Glue \cup {"llvm.memset"}) = {}
  /\ tags \subseteq Called(m) \cup {"memcmp", "bpf_throw"}
  /\ "bpf_throw" \in tags <=> \E f \in DOMAIN m : "throw" \in m[f].exits

Listed == {"listed", "lowered", "internal", "inlined", "optimized", "trapped", "final",
           "object", "done"}

AfterInline == {"inlined", "optimized", "trapped", "final", "object", "done"}

(* The pass that has just run says what the module is like; a link that    *)
(* died with the object written left it as llc or btf_rename.py did.       *)
Shape(st, in, s, m, kp, tags, w) ==
  LET N == NamesOf(in, s)
      mode == TrapMode(s)
  IN  /\ st \in {"linked", "listed"} => m = Linked(in)
      /\ st = "lowered" => Lowered(m, in, N)
      /\ st \in AfterInline \cup {"internal"} \/ w => Derived(m, in, kp, N)
      /\ st \in AfterInline \/ w => Forced(m, in, kp, s)
      /\ st = "internal" => OwnBodies(m) /\ Exits(m, Traps) /\ Avoids(m, LateMem)
      /\ st = "inlined" => /\ Outlined(m) /\ Exits(m, Traps)
                           /\ Avoids(m, Glue \cup LibCalls \cup LateMem)
      /\ st = "optimized" => Exits(m, Traps)
      /\ st = "trapped" => CookiesIn(m, mode)
      /\ st \in {"final", "object", "done"} \/ w =>
           /\ Left(m, mode) /\ Tagged(m, in, tags) /\ Avoids(m, {"memcmp", "llvm.memcpy"})
      /\ w => Avoids(m, {"llvm.memset"})

Lists(in, s, kp, no) == kp = KeepList(Linked(in), s) /\ no = NoinlineList(kp)

Stages == {"start", "linked", "died", "internal"} \cup Listed

Typed(st, m, kp, no, tags, o, N) ==
  /\ st \in Stages
  /\ WellFormed(m, N)
  /\ kp \cup no \subseteq N \ Glue
  /\ tags \subseteq N \cup {"bpf_throw"}
  /\ o \in {"none", "raw", "final"}

IInv ==
  /\ Typed(stage, mod, keep, noinline, ksyms, out, NamesOf(input, set))
  /\ Case(input, set)
  /\ stage \in {"object", "done"} => out # "none"
  /\ out # "none" => stage \in {"object", "done", "died"}
  /\ stage \in Listed \/ out # "none" => Lists(input, set, keep, noinline)
  /\ Shape(stage, input, set, mod, keep, ksyms, out # "none")

-----------------------------------------------------------------------------
(* What is given, once more.                                               *)

LEMMA CaseGiven ==
  ASSUME NEW in, NEW s, Case(in, s)
  PROVE  /\ Given(in, {"rust", "cb"})
         /\ DOMAIN in \cap DOMAIN Arena = {}
         /\ Extra(s) \cap (Glue \cup LinkerNames) = {}
BY CasesAssumption DEF Case

\* The program's and libarena's own names are no memory routine's.
LEMMA SourceApart ==
  ASSUME NEW in, NEW s, Case(in, s)
  PROVE  /\ SourceNames(in) \cap (Glue \cup LibCalls \cup LateMem \cup Stale) = {}
         /\ DOMAIN Arena \subseteq SourceNames(in)
         /\ SourceNames(in) \subseteq DOMAIN in \cup DOMAIN Arena
<1>1. DOMAIN in \subseteq STRING \ LinkerNames /\ DOMAIN Arena \subseteq STRING \ LinkerNames
  BY CaseGiven, ArenaAssumption DEF Given
<1>2. ASSUME NEW n \in DOMAIN Arena PROVE n \notin LibCalls
  BY ArenaAssumption DEF Given
<1> QED BY <1>1, <1>2 DEF SourceNames, LinkerNames, Glue, LibCalls, LateMem, Stale, CbNames

\* What a function of the bitcode is.
LEMMA SourceFacts ==
  ASSUME NEW in, NEW s, Case(in, s), NEW f \in DOMAIN in \cup DOMAIN Arena
  PROVE  LET fn == Source(in, f)
         IN  /\ fn \in Funcs(NamesOf(in, s))
             /\ fn.cold \subseteq fn.calls
             /\ fn.calls \cap (CbNames \cup {"memset.1", "bpf_throw"}) = {}
             /\ fn.parts = {f}
             /\ fn.exits \subseteq Traps
             /\ fn.section => fn.linkage # "internal"
             /\ fn.used => fn.linkage = "internal"
             /\ f \in LibCalls => /\ fn.linkage # "internal"
                                  /\ ~fn.section
                                  /\ f \in DOMAIN in
             /\ f \notin LibCalls => fn.origin = IF f \in DOMAIN in THEN "rust" ELSE "arena"
<1> DEFINE N == NamesOf(in, s)
           fn == Source(in, f)
<1>1. CASE f \in DOMAIN in
  <2>1. Given(in, {"rust", "cb"}) /\ fn = in[f]
    BY <1>1, CaseGiven DEF Source
  <2>2. fn.calls \subseteq Called(in) /\ f \in N /\ Called(in) \subseteq N
    BY <1>1, <2>1 DEF Called, NamesOf
  <2>3. fn \in [origin : {"rust", "cb"}, linkage : {"internal", "weak", "global"},
                section : BOOLEAN, ret : {"int", "void", "other"}, used : BOOLEAN,
                calls : SUBSET STRING, cold : SUBSET STRING,
                exits : SUBSET {"trap", "loose"}, invoke : BOOLEAN, parts : {{f}}]
    BY <1>1, <2>1 DEF Given
  <2>4. fn.cold \subseteq fn.calls
    BY <1>1, <2>1 DEF Given
  <2> HIDE DEF fn, N
  <2>5. fn \in Funcs(N)
    BY <2>2, <2>3, <2>4 DEF Funcs
  <2>6. fn.parts = {f} /\ fn.exits \subseteq Traps
    BY <2>3 DEF Traps
  <2>7. /\ fn.calls \cap (CbNames \cup {"memset.1", "bpf_throw"}) = {}
        /\ fn.section => fn.linkage # "internal"
        /\ fn.used => fn.linkage = "internal"
        /\ f \in LibCalls => fn.linkage # "internal" /\ ~fn.section
        /\ f \notin LibCalls => fn.origin # "cb"
    BY <1>1, <2>1 DEF Given
  <2>8. f \notin LibCalls => fn.origin = "rust"
    BY <2>3, <2>7
  <2> QED BY <1>1, <2>4, <2>5, <2>6, <2>7, <2>8 DEF fn, N
<1>2. CASE f \notin DOMAIN in
  <2>1. Given(Arena, {"arena"}) /\ fn = Arena[f] /\ f \in DOMAIN Arena
    BY <1>2, ArenaAssumption DEF Source
  <2>2. fn.calls \subseteq Called(Arena) /\ f \in N /\ Called(Arena) \subseteq N
    BY <2>1 DEF Called, NamesOf
  <2>3. fn \in [origin : {"arena"}, linkage : {"internal", "weak", "global"},
                section : BOOLEAN, ret : {"int", "void", "other"}, used : BOOLEAN,
                calls : SUBSET STRING, cold : SUBSET STRING,
                exits : SUBSET {"trap", "loose"}, invoke : BOOLEAN, parts : {{f}}]
    BY <2>1 DEF Given
  <2>4. fn.cold \subseteq fn.calls
    BY <2>1 DEF Given
  <2> HIDE DEF fn, N
  <2>5. fn \in Funcs(N)
    BY <2>2, <2>3, <2>4 DEF Funcs
  <2>6. fn.parts = {f} /\ fn.exits \subseteq Traps /\ fn.origin = "arena"
    BY <2>3 DEF Traps
  <2>7. /\ fn.calls \cap (CbNames \cup {"memset.1", "bpf_throw"}) = {}
        /\ fn.section => fn.linkage # "internal"
        /\ fn.used => fn.linkage = "internal"
        /\ f \in LibCalls => fn.origin = "cb"
    BY <2>1 DEF Given
  <2> QED BY <1>2, <2>4, <2>5, <2>6, <2>7 DEF fn, N
<1> QED BY <1>1, <1>2

-----------------------------------------------------------------------------
(* The passes, one by one: opt's.                                          *)

LEMMA DCEKeeps ==
  ASSUME NEW in, NEW kp, NEW N, NEW m, Derived(m, in, kp, N)
  PROVE  Derived(GlobalDCE(m), in, kp, N)
<1> DEFINE d == GlobalDCE(m)
<1>1. /\ DOMAIN d \subseteq DOMAIN m
      /\ Roots(m) \subseteq DOMAIN d
      /\ \A f \in DOMAIN d : d[f] = m[f] /\ m[f].calls \cap DOMAIN m \subseteq DOMAIN d
  BY DCE
<1> HIDE DEF d
<1>2. WellFormed(d, N)
  BY <1>1 DEF Derived, WellFormed
<1>3. GlueKept(d)
  BY <1>1 DEF Derived, GlueKept, Roots
<1>4. \A f \in kp \cap SourceNames(in) : Source(in, f).linkage # "internal" => f \in DOMAIN d
  BY <1>1 DEF Derived, Roots
<1>5. Avoids(d, Stale)
  BY <1>1 DEF Derived, Avoids
<1>6. \A f \in DOMAIN d : d[f].calls \cap SourceNames(in) \subseteq DOMAIN d
  BY <1>1 DEF Derived
<1> QED BY <1>1, <1>2, <1>3, <1>4, <1>5, <1>6 DEF Derived, d

LEMMA InlineKeeps ==
  ASSUME NEW in, NEW kp, NEW N, NEW m, Derived(m, in, kp, N),
         NEW via \in SUBSET DOMAIN m
  PROVE  Derived(Inline(m, via), in, kp, N)
<1> DEFINE d == Inline(m, via)
<1>1. \A f \in DOMAIN m : m[f] \in Funcs(N) /\ m[f].cold \subseteq m[f].calls /\ f \in m[f].parts
  BY DEF Derived, WellFormed
<1>2. /\ DOMAIN d = DOMAIN m
      /\ \A f \in DOMAIN m : \E into \in SUBSET DOMAIN m :
           /\ f \in into
           /\ \A F : f \in F /\ (\A g \in F \cap DOMAIN m : m[g].calls \cap via \subseteq F)
                     => into \subseteq F
           /\ d[f] \in Funcs(N)
           /\ Absorbs(d[f], m[f], m, into, via)
  BY <1>1, InlineEffect
<1> HIDE DEF d
<1>3. ASSUME NEW f \in DOMAIN m
      PROVE  /\ d[f] \in Funcs(N) /\ d[f].cold \subseteq d[f].calls /\ f \in d[f].parts
             /\ Same(d[f], m[f]) /\ d[f].linkage = m[f].linkage
             /\ d[f].calls \cap SourceNames(in) \subseteq DOMAIN m
             /\ d[f].calls \cap Stale = {}
             /\ d[f].parts \subseteq Glue \cup SourceNames(in)
             /\ d[f].exits # {} <=> Panics(in, d[f].parts)
             /\ f \in CSide /\ NoCallbacks(in)
                  => (d[f].calls \cup d[f].parts) \cap RustNames(in) = {}
  <2> PICK into \in SUBSET DOMAIN m :
             /\ f \in into
             /\ \A F : f \in F /\ (\A g \in F \cap DOMAIN m : m[g].calls \cap via \subseteq F)
                       => into \subseteq F
             /\ d[f] \in Funcs(N)
             /\ Absorbs(d[f], m[f], m, into, via)
    BY <1>2
  <2>1. \A n \in d[f].calls : \E g \in into : n \in m[g].calls
    BY <1>1 DEF Absorbs
  <2>2. \A n \in d[f].cold : \E g \in into : n \in m[g].cold
    BY DEF Absorbs
  <2>3. d[f].cold \subseteq d[f].calls
    BY DEF Absorbs
  <2>4. /\ f \in d[f].parts /\ \A n \in d[f].parts : \E g \in into : n \in m[g].parts
        /\ \A g \in into : m[g].parts \subseteq d[f].parts
    BY <1>1 DEF Absorbs
  <2>5. Same(d[f], m[f]) /\ d[f].linkage = m[f].linkage
    BY DEF Absorbs, Same
  <2>6. d[f].calls \cap SourceNames(in) \subseteq DOMAIN m /\ d[f].calls \cap Stale = {}
    BY <2>1 DEF Derived, Avoids
  <2>7. d[f].parts \subseteq Glue \cup SourceNames(in)
    BY <2>4 DEF Derived
  <2>8. d[f].exits # {} <=> Panics(in, d[f].parts)
    <3>1. d[f].exits # {} <=> \E g \in into : m[g].exits # {}
      BY DEF Absorbs
    <3>2. \A g \in into : m[g].exits # {} <=> Panics(in, m[g].parts)
      BY DEF Derived
    <3>3. Panics(in, d[f].parts) <=> \E g \in into : Panics(in, m[g].parts)
      BY <2>4 DEF Panics
    <3> QED BY <3>1, <3>2, <3>3
  <2>9. ASSUME f \in CSide, NoCallbacks(in)
        PROVE  (d[f].calls \cup d[f].parts) \cap RustNames(in) = {}
    <3>1. \A g \in CSide \cap DOMAIN m : (m[g].calls \cup m[g].parts) \cap RustNames(in) = {}
      BY <2>9 DEF Derived
    <3>2. via \subseteq CSide \cup RustNames(in)
      BY DEF Derived, SourceNames, CSide, RustNames
    <3>3. \A g \in CSide \cap DOMAIN m : m[g].calls \cap via \subseteq CSide
      BY <3>1, <3>2
    <3>4. into \subseteq CSide
      BY <2>9, <3>3
    <3> QED BY <2>1, <2>4, <3>1, <3>4
  <2> QED BY <2>3, <2>4, <2>5, <2>6, <2>7, <2>8, <2>9
<1>4. WellFormed(d, N)
  BY <1>2, <1>3 DEF Derived, WellFormed
<1>5. GlueKept(d)
  BY <1>2, <1>3 DEF Derived, GlueKept, Same
<1>6. Avoids(d, Stale)
  BY <1>2, <1>3 DEF Avoids
<1>7. \A f \in DOMAIN d \cap SourceNames(in) :
        /\ Same(d[f], Source(in, f))
        /\ d[f].linkage = IF f \in kp \/ Source(in, f).used
                          THEN Source(in, f).linkage ELSE "internal"
  BY <1>2, <1>3 DEF Derived, Same
<1> QED BY <1>2, <1>3, <1>4, <1>5, <1>6, <1>7 DEF Derived, d

(* A pass that changes how functions leave and which memory routines they  *)
(* call, and nothing else.                                                 *)
Alike(d, m, N) ==
  /\ DOMAIN d = DOMAIN m
  /\ \A f \in DOMAIN m :
       /\ d[f] \in Funcs(N) /\ d[f].cold \subseteq d[f].calls
       /\ Same(d[f], m[f]) /\ d[f].linkage = m[f].linkage /\ d[f].parts = m[f].parts
       /\ d[f].exits = {} <=> m[f].exits = {}
       /\ d[f].calls \subseteq m[f].calls \cup Glue \cup LateMem

LEMMA AlikeKeeps ==
  ASSUME NEW in, NEW s, Case(in, s), NEW kp, NEW N, NEW m, NEW d,
         Derived(m, in, kp, N), Alike(d, m, N)
  PROVE  /\ Derived(d, in, kp, N)
         /\ Forced(m, in, kp, s) => Forced(d, in, kp, s)
<1>1. WellFormed(d, N)
  BY DEF Derived, Alike, WellFormed
<1>2. GlueKept(d)
  BY DEF Derived, Alike, GlueKept, Same
<1>3. /\ (Glue \cup LateMem) \cap (SourceNames(in) \cup Stale) = {}
  BY SourceApart DEF Glue, LateMem, Stale, CbNames
<1>4. Avoids(d, Stale)
  BY <1>3 DEF Derived, Alike, Avoids
<1>5. ASSUME NEW f \in DOMAIN d
      PROVE  /\ d[f].calls \cap SourceNames(in) \subseteq DOMAIN d
             /\ d[f].parts \subseteq Glue \cup SourceNames(in)
             /\ d[f].exits # {} <=> Panics(in, d[f].parts)
             /\ f \in CSide /\ NoCallbacks(in)
                  => (d[f].calls \cup d[f].parts) \cap RustNames(in) = {}
  <2>1. /\ f \in DOMAIN m /\ d[f].calls \subseteq m[f].calls \cup Glue \cup LateMem
        /\ d[f].parts = m[f].parts
        /\ d[f].exits = {} <=> m[f].exits = {}
    BY DEF Alike
  <2>2. /\ m[f].calls \cap SourceNames(in) \subseteq DOMAIN m
        /\ m[f].parts \subseteq Glue \cup SourceNames(in)
        /\ m[f].exits # {} <=> Panics(in, m[f].parts)
        /\ f \in CSide /\ NoCallbacks(in)
             => (m[f].calls \cup m[f].parts) \cap RustNames(in) = {}
    BY <2>1 DEF Derived
  <2>3. RustNames(in) \subseteq SourceNames(in)
    BY DEF RustNames, SourceNames
  <2> QED BY <1>3, <2>1, <2>2, <2>3 DEF Alike
<1>6. \A f \in DOMAIN d \cap SourceNames(in) :
        /\ Same(d[f], Source(in, f))
        /\ d[f].linkage = IF f \in kp \/ Source(in, f).used
                          THEN Source(in, f).linkage ELSE "internal"
  BY DEF Derived, Alike, Same
<1>7. Derived(d, in, kp, N)
  BY <1>1, <1>2, <1>4, <1>5, <1>6 DEF Derived, Alike
<1>8. ASSUME RustCallees(m, s), NEW f \in DOMAIN d, NEW g \in DOMAIN d,
             g \in d[f].calls, d[g].origin = "rust"
      PROVE  g \in Extra(s) \/ d[g].section
  <2>1. g \notin Glue
    BY <1>2, <1>8 DEF GlueKept
  <2>2. g \in SourceNames(in)
    BY <2>1 DEF Derived, Alike
  <2>3. g \in m[f].calls
    BY <1>3, <1>8, <2>2 DEF Alike
  <2> QED BY <1>8, <2>3 DEF Alike, Same, RustCallees
<1>9. WeakOutlined(m, in, kp) => WeakOutlined(d, in, kp)
  BY DEF Alike, WeakOutlined
<1>10. OnlyPrograms(m, in, s) => OnlyPrograms(d, in, s)
  BY DEF Alike, OnlyPrograms, Same
<1> QED BY <1>7, <1>8, <1>9, <1>10 DEF RustCallees, Forced

-----------------------------------------------------------------------------
(* A function with one thing changed.                                      *)

WithCalls(fn, c, d) == [fn EXCEPT !.calls = c, !.cold = d]

LEMMA SetCalls ==
  ASSUME NEW N, NEW fn \in Funcs(N), NEW c \in SUBSET N, NEW d \in SUBSET N
  PROVE  LET r == WithCalls(fn, c, d)
         IN  /\ r \in Funcs(N) /\ r.calls = c /\ r.cold = d
             /\ Same(r, fn) /\ r.linkage = fn.linkage
             /\ r.exits = fn.exits /\ r.parts = fn.parts
<1> DEFINE f1 == [fn EXCEPT !.calls = c]
           f2 == [f1 EXCEPT !.cold = d]
           Keeps(f) == /\ Same(f, fn) /\ f.linkage = fn.linkage
                       /\ f.exits = fn.exits /\ f.parts = fn.parts
<1>1. f1 \in Funcs(N) /\ Keeps(f1) /\ f1.calls = c
  BY DEF Funcs, Same
<1> HIDE DEF f1
<1>2. f2 \in Funcs(N) /\ Keeps(f2) /\ f2.calls = c /\ f2.cold = d
  BY <1>1 DEF Funcs, Same
<1>3. WithCalls(fn, c, d) = f2
  BY DEF WithCalls, f1
<1> HIDE DEF f2
<1> QED BY <1>2, <1>3

LEMMA SetExits ==
  ASSUME NEW N, NEW fn \in Funcs(N), NEW x \in SUBSET {"trap", "loose", "throw", "ret"},
         NEW r, r = [fn EXCEPT !.exits = x]
  PROVE  /\ r \in Funcs(N) /\ r.exits = x /\ r.calls = fn.calls /\ r.cold = fn.cold
         /\ Same(r, fn) /\ r.linkage = fn.linkage /\ r.parts = fn.parts
BY DEF Funcs, Same

LEMMA SetParts ==
  ASSUME NEW N, NEW fn \in Funcs(N), NEW p \in SUBSET N,
         NEW r, r = [fn EXCEPT !.parts = p]
  PROVE  /\ r \in Funcs(N) /\ r.parts = p /\ r.calls = fn.calls /\ r.cold = fn.cold
         /\ Same(r, fn) /\ r.linkage = fn.linkage /\ r.exits = fn.exits
BY DEF Funcs, Same

LEMMA SetLinkage ==
  ASSUME NEW N, NEW fn \in Funcs(N),
         NEW r, r = [fn EXCEPT !.linkage = "internal"]
  PROVE  /\ r \in Funcs(N) /\ r.linkage = "internal" /\ r.calls = fn.calls
         /\ r.cold = fn.cold /\ Same(r, fn) /\ r.parts = fn.parts /\ r.exits = fn.exits
BY DEF Funcs, Same

LEMMA SetCold ==
  ASSUME NEW N, NEW fn \in Funcs(N),
         NEW r, r = [fn EXCEPT !.cold = {}]
  PROVE  /\ r \in Funcs(N) /\ r.cold = {} /\ r.calls = fn.calls
         /\ Same(r, fn) /\ r.linkage = fn.linkage /\ r.parts = fn.parts /\ r.exits = fn.exits
BY DEF Funcs, Same

-----------------------------------------------------------------------------
(* llvm-link, the lists and lower_mem.py.                                  *)

Statics(in) == DOMAIN GlueFunctions(Join(in, Arena))

\* What llvm-link makes: the bitcode as it is and the glue's helpers, memset
\* under its own name or with a suffix.
LEMMA LinkedIs ==
  ASSUME NEW in, NEW s, Case(in, s)
  PROVE  LET m == Linked(in)
         IN  /\ DOMAIN m = (DOMAIN in \cup DOMAIN Arena) \cup Statics(in)
             /\ Statics(in) \cap (DOMAIN in \cup DOMAIN Arena) = {}
             /\ \A f \in DOMAIN in \cup DOMAIN Arena : m[f] = Source(in, f)
             /\ \A f \in Statics(in) : \E ret \in {"int", "void", "other"} : m[f] = Helper(ret, f)
             /\ \E linked \in {"memset", "memset.1"} : Statics(in) = (Glue \ {"memset"}) \cup {linked}
<1> DEFINE b == Join(in, Arena)
           taken == "memset" \in DOMAIN b \/ \E f \in DOMAIN b : "memset" \in b[f].calls
           linked == IF taken THEN "memset.1" ELSE "memset"
           g == GlueFunctions(b)
           m == Linked(in)
<1>1. DOMAIN b = DOMAIN in \cup DOMAIN Arena /\ \A f \in DOMAIN b : b[f] = Source(in, f)
  BY DEF Join, Source
<1>2. g = [n \in (Glue \ {"memset"}) \cup {linked} |->
             Helper(CASE n = "bpf_arena_memcmp" -> "int"
                      [] n = linked             -> "other"
                      [] OTHER                  -> "void", n)]
  BY DEF GlueFunctions
<1>3. linked \in {"memset", "memset.1"} /\ (linked = "memset" => "memset" \notin DOMAIN b)
  OBVIOUS
<1>4. DOMAIN in \subseteq STRING \ LinkerNames /\ DOMAIN Arena \subseteq STRING \ LinkerNames
  BY CaseGiven, ArenaAssumption DEF Given
<1> HIDE DEF b, linked
<1>5. DOMAIN g = (Glue \ {"memset"}) \cup {linked}
  BY <1>2
<1>6. DOMAIN g \cap DOMAIN b = {}
  BY <1>1, <1>3, <1>4, <1>5 DEF LinkerNames, Glue
<1>7. ASSUME NEW f \in DOMAIN g
      PROVE  \E ret \in {"int", "void", "other"} : g[f] = Helper(ret, f)
  <2> DEFINE ret == CASE f = "bpf_arena_memcmp" -> "int" [] f = linked -> "other" [] OTHER -> "void"
  <2>1. g[f] = Helper(ret, f)
    BY <1>2, <1>5
  <2>2. ret \in {"int", "void", "other"}
    OBVIOUS
  <2> HIDE DEF ret
  <2> QED BY <2>1, <2>2
<1> HIDE DEF g
<1>8. m = Join(b, g) /\ Statics(in) = DOMAIN g
  BY DEF Linked, Statics, b, g
<1>9. /\ DOMAIN m = DOMAIN b \cup DOMAIN g
      /\ \A f \in DOMAIN b : m[f] = b[f]
      /\ \A f \in DOMAIN g : m[f] = g[f]
  BY <1>6, <1>8 DEF Join
<1> QED BY <1>1, <1>3, <1>5, <1>6, <1>7, <1>8, <1>9 DEF m

LEMMA HelperFacts ==
  ASSUME NEW N, NEW ret \in {"int", "void", "other"}, NEW f \in N
  PROVE  LET fn == Helper(ret, f)
         IN  /\ fn \in Funcs(N) /\ fn.calls = {} /\ fn.cold = {} /\ fn.exits = {}
             /\ fn.parts = {f} /\ fn.origin = "glue" /\ fn.linkage = "internal"
             /\ fn.used /\ ~fn.section
BY DEF Helper, Funcs

LEMMA LinkedWellFormed ==
  ASSUME NEW in, NEW s, Case(in, s)
  PROVE  WellFormed(Linked(in), NamesOf(in, s))
<1> DEFINE N == NamesOf(in, s)
           m == Linked(in)
           B == DOMAIN in \cup DOMAIN Arena
<1>1. /\ DOMAIN m = B \cup Statics(in)
      /\ \A f \in B : m[f] = Source(in, f)
      /\ \A f \in Statics(in) : \E ret \in {"int", "void", "other"} : m[f] = Helper(ret, f)
      /\ \E linked \in {"memset", "memset.1"} : Statics(in) = (Glue \ {"memset"}) \cup {linked}
  BY LinkedIs
<1>2. \A f \in B : /\ Source(in, f) \in Funcs(N) /\ Source(in, f).parts = {f}
                   /\ Source(in, f).cold \subseteq Source(in, f).calls
  BY SourceFacts
<1>3. B \cup Glue \cup {"memset.1"} \subseteq N
  BY DEF NamesOf
<1> HIDE DEF m, N, B
<1>4. Statics(in) \subseteq N
  BY <1>1, <1>3 DEF Glue
<1>5. DOMAIN m \subseteq N
  BY <1>1, <1>3, <1>4
<1>6. ASSUME NEW f \in DOMAIN m
      PROVE  m[f] \in Funcs(N) /\ m[f].cold \subseteq m[f].calls /\ f \in m[f].parts
  <2>1. CASE f \in B
    BY <2>1, <1>1, <1>2
  <2>2. CASE f \in Statics(in)
    <3>1. PICK ret \in {"int", "void", "other"} : m[f] = Helper(ret, f)
      BY <1>1, <2>2
    <3> QED BY <3>1, <1>5, HelperFacts
  <2> QED BY <2>1, <2>2, <1>1
<1> QED BY <1>5, <1>6 DEF WellFormed, m, N

\* What is in keep.txt, and what noinline.txt adds to it.
LEMMA KeepIs ==
  ASSUME NEW in, NEW s, Case(in, s)
  PROVE  LET kp == KeepList(Linked(in), s)
         IN  /\ kp \subseteq NamesOf(in, s)
             /\ kp \cap (Glue \cup CbNames) = {}
             /\ \A f \in SourceNames(in) :
                  LET fn == Source(in, f)
                  IN  /\ fn.section /\ fn.ret # "void" => f \in kp
                      /\ f \in kp => f \in Extra(s) \/ fn.section \/ f \in DOMAIN Arena
                      /\ f \in kp /\ s.voidGlobals = "internalize"
                           => fn.ret # "void" \/ fn.linkage = "internal"
                      /\ f \in Extra(s) \cup DOMAIN Arena
                           => f \in kp \/ (fn.ret = "void" /\ s.voidGlobals = "internalize")
             /\ NoinlineList(kp) = kp \cup DOMAIN Arena
<1> DEFINE m == Linked(in)
           kp == KeepList(m, s)
           A == ArenaSyms(DOMAIN Arena \cup Glue)
<1>1. A = DOMAIN Arena
  BY SourceApart DEF ArenaSyms
<1>2. EntryNames(m) \subseteq DOMAIN in \cup DOMAIN Arena
  <2>1. ASSUME NEW f \in Statics(in) PROVE ~m[f].section
    <3>1. PICK ret \in {"int", "void", "other"} : m[f] = Helper(ret, f)
      BY LinkedIs
    <3> QED BY <3>1 DEF Helper
  <2> QED BY <2>1, LinkedIs DEF EntryNames
<1>3. \A f \in DOMAIN in \cup DOMAIN Arena :
        /\ f \in DOMAIN m /\ m[f] = Source(in, f)
        /\ f \in EntryNames(m) <=> Source(in, f).section
        /\ f \in VoidGlobals(m) <=> Source(in, f).ret = "void" /\ Source(in, f).linkage # "internal"
  BY LinkedIs DEF EntryNames, VoidGlobals
<1>4. EntryNames(m) \cap LibCalls = {}
  BY <1>2, <1>3, SourceFacts
<1> HIDE DEF m
<1>5. kp = (Extra(s) \cup EntryNames(m) \cup A)
             \ (IF s.voidGlobals = "internalize" THEN VoidGlobals(m) ELSE {})
  BY DEF KeepList
<1> HIDE DEF kp, A
<1>6. kp \subseteq NamesOf(in, s)
  BY <1>1, <1>2, <1>5 DEF NamesOf
<1>7. /\ (DOMAIN in \cup DOMAIN Arena) \cap LinkerNames = {}
      /\ Extra(s) \cap (Glue \cup LinkerNames) = {}
  BY CaseGiven, ArenaAssumption DEF Given
<1>8. kp \cap CbNames = {}
  BY <1>1, <1>2, <1>5, <1>7 DEF LinkerNames
<1>9. kp \cap Glue = {}
  <2>1. EntryNames(m) \cap Glue = {}
    BY <1>2, <1>4, <1>7 DEF LinkerNames, Glue, LibCalls
  <2>2. A \cap Glue = {}
    BY <1>1, SourceApart
  <2> QED BY <1>5, <1>7, <2>1, <2>2
<1>10. ASSUME NEW f \in SourceNames(in)
       PROVE  LET fn == Source(in, f)
              IN  /\ fn.section /\ fn.ret # "void" => f \in kp
                  /\ f \in kp => f \in Extra(s) \/ fn.section \/ f \in DOMAIN Arena
                  /\ f \in kp /\ s.voidGlobals = "internalize"
                       => fn.ret # "void" \/ fn.linkage = "internal"
                  /\ f \in Extra(s) \cup DOMAIN Arena
                       => f \in kp \/ (fn.ret = "void" /\ s.voidGlobals = "internalize")
  <2>1. f \in DOMAIN in \cup DOMAIN Arena
    BY SourceApart
  <2> QED BY <1>1, <1>3, <1>5, <2>1
<1>11. NoinlineList(kp) = kp \cup DOMAIN Arena
  BY <1>1 DEF NoinlineList, A
<1> QED BY <1>6, <1>8, <1>9, <1>10, <1>11 DEF kp, m

\* What a function of the linked module becomes in lower_mem.py: it keeps all
\* but the names of the memory routines it calls.
LEMMA EarlyCalls ==
  ASSUME NEW N, Glue \subseteq N, NEW fn \in Funcs(N), NEW p \in N,
         fn.cold \subseteq fn.calls,
         fn.calls \cap (CbNames \cup {"memset.1", "bpf_throw"}) = {}
  PROVE  LET r == [Recall(fn, EarlyName) EXCEPT !.parts = {p}]
         IN  /\ r \in Funcs(N) /\ r.cold \subseteq r.calls /\ r.parts = {p}
             /\ r.calls \cap (Stale \cup LateMem) = {}
             /\ r.calls \subseteq fn.calls \cup Glue /\ (fn.calls = {} => r.calls = {})
             /\ Same(r, fn) /\ r.linkage = fn.linkage /\ r.exits = fn.exits
<1> DEFINE c == {EarlyName(n) : n \in fn.calls}
           d == {EarlyName(n) : n \in fn.cold}
           q == Recall(fn, EarlyName)
<1>1. fn.calls \subseteq N /\ fn.cold \subseteq N
  BY DEF Funcs
<1>2. \A n \in N : EarlyName(n) \in N
  BY DEF EarlyName, Glue
<1>3. c \in SUBSET N /\ d \in SUBSET N /\ d \subseteq c
  BY <1>1, <1>2
<1>10. c \subseteq fn.calls \cup Glue /\ (fn.calls = {} => c = {})
  <2>1. \A n : EarlyName(n) \in {n} \cup Glue
    BY DEF EarlyName, Glue
  <2> QED BY <2>1
<1>4. ASSUME NEW n \in fn.calls PROVE EarlyName(n) \notin Stale \cup LateMem
  BY DEF EarlyName, Stale, LateMem, CbNames
<1>5. c \cap (Stale \cup LateMem) = {}
  BY <1>4
<1>6. q = WithCalls(fn, c, d)
  BY DEF Recall, WithCalls
<1> HIDE DEF c, d, q
<1>7. /\ q \in Funcs(N) /\ q.calls = c /\ q.cold = d
      /\ Same(q, fn) /\ q.linkage = fn.linkage
      /\ q.exits = fn.exits /\ q.parts = fn.parts
  BY <1>3, <1>6, SetCalls
<1> DEFINE r == [q EXCEPT !.parts = {p}]
<1>8. /\ r \in Funcs(N) /\ r.parts = {p} /\ r.calls = q.calls /\ r.cold = q.cold
      /\ Same(r, q) /\ r.linkage = q.linkage /\ r.exits = q.exits
  BY <1>7, SetParts
<1>9. Same(r, fn)
  BY <1>7, <1>8 DEF Same
<1> HIDE DEF r
<1> QED BY <1>3, <1>5, <1>7, <1>8, <1>9, <1>10 DEF r, q

\* The definition a name comes from after lower_mem.py.
LEMMA NamedFrom ==
  ASSUME NEW in, NEW s, Case(in, s), NEW n \in DOMAIN Linked(in)
  PROVE  LET d == DefinedName(n, Linked(in)[n])
         IN  /\ n \in SourceNames(in) => d = n
             /\ n \in Statics(in) => d = (IF n = "memset.1" THEN "memset" ELSE n)
             /\ n \notin SourceNames(in) \cup Statics(in)
                  => d \in CbNames /\ n \in LibCalls /\ n \in DOMAIN in
<1> DEFINE m == Linked(in)
<1>1. /\ DOMAIN m = (DOMAIN in \cup DOMAIN Arena) \cup Statics(in)
      /\ \A f \in DOMAIN in \cup DOMAIN Arena : m[f] = Source(in, f)
      /\ \A f \in Statics(in) : \E ret \in {"int", "void", "other"} : m[f] = Helper(ret, f)
  BY LinkedIs
<1> HIDE DEF m
<1>2. CASE n \in SourceNames(in)
  <2>1. n \notin LibCalls /\ n # "memset.1" /\ n \notin Stale
    BY <1>2, SourceApart DEF Stale
  <2>2. n \notin Statics(in)
    BY <1>2, LinkedIs, SourceApart
  <2> QED BY <1>2, <2>1, <2>2 DEF DefinedName, m
<1>3. CASE n \in Statics(in)
  <2>1. m[n].linkage = "internal"
    BY <1>1, <1>3 DEF Helper
  <2>2. n \notin SourceNames(in)
    BY <1>3, LinkedIs, SourceApart
  <2> QED BY <1>3, <2>1, <2>2 DEF DefinedName, m
<1>4. CASE n \notin SourceNames(in) \cup Statics(in)
  <2>1. n \in DOMAIN in \cup DOMAIN Arena /\ n \in LibCalls
    BY <1>1, <1>4 DEF SourceNames, m
  <2>2. m[n].linkage # "internal" /\ n \in DOMAIN in
    BY <1>1, <2>1, SourceFacts
  <2>3. CbName(n) \in CbNames /\ n # "memset.1"
    BY <2>1 DEF CbName, CbNames, LibCalls
  <2>4. DefinedName(n, m[n]) = CbName(n)
    BY <2>1, <2>2, <2>3 DEF DefinedName
  <2> QED BY <1>4, <2>1, <2>2, <2>3, <2>4 DEF m
<1> QED BY <1>2, <1>3, <1>4

\* lower_mem.py, one definition at a time.
Lowers(m, l) ==
  /\ DOMAIN l = {DefinedName(n, m[n]) : n \in DOMAIN m}
  /\ \A d \in DOMAIN l : \E n \in DOMAIN m :
       DefinedName(n, m[n]) = d /\ l[d] = [Recall(m[n], EarlyName) EXCEPT !.parts = {d}]

LEMMA LowerMemMakes ==
  ASSUME NEW in, NEW s, Case(in, s), NEW m, m = Linked(in), NEW l, Lowers(m, l)
  PROVE  Lowered(l, in, NamesOf(in, s))
<1> DEFINE N == NamesOf(in, s)
           B == DOMAIN in \cup DOMAIN Arena
           S == Statics(in)
           To(n) == DefinedName(n, m[n])
           Of(d) == CHOOSE n \in DOMAIN m :
                      To(n) = d /\ l[d] = [Recall(m[n], EarlyName) EXCEPT !.parts = {d}]
<1>1. /\ DOMAIN m = B \cup S /\ S \cap B = {}
      /\ \A f \in B : m[f] = Source(in, f)
      /\ \A f \in S : \E ret \in {"int", "void", "other"} : m[f] = Helper(ret, f)
      /\ \E linked \in {"memset", "memset.1"} : S = (Glue \ {"memset"}) \cup {linked}
  BY LinkedIs
<1>2. \A n \in DOMAIN m :
        /\ n \in SourceNames(in) => To(n) = n
        /\ n \in S => To(n) = (IF n = "memset.1" THEN "memset" ELSE n)
        /\ n \notin SourceNames(in) \cup S => To(n) \in CbNames /\ n \in LibCalls /\ n \in DOMAIN in
  BY NamedFrom
<1>3. B \cup Glue \cup CbNames \cup {"memset.1"} \subseteq N
  BY DEF NamesOf
<1>4. /\ SourceNames(in) \subseteq B
      /\ SourceNames(in) \cap (Glue \cup CbNames \cup {"memset.1"}) = {}
  BY SourceApart DEF Stale
<1>5. Glue \cap CbNames = {}
  BY DEF Glue, CbNames
<1>6. DOMAIN l = {To(n) : n \in DOMAIN m}
  BY DEF Lowers
<1>7. \A d \in DOMAIN l : l[d] = [Recall(m[Of(d)], EarlyName) EXCEPT !.parts = {d}]
  BY DEF Lowers
<1>8. \A d \in DOMAIN l : Of(d) \in DOMAIN m /\ To(Of(d)) = d
  BY DEF Lowers
<1> HIDE DEF To, Of, N, S, B
<1>9. \A n \in S : To(n) \in Glue /\ n \in Glue \cup {"memset.1"}
  BY <1>1, <1>2 DEF Glue
<1>10. DOMAIN l \subseteq Glue \cup SourceNames(in) \cup CbNames
  <2>1. \A n \in DOMAIN m : To(n) \in Glue \cup SourceNames(in) \cup CbNames
    BY <1>2, <1>9
  <2> QED BY <1>6, <2>1
<1>11. SourceNames(in) \subseteq DOMAIN l
  <2>1. \A n \in SourceNames(in) : n \in DOMAIN m /\ To(n) = n
    BY <1>1, <1>2, <1>4
  <2> QED BY <1>6, <2>1
<1>12. Glue \subseteq DOMAIN l
  <2>1. PICK linked \in {"memset", "memset.1"} : S = (Glue \ {"memset"}) \cup {linked}
    BY <1>1
  <2>2. \A g \in Glue \ {"memset"} : g \in DOMAIN m /\ To(g) = g
    BY <1>1, <1>2, <2>1 DEF Glue
  <2>3. linked \in DOMAIN m /\ To(linked) = "memset"
    BY <1>1, <1>2, <2>1
  <2> QED BY <1>6, <2>2, <2>3
<1>13. ASSUME NEW d \in DOMAIN l
       PROVE  /\ d \in SourceNames(in) => Of(d) = d
              /\ d \in Glue => Of(d) \in S
              /\ d \in CbNames => Of(d) \in LibCalls /\ Of(d) \in B
  <2>1. CASE Of(d) \in S
    BY <1>4, <1>5, <1>8, <1>9, <2>1
  <2>2. CASE Of(d) \in SourceNames(in)
    BY <1>2, <1>4, <1>8, <2>2
  <2>3. CASE Of(d) \notin SourceNames(in) \cup S
    BY <1>2, <1>4, <1>5, <1>8, <2>3 DEF B
  <2> QED BY <2>1, <2>2, <2>3
<1>14. ASSUME NEW n \in DOMAIN m
       PROVE  /\ m[n] \in Funcs(N) /\ m[n].cold \subseteq m[n].calls
              /\ m[n].calls \cap (CbNames \cup {"memset.1", "bpf_throw"}) = {}
              /\ m[n].exits \subseteq Traps
              /\ n \in S => m[n].calls = {} /\ m[n].exits = {}
  <2>1. CASE n \in B
    BY <2>1, <1>1, SourceFacts DEF B, N
  <2>2. CASE n \in S
    <3>1. n \in N
      BY <1>3, <1>9, <2>2
    <3>2. PICK ret \in {"int", "void", "other"} : m[n] = Helper(ret, n)
      BY <1>1, <2>2
    <3> DEFINE h == Helper(ret, n)
    <3>3. h \in Funcs(N) /\ h.calls = {} /\ h.cold = {} /\ h.exits = {}
      BY <3>1, HelperFacts
    <3> HIDE DEF h
    <3>4. m[n] = h
      BY <3>2 DEF h
    <3> QED BY <3>3, <3>4
  <2> QED BY <1>1, <2>1, <2>2
<1>15. ASSUME NEW d \in DOMAIN l
       PROVE  /\ l[d] \in Funcs(N) /\ l[d].cold \subseteq l[d].calls /\ l[d].parts = {d}
              /\ l[d].calls \cap (Stale \cup LateMem) = {}
              /\ Same(l[d], m[Of(d)]) /\ l[d].linkage = m[Of(d)].linkage
              /\ l[d].exits \subseteq Traps /\ l[d].exits = m[Of(d)].exits
              /\ l[d].calls \subseteq m[Of(d)].calls \cup Glue
              /\ m[Of(d)].calls = {} => l[d].calls = {}
  <2> DEFINE fn == m[Of(d)]
             r == [Recall(fn, EarlyName) EXCEPT !.parts = {d}]
  <2>1. /\ fn \in Funcs(N) /\ fn.cold \subseteq fn.calls
        /\ fn.calls \cap (CbNames \cup {"memset.1", "bpf_throw"}) = {}
        /\ fn.exits \subseteq Traps
    BY <1>8, <1>14
  <2>2. d \in N /\ Glue \subseteq N
    BY <1>3, <1>4, <1>10
  <2>3. l[d] = r
    BY <1>7
  <2> HIDE DEF fn
  <2>4. /\ r \in Funcs(N) /\ r.cold \subseteq r.calls /\ r.parts = {d}
        /\ r.calls \cap (Stale \cup LateMem) = {}
        /\ r.calls \subseteq fn.calls \cup Glue /\ (fn.calls = {} => r.calls = {})
        /\ Same(r, fn) /\ r.linkage = fn.linkage /\ r.exits = fn.exits
    BY <2>1, <2>2, EarlyCalls
  <2> HIDE DEF r
  <2> QED BY <2>1, <2>3, <2>4 DEF fn
<1>16. WellFormed(l, N)
  <2>1. DOMAIN l \subseteq N
    BY <1>3, <1>4, <1>10
  <2> QED BY <1>15, <2>1 DEF WellFormed
<1>17. GlueKept(l)
  <2>1. ASSUME NEW g \in Glue
        PROVE  l[g].origin = "glue" /\ l[g].linkage = "internal" /\ l[g].used /\ ~l[g].section
    <3>1. g \in DOMAIN l /\ Of(g) \in S
      BY <1>12, <1>13
    <3>2. \E ret \in {"int", "void", "other"} : m[Of(g)] = Helper(ret, Of(g))
      BY <1>1, <3>1
    <3> QED BY <1>15, <3>1, <3>2 DEF Helper, Same
  <2> QED BY <1>12, <2>1 DEF GlueKept
<1>18. \A f \in DOMAIN l \cap SourceNames(in) :
         /\ Same(l[f], Source(in, f)) /\ l[f].linkage = Source(in, f).linkage
         /\ l[f].exits = Source(in, f).exits
         /\ l[f].calls \cap SourceNames(in) \subseteq Source(in, f).calls
  BY <1>1, <1>4, <1>13, <1>15
<1>19. ASSUME NEW f \in DOMAIN l \cap CbNames PROVE ~l[f].used
  <2>1. Of(f) \in LibCalls /\ Of(f) \in B /\ m[Of(f)] = Source(in, Of(f))
    BY <1>1, <1>13
  <2>2. ~m[Of(f)].used
    BY <2>1, SourceFacts DEF B
  <2> QED BY <1>15, <2>2 DEF Same
<1>20. Avoids(l, Stale \cup LateMem)
  BY <1>15 DEF Avoids
<1>21. \A f \in DOMAIN l \cap Glue : l[f].calls = {} /\ l[f].exits = {}
  <2>1. \A f \in DOMAIN l \cap Glue : Of(f) \in S /\ Of(f) \in DOMAIN m
    BY <1>1, <1>13
  <2> QED BY <1>14, <1>15, <2>1
<1> QED BY <1>21, <1>10, <1>11, <1>15, <1>16, <1>17, <1>18, <1>19, <1>20 DEF Lowered, N

-----------------------------------------------------------------------------
(* opt, three times.                                                       *)

Internalized(l, kp) ==
  [f \in DOMAIN l |-> IF f \in kp \/ l[f].used THEN l[f]
                      ELSE [l[f] EXCEPT !.linkage = "internal"]]

\* Internalizing takes what is not kept from sight and nothing else.
LEMMA InternalizedIs ==
  ASSUME NEW N, NEW kp, NEW l, \A f \in DOMAIN l : l[f] \in Funcs(N)
  PROVE  LET i == Internalized(l, kp)
         IN  /\ DOMAIN i = DOMAIN l
             /\ \A f \in DOMAIN l :
                  /\ i[f] \in Funcs(N) /\ Same(i[f], l[f])
                  /\ i[f].calls = l[f].calls /\ i[f].cold = l[f].cold
                  /\ i[f].parts = l[f].parts /\ i[f].exits = l[f].exits
                  /\ i[f].linkage = IF f \in kp \/ l[f].used THEN l[f].linkage ELSE "internal"
<1> DEFINE i == Internalized(l, kp)
<1>1. DOMAIN i = DOMAIN l
  BY DEF Internalized
<1>2. ASSUME NEW f \in DOMAIN l
      PROVE  /\ i[f] \in Funcs(N) /\ Same(i[f], l[f])
             /\ i[f].calls = l[f].calls /\ i[f].cold = l[f].cold
             /\ i[f].parts = l[f].parts /\ i[f].exits = l[f].exits
             /\ i[f].linkage = IF f \in kp \/ l[f].used THEN l[f].linkage ELSE "internal"
  <2>1. CASE f \in kp \/ l[f].used
    <3>1. i[f] = l[f]
      BY <2>1 DEF Internalized
    <3> QED BY <2>1, <3>1 DEF Same
  <2>2. CASE ~(f \in kp \/ l[f].used)
    <3>1. i[f] = [l[f] EXCEPT !.linkage = "internal"]
      BY <2>2 DEF Internalized
    <3> QED BY <2>2, <3>1, SetLinkage
  <2> QED BY <2>1, <2>2
<1> QED BY <1>1, <1>2

LEMMA InternalizeMakes ==
  ASSUME NEW in, NEW s, Case(in, s), NEW N, NEW kp, kp \cap CbNames = {}, NEW l, Lowered(l, in, N)
  PROVE  LET d == GlobalDCE(Internalized(l, kp))
         IN  /\ Derived(d, in, kp, N)
             /\ OwnBodies(d) /\ Exits(d, Traps) /\ Avoids(d, LateMem)
<1> DEFINE i == Internalized(l, kp)
           d == GlobalDCE(i)
<1>1. /\ WellFormed(l, N) /\ GlueKept(l)
      /\ SourceNames(in) \subseteq DOMAIN l
      /\ DOMAIN l \subseteq Glue \cup SourceNames(in) \cup CbNames
      /\ \A f \in DOMAIN l :
           /\ f \in SourceNames(in) =>
                /\ Same(l[f], Source(in, f)) /\ l[f].linkage = Source(in, f).linkage
                /\ l[f].exits = Source(in, f).exits
                /\ l[f].calls \cap SourceNames(in) \subseteq Source(in, f).calls
           /\ f \in Glue => l[f].calls = {} /\ l[f].exits = {}
           /\ f \in CbNames => ~l[f].used
           /\ l[f].parts = {f}
           /\ l[f].exits \subseteq Traps
      /\ Avoids(l, Stale \cup LateMem)
  BY DEF Lowered
<1>2. DOMAIN l \subseteq N /\ \A f \in DOMAIN l : l[f] \in Funcs(N) /\ l[f].cold \subseteq l[f].calls
  BY <1>1 DEF WellFormed
<1>3. /\ DOMAIN i = DOMAIN l
      /\ \A f \in DOMAIN l :
           /\ i[f] \in Funcs(N) /\ Same(i[f], l[f])
           /\ i[f].calls = l[f].calls /\ i[f].cold = l[f].cold
           /\ i[f].parts = l[f].parts /\ i[f].exits = l[f].exits
           /\ i[f].linkage = IF f \in kp \/ l[f].used THEN l[f].linkage ELSE "internal"
  BY <1>2, InternalizedIs
<1> HIDE DEF i
<1>4. /\ DOMAIN d \subseteq DOMAIN i
      /\ Roots(i) \subseteq DOMAIN d
      /\ \A f \in DOMAIN d : d[f] = i[f] /\ i[f].calls \cap DOMAIN i \subseteq DOMAIN d
  BY DCE
<1>5. DOMAIN d \cap CbNames = {}
  <2>1. Roots(i) \cap CbNames = {}
    BY <1>1, <1>3 DEF Roots, Same
  <2>2. \A f \in DOMAIN i : i[f].calls \cap CbNames = {}
    BY <1>1, <1>3 DEF Avoids, Stale
  <2> QED BY <2>1, <2>2, DCEAvoids
<1> HIDE DEF d
<1>6. \A f \in DOMAIN d :
        /\ f \in DOMAIN l /\ d[f] \in Funcs(N) /\ Same(d[f], l[f])
        /\ d[f].calls = l[f].calls /\ d[f].cold = l[f].cold
        /\ d[f].parts = {f} /\ d[f].exits \subseteq Traps /\ d[f].exits = l[f].exits
        /\ d[f].linkage = IF f \in kp \/ l[f].used THEN l[f].linkage ELSE "internal"
  BY <1>1, <1>3, <1>4
<1>7. WellFormed(d, N)
  BY <1>2, <1>6 DEF WellFormed
<1>8. GlueKept(d)
  <2>1. Glue \subseteq Roots(i)
    BY <1>1, <1>3 DEF GlueKept, Roots, Same
  <2> QED BY <1>1, <1>4, <1>6, <2>1 DEF GlueKept, Same
<1>9. DOMAIN d \subseteq Glue \cup SourceNames(in)
  BY <1>1, <1>5, <1>6
<1>10. ASSUME NEW f \in DOMAIN d, f \in SourceNames(in)
       PROVE  /\ Same(d[f], Source(in, f))
              /\ d[f].linkage = IF f \in kp \/ Source(in, f).used
                                THEN Source(in, f).linkage ELSE "internal"
  BY <1>1, <1>6, <1>10 DEF Same
<1>11. \A f \in DOMAIN d : d[f].calls \cap SourceNames(in) \subseteq DOMAIN d
  BY <1>1, <1>3, <1>4
<1>12. ASSUME NEW f \in kp \cap SourceNames(in), Source(in, f).linkage # "internal"
       PROVE  f \in DOMAIN d
  <2>1. f \in Roots(i)
    BY <1>1, <1>3, <1>12 DEF Roots
  <2> QED BY <1>4, <2>1
<1>13. Avoids(d, Stale) /\ Avoids(d, LateMem)
  BY <1>1, <1>6 DEF Avoids
<1>14. ASSUME NEW f \in DOMAIN d
       PROVE  /\ d[f].parts \subseteq Glue \cup SourceNames(in)
              /\ d[f].exits # {} <=> Panics(in, d[f].parts)
              /\ f \in CSide /\ NoCallbacks(in)
                   => (d[f].calls \cup d[f].parts) \cap RustNames(in) = {}
  <2>1. /\ SourceNames(in) \cap Glue = {} /\ DOMAIN Arena \subseteq SourceNames(in)
        /\ DOMAIN in \cap DOMAIN Arena = {}
    BY SourceApart, CaseGiven
  <2>2. /\ f \in DOMAIN l /\ d[f].calls = l[f].calls
        /\ d[f].parts = {f} /\ d[f].exits = l[f].exits
    BY <1>6
  <2>3. RustNames(in) = (SourceNames(in) \ DOMAIN Arena) /\ RustNames(in) \subseteq DOMAIN in
    BY <2>1 DEF RustNames, SourceNames
  <2>4. CASE f \in Glue
    <3>1. d[f].exits = {} /\ d[f].calls = {}
      BY <1>1, <2>2, <2>4
    <3>2. ~Panics(in, d[f].parts)
      BY <2>2, <2>4 DEF Panics
    <3>3. f \notin RustNames(in)
      BY <2>1, <2>3, <2>4
    <3> QED BY <2>2, <2>4, <3>1, <3>2, <3>3
  <2>5. CASE f \in SourceNames(in)
    <3>1. d[f].exits # {} <=> Panics(in, d[f].parts)
      BY <1>1, <2>1, <2>2, <2>5 DEF Panics
    <3>2. ASSUME f \in CSide, NoCallbacks(in)
          PROVE  (d[f].calls \cup d[f].parts) \cap RustNames(in) = {}
      <4>1. f \in DOMAIN Arena /\ f \notin DOMAIN in
        BY <2>1, <2>5, <3>2 DEF CSide
      <4>2. l[f].calls \cap SourceNames(in) \subseteq Arena[f].calls
        BY <1>1, <2>2, <2>5, <4>1 DEF Source
      <4>3. Arena[f].calls \cap DOMAIN in \subseteq LibCalls
        BY <3>2, <4>1 DEF NoCallbacks
      <4>4. RustNames(in) \cap LibCalls = {}
        BY DEF RustNames
      <4>5. d[f].calls \cap RustNames(in) = {}
        BY <2>2, <2>3, <4>2, <4>3, <4>4
      <4> QED BY <2>2, <2>3, <4>1, <4>5
    <3> QED BY <2>2, <2>5, <3>1, <3>2
  <2> QED BY <1>9, <2>4, <2>5
<1>15. Derived(d, in, kp, N)
  BY <1>7, <1>8, <1>9, <1>10, <1>11, <1>12, <1>13, <1>14 DEF Derived
<1>16. OwnBodies(d) /\ Exits(d, Traps)
  BY <1>6 DEF OwnBodies, Exits
<1> QED BY <1>13, <1>15, <1>16 DEF d, i

LEMMA StripIs ==
  ASSUME NEW N, NEW m, WellFormed(m, N)
  PROVE  LET c == StripNoinline(m)
         IN  /\ Alike(c, m, N)
             /\ \A f \in DOMAIN m : /\ c[f].cold = {} /\ c[f].calls = m[f].calls
                                    /\ c[f].exits = m[f].exits
<1> DEFINE c == StripNoinline(m)
<1>1. DOMAIN c = DOMAIN m /\ \A f \in DOMAIN m : c[f] = [m[f] EXCEPT !.cold = {}]
  BY DEF StripNoinline
<1> HIDE DEF c
<1>2. ASSUME NEW f \in DOMAIN m
      PROVE  /\ c[f] \in Funcs(N) /\ c[f].cold = {} /\ c[f].calls = m[f].calls
             /\ Same(c[f], m[f]) /\ c[f].linkage = m[f].linkage /\ c[f].parts = m[f].parts
             /\ c[f].exits = m[f].exits
  <2>1. m[f] \in Funcs(N)
    BY DEF WellFormed
  <2> QED BY <1>1, <2>1, SetCold
<1> QED BY <1>1, <1>2 DEF Alike, c

LEMMA ForceInlineMakes ==
  ASSUME NEW in, NEW s, Case(in, s), NEW N, NEW kp, kp = KeepList(Linked(in), s),
         NEW no, no = NoinlineList(kp), NEW m, Derived(m, in, kp, N),
         OwnBodies(m), Exits(m, Traps), Avoids(m, LateMem)
  PROVE  LET d == GlobalDCE(Inline(StripNoinline(m), DOMAIN m \ no))
         IN  /\ Derived(d, in, kp, N) /\ Forced(d, in, kp, s)
             /\ Outlined(d) /\ Exits(d, Traps)
             /\ Avoids(d, Glue \cup LibCalls \cup LateMem)
<1> DEFINE c == StripNoinline(m)
           via == DOMAIN m \ no
           i == Inline(c, via)
           d == GlobalDCE(i)
<1>1. /\ Alike(c, m, N)
      /\ \A f \in DOMAIN m : /\ c[f].cold = {} /\ c[f].calls = m[f].calls
                             /\ c[f].exits = m[f].exits
  BY StripIs DEF Derived
<1>2. DOMAIN c = DOMAIN m /\ \A f \in DOMAIN m : c[f].parts = {f}
  BY <1>1 DEF Alike, OwnBodies
<1> HIDE DEF c
<1>3. Derived(c, in, kp, N)
  BY <1>1, AlikeKeeps
<1>4. /\ no = kp \cup DOMAIN Arena
      /\ kp \cap (Glue \cup CbNames) = {}
      /\ \A f \in SourceNames(in) : f \in kp => f \in Extra(s) \/ Source(in, f).section \/ f \in DOMAIN Arena
  BY KeepIs
<1>5. no \cap Glue = {}
  BY <1>4, SourceApart
<1>6. via \in SUBSET DOMAIN c
  BY <1>2
<1>7. Glue \subseteq via
  BY <1>5 DEF Derived, GlueKept
<1>8. via \cap no = {}
  OBVIOUS
<1>9. DOMAIN m \subseteq via \cup no
  OBVIOUS
<1> HIDE DEF via
<1>10. Derived(i, in, kp, N)
  BY <1>3, <1>6, InlineKeeps
<1>11. \A f \in DOMAIN c : c[f] \in Funcs(N)
  BY <1>3 DEF Derived, WellFormed
<1>12. /\ DOMAIN i = DOMAIN c
       /\ \A f \in DOMAIN c : \E into \in SUBSET DOMAIN c :
            /\ f \in into /\ into \subseteq {f} \cup via
            /\ i[f] \in Funcs(N)
            /\ Absorbs(i[f], c[f], c, into, via)
  BY <1>6, <1>11, InlineEffect
<1> HIDE DEF i
<1>13. ASSUME NEW f \in DOMAIN m
       PROVE  /\ i[f].calls \cap via = {}
              /\ \A n \in i[f].calls : \E g \in DOMAIN m : n \in m[g].calls
              /\ i[f].exits \subseteq Traps
              /\ i[f].parts \subseteq {f} \cup via
              /\ i[f].origin = m[f].origin /\ i[f].section = m[f].section
  <2> PICK into \in SUBSET DOMAIN c : /\ f \in into /\ into \subseteq {f} \cup via
                                      /\ i[f] \in Funcs(N)
                                      /\ Absorbs(i[f], c[f], c, into, via)
    BY <1>2, <1>12
  <2>1. i[f].calls = UNION {(c[g].calls \ via) \cup c[g].cold : g \in into}
    BY DEF Absorbs
  <2>2. \A n \in i[f].calls : n \notin via /\ \E g \in DOMAIN m : n \in m[g].calls
    BY <1>1, <1>2, <2>1
  <2>3. i[f].exits \subseteq Traps
    BY <1>1, <1>2 DEF Absorbs, Exits
  <2>4. i[f].parts \subseteq {f} \cup via
    BY <1>2 DEF Absorbs
  <2>5. i[f].origin = m[f].origin /\ i[f].section = m[f].section
    BY <1>1, <1>2 DEF Absorbs, Alike, Same
  <2> QED BY <2>2, <2>3, <2>4, <2>5
<1>14. /\ DOMAIN d \subseteq DOMAIN i
       /\ \A f \in DOMAIN d : d[f] = i[f]
  BY DCE
<1>15. Derived(d, in, kp, N)
  BY <1>10, DCEKeeps
<1> HIDE DEF d
<1>16. \A f \in DOMAIN d : f \in DOMAIN m /\ d[f] = i[f]
  BY <1>2, <1>12, <1>14
<1>17. ASSUME NEW f \in DOMAIN d, NEW g \in DOMAIN d, g \in d[f].calls, d[g].origin = "rust"
       PROVE  g \in Extra(s) \/ d[g].section
  <2>1. g \in no
    BY <1>9, <1>13, <1>16, <1>17
  <2>2. g \notin Glue
    BY <1>15, <1>17 DEF Derived, GlueKept
  <2>3. g \in SourceNames(in) /\ Same(d[g], Source(in, g))
    BY <1>15, <2>2 DEF Derived
  <2>4. g \notin DOMAIN Arena
    <3>1. g \in DOMAIN in \cup DOMAIN Arena /\ g \notin LibCalls
      BY <2>3, SourceApart
    <3>2. Source(in, g).origin = "rust"
      BY <1>17, <2>3 DEF Same
    <3>3. g \in DOMAIN in
      BY <3>1, <3>2, SourceFacts
    <3> QED BY <3>3, CaseGiven
  <2> QED BY <1>4, <2>1, <2>3, <2>4 DEF Same
<1>18. Outlined(d)
  BY <1>4, <1>8, <1>13, <1>16 DEF Outlined
<1>21. WeakOutlined(d, in, kp)
  BY <1>4, <1>8, <1>13, <1>16 DEF WeakOutlined
<1>22. OnlyPrograms(d, in, s)
  <2> SUFFICES ASSUME \A f \in DOMAIN in : (f \in Extra(s) => in[f].section) /\ ~in[f].used
               PROVE  \A f \in DOMAIN d \cap RustNames(in) : f \in Glue \/ d[f].section
    BY DEF OnlyPrograms
  <2> DEFINE X == {f \in DOMAIN m \cap RustNames(in) : ~m[f].section}
  <2>1. RustNames(in) \subseteq SourceNames(in) /\ RustNames(in) \subseteq DOMAIN in \ DOMAIN Arena
    BY CaseGiven DEF RustNames, SourceNames
  <2>2. ASSUME NEW f \in X PROVE f \notin no /\ i[f].linkage = "internal" /\ ~i[f].used
    <3>1. f \in SourceNames(in) /\ f \notin DOMAIN Arena
      BY <2>1
    <3>2. ~Source(in, f).used
      BY <2>1 DEF Source
    <3>3. ~Source(in, f).section
      BY <3>1 DEF Derived, Same
    <3>7. f \notin Extra(s)
      BY <2>1, <3>3 DEF Source
    <3>4. f \notin kp
      BY <1>4, <3>1, <3>3, <3>7
    <3>5. f \in DOMAIN i
      BY <1>2, <1>12
    <3>6. Same(i[f], Source(in, f)) /\ i[f].linkage = "internal"
      BY <1>10, <3>1, <3>2, <3>4, <3>5 DEF Derived
    <3> QED BY <1>4, <3>1, <3>2, <3>4, <3>6 DEF Same
  <2>3. X \subseteq via
    BY <1>9, <2>2
  <2>4. Roots(i) \cap X = {}
    BY <2>2 DEF Roots
  <2>5. \A f \in DOMAIN i : i[f].calls \cap X = {}
    BY <1>2, <1>12, <1>13, <2>3
  <2> HIDE DEF X
  <2>6. DOMAIN d \cap X = {}
    BY <2>4, <2>5, DCEAvoids DEF d
  <2> QED BY <1>13, <1>16, <2>6 DEF X
<1>19. Exits(d, Traps)
  BY <1>13, <1>16 DEF Exits
<1>20. Avoids(d, Glue \cup LibCalls \cup LateMem)
  <2>1. ASSUME NEW f \in DOMAIN d, NEW n \in d[f].calls PROVE n \notin Glue \cup LibCalls \cup LateMem
    <3>1. n \notin Glue
      BY <1>7, <1>13, <1>16
    <3>2. n \notin LateMem
      BY <1>13, <1>16 DEF Avoids
    <3>3. n # "memcpy"
      BY <1>15 DEF Derived, Avoids, Stale
    <3> QED BY <3>1, <3>2, <3>3 DEF LibCalls, Glue, LateMem
  <2> QED BY <2>1 DEF Avoids
<1>23. Forced(d, in, kp, s)
  BY <1>17, <1>21, <1>22 DEF Forced, RustCallees
<1> QED BY <1>15, <1>18, <1>19, <1>20, <1>23 DEF d, i, via, c

LEMMA O2Makes ==
  ASSUME NEW in, NEW s, Case(in, s), NEW kp, NEW N, LateMem \subseteq N,
         NEW m, Derived(m, in, kp, N), Forced(m, in, kp, s), Exits(m, Traps),
         NEW via \in SUBSET DOMAIN m, \A g \in via : m[g].linkage # "weak",
         NEW late \in SUBSET LateMem,
         NEW f \in DOMAIN GlobalDCE(Inline(m, via))
  PROVE  LET d == [GlobalDCE(Inline(m, via)) EXCEPT ![f].calls = @ \cup late]
         IN  Derived(d, in, kp, N) /\ Forced(d, in, kp, s) /\ Exits(d, Traps)
<1> DEFINE i == Inline(m, via)
           l == GlobalDCE(i)
           d == [l EXCEPT ![f].calls = @ \cup late]
<1>1. \A g \in DOMAIN m : m[g] \in Funcs(N) /\ m[g].cold \subseteq m[g].calls
  BY DEF Derived, WellFormed
<1>2. /\ DOMAIN i = DOMAIN m
      /\ \A g \in DOMAIN m : \E into \in SUBSET DOMAIN m :
           /\ g \in into /\ into \subseteq {g} \cup via
           /\ i[g] \in Funcs(N)
           /\ Absorbs(i[g], m[g], m, into, via)
  BY <1>1, InlineEffect
<1>3. Derived(i, in, kp, N)
  BY InlineKeeps
<1> HIDE DEF i
<1>4. ASSUME NEW g \in DOMAIN m
      PROVE  /\ \A n \in i[g].calls : \E h \in DOMAIN m : n \in m[h].calls
             /\ i[g].exits \subseteq Traps
             /\ \A n \in i[g].parts : \E h \in {g} \cup via : h \in DOMAIN m /\ n \in m[h].parts
             /\ i[g].origin = m[g].origin /\ i[g].section = m[g].section
  <2> PICK into \in SUBSET DOMAIN m : /\ g \in into /\ into \subseteq {g} \cup via
                                      /\ i[g] \in Funcs(N)
                                      /\ Absorbs(i[g], m[g], m, into, via)
    BY <1>2
  <2> QED BY <1>1 DEF Absorbs, Exits
<1>5. /\ DOMAIN l \subseteq DOMAIN m
      /\ \A g \in DOMAIN l : l[g] = i[g]
  BY <1>2, DCE
<1>6. Derived(l, in, kp, N)
  BY <1>3, DCEKeeps
<1>7. f \in DOMAIN l
  BY DEF i
<1> HIDE DEF l
<1>8. Forced(l, in, kp, s)
  <2>1. RustCallees(l, s)
    BY <1>4, <1>5 DEF Forced, RustCallees
  <2>2. ASSUME NEW g \in DOMAIN l, NEW k \in kp \cap SourceNames(in),
               Source(in, k).linkage = "weak", k \in l[g].parts
        PROVE  k = g
    <3>1. PICK h \in {g} \cup via : h \in DOMAIN m /\ k \in m[h].parts
      BY <1>4, <1>5, <2>2
    <3>2. k = h
      BY <2>2, <3>1 DEF Forced, WeakOutlined
    <3>3. m[k].linkage = "weak"
      BY <2>2, <3>1, <3>2 DEF Derived
    <3> QED BY <3>1, <3>2, <3>3
  <2>3. OnlyPrograms(l, in, s)
    BY <1>4, <1>5 DEF Forced, OnlyPrograms
  <2> QED BY <2>1, <2>2, <2>3 DEF Forced, WeakOutlined
<1>9. Exits(l, Traps)
  BY <1>4, <1>5 DEF Exits
<1>10. /\ DOMAIN d = DOMAIN l
       /\ \A g \in DOMAIN l : d[g] = IF g = f THEN [l[f] EXCEPT !.calls = @ \cup late] ELSE l[g]
  BY <1>7
<1> HIDE DEF d
<1>11. ASSUME NEW g \in DOMAIN l
       PROVE  /\ d[g] \in Funcs(N) /\ d[g].cold \subseteq d[g].calls
              /\ Same(d[g], l[g]) /\ d[g].linkage = l[g].linkage
              /\ d[g].parts = l[g].parts /\ d[g].exits = l[g].exits
              /\ d[g].calls \subseteq l[g].calls \cup LateMem
  <2>1. l[g] \in Funcs(N) /\ l[g].cold \subseteq l[g].calls
    BY <1>6 DEF Derived, WellFormed
  <2>2. CASE g # f
    BY <1>10, <2>1, <2>2 DEF Same
  <2>3. CASE g = f
    <3> DEFINE fn == l[f]
               c == fn.calls \cup late
               r == [fn EXCEPT !.calls = c]
    <3>1. c \in SUBSET N /\ fn \in Funcs(N)
      BY <2>1, <2>3 DEF Funcs
    <3>2. d[g] = r
      BY <1>10, <2>3
    <3> HIDE DEF c, fn
    <3>3. /\ r \in Funcs(N) /\ r.calls = c /\ r.cold = fn.cold
          /\ Same(r, fn) /\ r.linkage = fn.linkage /\ r.exits = fn.exits /\ r.parts = fn.parts
      BY <3>1 DEF Funcs, Same
    <3> HIDE DEF r
    <3> QED BY <2>1, <2>3, <3>2, <3>3 DEF c, fn
  <2> QED BY <2>2, <2>3
<1>12. Alike(d, l, N)
  BY <1>10, <1>11 DEF Alike
<1>13. Exits(d, Traps)
  BY <1>9, <1>10, <1>11 DEF Exits
<1>14. Derived(d, in, kp, N) /\ Forced(d, in, kp, s)
  BY <1>6, <1>8, <1>12, AlikeKeeps
<1> QED BY <1>13, <1>14 DEF d, l, i

-----------------------------------------------------------------------------
(* trap_to_ret.py, bpf_finalize.py and llc.                                *)

LEMMA CookieIs ==
  ASSUME NEW N, NEW fn \in Funcs(N), fn.exits \subseteq Traps
  PROVE  LET r == ReturnCookie(fn)
         IN  /\ r \in Funcs(N) /\ r.calls = fn.calls /\ r.cold = fn.cold
             /\ Same(r, fn) /\ r.linkage = fn.linkage /\ r.parts = fn.parts
             /\ r.exits \subseteq Traps \cup {"ret"}
             /\ r.exits = {} <=> fn.exits = {}
             /\ "trap" \in r.exits => fn.ret = "other"
<1> DEFINE r == ReturnCookie(fn)
<1>1. CASE "trap" \in fn.exits /\ fn.ret \in {"int", "void"}
  <2> DEFINE x == (fn.exits \ {"trap"}) \cup {"ret"}
  <2>1. /\ x \in SUBSET {"trap", "loose", "throw", "ret"}
        /\ x \subseteq {"loose", "ret"} /\ x # {}
    BY DEF Traps
  <2>2. r = [fn EXCEPT !.exits = x]
    BY <1>1 DEF ReturnCookie
  <2> HIDE DEF x, r
  <2>3. /\ r \in Funcs(N) /\ r.exits = x /\ r.calls = fn.calls
        /\ r.cold = fn.cold /\ Same(r, fn)
        /\ r.linkage = fn.linkage /\ r.parts = fn.parts
    BY <2>1, <2>2, SetExits
  <2> QED BY <1>1, <2>1, <2>3 DEF Traps, r
<1>2. CASE ~("trap" \in fn.exits /\ fn.ret \in {"int", "void"})
  <2>1. r = fn
    BY <1>2 DEF ReturnCookie
  <2>2. fn.ret \in {"int", "void", "other"}
    BY DEF Funcs
  <2> QED BY <1>2, <2>1, <2>2 DEF Same
<1> QED BY <1>1, <1>2

LEMMA TrapMakes ==
  ASSUME NEW in, NEW s, Case(in, s), NEW kp, NEW N, NEW mode,
         NEW m, Derived(m, in, kp, N), Forced(m, in, kp, s), Exits(m, Traps),
         NEW missed \in SUBSET Plain(m),
         NEW d, d = IF mode = "ret"
                    THEN [f \in DOMAIN m |-> IF f \in missed THEN m[f] ELSE ReturnCookie(m[f])]
                    ELSE m
  PROVE  Derived(d, in, kp, N) /\ Forced(d, in, kp, s) /\ CookiesIn(d, mode)
<1>1. CASE mode # "ret"
  BY <1>1 DEF CookiesIn
<1>2. CASE mode = "ret"
  <2>1. /\ DOMAIN d = DOMAIN m
        /\ \A f \in DOMAIN m : d[f] = IF f \in missed THEN m[f] ELSE ReturnCookie(m[f])
    BY <1>2
  <2>2. ASSUME NEW f \in DOMAIN m
        PROVE  /\ d[f] \in Funcs(N) /\ d[f].calls = m[f].calls /\ d[f].cold = m[f].cold
               /\ Same(d[f], m[f]) /\ d[f].linkage = m[f].linkage /\ d[f].parts = m[f].parts
               /\ d[f].exits \subseteq Traps \cup {"ret"}
               /\ d[f].exits = {} <=> m[f].exits = {}
               /\ "trap" \in d[f].exits
                    => m[f].ret = "other" \/ (m[f].ret = "void" /\ m[f].linkage = "global")
    <3>1. m[f] \in Funcs(N) /\ m[f].exits \subseteq Traps
      BY DEF Derived, WellFormed, Exits
    <3>2. CASE f \in missed
      BY <2>1, <3>1, <3>2 DEF Plain, Same
    <3>3. CASE f \notin missed
      <4>1. d[f] = ReturnCookie(m[f])
        BY <2>1, <3>3
      <4> QED BY <3>1, <4>1, CookieIs
    <3> QED BY <3>2, <3>3
  <2>3. Alike(d, m, N)
    <3>1. \A f \in DOMAIN m : m[f].cold \subseteq m[f].calls
      BY DEF Derived, WellFormed
    <3> QED BY <2>1, <2>2, <3>1 DEF Alike
  <2>4. CookiesIn(d, mode)
    BY <1>2, <2>1, <2>2 DEF CookiesIn, Same
  <2> QED BY <2>3, <2>4, AlikeKeeps
<1> QED BY <1>1, <1>2

Finalized(fn, mode) == [Recall(fn, LateName) EXCEPT !.exits = Thrown(@, mode)]

LEMMA LateCalls ==
  ASSUME NEW N, Glue \subseteq N, NEW fn \in Funcs(N), fn.cold \subseteq fn.calls, NEW mode
  PROVE  LET r == Finalized(fn, mode)
         IN  /\ r \in Funcs(N) /\ r.cold \subseteq r.calls
             /\ r.calls \subseteq fn.calls \cup Glue
             /\ fn.calls \subseteq r.calls \cup {"memcmp", "llvm.memcpy"}
             /\ r.calls \cap {"memcmp", "llvm.memcpy"} = {}
             /\ Same(r, fn) /\ r.linkage = fn.linkage /\ r.parts = fn.parts
             /\ r.exits = Thrown(fn.exits, mode)
<1> DEFINE c == {LateName(n) : n \in fn.calls}
           d == {LateName(n) : n \in fn.cold}
           q == Recall(fn, LateName)
<1>1. fn.calls \subseteq N /\ fn.cold \subseteq N /\ fn.exits \subseteq {"trap", "loose", "throw", "ret"}
  BY DEF Funcs
<1>2. \A n : LateName(n) \in {n} \cup Glue
  BY DEF LateName, Glue
<1>3. c \in SUBSET N /\ d \in SUBSET N /\ d \subseteq c /\ c \subseteq fn.calls \cup Glue
  BY <1>1, <1>2
<1>4. c \cap {"memcmp", "llvm.memcpy"} = {} /\ fn.calls \subseteq c \cup {"memcmp", "llvm.memcpy"}
  BY DEF LateName
<1>5. q = WithCalls(fn, c, d)
  BY DEF Recall, WithCalls
<1> HIDE DEF c, d, q
<1>6. /\ q \in Funcs(N) /\ q.calls = c /\ q.cold = d
      /\ Same(q, fn) /\ q.linkage = fn.linkage
      /\ q.exits = fn.exits /\ q.parts = fn.parts
  BY <1>3, <1>5, SetCalls
<1> DEFINE x == Thrown(fn.exits, mode)
           r == Finalized(fn, mode)
<1>7. x \in SUBSET {"trap", "loose", "throw", "ret"}
  BY <1>1 DEF Thrown
<1> HIDE DEF x
<1>8. r = [q EXCEPT !.exits = x]
  <2>1. r = [q EXCEPT !.exits = Thrown(q.exits, mode)]
    BY DEF Finalized, q
  <2> QED BY <1>6, <2>1 DEF x
<1> HIDE DEF r
<1>9. /\ r \in Funcs(N) /\ r.exits = x /\ r.calls = q.calls /\ r.cold = q.cold
      /\ Same(r, q) /\ r.linkage = q.linkage /\ r.parts = q.parts
  <2>1. q \in Funcs(N)
    BY <1>6
  <2> QED BY <1>7, <1>8, <2>1, SetExits
<1>10. Same(r, fn)
  BY <1>6, <1>9 DEF Same
<1> QED BY <1>3, <1>4, <1>6, <1>9, <1>10 DEF r, x

\* What is tagged: all that the loader must resolve, and but for a memcmp that
\* nobody calls nothing else.
LEMMA DeclarationsAre ==
  ASSUME NEW in, NEW s, Case(in, s), NEW kp, NEW N,
         NEW m, Derived(m, in, kp, N), NEW d, Derived(d, in, kp, N), DOMAIN d = DOMAIN m,
         Avoids(d, {"memcmp", "llvm.memcpy"}),
         Called(d) \subseteq Called(m) \cup Glue,
         Called(m) \subseteq Called(d) \cup {"memcmp", "llvm.memcpy"}
  PROVE  Tagged(d, in, Kfuncs(m, d))
<1> DEFINE thrown == \E f \in DOMAIN d : "throw" \in d[f].exits
           tags == Kfuncs(m, d)
           mems == {"llvm.memcpy", "llvm.memset"}
<1>1. /\ tags = ((Called(m) \ DOMAIN d) \cup ThrowDeclared(d)) \ (DOMAIN d \cup mems)
      /\ ThrowDeclared(d) \subseteq {"bpf_throw"}
      /\ "bpf_throw" \in ThrowDeclared(d) <=> thrown
  BY DEF Kfuncs, Declared, ThrowDeclared
<1>2. ASSUME NEW n \in Called(m)
      PROVE  /\ n \in SourceNames(in) => n \in DOMAIN d
             /\ n \notin Stale
  BY DEF Called, Derived, Avoids
<1>3. \A n \in Called(d) : n \notin {"memcmp", "llvm.memcpy"}
  BY DEF Called, Avoids
<1>4. DOMAIN d \subseteq Glue \cup SourceNames(in) /\ Glue \subseteq DOMAIN d
  BY DEF Derived, GlueKept
<1>5. SourceNames(in) \cap Stale = {}
  BY SourceApart
<1>6. "bpf_throw" \notin DOMAIN d \cup SourceNames(in) \cup Glue \cup {"llvm.memcpy", "llvm.memset"}
  BY <1>4, <1>5 DEF Stale, Glue
<1>7. "bpf_throw" \notin Called(m)
  BY <1>2 DEF Stale
<1>8. "bpf_throw" \in tags <=> thrown
  BY <1>1, <1>6, <1>7
<1> HIDE DEF tags, thrown
<1>9. tags \cap (SourceNames(in) \cup Glue \cup {"llvm.memset"}) = {}
  BY <1>1, <1>2, <1>4, <1>6
<1>10. tags \subseteq Called(d) \cup {"memcmp", "bpf_throw"}
  BY <1>1
<1>11. Called(d) \ (DOMAIN d \cup {"llvm.memset"}) \subseteq tags
  BY <1>1, <1>3, <1>4
<1> QED BY <1>8, <1>9, <1>10, <1>11 DEF Tagged, tags, thrown

\* A trap is thrown in mode throw; in the others what trap_to_ret.py left stays.
LEMMA ThrownLeft ==
  ASSUME NEW m, NEW mode, CookiesIn(m, mode), NEW d, DOMAIN d = DOMAIN m,
         \A f \in DOMAIN m : /\ d[f].exits = Thrown(m[f].exits, mode)
                             /\ d[f].ret = m[f].ret /\ d[f].linkage = m[f].linkage
  PROVE  Left(d, mode)
<1>1. CASE mode = "throw"
  <2>1. ASSUME NEW f \in DOMAIN m PROVE d[f].exits \subseteq {"throw"}
    <3>1. m[f].exits \subseteq Traps
      BY <1>1 DEF CookiesIn, Exits
    <3>2. d[f].exits = Thrown(m[f].exits, "throw")
      BY <1>1
    <3> QED BY <3>1, <3>2 DEF Thrown
  <2> QED BY <1>1, <2>1 DEF Left, Exits
<1>2. CASE mode # "throw"
  <2>1. \A f \in DOMAIN m : d[f].exits = m[f].exits
    BY <1>2 DEF Thrown
  <2>2. CookiesIn(d, mode)
    BY <2>1 DEF CookiesIn, Exits
  <2> QED BY <1>2, <2>2 DEF Left
<1> QED BY <1>1, <1>2

LEMMA FinalizeMakes ==
  ASSUME NEW in, NEW s, Case(in, s), NEW kp, NEW N, Glue \subseteq N, NEW mode,
         NEW m, Derived(m, in, kp, N), Forced(m, in, kp, s), CookiesIn(m, mode),
         NEW d, DOMAIN d = DOMAIN m, \A f \in DOMAIN m : d[f] = Finalized(m[f], mode)
  PROVE  /\ Derived(d, in, kp, N) /\ Forced(d, in, kp, s) /\ Left(d, mode)
         /\ Avoids(d, {"memcmp", "llvm.memcpy"}) /\ Tagged(d, in, Kfuncs(m, d))
<1>1. DOMAIN d = DOMAIN m
  OBVIOUS
<1>2. ASSUME NEW f \in DOMAIN m
      PROVE  /\ d[f] \in Funcs(N) /\ d[f].cold \subseteq d[f].calls
             /\ d[f].calls \subseteq m[f].calls \cup Glue
             /\ m[f].calls \subseteq d[f].calls \cup {"memcmp", "llvm.memcpy"}
             /\ d[f].calls \cap {"memcmp", "llvm.memcpy"} = {}
             /\ Same(d[f], m[f]) /\ d[f].linkage = m[f].linkage /\ d[f].parts = m[f].parts
             /\ d[f].exits = Thrown(m[f].exits, mode)
  <2>1. m[f] \in Funcs(N) /\ m[f].cold \subseteq m[f].calls
    BY DEF Derived, WellFormed
  <2>2. d[f] = Finalized(m[f], mode)
    OBVIOUS
  <2> QED BY <2>1, <2>2, LateCalls
<1>3. Alike(d, m, N)
  <2>1. \A f \in DOMAIN m : d[f].exits = {} <=> m[f].exits = {}
    BY <1>2 DEF Thrown, Traps
  <2> QED BY <1>1, <1>2, <2>1 DEF Alike
<1>4. Derived(d, in, kp, N) /\ Forced(d, in, kp, s)
  BY <1>3, AlikeKeeps
<1>5. Avoids(d, {"memcmp", "llvm.memcpy"})
  BY <1>1, <1>2 DEF Avoids
<1>6. Left(d, mode)
  <2>1. \A f \in DOMAIN m : /\ d[f].exits = Thrown(m[f].exits, mode)
                            /\ d[f].ret = m[f].ret /\ d[f].linkage = m[f].linkage
    BY <1>2 DEF Same
  <2>2. DOMAIN d = DOMAIN m
    BY <1>1
  <2> QED BY <2>1, <2>2, ThrownLeft
<1>7. /\ Called(d) \subseteq Called(m) \cup Glue
      /\ Called(m) \subseteq Called(d) \cup {"memcmp", "llvm.memcpy"}
  BY <1>1, <1>2 DEF Called
<1>8. Tagged(d, in, Kfuncs(m, d))
  BY <1>1, <1>4, <1>5, <1>7, DeclarationsAre
<1> QED BY <1>4, <1>5, <1>6, <1>8

LEMMA CodegenMakes ==
  ASSUME NEW in, NEW s, Case(in, s), NEW kp, NEW N, Glue \subseteq N, NEW mode, NEW tags,
         NEW m, Derived(m, in, kp, N), Forced(m, in, kp, s), Left(m, mode),
         Avoids(m, {"memcmp", "llvm.memcpy"}), Tagged(m, in, tags),
         NEW d, d = [f \in DOMAIN m |-> Recall(m[f], LibcallName)]
  PROVE  /\ Derived(d, in, kp, N) /\ Forced(d, in, kp, s) /\ Left(d, mode)
         /\ Avoids(d, {"memcmp", "llvm.memcpy"}) /\ Avoids(d, {"llvm.memset"})
         /\ Tagged(d, in, tags)
<1>1. DOMAIN d = DOMAIN m /\ \A f \in DOMAIN m : d[f] = Recall(m[f], LibcallName)
  OBVIOUS
<1>2. \A n : LibcallName(n) \in {n} \cup Glue /\ LibcallName(n) # "llvm.memset"
  BY DEF LibcallName, Glue
<1>3. ASSUME NEW f \in DOMAIN m
      PROVE  /\ d[f] \in Funcs(N) /\ d[f].cold \subseteq d[f].calls
             /\ d[f].calls \subseteq m[f].calls \cup Glue
             /\ m[f].calls \subseteq d[f].calls \cup {"llvm.memset"}
             /\ "llvm.memset" \notin d[f].calls
             /\ Same(d[f], m[f]) /\ d[f].linkage = m[f].linkage /\ d[f].parts = m[f].parts
             /\ d[f].exits = m[f].exits
  <2> DEFINE fn == m[f]
             c == {LibcallName(n) : n \in fn.calls}
             e == {LibcallName(n) : n \in fn.cold}
             r == d[f]
  <2>1. fn \in Funcs(N) /\ fn.cold \subseteq fn.calls
    BY DEF Derived, WellFormed
  <2>2. r = WithCalls(fn, c, e)
    BY <1>1 DEF Recall, WithCalls
  <2> HIDE DEF fn, r
  <2>3. fn.calls \subseteq N /\ fn.cold \subseteq N
    BY <2>1 DEF Funcs
  <2>4. /\ c \in SUBSET N /\ e \in SUBSET N /\ e \subseteq c
        /\ c \subseteq fn.calls \cup Glue /\ "llvm.memset" \notin c
        /\ fn.calls \subseteq c \cup {"llvm.memset"}
    BY <1>2, <2>1, <2>3 DEF LibcallName
  <2> HIDE DEF c, e
  <2>5. /\ r \in Funcs(N) /\ r.calls = c /\ r.cold = e
        /\ Same(r, fn) /\ r.linkage = fn.linkage
        /\ r.exits = fn.exits /\ r.parts = fn.parts
    BY <2>1, <2>2, <2>4, SetCalls
  <2> QED BY <2>4, <2>5 DEF r, fn
<1>4. Alike(d, m, N)
  BY <1>1, <1>3 DEF Alike
<1>5. Derived(d, in, kp, N) /\ Forced(d, in, kp, s)
  BY <1>4, AlikeKeeps
<1>6. Avoids(d, {"memcmp", "llvm.memcpy"}) /\ Avoids(d, {"llvm.memset"})
  BY <1>1, <1>3 DEF Avoids, Glue
<1>7. Left(d, mode)
  BY <1>1, <1>3 DEF Left, CookiesIn, Exits, Same
<1>8. Tagged(d, in, tags)
  <2>1. ASSUME NEW n \in Called(d), n \notin DOMAIN d PROVE n \in tags
    <3>1. PICK f \in DOMAIN m : n \in d[f].calls
      BY <1>1 DEF Called
    <3>2. n \notin Glue
      BY <1>5, <2>1 DEF Derived, GlueKept
    <3>3. n \in Called(m) /\ n # "llvm.memset"
      BY <1>3, <3>1, <3>2 DEF Called
    <3> QED BY <1>1, <2>1, <3>3 DEF Tagged
  <2>2. Called(m) \subseteq Called(d) \cup {"llvm.memset"}
    BY <1>1, <1>3 DEF Called
  <2>3. tags \subseteq Called(d) \cup {"memcmp", "bpf_throw"}
    BY <2>2 DEF Tagged
  <2> QED BY <1>1, <1>3, <2>1, <2>3 DEF Tagged
<1> QED BY <1>5, <1>6, <1>7, <1>8

-----------------------------------------------------------------------------
(* The invariant is one.                                                   *)

LEMMA NamesFacts ==
  ASSUME NEW in, NEW s
  PROVE  Glue \subseteq NamesOf(in, s) /\ LateMem \subseteq NamesOf(in, s)
BY DEF NamesOf

LEMMA InitIInv == Init => IInv
<1> SUFFICES ASSUME Init PROVE IInv
  OBVIOUS
<1>1. stage = "start" /\ mod = << >> /\ keep = {} /\ noinline = {} /\ ksyms = {} /\ out = "none"
  BY DEF Init
<1>2. Case(input, set)
  BY DEF Init, Case
<1>3. DOMAIN mod = {}
  BY <1>1
<1>4. Typed(stage, mod, keep, noinline, ksyms, out, NamesOf(input, set))
  BY <1>1, <1>3 DEF Typed, WellFormed, Stages
<1>5. Shape(stage, input, set, mod, keep, ksyms, out # "none")
  BY <1>1 DEF Shape, AfterInline
<1> QED BY <1>1, <1>2, <1>4, <1>5 DEF IInv, Listed

\* What every step before the object is written keeps: nothing is written yet,
\* the lists stand and the names are the same.
LEMMA Unwritten ==
  ASSUME IInv, stage \notin {"object", "done", "died"}, UNCHANGED <<input, set, out>>
  PROVE  out' = "none" /\ Case(input', set') /\ Case(input, set)
BY DEF IInv, Typed

LEMMA PassTyped ==
  ASSUME IInv, UNCHANGED <<input, set, keep, noinline>>, stage' \in Stages,
         out' \in {"none", "raw", "final"},
         ksyms' \subseteq NamesOf(input, set) \cup {"bpf_throw"},
         WellFormed(mod', NamesOf(input, set))
  PROVE  Typed(stage, mod, keep, noinline, ksyms, out, NamesOf(input, set))'
BY DEF IInv, Typed

LEMMA LinkStep ==
  ASSUME IInv, Link PROVE IInv'
<1>1. /\ stage = "start" /\ stage' = "linked" /\ UNCHANGED <<input, set, keep, noinline, ksyms, out>>
      /\ mod' = Linked(input)
  BY DEF Link, Linked
<1>2. out' = "none" /\ Case(input', set') /\ Case(input, set)
  BY <1>1, Unwritten
<1>3. WellFormed(mod', NamesOf(input, set))
  BY <1>1, <1>2, LinkedWellFormed
<1>4. Typed(stage, mod, keep, noinline, ksyms, out, NamesOf(input, set))'
  BY <1>1, <1>2, <1>3, PassTyped DEF Stages, IInv, Typed
<1>5. Shape(stage, input, set, mod, keep, ksyms, out # "none")'
  BY <1>1, <1>2 DEF Shape, AfterInline
<1> QED BY <1>1, <1>2, <1>4, <1>5 DEF IInv, Listed

LEMMA KeepSymsStep ==
  ASSUME IInv, KeepSyms PROVE IInv'
<1>1. /\ stage = "linked" /\ stage' = "listed" /\ UNCHANGED <<input, set, mod, ksyms, out>>
      /\ keep' = KeepList(mod, set) /\ noinline' = NoinlineList(keep')
  BY DEF KeepSyms
<1>2. out' = "none" /\ Case(input', set') /\ Case(input, set)
  BY <1>1, Unwritten
<1>3. mod = Linked(input)
  BY <1>1 DEF IInv, Shape
<1>4. Lists(input, set, keep, noinline)'
  BY <1>1, <1>3 DEF Lists
<1>5. keep' \cup noinline' \subseteq NamesOf(input, set) \ Glue
  <2>1. /\ keep' \subseteq NamesOf(input, set) /\ keep' \cap (Glue \cup CbNames) = {}
        /\ noinline' = keep' \cup DOMAIN Arena
    BY <1>1, <1>2, <1>3, KeepIs
  <2>2. DOMAIN Arena \cap Glue = {}
    BY <1>2, SourceApart
  <2>3. DOMAIN Arena \subseteq NamesOf(input, set)
    BY DEF NamesOf
  <2> QED BY <2>1, <2>2, <2>3
<1>6. Typed(stage, mod, keep, noinline, ksyms, out, NamesOf(input, set))'
  BY <1>1, <1>5 DEF IInv, Typed, Stages, Listed
<1>7. Shape(stage, input, set, mod, keep, ksyms, out # "none")'
  BY <1>1, <1>2, <1>3 DEF Shape, AfterInline
<1> QED BY <1>1, <1>2, <1>4, <1>6, <1>7 DEF IInv

LEMMA LowerMemStep ==
  ASSUME IInv, LowerMem PROVE IInv'
<1> DEFINE N == NamesOf(input, set)
<1>1. /\ stage = "listed" /\ stage' = "lowered" /\ UNCHANGED <<input, set, keep, noinline, ksyms, out>>
      /\ mod' = [d \in {DefinedName(n, mod[n]) : n \in DOMAIN mod} |->
                   LET n == CHOOSE x \in DOMAIN mod : DefinedName(x, mod[x]) = d
                   IN  [Recall(mod[n], EarlyName) EXCEPT !.parts = {d}]]
  BY DEF LowerMem
<1>2. out' = "none" /\ Case(input', set') /\ Case(input, set)
  BY <1>1, Unwritten
<1>3. mod = Linked(input) /\ Lists(input, set, keep, noinline)
  BY <1>1 DEF IInv, Shape, Listed
<1>4. Lowers(mod, mod')
  BY <1>1 DEF Lowers
<1>5. Lowered(mod', input, N)
  BY <1>2, <1>3, <1>4, LowerMemMakes
<1>6. Typed(stage, mod, keep, noinline, ksyms, out, NamesOf(input, set))'
  <2>1. WellFormed(mod', N)
    BY <1>5 DEF Lowered
  <2> QED BY <1>1, <2>1, PassTyped DEF Stages, Listed, IInv, Typed
<1>7. Shape(stage, input, set, mod, keep, ksyms, out # "none")'
  BY <1>1, <1>2, <1>5 DEF Shape, AfterInline
<1> QED BY <1>1, <1>2, <1>3, <1>6, <1>7 DEF IInv

LEMMA InternalizeStep ==
  ASSUME IInv, Internalize PROVE IInv'
<1> DEFINE N == NamesOf(input, set)
<1>1. /\ stage = "lowered" /\ stage' = "internal"
      /\ UNCHANGED <<input, set, keep, noinline, ksyms, out>>
      /\ mod' = GlobalDCE(Internalized(mod, keep))
  BY DEF Internalize, Internalized
<1>2. out' = "none" /\ Case(input', set') /\ Case(input, set)
  BY <1>1, Unwritten
<1>3. Lowered(mod, input, N) /\ Lists(input, set, keep, noinline)
  BY <1>1 DEF IInv, Shape, Listed
<1>4. keep \cap CbNames = {}
  BY <1>2, <1>3, KeepIs DEF Lists
<1>5. /\ Derived(mod', input, keep, N)
      /\ OwnBodies(mod') /\ Exits(mod', Traps) /\ Avoids(mod', LateMem)
  BY <1>1, <1>2, <1>3, <1>4, InternalizeMakes
<1>6. Typed(stage, mod, keep, noinline, ksyms, out, NamesOf(input, set))'
  <2>1. WellFormed(mod', N)
    BY <1>5 DEF Derived
  <2> QED BY <1>1, <2>1, PassTyped DEF Stages, Listed, IInv, Typed
<1>7. Shape(stage, input, set, mod, keep, ksyms, out # "none")'
  BY <1>1, <1>2, <1>5 DEF Shape, AfterInline
<1> QED BY <1>1, <1>2, <1>3, <1>6, <1>7 DEF IInv, Listed

LEMMA ForceInlineStep ==
  ASSUME IInv, ForceInline PROVE IInv'
<1> DEFINE N == NamesOf(input, set)
<1>1. /\ stage = "internal" /\ stage' = "inlined"
      /\ UNCHANGED <<input, set, keep, noinline, ksyms, out>>
      /\ mod' = GlobalDCE(Inline(StripNoinline(mod), DOMAIN mod \ noinline))
  BY DEF ForceInline
<1>2. out' = "none" /\ Case(input', set') /\ Case(input, set)
  BY <1>1, Unwritten
<1>3. /\ Derived(mod, input, keep, N) /\ Lists(input, set, keep, noinline)
      /\ OwnBodies(mod) /\ Exits(mod, Traps) /\ Avoids(mod, LateMem)
  BY <1>1 DEF IInv, Shape, Listed
<1>4. /\ Derived(mod', input, keep, N) /\ Forced(mod', input, keep, set)
      /\ Outlined(mod') /\ Exits(mod', Traps)
      /\ Avoids(mod', Glue \cup LibCalls \cup LateMem)
  BY <1>1, <1>2, <1>3, ForceInlineMakes DEF Lists
<1>5. Typed(stage, mod, keep, noinline, ksyms, out, NamesOf(input, set))'
  <2>1. WellFormed(mod', N)
    BY <1>4 DEF Derived
  <2> QED BY <1>1, <2>1, PassTyped DEF Stages, Listed, IInv, Typed
<1>6. Shape(stage, input, set, mod, keep, ksyms, out # "none")'
  BY <1>1, <1>2, <1>4 DEF Shape, AfterInline
<1> QED BY <1>1, <1>2, <1>3, <1>5, <1>6 DEF IInv, Listed

LEMMA O2Step ==
  ASSUME IInv, O2 PROVE IInv'
<1> DEFINE N == NamesOf(input, set)
<1>1. /\ stage = "inlined" /\ stage' = "optimized"
      /\ UNCHANGED <<input, set, keep, noinline, ksyms, out>>
  BY DEF O2
<1>2. out' = "none" /\ Case(input', set') /\ Case(input, set)
  BY <1>1, Unwritten
<1>3. /\ Derived(mod, input, keep, N) /\ Lists(input, set, keep, noinline)
      /\ Forced(mod, input, keep, set) /\ Exits(mod, Traps)
  BY <1>1 DEF IInv, Shape, Listed, AfterInline
<1>4. PICK via \in SUBSET DOMAIN mod :
        /\ \A g \in via : mod[g].linkage # "weak"
        /\ \E late \in SUBSET LateMem, f \in DOMAIN GlobalDCE(Inline(mod, via)) :
             mod' = [GlobalDCE(Inline(mod, via)) EXCEPT ![f].calls = @ \cup late]
  BY DEF O2
<1>5. Derived(mod', input, keep, N) /\ Forced(mod', input, keep, set) /\ Exits(mod', Traps)
  <2> PICK late \in SUBSET LateMem, f \in DOMAIN GlobalDCE(Inline(mod, via)) :
        mod' = [GlobalDCE(Inline(mod, via)) EXCEPT ![f].calls = @ \cup late]
    BY <1>4
  <2>1. LateMem \subseteq N
    BY NamesFacts
  <2> DEFINE d == [GlobalDCE(Inline(mod, via)) EXCEPT ![f].calls = @ \cup late]
  <2>2. Derived(d, input, keep, N) /\ Forced(d, input, keep, set) /\ Exits(d, Traps)
    BY <1>2, <1>3, <1>4, <2>1, O2Makes
  <2>3. mod' = d
    OBVIOUS
  <2> HIDE DEF d
  <2> QED BY <2>2, <2>3
<1>6. Typed(stage, mod, keep, noinline, ksyms, out, NamesOf(input, set))'
  <2>1. WellFormed(mod', N)
    BY <1>5 DEF Derived
  <2> QED BY <1>1, <2>1, PassTyped DEF Stages, Listed, IInv, Typed
<1>7. Shape(stage, input, set, mod, keep, ksyms, out # "none")'
  BY <1>1, <1>2, <1>5 DEF Shape, AfterInline
<1> QED BY <1>1, <1>2, <1>3, <1>6, <1>7 DEF IInv, Listed

LEMMA TrapToRetStep ==
  ASSUME IInv, TrapToRet PROVE IInv'
<1> DEFINE N == NamesOf(input, set)
           mode == TrapMode(set)
<1>1. /\ stage = "optimized" /\ stage' = "trapped"
      /\ UNCHANGED <<input, set, keep, noinline, ksyms, out>>
      /\ \E missed \in SUBSET Plain(mod) :
           mod' = IF mode = "ret"
                  THEN [f \in DOMAIN mod |-> IF f \in missed THEN mod[f] ELSE ReturnCookie(mod[f])]
                  ELSE mod
  BY DEF TrapToRet
<1>2. out' = "none" /\ Case(input', set') /\ Case(input, set)
  BY <1>1, Unwritten
<1>3. /\ Derived(mod, input, keep, N) /\ Lists(input, set, keep, noinline)
      /\ Forced(mod, input, keep, set) /\ Exits(mod, Traps)
  BY <1>1 DEF IInv, Shape, Listed, AfterInline
<1>4. Derived(mod', input, keep, N) /\ Forced(mod', input, keep, set) /\ CookiesIn(mod', mode)
  BY <1>1, <1>2, <1>3, TrapMakes
<1>5. Typed(stage, mod, keep, noinline, ksyms, out, NamesOf(input, set))'
  <2>1. WellFormed(mod', N)
    BY <1>4 DEF Derived
  <2> QED BY <1>1, <2>1, PassTyped DEF Stages, Listed, IInv, Typed
<1>6. Shape(stage, input, set, mod, keep, ksyms, out # "none")'
  BY <1>1, <1>2, <1>4 DEF Shape, AfterInline
<1> QED BY <1>1, <1>2, <1>3, <1>5, <1>6 DEF IInv, Listed

LEMMA FinalizeStep ==
  ASSUME IInv, Finalize PROVE IInv'
<1> DEFINE N == NamesOf(input, set)
           mode == TrapMode(set)
<1>1. /\ stage = "trapped" /\ stage' = "final" /\ UNCHANGED <<input, set, keep, noinline, out>>
      /\ mod' = [f \in DOMAIN mod |-> [Recall(mod[f], LateName) EXCEPT !.exits = Thrown(@, mode)]]
      /\ ksyms' = Kfuncs(mod, mod')
  BY DEF Finalize
<1>2. out' = "none" /\ Case(input', set') /\ Case(input, set)
  BY <1>1, Unwritten
<1>3. /\ Derived(mod, input, keep, N) /\ Lists(input, set, keep, noinline)
      /\ Forced(mod, input, keep, set) /\ CookiesIn(mod, mode)
  BY <1>1 DEF IInv, Shape, Listed, AfterInline
<1>4. DOMAIN mod' = DOMAIN mod /\ \A f \in DOMAIN mod : mod'[f] = Finalized(mod[f], mode)
  BY <1>1 DEF Finalized
<1>5. /\ Derived(mod', input, keep, N) /\ Forced(mod', input, keep, set) /\ Left(mod', mode)
      /\ Avoids(mod', {"memcmp", "llvm.memcpy"}) /\ Tagged(mod', input, ksyms')
  <2>1. Glue \subseteq N
    BY NamesFacts
  <2>2. ksyms' = Kfuncs(mod, mod')
    BY <1>1
  <2> QED BY <1>2, <1>3, <1>4, <2>1, <2>2, FinalizeMakes
<1>6. Typed(stage, mod, keep, noinline, ksyms, out, NamesOf(input, set))'
  <2>1. WellFormed(mod', N)
    BY <1>5 DEF Derived
  <2>2. Called(mod) \subseteq N
    BY <1>3 DEF Derived, WellFormed, Called, Funcs
  <2>3. ksyms' \subseteq N \cup {"bpf_throw"}
    BY <1>1, <2>2 DEF Kfuncs, Declared, ThrowDeclared
  <2> QED BY <1>1, <1>2, <2>1, <2>3, PassTyped DEF Stages, Listed
<1>7. Shape(stage, input, set, mod, keep, ksyms, out # "none")'
  BY <1>1, <1>2, <1>5 DEF Shape, AfterInline
<1> QED BY <1>1, <1>2, <1>3, <1>6, <1>7 DEF IInv, Listed

LEMMA CodegenStep ==
  ASSUME IInv, Codegen PROVE IInv'
<1> DEFINE N == NamesOf(input, set)
           mode == TrapMode(set)
<1>1. /\ stage = "final" /\ stage' = "object" /\ out' = "raw"
      /\ UNCHANGED <<input, set, keep, noinline, ksyms>>
      /\ mod' = [f \in DOMAIN mod |-> Recall(mod[f], LibcallName)]
  BY DEF Codegen
<1>2. Case(input, set) /\ Lists(input, set, keep, noinline)
  BY <1>1 DEF IInv, Listed
<1>3. /\ Derived(mod, input, keep, N) /\ Forced(mod, input, keep, set) /\ Left(mod, mode)
      /\ Avoids(mod, {"memcmp", "llvm.memcpy"}) /\ Tagged(mod, input, ksyms)
  BY <1>1 DEF IInv, Shape, AfterInline
<1>4. /\ Derived(mod', input, keep, N) /\ Forced(mod', input, keep, set) /\ Left(mod', mode)
      /\ Avoids(mod', {"memcmp", "llvm.memcpy"}) /\ Avoids(mod', {"llvm.memset"})
      /\ Tagged(mod', input, ksyms)
  BY <1>1, <1>2, <1>3, CodegenMakes, NamesFacts
<1>5. Typed(stage, mod, keep, noinline, ksyms, out, NamesOf(input, set))'
  <2>1. WellFormed(mod', N)
    BY <1>4 DEF Derived
  <2> QED BY <1>1, <2>1, PassTyped DEF Stages, Listed, IInv, Typed
<1>6. Shape(stage, input, set, mod, keep, ksyms, out # "none")'
  BY <1>1, <1>4 DEF Shape, AfterInline
<1> QED BY <1>1, <1>2, <1>5, <1>6 DEF IInv

LEMMA BtfRenameStep ==
  ASSUME IInv, BtfRename PROVE IInv'
<1>1. /\ stage = "object" /\ stage' = "done" /\ out' = "final" /\ out # "none"
      /\ UNCHANGED <<input, set, mod, keep, noinline, ksyms>>
  BY DEF BtfRename, IInv
<1>2. Typed(stage, mod, keep, noinline, ksyms, out, NamesOf(input, set))'
  BY <1>1 DEF IInv, Typed, Stages, Listed
<1>3. Shape(stage, input, set, mod, keep, ksyms, out # "none")'
  BY <1>1 DEF IInv, Shape, AfterInline
<1> QED BY <1>1, <1>2, <1>3 DEF IInv

LEMMA DieStep ==
  ASSUME IInv, Die PROVE IInv'
<1>1. /\ stage' = "died" /\ UNCHANGED <<input, set, mod, keep, noinline, ksyms, out>>
  BY DEF Die
<1>2. Typed(stage, mod, keep, noinline, ksyms, out, NamesOf(input, set))'
  BY <1>1 DEF IInv, Typed, Stages
<1>3. Shape(stage, input, set, mod, keep, ksyms, out # "none")'
  BY <1>1 DEF IInv, Shape, AfterInline
<1> QED BY <1>1, <1>2, <1>3 DEF IInv, Listed

\* The invariant holds in every state of the link.
THEOREM Invariance == Spec => []IInv
<1>1. ASSUME IInv, [Next]_vars PROVE IInv'
  <2>1. CASE Next
    BY <1>1, <2>1, LinkStep, KeepSymsStep, LowerMemStep, InternalizeStep, ForceInlineStep,
       O2Step, TrapToRetStep, FinalizeStep, CodegenStep, BtfRenameStep, DieStep DEF Next
  <2>2. CASE UNCHANGED vars
    BY <1>1, <2>2 DEF vars, IInv
  <2> QED BY <1>1, <2>1, <2>2
<1> QED BY <1>1, InitIInv, PTL DEF Spec

-----------------------------------------------------------------------------
(* What follows from it.                                                   *)

\* Types: every pass makes functions out of functions, under names that the
\* bitcode, libarena or the linker gave, and the lists name no memory helper.
THEOREM TypeCorrect == Spec => []TypeOK
<1>1. ASSUME IInv PROVE TypeOK
  <2>1. Names = NamesOf(input, set)
    BY DEF Names, NamesOf
  <2>2. Typed(stage, mod, keep, noinline, ksyms, out, NamesOf(input, set))
    BY <1>1 DEF IInv
  <2> QED BY <2>1, <2>2 DEF TypeOK, Typed, WellFormed, Stages, Listed
<1> QED BY <1>1, Invariance, PTL

\* What is known of the module when the object is written.
LEMMA AtObject ==
  ASSUME IInv, Written
  PROVE  /\ Case(input, set)
         /\ keep = KeepList(Linked(input), set)
         /\ Derived(mod, input, keep, NamesOf(input, set))
         /\ Forced(mod, input, keep, set)
         /\ Left(mod, TrapMode(set))
         /\ Tagged(mod, input, ksyms)
         /\ Avoids(mod, {"memcmp", "llvm.memcpy"}) /\ Avoids(mod, {"llvm.memset"})
<1>1. out # "none"
  BY DEF Written
<1>2. Shape(stage, input, set, mod, keep, ksyms, TRUE)
  BY <1>1 DEF IInv
<1> QED BY <1>1, <1>2 DEF IInv, Lists, Shape

\* No program, no environment and no choice of O2 loses an entry program that
\* returns a value.
THEOREM EntriesStay == Spec => []EntriesInObject
<1>1. ASSUME IInv, Written, NEW f \in DOMAIN input \cup DOMAIN Arena,
             Source(input, f).section, Source(input, f).ret # "void"
      PROVE  f \in DOMAIN mod /\ mod[f].linkage # "internal"
  <2>1. Source(input, f).linkage # "internal" /\ f \notin LibCalls
    BY <1>1, AtObject, SourceFacts
  <2>2. f \in SourceNames(input)
    BY <2>1 DEF SourceNames
  <2>3. f \in keep
    BY <1>1, <2>2, AtObject, KeepIs
  <2> QED BY <1>1, <2>1, <2>2, <2>3, AtObject DEF Derived
<1>2. IInv => EntriesInObject
  BY <1>1 DEF EntriesInObject, Bitcode, Source
<1> QED BY <1>2, Invariance, PTL

\* What the documentation says of KEEP_EXTRA's symbols and of libarena's holds
\* of those that return a value, and of all when void globals are kept: a
\* visible one stays in the object and visible.
THEOREM KeptStayGlobal ==
  Spec => [](Written =>
    \A f \in SourceNames(input) \cap (Extra(set) \cup DOMAIN Arena) :
      /\ Source(input, f).linkage # "internal"
      /\ Source(input, f).ret # "void" \/ set.voidGlobals # "internalize"
      => f \in DOMAIN mod /\ mod[f].linkage # "internal")
<1>1. ASSUME IInv, Written, NEW f \in SourceNames(input) \cap (Extra(set) \cup DOMAIN Arena),
             Source(input, f).linkage # "internal",
             Source(input, f).ret # "void" \/ set.voidGlobals # "internalize"
      PROVE  f \in DOMAIN mod /\ mod[f].linkage # "internal"
  <2>1. f \in keep
    BY <1>1, AtObject, KeepIs
  <2> QED BY <1>1, <2>1, AtObject DEF Derived
<1>2. IInv =>
        (Written =>
           \A f \in SourceNames(input) \cap (Extra(set) \cup DOMAIN Arena) :
             /\ Source(input, f).linkage # "internal"
             /\ Source(input, f).ret # "void" \/ set.voidGlobals # "internalize"
             => f \in DOMAIN mod /\ mod[f].linkage # "internal")
  BY <1>1
<1> QED BY <1>2, Invariance, PTL

\* Every Rust function that is not an entry program, and that nobody asked to
\* keep, has gone into its callers.
THEOREM RustInlined == Spec => []RustIsInlined
<1>1. IInv => RustIsInlined
  BY AtObject DEF RustIsInlined, Forced, RustCallees
<1> QED BY <1>1, Invariance, PTL

\* No memory routine but the glue's survives, and those are there.
THEOREM MemoryBound == Spec => []MemoryCallsBound
<1>1. ASSUME IInv, Written, NEW f \in DOMAIN mod
      PROVE  /\ mod[f].origin # "cb"
             /\ \A n \in mod[f].parts : n \notin CbNames
             /\ mod[f].calls \cap (Glue \cup LibCalls \cup LateMem) \subseteq DOMAIN mod
  <2>1. Derived(mod, input, keep, NamesOf(input, set)) /\ Case(input, set)
    BY <1>1, AtObject
  <2>2. mod[f].origin # "cb"
    <3>1. CASE f \in Glue
      BY <2>1, <3>1 DEF Derived, GlueKept
    <3>2. CASE f \in SourceNames(input)
      <4>1. Source(input, f).origin # "cb"
        <5>1. f \in DOMAIN input \cup DOMAIN Arena /\ f \notin LibCalls
          BY <3>2 DEF SourceNames
        <5>2. Source(input, f).origin = IF f \in DOMAIN input THEN "rust" ELSE "arena"
          BY <2>1, <5>1, SourceFacts
        <5> QED BY <5>2
      <4> QED BY <2>1, <3>2, <4>1 DEF Derived, Same
    <3> QED BY <2>1, <3>1, <3>2 DEF Derived
  <2>3. mod[f].calls \cap {"memcpy", "memcmp", "llvm.memcpy", "llvm.memset"} = {}
    BY <1>1, <2>1, AtObject DEF Derived, Avoids, Stale
  <2>4. Glue \subseteq DOMAIN mod
    BY <2>1 DEF Derived, GlueKept
  <2>5. (Glue \cup SourceNames(input)) \cap CbNames = {}
    BY <2>1, SourceApart DEF Stale, Glue, CbNames
  <2>6. \A n \in mod[f].parts : n \notin CbNames
    BY <1>1, <2>1, <2>5 DEF Derived
  <2> QED BY <2>1, <2>2, <2>3, <2>4, <2>6 DEF Glue, LibCalls, LateMem
<1>2. IInv => MemoryCallsBound
  BY <1>1 DEF MemoryCallsBound
<1> QED BY <1>2, Invariance, PTL

\* What the object leaves undefined is tagged, and is neither the program's nor
\* libarena's nor the linker's own; in vain a memcmp is tagged, and nothing else.
THEOREM DeclarationsTagged == Spec => []KfuncsTagged
<1> DEFINE own == (DOMAIN input \ LibCalls) \cup DOMAIN Arena \cup Glue \cup DOMAIN mod
           needed == Called(mod) \ DOMAIN mod
<1>1. ASSUME IInv, Written
      PROVE  /\ needed \subseteq ksyms
             /\ ksyms \cap own = {}
             /\ ksyms \subseteq needed \cup {"memcmp", "bpf_throw"}
             /\ "bpf_throw" \in ksyms <=> \E f \in DOMAIN mod : "throw" \in mod[f].exits
  <2>1. /\ Tagged(mod, input, ksyms) /\ Avoids(mod, {"llvm.memset"}) /\ Case(input, set)
        /\ DOMAIN mod \subseteq Glue \cup SourceNames(input)
    BY <1>1, AtObject DEF Derived
  <2>2. "llvm.memset" \notin Called(mod)
    BY <2>1 DEF Avoids, Called
  <2>3. own \subseteq SourceNames(input) \cup Glue
    <3>1. DOMAIN input \ LibCalls \subseteq SourceNames(input)
      BY DEF SourceNames
    <3> QED BY <2>1, <3>1, SourceApart
  <2>4. ksyms \cap own = {}
    BY <2>1, <2>3 DEF Tagged
  <2>5. ksyms \subseteq needed \cup {"memcmp", "bpf_throw"}
    BY <2>1, <2>4 DEF Tagged
  <2> QED BY <2>1, <2>2, <2>4, <2>5 DEF Tagged
<1>2. IInv => KfuncsTagged
  BY <1>1 DEF KfuncsTagged
<1> QED BY <1>2, Invariance, PTL

\* When the forced inlining is over nobody calls a memory routine.
THEOREM NoSharedCopies == Spec => []CopiesInlined
<1>1. IInv => CopiesInlined
  BY DEF IInv, Shape, CopiesInlined, Avoids
<1> QED BY <1>1, Invariance, PTL

\* And libarena's functions are as they were.
THEOREM ArenaOutlined == Spec => []ArenaNotForced
<1>1. IInv => ArenaNotForced
  BY DEF IInv, Shape, ArenaNotForced, Outlined
<1> QED BY <1>1, Invariance, PTL

\* By default the object has no visible function that returns nothing.
LEMMA VoidsAreInternal == IInv => NoVoidGlobals
<1>1. ASSUME IInv, Written, set.voidGlobals = "internalize", NEW f \in DOMAIN mod,
             mod[f].ret = "void", mod[f].linkage # "internal"
      PROVE  FALSE
  <2>1. /\ Derived(mod, input, keep, NamesOf(input, set)) /\ Case(input, set)
        /\ keep = KeepList(Linked(input), set)
    BY <1>1, AtObject
  <2>2. f \notin Glue
    BY <1>1, <2>1 DEF Derived, GlueKept
  <2>3. /\ f \in SourceNames(input) /\ Same(mod[f], Source(input, f))
        /\ mod[f].linkage = IF f \in keep \/ Source(input, f).used
                            THEN Source(input, f).linkage ELSE "internal"
    BY <2>1, <2>2 DEF Derived
  <2>4. Source(input, f).used => Source(input, f).linkage = "internal"
    BY <2>1, <2>3, SourceFacts, SourceApart
  <2>5. f \in keep /\ Source(input, f).linkage # "internal" /\ Source(input, f).ret = "void"
    BY <1>1, <2>3, <2>4 DEF Same
  <2> QED BY <1>1, <2>1, <2>3, <2>5, KeepIs
<1> QED BY <1>1 DEF NoVoidGlobals, VoidGlobals

\* So it is in every state of the link.
THEOREM VoidsInternal == Spec => []NoVoidGlobals
BY VoidsAreInternal, Invariance, PTL

\* What trap mode the linker settles on.
LEMMA ModeIs ==
  /\ set.trapMode \in {"unset", "auto", "throw", "ret"} => TrapMode(set) \in {"throw", "ret"}
  /\ set.trapMode = "throw" => TrapMode(set) = "throw"
  /\ TrapMode(set) = "throw" /\ set.trapMode \in {"unset", "auto"}
       => ~set.config \/ set.orc \/ (set.vmlinux /\ set.trapMode = "unset")
BY DEF TrapMode

\* A panic leaves by the road the mode names, and by mode ret alone a trap is
\* left, where trap_to_ret.py cannot take it.
THEOREM TrapsGone == Spec => []TrapsReplaced
<1>1. ASSUME IInv, Written,
             set.trapMode = "throw" \/ \E f \in DOMAIN mod : "throw" \in mod[f].exits
      PROVE  \A f \in DOMAIN mod : mod[f].exits \cap Traps = {}
  <2>1. Left(mod, TrapMode(set))
    BY <1>1, AtObject
  <2>2. TrapMode(set) = "throw"
    <3>1. CASE set.trapMode = "throw"
      BY <3>1, ModeIs
    <3>2. CASE \E f \in DOMAIN mod : "throw" \in mod[f].exits
      BY <2>1, <3>2 DEF Left, CookiesIn, Exits, Traps
    <3> QED BY <1>1, <3>1, <3>2
  <2> QED BY <2>1, <2>2 DEF Left, Exits, Traps
<1>2. ASSUME IInv, Written, set.trapMode \in {"unset", "auto", "throw", "ret"},
             NEW f \in DOMAIN mod, "trap" \in mod[f].exits
      PROVE  \/ mod[f].ret = "other"
             \/ /\ mod[f].ret = "void" /\ mod[f].linkage = "global"
                /\ set.voidGlobals # "internalize"
  <2>1. Left(mod, TrapMode(set)) /\ TrapMode(set) \in {"throw", "ret"}
    BY <1>2, AtObject, ModeIs
  <2>2. TrapMode(set) = "ret"
    BY <1>2, <2>1 DEF Left, Exits
  <2>3. mod[f].ret = "other" \/ (mod[f].ret = "void" /\ mod[f].linkage = "global")
    BY <1>2, <2>1, <2>2 DEF Left, CookiesIn
  <2>4. NoVoidGlobals
    BY <1>2, VoidsAreInternal
  <2> QED BY <1>2, <2>3, <2>4 DEF NoVoidGlobals, VoidGlobals
<1>3. IInv => TrapsReplaced
  BY <1>1, <1>2 DEF TrapsReplaced
<1> QED BY <1>3, Invariance, PTL

\* No pass loses a panic or makes one up.
THEOREM PanicsKept == Spec => []PanicsAccounted
<1>1. ASSUME IInv, Written, NEW f \in DOMAIN mod
      PROVE  mod[f].exits # {} <=> Panics(input, mod[f].parts)
  BY <1>1, AtObject DEF Derived
<1>2. IInv => PanicsAccounted
  BY <1>1 DEF PanicsAccounted, Panics, Bitcode, Source
<1> QED BY <1>2, Invariance, PTL

\* Libarena is outlined until O2, and of its functions and of those that the
\* user keeps, the weak ones are so in the object.
THEOREM WeakStayOutlined == Spec => []KeptStayOutlined
<1>1. ASSUME IInv, Written, NEW f \in DOMAIN mod,
             NEW k \in DOMAIN Arena \cup (Extra(set) \cap DOMAIN input),
             Source(input, k).linkage = "weak",
             Source(input, k).ret # "void" \/ set.voidGlobals # "internalize",
             k \in mod[f].parts
      PROVE  k = f
  <2>1. /\ Case(input, set) /\ keep = KeepList(Linked(input), set)
        /\ Derived(mod, input, keep, NamesOf(input, set)) /\ WeakOutlined(mod, input, keep)
    BY <1>1, AtObject DEF Forced
  <2>2. k \in SourceNames(input)
    <3>1. k \notin Glue
      BY <2>1, CaseGiven, SourceApart
    <3> QED BY <1>1, <2>1, <3>1 DEF Derived
  <2>3. k \in keep
    BY <1>1, <2>1, <2>2, KeepIs
  <2> QED BY <1>1, <2>1, <2>2, <2>3 DEF WeakOutlined
<1>2. IInv => KeptStayOutlined
  <2>1. IInv => ArenaNotForced
    BY DEF IInv, Shape, ArenaNotForced, Outlined
  <2> QED BY <1>1, <2>1 DEF KeptStayOutlined, Bitcode, Source
<1> QED BY <1>2, Invariance, PTL

\* When nothing but entry programs is exported or kept, all that is left of Rust
\* are the entry programs.
THEOREM OnlyProgramsLeft ==
  Spec => [](Written /\ OnlyProgramsKept =>
               \A f \in DOMAIN mod : mod[f].origin = "rust" => mod[f].section)
<1>1. ASSUME IInv, Written, OnlyProgramsKept, NEW f \in DOMAIN mod, mod[f].origin = "rust"
      PROVE  mod[f].section
  <2>1. /\ Case(input, set) /\ Derived(mod, input, keep, NamesOf(input, set))
        /\ OnlyPrograms(mod, input, set)
    BY <1>1, AtObject DEF Forced
  <2>2. f \notin Glue
    BY <1>1, <2>1 DEF Derived, GlueKept
  <2>3. f \in SourceNames(input) /\ Source(input, f).origin = "rust"
    BY <1>1, <2>1, <2>2 DEF Derived, Same
  <2>4. f \in RustNames(input)
    <3>1. f \in DOMAIN input \cup DOMAIN Arena /\ f \notin LibCalls
      BY <2>3 DEF SourceNames
    <3>2. Source(input, f).origin = IF f \in DOMAIN input THEN "rust" ELSE "arena"
      BY <2>1, <3>1, SourceFacts
    <3> QED BY <2>3, <3>1, <3>2 DEF RustNames
  <2> QED BY <1>1, <2>1, <2>2, <2>4 DEF OnlyPrograms, OnlyProgramsKept
<1>2. IInv => (Written /\ OnlyProgramsKept =>
                 \A f \in DOMAIN mod : mod[f].origin = "rust" => mod[f].section)
  BY <1>1
<1> QED BY <1>2, Invariance, PTL

\* So the cookie that mode ret returns is the result of an entry program.
THEOREM CookieLeaves == Spec => []CookieIsResult
<1>1. ASSUME IInv, Written, OnlyProgramsKept, NEW f \in DOMAIN mod, "ret" \in mod[f].exits
      PROVE  mod[f].section
  <2>1. /\ Case(input, set) /\ Derived(mod, input, keep, NamesOf(input, set))
        /\ OnlyPrograms(mod, input, set)
    BY <1>1, AtObject DEF Forced
  <2>2. NoCallbacks(input)
    BY <1>1 DEF OnlyProgramsKept, NoCallbacks
  <2>3. PICK p \in mod[f].parts \ Glue : Source(input, p).exits # {}
    BY <1>1, <2>1 DEF Derived, Panics
  <2>4. p \in SourceNames(input)
    BY <2>1, <2>3 DEF Derived
  <2>5. p \in RustNames(input)
    <3>1. p \in DOMAIN input \cup DOMAIN Arena /\ p \notin LibCalls
      BY <2>4 DEF SourceNames
    <3>2. p \in DOMAIN input
      BY <1>1, <2>3, <3>1 DEF Source, OnlyProgramsKept
    <3> QED BY <3>1, <3>2 DEF RustNames
  <2>6. f \notin CSide
    BY <2>1, <2>2, <2>3, <2>5 DEF Derived
  <2>7. f \in RustNames(input)
    BY <2>1, <2>6 DEF Derived, SourceNames, RustNames, CSide
  <2> QED BY <1>1, <2>1, <2>6, <2>7 DEF OnlyPrograms, OnlyProgramsKept, CSide
<1>2. IInv => CookieIsResult
  BY <1>1 DEF CookieIsResult
<1> QED BY <1>2, Invariance, PTL

\* An object for the running kernel throws only where the kernel can unwind,
\* and no object uses two roads.
THEOREM RoadFits == Spec => []ExitFitsKernel
<1> DEFINE exits == UNION {mod[f].exits : f \in DOMAIN mod}
<1>1. ASSUME IInv, Written
      PROVE  /\ ~({"throw", "ret"} \subseteq exits)
             /\ "throw" \in exits => TrapMode(set) = "throw"
  <2>1. Left(mod, TrapMode(set))
    BY <1>1, AtObject
  <2>2. CASE TrapMode(set) = "throw"
    <3>1. \A f \in DOMAIN mod : mod[f].exits \subseteq {"throw"}
      BY <2>1, <2>2 DEF Left, Exits
    <3> QED BY <2>2, <3>1
  <2>3. CASE TrapMode(set) # "throw"
    <3>1. \A f \in DOMAIN mod : mod[f].exits \subseteq {"trap", "loose", "ret"}
      BY <2>1, <2>3 DEF Left, CookiesIn, Exits, Traps
    <3>2. "throw" \notin exits
      BY <3>1
    <3> QED BY <3>2
  <2> QED BY <2>2, <2>3
<1>2. IInv => ExitFitsKernel
  BY <1>1, ModeIs DEF ExitFitsKernel
<1> QED BY <1>2, Invariance, PTL
=============================================================================
