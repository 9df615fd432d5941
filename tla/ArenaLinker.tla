----------------------------- MODULE ArenaLinker -----------------------------
(***************************************************************************)
(* The link step of libarena-rs: linker/src/main.rs drives llvm-link, opt, *)
(* llc and five Python passes over one LLVM module until it is a BPF       *)
(* object.  The module is modelled at the level of its functions: who      *)
(* calls whom, what is visible outside, what has been inlined into what,   *)
(* and how a function leaves on a panic.                                   *)
(*                                                                         *)
(* A function is a record                                                  *)
(*   origin   "rust", "arena" (libarena's C), "glue" (the static memory    *)
(*            helpers) or "cb" (compiler_builtins' memory functions)       *)
(*   linkage  "internal", "weak" or "global"                               *)
(*   section  it has a section: an entry program                           *)
(*   ret      what it returns: "int", "void" or "other" (a pointer, a      *)
(*            float, an aggregate)                                         *)
(*   used     __attribute__((used)): never dropped                         *)
(*   calls    the names it calls; cold: those it calls only from call      *)
(*            sites marked noinline                                        *)
(*   exits    how it leaves early: at a "trap" that is followed by an      *)
(*            unreachable, at a "loose" one that is not, by a "throw" or   *)
(*            by a "ret", of the cookie if it returns an integer           *)
(*   invoke   it has an invoke (a landing pad)                             *)
(*   parts    the functions whose bodies it contains, by the names         *)
(*            lower_mem.py leaves them                                     *)
(* Call graphs are acyclic: the verifier takes no recursion.               *)
(***************************************************************************)
EXTENDS Naturals, FiniteSets, Sequences

CONSTANTS
  Cases,      \* what the linker may be given: program, the Rust functions by
              \* name, and settings: exported (the names in the file of rustc's
              \* --export-symbols) and the environment: keepExtra, voidGlobals,
              \* trapMode, vmlinux, config, orc
  Arena       \* libarena_c.a without the glue's static helpers

VARIABLES
  stage,      \* the last step of main() that has completed
  input,      \* the Rust functions given
  set,        \* the environment
  mod,        \* the module: a function from names to function records
  keep,       \* keep.txt
  noinline,   \* noinline.txt
  ksyms,      \* the declarations tagged as kfuncs, for libbpf to resolve
  out         \* what o.output holds: "none" of this link, "raw", "final"

vars == <<stage, input, set, mod, keep, noinline, ksyms, out>>

-----------------------------------------------------------------------------
(* Names.  bcmp and memmove go wherever memcmp and memcpy go.              *)

Glue == {"bpf_arena_memcpy", "bpf_arena_memcmp", "bpf_arena_memset", "memset"}

LibCalls == {"memcpy", "memcmp", "memset"}

(* What an llvm.* intrinsic or libcall that O2 makes up looks like.        *)
LateMem == {"llvm.memcpy", "llvm.memset", "memcmp"}

(* What compiler_builtins' definitions of these are renamed to.            *)
CbName(n) == CASE n = "memcpy" -> "__cb_memcpy"
               [] n = "memcmp" -> "__cb_memcmp"
               [] OTHER        -> "__cb_memset"

CbNames == {"__cb_memcpy", "__cb_memcmp", "__cb_memset"}

(* The module's symbols that nm lists for libarena_c.a, minus the four     *)
(* helpers.  Bugs would be to list them like any other, or to look for T    *)
(* only, and not for W.                                                    *)
AllSyms(names) == names
StrongSyms(names) == {n \in names \ Glue : Arena[n].linkage # "weak"}
ArenaSyms(names) == names \ Glue

-----------------------------------------------------------------------------
(* What is given.  Nobody else uses the names that only the linker gives;  *)
(* an entry program is visible, a function the source marks used is static *)
(* and compiler_builtins has nothing but its memory functions.             *)
LinkerNames ==
  CbNames \cup (Glue \ {"memset"}) \cup {"memset.1", "llvm.memcpy", "llvm.memset", "bpf_throw"}

Given(fns, origins) ==
  /\ DOMAIN fns \subseteq STRING \ LinkerNames
  /\ \A n \in DOMAIN fns :
       /\ fns[n] \in [origin : origins, linkage : {"internal", "weak", "global"},
                      section : BOOLEAN, ret : {"int", "void", "other"}, used : BOOLEAN,
                      calls : SUBSET STRING, cold : SUBSET STRING,
                      exits : SUBSET {"trap", "loose"}, invoke : BOOLEAN, parts : {{n}}]
       /\ fns[n].cold \subseteq fns[n].calls
       /\ fns[n].calls \cap (CbNames \cup {"memset.1", "bpf_throw"}) = {}
       /\ fns[n].section => fns[n].linkage # "internal"
       /\ fns[n].used => fns[n].linkage = "internal"
       /\ n \in LibCalls <=> fns[n].origin = "cb"
       /\ n \in LibCalls => fns[n].linkage # "internal" /\ ~fns[n].section

(* What keeps a function besides a section and nm: rustc's export list,    *)
(* which names the entry programs and every other no_mangle function, and  *)
(* KEEP_EXTRA.                                                             *)
Extra(s) == s.exported \cup s.keepExtra

ASSUME ArenaAssumption == Given(Arena, {"arena"})

ASSUME CasesAssumption ==
  \A c \in Cases :
    /\ Given(c.program, {"rust", "cb"})
    /\ DOMAIN c.program \cap DOMAIN Arena = {}
    /\ c.settings \in [exported : SUBSET STRING, keepExtra : SUBSET STRING,
                       voidGlobals : STRING, trapMode : STRING,
                       vmlinux : BOOLEAN, config : BOOLEAN, orc : BOOLEAN]
    /\ Extra(c.settings) \cap (Glue \cup LinkerNames) = {}

-----------------------------------------------------------------------------
(* The graph of calls.                                                     *)

(* The least set that contains S and every function of via that one of its *)
(* members calls by way of E.                                              *)
Closure(E, S, via) ==
  LET closed == {C \in SUBSET via :
                   \A f \in (S \cup C) \cap DOMAIN E : E[f] \cap via \subseteq S \cup C}
  IN  S \cup {g \in via : \A C \in closed : g \in C}

(* globaldce: what is visible outside, or used, and what that calls.       *)
Roots(m) == {f \in DOMAIN m : m[f].linkage # "internal" \/ m[f].used}

GlobalDCE(m) ==
  LET E == [f \in DOMAIN m |-> m[f].calls]
      live == Closure(E, Roots(m), DOMAIN m \ Roots(m))
  IN  [f \in live |-> m[f]]

(* Every call to a member of via is replaced by the callee's body, except  *)
(* at the call sites marked noinline.                                      *)
Inline(m, via) ==
  LET E == [f \in DOMAIN m |-> m[f].calls \ m[f].cold]
  IN  [f \in DOMAIN m |->
        LET into == Closure(E, {f}, via)
        IN  [m[f] EXCEPT
               !.calls  = UNION {(m[g].calls \ via) \cup m[g].cold : g \in into},
               !.cold   = UNION {m[g].cold : g \in into},
               !.exits  = UNION {m[g].exits : g \in into},
               !.invoke = \E g \in into : m[g].invoke,
               !.parts  = UNION {m[g].parts : g \in into}]]

Called(m) == UNION {m[f].calls : f \in DOMAIN m}

(* Every name n a function calls becomes To(n).                            *)
Recall(fn, To(_)) ==
  [fn EXCEPT !.calls = {To(n) : n \in @}, !.cold = {To(n) : n \in @}]

-----------------------------------------------------------------------------
(* Gathering and llvm-link.                                                *)

Helper(ret, name) ==
  [origin |-> "glue", linkage |-> "internal", section |-> FALSE, ret |-> ret,
   used |-> TRUE, calls |-> {}, cold |-> {}, exits |-> {}, invoke |-> FALSE,
   parts |-> {name}]

(* arena_glue.bpf.c's static helpers.  llvm-link renames a static whose    *)
(* name another input defines or declares.                                 *)
GlueFunctions(bitcode) ==
  LET taken == "memset" \in DOMAIN bitcode
               \/ \E f \in DOMAIN bitcode : "memset" \in bitcode[f].calls
      linked == IF taken THEN "memset.1" ELSE "memset"
  IN  [n \in (Glue \ {"memset"}) \cup {linked} |->
         Helper(CASE n = "bpf_arena_memcmp" -> "int"
                  [] n = linked             -> "other"
                  [] OTHER                  -> "void", n)]

Join(f, g) ==
  [n \in DOMAIN f \cup DOMAIN g |-> IF n \in DOMAIN f THEN f[n] ELSE g[n]]

Link ==
  /\ stage = "start"
  /\ input # << >>
  /\ mod' = Join(Join(input, Arena), GlueFunctions(Join(input, Arena)))
  /\ stage' = "linked"
  /\ UNCHANGED <<input, set, keep, noinline, ksyms, out>>

-----------------------------------------------------------------------------
(* keep_syms.py and the two lists main() writes.                           *)

(* A bug would be to find none.                                            *)
NoEntries(m) == {}
EntryNames(m) == {f \in DOMAIN m : m[f].section}

VoidGlobals(m) ==
  {f \in DOMAIN m : m[f].ret = "void" /\ m[f].linkage # "internal"}

(* A bug would be to keep the void ones too.                               *)
KeepAllVoid(m, s) == Extra(s) \cup EntryNames(m) \cup ArenaSyms(DOMAIN Arena \cup Glue)

KeepList(m, s) ==
  (Extra(s) \cup EntryNames(m) \cup ArenaSyms(DOMAIN Arena \cup Glue))
    \ (IF s.voidGlobals = "internalize" THEN VoidGlobals(m) ELSE {})

(* A bug would be to trust keep.txt alone.                                 *)
KeptOnly(kept) == kept
NoinlineList(kept) == kept \cup ArenaSyms(DOMAIN Arena \cup Glue)

KeepSyms ==
  /\ stage = "linked"
  /\ keep' = KeepList(mod, set)
  /\ noinline' = NoinlineList(keep')
  /\ stage' = "listed"
  /\ UNCHANGED <<input, set, mod, ksyms, out>>

-----------------------------------------------------------------------------
(* lower_mem.py.                                                           *)

EarlyName(n) ==
  CASE n \in {"llvm.memcpy", "memcpy"} -> "bpf_arena_memcpy"
    [] n = "memcmp"                    -> "bpf_arena_memcmp"
    [] n = "llvm.memset"               -> "bpf_arena_memset"
    [] n = "memset.1"                  -> "memset"
    [] OTHER                           -> n

(* compiler_builtins' definitions move out of the way and the glue's       *)
(* memset gets its name back.  A bug would be to leave it its suffix.      *)
SuffixKept(n, fn) ==
  IF n \in LibCalls /\ fn.linkage # "internal" THEN CbName(n) ELSE n

DefinedName(n, fn) ==
  CASE n \in LibCalls /\ fn.linkage # "internal" -> CbName(n)
    [] n = "memset.1"                            -> "memset"
    [] OTHER                                     -> n

LowerMem ==
  /\ stage = "listed"
  /\ mod' = [d \in {DefinedName(n, mod[n]) : n \in DOMAIN mod} |->
               LET n == CHOOSE x \in DOMAIN mod : DefinedName(x, mod[x]) = d
               IN  [Recall(mod[n], EarlyName) EXCEPT !.parts = {d}]]
  /\ stage' = "lowered"
  /\ UNCHANGED <<input, set, keep, noinline, ksyms, out>>

-----------------------------------------------------------------------------
(* opt: internalize what is not in keep.txt, drop what nothing reaches.    *)

Internalize ==
  /\ stage = "lowered"
  /\ mod' = GlobalDCE([f \in DOMAIN mod |->
                         IF f \in keep \/ mod[f].used THEN mod[f]
                         ELSE [mod[f] EXCEPT !.linkage = "internal"]])
  /\ stage' = "internal"
  /\ UNCHANGED <<input, set, keep, noinline, ksyms, out>>

(* force_inline.py: no call site stays noinline, every function outside    *)
(* noinline.txt becomes alwaysinline; then always-inline and globaldce.    *)
(* A bug would be to leave the call sites as they are.                     *)
SitesKept(m) == m
StripNoinline(m) == [f \in DOMAIN m |-> [m[f] EXCEPT !.cold = {}]]

ForceInline ==
  /\ stage = "internal"
  /\ mod' = GlobalDCE(Inline(StripNoinline(mod), DOMAIN mod \ noinline))
  /\ stage' = "inlined"
  /\ UNCHANGED <<input, set, keep, noinline, ksyms, out>>

(* default<O2>.  Its inliner may take any callee whose definition cannot   *)
(* be replaced at link time (nothing is marked noinline any more), and its *)
(* idiom recognition may turn a loop into a mem intrinsic or a memcmp.     *)
O2 ==
  /\ stage = "inlined"
  /\ \E via \in SUBSET {g \in DOMAIN mod : /\ mod[g].linkage # "weak"
                                          /\ \E f \in DOMAIN mod : g \in mod[f].calls} :
       LET m == GlobalDCE(Inline(mod, via))
       IN  \E late \in {S \in SUBSET LateMem : Cardinality(S) <= 1},
              f \in {g \in DOMAIN m : m[g].origin # "glue"} :
             mod' = [m EXCEPT ![f].calls = @ \cup late]
  /\ stage' = "optimized"
  /\ UNCHANGED <<input, set, keep, noinline, ksyms, out>>

-----------------------------------------------------------------------------
(* Panics.                                                                 *)

(* Bugs would be never to look at the kernel, or to look and then forget.  *)
AlwaysThrow(s) == IF s.trapMode \in {"unset", "auto"} THEN "throw" ELSE s.trapMode
AutoLeft(s) == IF s.trapMode = "unset" THEN "auto" ELSE s.trapMode

TrapMode(s) ==
  LET asked == IF s.trapMode # "unset" THEN s.trapMode
               ELSE IF s.vmlinux THEN "throw" ELSE "auto"
  IN  IF asked # "auto" THEN asked
      ELSE IF s.config /\ ~s.orc THEN "ret" ELSE "throw"

Traps == {"trap", "loose"}

(* trap_to_ret.py, in mode ret only: the pair of a trap and its            *)
(* unreachable becomes a return in a function that returns nothing or an   *)
(* integer; a loose trap, and one in any other function, is left alone.    *)
(* A bug would be to drop a void function's trap.                          *)
DropVoidTrap(fn) ==
  IF "trap" \in fn.exits /\ fn.ret \in {"int", "void"}
  THEN [fn EXCEPT !.exits = (@ \ {"trap"}) \cup (IF fn.ret = "int" THEN {"ret"} ELSE {})]
  ELSE fn

ReturnCookie(fn) ==
  IF "trap" \in fn.exits /\ fn.ret \in {"int", "void"}
  THEN [fn EXCEPT !.exits = (@ \ {"trap"}) \cup {"ret"}]
  ELSE fn

(* The script misses a define line without a word between "define" and the *)
(* return type, as rustc writes a visible function that returns nothing,   *)
(* and takes the type of the function before it: the trap may stay.  (If   *)
(* that function returns an integer, llc rejects what is written.)         *)
Plain(m) ==
  {f \in DOMAIN m : m[f].origin = "rust" /\ m[f].linkage = "global" /\ m[f].ret = "void"}

TrapToRet ==
  /\ stage = "optimized"
  /\ \E missed \in SUBSET Plain(mod) :
       mod' = IF TrapMode(set) = "ret"
              THEN [f \in DOMAIN mod |-> IF f \in missed THEN mod[f] ELSE ReturnCookie(mod[f])]
              ELSE mod
  /\ stage' = "trapped"
  /\ UNCHANGED <<input, set, keep, noinline, ksyms, out>>

(* bpf_finalize.py: refuse invoke, bind late mem calls, throw at traps, tag *)
(* what is still undefined as kfuncs.                                      *)
LateName(n) ==
  CASE n = "llvm.memcpy" -> "bpf_arena_memcpy"
    [] n = "memcmp"      -> "bpf_arena_memcmp"
    [] OTHER             -> n

Thrown(exits, mode) ==
  IF mode = "throw" /\ exits \cap Traps # {} THEN (exits \ Traps) \cup {"throw"} ELSE exits

(* What the module declares: opt has left no declaration that nobody       *)
(* calls, and bpf_finalize.py renames the calls alone.                     *)
Declared(m) == Called(m) \ DOMAIN m

ThrowDeclared(m) == {"bpf_throw" : f \in {g \in DOMAIN m : "throw" \in m[g].exits}}

(* Every declaration is tagged but those of names the module defines and   *)
(* of intrinsics: that of a memcmp that O2 made too, though its calls have *)
(* been renamed.  A bug would be to leave bpf_throw's untagged.            *)
ThrowUntagged(before, after) ==
  Declared(before) \ (DOMAIN after \cup {"llvm.memcpy", "llvm.memset"})

Kfuncs(before, after) ==
  (Declared(before) \cup ThrowDeclared(after))
    \ (DOMAIN after \cup {"llvm.memcpy", "llvm.memset"})

Finalize ==
  /\ stage = "trapped"
  /\ \A f \in DOMAIN mod : ~mod[f].invoke
  /\ mod' = [f \in DOMAIN mod |->
               [Recall(mod[f], LateName) EXCEPT !.exits = Thrown(@, TrapMode(set))]]
  /\ ksyms' = Kfuncs(mod, mod')
  /\ stage' = "final"
  /\ UNCHANGED <<input, set, keep, noinline, out>>

-----------------------------------------------------------------------------
(* llc makes libcalls of the memsets that are left; llvm-objcopy writes    *)
(* o.output, which btf_rename.py then rewrites in place.                   *)

LibcallName(n) == IF n = "llvm.memset" THEN "memset" ELSE n

Codegen ==
  /\ stage = "final"
  /\ mod' = [f \in DOMAIN mod |-> Recall(mod[f], LibcallName)]
  /\ out' = "raw"
  /\ stage' = "object"
  /\ UNCHANGED <<input, set, keep, noinline, ksyms>>

BtfRename ==
  /\ stage = "object"
  /\ out' = "final"
  /\ stage' = "done"
  /\ UNCHANGED <<input, set, mod, keep, noinline, ksyms>>

(* die(): no bitcode, a tool or a script that fails, an invoke.            *)
Die ==
  /\ stage \notin {"done", "died"}
  /\ stage' = "died"
  /\ UNCHANGED <<input, set, mod, keep, noinline, ksyms, out>>

-----------------------------------------------------------------------------
Init ==
  /\ stage = "start"
  /\ \E c \in Cases : input = c.program /\ set = c.settings
  /\ mod = << >>
  /\ keep = {}
  /\ noinline = {}
  /\ ksyms = {}
  /\ out = "none"

Next ==
  \/ Link \/ KeepSyms \/ LowerMem \/ Internalize \/ ForceInline \/ O2
  \/ TrapToRet \/ Finalize \/ Codegen \/ BtfRename \/ Die

Spec == Init /\ [][Next]_vars

-----------------------------------------------------------------------------
(* Properties.  They are about the object the linker writes at o.output,   *)
(* finished or, if btf_rename.py fails, not.                               *)

Names == DOMAIN input \cup DOMAIN Arena \cup Glue \cup {"memset.1"}
         \cup LibCalls \cup CbNames \cup LateMem
         \cup Called(input) \cup Called(Arena) \cup Extra(set)

Funcs(names) ==
  [origin : {"rust", "arena", "glue", "cb"},
   linkage : {"internal", "weak", "global"}, section : BOOLEAN,
   ret : {"int", "void", "other"}, used : BOOLEAN,
   calls : SUBSET names, cold : SUBSET names,
   exits : SUBSET {"trap", "loose", "throw", "ret"}, invoke : BOOLEAN,
   parts : SUBSET names]

(* Types: a module is a set of named functions, a noinline call site is a  *)
(* call site, every function holds its own body, and neither list names a  *)
(* memory helper (main() filters the four out of nm's list).               *)
TypeOK ==
  LET names == Names
  IN  /\ stage \in {"start", "linked", "listed", "lowered", "internal", "inlined",
                    "optimized", "trapped", "final", "object", "done", "died"}
      /\ DOMAIN mod \subseteq names
      /\ \A f \in DOMAIN mod : /\ mod[f] \in Funcs(names)
                               /\ mod[f].cold \subseteq mod[f].calls
                               /\ f \in mod[f].parts
      /\ keep \cup noinline \subseteq names \ Glue
      /\ ksyms \subseteq names \cup {"bpf_throw"}
      /\ out \in {"none", "raw", "final"}

Written == out # "none"

(* A function as the bitcode had it.                                       *)
Bitcode(f) == IF f \in DOMAIN input THEN input[f] ELSE Arena[f]

(* Every entry program of the bitcode that returns a value (libarena's     *)
(* arena_buddy_reset among them) is in the object and visible to the       *)
(* loader: neither internalize nor the two globaldce rounds took it        *)
(* (keep_syms.py keeps what has a section).                                *)
EntriesInObject ==
  Written =>
    \A f \in DOMAIN input \cup DOMAIN Arena :
      Bitcode(f).section /\ Bitcode(f).ret # "void"
        => f \in DOMAIN mod /\ mod[f].linkage # "internal"

(* An arena pointer that crosses a call boundary loses its type and the    *)
(* verifier rejects the program (force_inline.py's header): no Rust        *)
(* function of the object is called as a subprogram, unless it is an entry *)
(* program, rustc's export list names it (main() puts that list into the   *)
(* same exemption) or the user asked for it with KEEP_EXTRA.               *)
RustIsInlined ==
  Written =>
    \A f, g \in DOMAIN mod :
      g \in mod[f].calls /\ mod[g].origin = "rust"
        => g \in Extra(set) \/ mod[g].section

(* No memory routine but the glue's is in the object, inlined or called,   *)
(* and whatever form a copy, fill or comparison had in the bitcode, after  *)
(* O2 or in llc, the helper it calls is defined in the object: nothing is  *)
(* left for the loader to resolve (lower_mem.py, bpf_finalize.py, and the  *)
(* "used" attribute that keeps helpers nobody calls yet).                  *)
MemoryCallsBound ==
  Written =>
    \A f \in DOMAIN mod :
      /\ mod[f].origin # "cb"
      /\ \A n \in mod[f].parts : n \notin CbNames
      /\ mod[f].calls \cap (Glue \cup LibCalls \cup LateMem) \subseteq DOMAIN mod

(* What the object leaves to the loader is tagged, so that libbpf finds it,*)
(* and is none of the program's or libarena's functions nor one that the   *)
(* module defines: no pass loses a function that somebody calls.  Nothing  *)
(* is tagged in vain but memcmp, which O2 made and nobody calls any more,  *)
(* and bpf_throw is exactly where something is thrown.                     *)
KfuncsTagged ==
  Written =>
    LET needed == Called(mod) \ DOMAIN mod
        own == (DOMAIN input \ LibCalls) \cup DOMAIN Arena \cup Glue \cup DOMAIN mod
    IN  /\ needed \subseteq ksyms
        /\ ksyms \cap own = {}
        /\ ksyms \subseteq needed \cup {"memcmp", "bpf_throw"}
        /\ "bpf_throw" \in ksyms <=> \E f \in DOMAIN mod : "throw" \in mod[f].exits

(* A copy between arena, stack and rodata must not share its loop with     *)
(* another call site (lower_mem.py's header): when inlining is done, no    *)
(* function calls a memory routine any more.  The direct calls of memset   *)
(* are no exception: the glue's memset is inlined like the other helpers.  *)
CopiesInlined ==
  stage = "inlined" =>
    \A f \in DOMAIN mod : mod[f].calls \cap (Glue \cup LibCalls \cup LateMem) = {}

(* The forced inlining leaves libarena's functions alone, those included   *)
(* that void-returning made static (main() adds them to noinline.txt after *)
(* keep_syms.py took them out of keep.txt).                                *)
ArenaNotForced ==
  stage = "inlined" =>
    \A f \in DOMAIN mod : \A a \in DOMAIN Arena :
      a \in mod[f].parts => a = f

(* Kernels before the void-return relaxation reject a global function      *)
(* without a scalar result: by default the object has none, whatever asked *)
(* for it to be kept (keep_syms.py --drop-void-globals).                   *)
NoVoidGlobals ==
  Written /\ set.voidGlobals = "internalize" => VoidGlobals(mod) = {}

(* The verifier rejects a reachable trap.  In mode throw, asked for or     *)
(* chosen, none is left; in mode ret one is left only where trap_to_ret.py *)
(* leaves it for the verifier to reject: not followed by an unreachable,   *)
(* in a function that returns neither nothing nor an integer, or in a      *)
(* visible one that returns nothing, which VOID_GLOBALS=keep alone allows. *)
TrapsReplaced ==
  Written /\ set.trapMode \in {"unset", "auto", "throw", "ret"} =>
    /\ set.trapMode = "throw" \/ (\E f \in DOMAIN mod : "throw" \in mod[f].exits)
         => \A f \in DOMAIN mod : mod[f].exits \cap Traps = {}
    /\ \A f \in DOMAIN mod :
         "trap" \in mod[f].exits =>
           \/ mod[f].ret = "other"
           \/ /\ mod[f].ret = "void" /\ mod[f].linkage = "global"
              /\ set.voidGlobals # "internalize"

(* bpf_throw needs the ORC unwinder: an object built for the running       *)
(* kernel, whose configuration can be read and does not have it, never     *)
(* throws; and no object leaves by both roads.                             *)
ExitFitsKernel ==
  Written =>
    LET exits == UNION {mod[f].exits : f \in DOMAIN mod}
    IN  /\ ~({"throw", "ret"} \subseteq exits)
        /\ "throw" \in exits /\ set.trapMode \in {"unset", "auto"}
              => set.orc \/ ~set.config \/ (set.vmlinux /\ set.trapMode = "unset")

(* A panic must stop the program wherever the passes take it: a function   *)
(* of the object leaves early exactly if it holds the body of a function   *)
(* that panics in the bitcode.  Neither inlining, nor trap_to_ret.py or    *)
(* bpf_finalize.py, loses a panic or makes one up.                         *)
PanicsAccounted ==
  Written =>
    \A f \in DOMAIN mod :
      mod[f].exits # {} <=> \E p \in mod[f].parts \ Glue : Bitcode(p).exits # {}

(* What stays outlined: all of libarena until O2, and in the object, of    *)
(* libarena's functions and of those that are exported or kept by the      *)
(* user, the weak ones that no rule about void makes static: O2 may not    *)
(* inline these, and noinline.txt keeps them from being forced.            *)
KeptStayOutlined ==
  /\ ArenaNotForced
  /\ Written =>
       \A f \in DOMAIN mod : \A k \in DOMAIN Arena \cup (Extra(set) \cap DOMAIN input) :
         /\ Bitcode(k).linkage = "weak"
         /\ Bitcode(k).ret # "void" \/ set.voidGlobals # "internalize"
         /\ k \in mod[f].parts
         => k = f

(* What trap_to_ret.py takes for granted, every trap inside an entry       *)
(* program, where the cookie is the program's result, holds when rustc     *)
(* exports and the user keeps entry programs only, no function is marked   *)
(* used, and libarena neither panics nor calls back.                       *)
OnlyProgramsKept ==
  /\ \A f \in DOMAIN input : (f \in Extra(set) => input[f].section) /\ ~input[f].used
  /\ \A a \in DOMAIN Arena : /\ Arena[a].exits = {}
                            /\ Arena[a].calls \cap DOMAIN input \subseteq LibCalls

CookieIsResult ==
  Written /\ OnlyProgramsKept =>
    \A f \in DOMAIN mod : "ret" \in mod[f].exits => mod[f].section

-----------------------------------------------------------------------------
(* What the documentation says and the passes do not do.                   *)

(* README.md: KEEP_EXTRA's symbols are kept global, neither inlined nor    *)
(* internalized.                                                           *)
ExtraStaysGlobal ==
  Written =>
    \A f \in set.keepExtra \cap DOMAIN input :
      f \in DOMAIN mod /\ mod[f].linkage # "internal"

(* main.rs: libarena's symbols, global and static, stay outlined.          *)
ArenaStaysOutlined ==
  Written =>
    \A f \in DOMAIN mod : \A a \in DOMAIN Arena : a \in mod[f].parts => a = f

(* trap_to_ret.py: every trap sits inside an entry function, where         *)
(* returning the cookie is the same exit as bpf_throw.  (Where a function  *)
(* returns nothing the script itself says that the cookie is lost.)        *)
CookieLeavesProgram ==
  Written =>
    \A f \in DOMAIN mod :
      "ret" \in mod[f].exits /\ mod[f].ret = "int" => mod[f].section
=============================================================================
