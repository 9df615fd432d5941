---------------------------- MODULE MCArenaLinker ----------------------------
(* Small Rust programs for ArenaLinker: an entry program, a generic helper *)
(* and a function the user may ask to keep, linked with three of           *)
(* libarena's functions and, or not, with compiler_builtins.               *)
EXTENDS ArenaLinker

Fn(name, origin, linkage, section, ret, calls) ==
  [origin |-> origin, linkage |-> linkage, section |-> section, ret |-> ret,
   used |-> FALSE, calls |-> calls, cold |-> {}, exits |-> {}, invoke |-> FALSE,
   parts |-> {name}]

MCArena ==
  [n \in {"arena_buddy_reset", "arena_malloc_internal", "arena_free_u64"} |->
     CASE n = "arena_buddy_reset"     -> Fn(n, "arena", "weak", TRUE, "int", {})
       [] n = "arena_malloc_internal" -> Fn(n, "arena", "weak", FALSE, "int",
                                                    {"llvm.memset", "bpf_arena_alloc_pages"})
       [] OTHER                       -> Fn(n, "arena", "global", FALSE, "void", {})]

Builtins ==
  [n \in {"memcpy", "memset"} |-> Fn(n, "cb", "weak", FALSE, "other", {})]

EntryPrograms(mems, colds) ==
  {[Fn("test_entry", "rust", "global", TRUE, "int",
       {"alloc_util"} \cup calls \cup mem) EXCEPT !.cold = cold] :
     calls \in {{}, {"kept"}}, mem \in mems, cold \in colds}

Utils(frees, exitss, invokes) ==
  {[Fn("alloc_util", "rust", "global", FALSE, ret,
       {"arena_malloc_internal", "bpf_printk"} \cup free) EXCEPT !.exits = exits, !.invoke = inv] :
     ret \in {"other", "void"}, free \in frees, exits \in exitss, inv \in invokes}

Kepts(exitss) ==
  {[Fn("kept", "rust", "global", FALSE, ret, {"alloc_util"}) EXCEPT !.exits = exits] :
     ret \in {"int", "void", "other"}, exits \in exitss}

Together(entries, utils, kepts, builtins) ==
  {Join([test_entry |-> e, alloc_util |-> u, kept |-> k], cb) :
     e \in entries, u \in utils, k \in kepts, cb \in builtins}

(* Nobody panics; every memory routine in every form, noinline call sites. *)
CallPrograms ==
  Together(EntryPrograms({{}, {"llvm.memcpy", "memcpy", "memcmp"}, {"memset", "llvm.memset"}},
                         {{}, {"alloc_util"}}),
           Utils({{"arena_free_u64"}}, {{}}, {FALSE}),
           Kepts({{}}), {<< >>, Builtins})
  \cup {<< >>}

(* Anybody panics, with an unreachable behind the trap or not, and what    *)
(* unwinds is refused.                                                     *)
PanicPrograms ==
  Together({[e EXCEPT !.calls = @ \cup {"kept"}] : e \in EntryPrograms({{}}, {{}})},
           Utils({{"arena_free_u64"}}, {{}, {"trap"}}, {FALSE})
             \cup Utils({{}}, {{}}, BOOLEAN),
           Kepts({{}, {"trap"}, {"loose"}}), {<< >>})

(* rustc exports the entry program, cargo's environment does the rest.     *)
Environment(mode, void, kept, vmlinux, config, orc) ==
  [exported |-> {"test_entry"}, trapMode |-> mode, voidGlobals |-> void, keepExtra |-> kept,
   vmlinux |-> vmlinux, config |-> config, orc |-> orc]

(* Every environment that bears on the panics: the kernel is looked at     *)
(* only where the user chose no mode.                                      *)
PanicSettings ==
  {Environment(mode, "internalize", {"kept"}, vmlinux, kernel[1], kernel[2]) :
     mode \in {"unset", "auto"}, vmlinux \in BOOLEAN,
     kernel \in {<<FALSE, FALSE>>, <<TRUE, FALSE>>, <<TRUE, TRUE>>}}
  \cup {Environment(mode, "internalize", {"kept"}, FALSE, TRUE, FALSE) :
          mode \in {"throw", "ret", "none"}}
  \cup {Environment("ret", "keep", {"kept"}, FALSE, TRUE, FALSE)}

(* Every environment that bears on what stays visible: KEEP_EXTRA names    *)
(* the function to keep, or the source says no_mangle and rustc exports    *)
(* it; or there is no list, as in a link that rustc does not drive.        *)
KeepSettings ==
  {Environment("throw", void, kept, TRUE, FALSE, FALSE) :
     void \in {"internalize", "keep"}, kept \in {{}, {"kept"}}}
  \cup {[Environment("throw", "internalize", {}, TRUE, FALSE, FALSE)
           EXCEPT !.exported = exported] : exported \in {{}, {"test_entry", "kept"}}}

With(programs, settings) == [program : programs, settings : settings]
CallCases == With(CallPrograms, KeepSettings)
PanicCases == With(PanicPrograms, PanicSettings)

(* By default: what returns nothing is internalized.                       *)
DefaultCases == {c \in CallCases : c.settings.voidGlobals = "internalize"}

(* Nothing is kept but the entry program; the cookie is its result.        *)
CookieCases ==
  With(Together(EntryPrograms({{}}, {{}, {"alloc_util"}}), Utils({{}}, {{}, {"trap"}}, {FALSE}),
                Kepts({{}, {"trap"}, {"loose"}}), {<< >>}),
       {Environment(mode, "internalize", {}, FALSE, TRUE, FALSE) : mode \in {"ret", "auto"}})

(* A kept function that returns an integer panics, and nobody else, in     *)
(* mode ret.                                                               *)
KeptPanics ==
  {c \in PanicCases : /\ c.settings.trapMode = "ret"
                      /\ c.settings.voidGlobals = "internalize"
                      /\ c.program["kept"].ret = "int"
                      /\ c.program["kept"].exits = {"trap"}
                      /\ c.program["alloc_util"].exits = {}}

AllCases == CallCases \cup PanicCases \cup CookieCases
=============================================================================
