------------------------------- MODULE LinkDir -------------------------------
(***************************************************************************)
(* linker/src/main.rs as a process: its arguments, the files it gathers    *)
(* and the directory it works in, <output>.arena-linker.  cargo links      *)
(* several programs at once, and links again over what a link that failed, *)
(* or kept its temporaries, has left.  What the passes do to the module is *)
(* ArenaLinker's subject; here they are one step that carries it on.       *)
(*                                                                         *)
(* An argument is a record [opt, val]: a flag and the value joined to it,  *)
(* or opt = "" and a word; opt = "@" is a response file, val its words.    *)
(* A file of the disk is [kind, members]: "bitcode", "archive" or "other"; *)
(* the members of what is no archive are its own contents under "self".    *)
(***************************************************************************)
EXTENDS Naturals, Sequences, FiniteSets, SequencesExt

CONSTANTS
  Outputs,    \* output paths
  Lines,      \* [argv, request]: command lines, and what rustc means by them
  Disks,      \* the input files, before and after a rebuild
  Bitcode,    \* contents that begin with bitcode's magic number
  None,       \* no value
  NoObject,   \* there is no file at the output path yet
  MaxLinks    \* how many links are started (a bound)

\* Each link has a directory of its own name, and an object is no model value.
ASSUME NamesAssumption ==
  /\ "disk" \notin Outputs /\ None \notin Outputs /\ MaxLinks \in Nat
  /\ NoObject \notin [members : SUBSET Bitcode, renamed : BOOLEAN]

\* Contents tell the members they are of; a file of bitcode is one module.
ASSUME DisksAssumption ==
  \A d \in Disks :
    /\ \A p \in DOMAIN d :
         /\ IsFiniteSet(DOMAIN d[p].members)
         /\ d[p].kind = "bitcode" =>
              DOMAIN d[p].members = {"self"} /\ d[p].members["self"] \in Bitcode
    /\ \A p, q \in DOMAIN d :
         \A m \in DOMAIN d[p].members, n \in DOMAIN d[q].members :
           d[p].members[m] = d[q].members[n] /\ d[p].members[m] \in Bitcode => p = q /\ m = n

\* rustc names no input twice, and libarena_c.a not as an input.
ASSUME LinesAssumption ==
  \A l \in Lines :
    LET r == l.request
    IN  /\ r.inputs \in Seq(ToSet(r.inputs)) /\ IsInjective(r.inputs)
        /\ r.libDirs \in Seq(ToSet(r.libDirs))
        /\ ToSet(r.inputs) \cap ToSet(r.libDirs) = {}

VARIABLES
  disk,       \* rlibs, objects and the libarena_c.a of each library directory
  argv,       \* argv[o]: the arguments of the link to o, until they are parsed
  request,    \* request[o]: what rustc meant by them (history)
  asked,      \* asked[o]: the modules rustc asked to be linked (history)
  at,         \* at[o]: where its main() is
  next,       \* next[o]: the input that is gathered next
  opts,       \* opts[o]: what parse_args made of it
  tmp,        \* tmp[t]: the members in directory t, by subdirectory and name
  stage,      \* stage[t]: the contents of the module the passes hand on
  rust_bcs, arena_bcs,  \* the lists of files for llvm-link, by output
  object,     \* object[o]: the file at the output path
  exit,       \* exit[o]: "running", "ok" or "failed"
  cluttered,  \* cluttered[o]: remove_dir_all failed (history)
  links

vars == <<disk, argv, request, asked, at, next, opts, tmp, stage, rust_bcs, arena_bcs, object, exit,
          cluttered, links>>

\* The working directory of the link to o.
\* (Slip: one for all, beside the outputs.)
Beside(o) == CHOOSE x \in Outputs : TRUE
Tmp(o) == o

-----------------------------------------------------------------------------
\* parse_args.  (Slip: the value of --cpu-features is taken for an input.)
FlagsKnown == {"-o", "-L", "-l", "--cpu", "--export-symbols"}
TakesValue == {"-o", "-L", "-l", "--cpu", "--cpu-features", "--export-symbols"}

Expand(args) == FlattenSeq([k \in DOMAIN args |->
                              IF args[k].opt = "@" THEN args[k].val ELSE <<args[k]>>])

Word(t) == IF t.opt = "" THEN t.val ELSE t.opt

Set(p, flag, v) ==
  CASE flag = "-o"               -> [p EXCEPT !.output = v]
    [] flag = "-L"               -> [p EXCEPT !.libDirs = Append(@, v)]
    [] flag = "--cpu"            -> [p EXCEPT !.cpu = v]
    [] flag = "--export-symbols" -> [p EXCEPT !.export = v]
    [] OTHER                     -> p

\* s is [want, p]: the flag that waits for its value, and what is known so far.
Take(s, t) ==
  CASE s.want # ""                       -> [want |-> "", p |-> Set(s.p, s.want, Word(t))]
    [] s.want = "" /\ t.opt = ""         -> [s EXCEPT !.p.inputs = Append(@, t.val)]
    [] s.want = "" /\ t.opt \in TakesValue /\ t.val = None
                                         -> [s EXCEPT !.want = t.opt]
    [] s.want = "" /\ t.opt \in {"-L", "--cpu"} /\ t.val # None
                                         -> [s EXCEPT !.p = Set(@, t.opt, t.val)]
    [] OTHER                             -> s

NoOpts == [inputs |-> << >>, libDirs |-> << >>, export |-> None, output |-> None, cpu |-> "v4"]

Parse(args) == FoldLeft(Take, [want |-> "", p |-> NoOpts], Expand(args))

-----------------------------------------------------------------------------
KindOf(d, path) == IF path \in DOMAIN d THEN d[path].kind ELSE "other"

\* Of the library directories dirs, the first that has a libarena_c.a on disk d.
First(d, dirs) ==
  {dirs[k] : k \in {j \in DOMAIN dirs : /\ dirs[j] \in DOMAIN d
                                       /\ \A i \in 1 .. j - 1 : dirs[i] \notin DOMAIN d}}

\* What rustc asks for: the bitcode of the inputs, and of the first libarena_c.a.
Payload(d, path) ==
  IF KindOf(d, path) \in {"bitcode", "archive"}
  THEN {d[path].members[m] : m \in DOMAIN d[path].members} \cap Bitcode
  ELSE {}

Asked(d, r) ==
  UNION {Payload(d, path) : path \in ToSet(r.inputs) \cup First(d, r.libDirs)}

Running(o) == exit[o] = "running"

\* rustc runs the linker.
Begin(o) ==
  /\ ~Running(o) /\ links < MaxLinks
  /\ \E l \in Lines :
       /\ l.request.output = o
       /\ argv' = [argv EXCEPT ![o] = l.argv]
       /\ request' = [request EXCEPT ![o] = l.request]
       /\ asked' = [asked EXCEPT ![o] = Asked(disk, l.request)]
  /\ at' = [at EXCEPT ![o] = "args"]
  /\ exit' = [exit EXCEPT ![o] = "running"]
  /\ cluttered' = [cluttered EXCEPT ![o] = FALSE]
  /\ links' = links + 1
  /\ UNCHANGED <<disk, next, opts, tmp, stage, rust_bcs, arena_bcs, object>>

\* A missing value or no output: Die.
ParseArgs(o) ==
  /\ at[o] = "args"
  /\ LET s == Parse(argv[o])
     IN  /\ s.want = "" /\ s.p.output # None
         /\ opts' = [opts EXCEPT ![o] = s.p]
  /\ argv' = [argv EXCEPT ![o] = << >>]
  /\ at' = [at EXCEPT ![o] = "prepare"]
  /\ UNCHANGED <<disk, request, asked, next, tmp, stage, rust_bcs, arena_bcs, object, exit, cluttered, links>>

\* remove_dir_all, whose error is ignored: any of the files may be left.
RemoveDir(t) ==
  /\ \E left \in SUBSET DOMAIN tmp[t] : tmp' = [tmp EXCEPT ![t] = Restrict(@, left)]
  /\ \E old \in {stage[t], {}} : stage' = [stage EXCEPT ![t] = old]

\* remove_dir_all and create_dir_all.
Prepare(o) ==
  /\ at[o] = "prepare"
  /\ RemoveDir(Tmp(o))
  /\ cluttered' = [cluttered EXCEPT ![o] = tmp'[Tmp(o)] # << >>]
  /\ rust_bcs' = [rust_bcs EXCEPT ![o] = << >>]
  /\ arena_bcs' = [arena_bcs EXCEPT ![o] = << >>]
  /\ at' = [at EXCEPT ![o] = "gather"]
  /\ next' = [next EXCEPT ![o] = 1]
  /\ UNCHANGED <<disk, argv, request, asked, opts, object, exit, links>>

-----------------------------------------------------------------------------
\* (Slip: every file of the directory is a module.)
Anything(content) == TRUE
is_bitcode(content) == content \in Bitcode

\* llvm-ar x, over what is there; then all that is bitcode in the directory.
\* (Slip: the rlibs share a directory.)
OneDir(i) == 1
SubDir(i) == i
arena_c == 0

Unpacked(files, sub, members) ==
  [f \in DOMAIN files \cup ({sub} \X DOMAIN members) |->
     IF f[1] = sub /\ f[2] \in DOMAIN members THEN members[f[2]] ELSE files[f]]

Modules(t, files, sub) ==
  SetToSeq({<<t, f>> : f \in {g \in DOMAIN files : g[1] = sub /\ is_bitcode(files[g])}})

Extract(t, sub, archive) == tmp' = [tmp EXCEPT ![t] = Unpacked(@, sub, archive.members)]
Extracted(t, sub, archive) == Modules(t, Unpacked(tmp[t], sub, archive.members), sub)

\* One input: an object, an rlib, or something that is skipped (a file that
\* cannot be read is).
Gather(o) ==
  /\ at[o] = "gather" /\ next[o] \in DOMAIN opts[o].inputs
  /\ LET path == opts[o].inputs[next[o]]
         kind == KindOf(disk, path)
         sub == SubDir(next[o])
     IN  /\ CASE kind = "bitcode" ->
                   /\ rust_bcs' = [rust_bcs EXCEPT ![o] = Append(@, <<"disk", path>>)]
                   /\ UNCHANGED tmp
              [] kind = "archive" ->
                   /\ Extract(Tmp(o), sub, disk[path])
                   /\ rust_bcs' = [rust_bcs EXCEPT ![o] =
                                     @ \o Extracted(Tmp(o), sub, disk[path])]
              [] OTHER -> UNCHANGED <<tmp, rust_bcs>>
  /\ next' = [next EXCEPT ![o] = @ + 1]
  /\ UNCHANGED <<disk, argv, request, asked, at, opts, stage, arena_bcs, object, exit, cluttered, links>>

\* The first library directory that has a libarena_c.a.
GatherArena(o) ==
  /\ at[o] = "gather" /\ next[o] = Len(opts[o].inputs) + 1
  /\ \E k \in DOMAIN opts[o].libDirs :
       LET d == opts[o].libDirs[k]
       IN  /\ d \in DOMAIN disk /\ disk[d].kind = "archive"
           /\ \A j \in 1 .. k - 1 : opts[o].libDirs[j] \notin DOMAIN disk
           /\ Extract(Tmp(o), arena_c, disk[d])
           /\ arena_bcs' = [arena_bcs EXCEPT ![o] = Extracted(Tmp(o), arena_c, disk[d])]
  /\ rust_bcs[o] # << >> /\ arena_bcs'[o] # << >>
  /\ at' = [at EXCEPT ![o] = "link"]
  /\ UNCHANGED <<disk, argv, request, asked, next, opts, stage, rust_bcs, object, exit, cluttered, links>>

-----------------------------------------------------------------------------
\* What is in a file of the lists by the time llvm-link opens it.
Listed(o) == rust_bcs[o] \o arena_bcs[o]
Exists(f) == IF f[1] = "disk" THEN TRUE ELSE f[2] \in DOMAIN tmp[f[1]]
Contents(f) == IF f[1] = "disk" THEN disk[f[2]].members["self"] ELSE tmp[f[1]][f[2]]

LinkModules(o) ==
  /\ at[o] = "link"
  /\ \A f \in ToSet(Listed(o)) : Exists(f)
  /\ stage' = [stage EXCEPT ![Tmp(o)] = {Contents(f) : f \in ToSet(Listed(o))}]
  /\ at' = [at EXCEPT ![o] = "passes"]
  /\ UNCHANGED <<disk, argv, request, asked, next, opts, tmp, rust_bcs, arena_bcs, object, exit, cluttered, links>>

\* Everything up to llvm-objcopy, file to file in the directory.
Passes(o) ==
  /\ at[o] = "passes"
  /\ object' = [object EXCEPT ![o] = [members |-> stage[Tmp(o)], renamed |-> FALSE]]
  /\ at' = [at EXCEPT ![o] = "rename"]
  /\ UNCHANGED <<disk, argv, request, asked, next, opts, tmp, stage, rust_bcs, arena_bcs, exit, cluttered, links>>

BtfRename(o) ==
  /\ at[o] = "rename"
  /\ object' = [object EXCEPT ![o].renamed = TRUE]
  /\ at' = [at EXCEPT ![o] = "clean"]
  /\ UNCHANGED <<disk, argv, request, asked, next, opts, tmp, stage, rust_bcs, arena_bcs, exit, cluttered, links>>

\* With ARENA_LINKER_KEEP_TEMPS all the files are left.
CleanUp(o) ==
  /\ at[o] = "clean"
  /\ RemoveDir(Tmp(o))
  /\ exit' = [exit EXCEPT ![o] = "ok"]
  /\ at' = [at EXCEPT ![o] = "idle"]
  /\ UNCHANGED <<disk, argv, request, asked, next, opts, rust_bcs, arena_bcs, object, cluttered, links>>

\* die(), an unwrap, or the end of the process: nothing is removed.
Die(o) ==
  /\ Running(o)
  /\ exit' = [exit EXCEPT ![o] = "failed"]
  /\ at' = [at EXCEPT ![o] = "idle"]
  /\ UNCHANGED <<disk, argv, request, asked, next, opts, tmp, stage, rust_bcs, arena_bcs, object, cluttered, links>>

\* cargo builds the inputs anew while no link reads them.
Rebuild ==
  /\ \A o \in Outputs : ~Running(o)
  /\ disk' \in Disks \ {disk}
  /\ UNCHANGED <<argv, request, asked, at, next, opts, tmp, stage, rust_bcs, arena_bcs, object, exit, cluttered, links>>

Init ==
  /\ disk \in Disks
  /\ argv = [o \in Outputs |-> << >>]
  /\ request = [o \in Outputs |-> None]
  /\ asked = [o \in Outputs |-> {}]
  /\ at = [o \in Outputs |-> "idle"]
  /\ next = [o \in Outputs |-> 1]
  /\ opts = [o \in Outputs |-> NoOpts]
  /\ tmp = [t \in Outputs |-> << >>]
  /\ stage = [t \in Outputs |-> {}]
  /\ rust_bcs = [o \in Outputs |-> << >>]
  /\ arena_bcs = [o \in Outputs |-> << >>]
  /\ object = [o \in Outputs |-> NoObject]
  /\ exit = [o \in Outputs |-> "failed"]
  /\ cluttered = [o \in Outputs |-> FALSE]
  /\ links = 0

Next ==
  \/ \E o \in Outputs :
       \/ Begin(o) \/ ParseArgs(o) \/ Prepare(o) \/ Gather(o) \/ GatherArena(o)
       \/ LinkModules(o) \/ Passes(o) \/ BtfRename(o) \/ CleanUp(o) \/ Die(o)
  \/ Rebuild

Spec == Init /\ [][Next]_vars

-----------------------------------------------------------------------------
\* The types; what the lists name is there, and is bitcode.
TypeOK ==
  /\ disk \in Disks
  /\ \A o \in Outputs :
       /\ at[o] \in {"idle", "args", "prepare", "gather", "link", "passes", "rename", "clean"}
       /\ exit[o] \in {"running", "ok", "failed"} /\ (Running(o) <=> at[o] # "idle")
       /\ at[o] \in {"gather", "link"} => next[o] \in 1 .. Len(opts[o].inputs) + 1
       /\ cluttered[o] \in BOOLEAN /\ asked[o] \subseteq Bitcode /\ stage[o] \subseteq Bitcode
       /\ at[o] \in {"gather", "link"} =>
            \A f \in ToSet(Listed(o)) : Exists(f) /\ Contents(f) \in Bitcode
       /\ object[o] # NoObject => object[o].members \subseteq Bitcode
  /\ links \in 0 .. MaxLinks

\* parse_args makes of each of the given lines what rustc meant by it.  (A joined
\* -o, --export-symbols or --cpu-features is ignored as an unknown flag.)
AsMeant ==
  \A l \in Lines :
    LET s == Parse(l.argv)
    IN  s.want = "" /\ s.p.output # None => s.p = l.request

\* What parse_args makes of a command line spelled as rustc spells it, a value
\* in the next argument or, of -L, -l and --cpu=, joined to its flag, in whatever
\* order, directly or through a response file, is what rustc meant.
ArgsRecovered ==
  \A o \in Outputs : at[o] \notin {"idle", "args"} => opts[o] = request[o]

\* llvm-link gets every module that was asked for, once: two rlibs may have
\* members of one name, and an rlib's directory holds no other's members.
MembersOnce ==
  \A o \in Outputs : at[o] = "link" =>
    LET given == [k \in DOMAIN Listed(o) |-> Contents(Listed(o)[k])]
    IN  /\ asked[o] \subseteq ToSet(given)
        /\ ~cluttered[o] => ToSet(given) = asked[o] /\ Len(given) = Cardinality(asked[o])

\* Links that run at once, or one after another over what a failed one left,
\* do not get into each other's objects: see LinkOutput.
Output == INSTANCE LinkOutput WITH Asks <- SUBSET Bitcode, Clutter <- Bitcode
ImplementsLinkOutput == Output!Spec
=============================================================================
