----------------------------- MODULE CargoBuild ------------------------------
(***************************************************************************)
(* A developer's builds of a crate that uses libarena-rs, one after the    *)
(* other: build.rs, then for a BPF target the link, for the host a         *)
(* consumer's build script that extracts the sources.  cargo is external:  *)
(* it runs the build script again if that failed, or if a path or a        *)
(* variable it declared has changed, and then what depends on it.  The     *)
(* developer may edit at any moment; a reboot ends whatever runs.          *)
(*                                                                         *)
(* The link is one step, as LinkOutput promises of it.                     *)
(***************************************************************************)
EXTENDS BuildScript, PackagedSources

CONSTANTS
  Envs,       \* the environments the developer builds in
  Trees,      \* what a directory of sources may contain
  Kernels,    \* [btf, impl, config, orc]: its configuration can be read and,
              \* if so, has the ORC unwinder
  MaxChanges  \* how often anything changes (a bound)

ASSUME TreesAssumption == \A t \in Trees : t = [f \in DOMAIN t |-> t[f]]
ASSUME EnvsAssumption == \A e \in Envs : e["LIBARENA_VMLINUX_H"] # "OUT_DIR"

VARIABLES
  cargo,      \* "off", "script", "build" or "finished", with success
  shell,      \* the developer's environment
  touched,    \* a declared path has changed since the script was started
  dirty,      \* cargo has yet to build what depends on the script
  object,     \* what the last link that wrote one made of what
  on,         \* the kernel the last script was run on (history)
  changes

cargo_vars == <<cargo, shell, touched, dirty, object, on, changes>>
vars == <<world, script, sources_vars, cargo_vars>>

-----------------------------------------------------------------------------
\* rerun-if-changed: both snapshots and csrc, whichever is selected.
\* (Slip: the compatibility snapshot is forgotten.)
WatchedMain == {"libarena", "csrc"}
Watched == {"libarena", "libarena-compat", "csrc"}

\* The last script run is still good.
Fresh ==
  /\ at = "done" /\ ~touched
  /\ \A v \in declared : shell[v] = given[v]

Invoke ==
  /\ cargo \in {"off", "finished"}
  /\ IF Fresh
     THEN /\ cargo' = "build"
          /\ UNCHANGED <<world, script, touched, dirty, on>>
     ELSE /\ cargo' = "script"
          /\ Start(shell)
          /\ touched' = FALSE /\ dirty' = TRUE /\ on' = kernel
  /\ UNCHANGED <<sources_vars, shell, object, changes>>

RunScript ==
  /\ cargo = "script" /\ ScriptStep
  /\ UNCHANGED <<sources_vars, cargo_vars>>

ScriptEnds ==
  /\ cargo = "script" /\ ~Running
  /\ cargo' = IF at = "done" THEN "build" ELSE "off"
  /\ UNCHANGED <<world, script, sources_vars, shell, touched, dirty, object, on, changes>>

NothingToBuild ==
  /\ cargo = "build" /\ ~dirty
  /\ cargo' = "finished"
  /\ UNCHANGED <<world, script, sources_vars, shell, touched, dirty, object, on, changes>>

\* How the linker lets a panic leave, by its own look at the environment and,
\* in mode auto, at the kernel it runs on.
TrapMode(e, k) ==
  LET asked == Or(e["TRAP_MODE"],
                  IF e["LIBARENA_VMLINUX_H"] = None THEN "auto" ELSE "throw")
  IN  IF asked # "auto" THEN asked
      ELSE IF k.config /\ ~k.orc THEN "ret" ELSE "throw"

\* rustc runs arena-linker, which finds libarena_c.a in OUT_DIR.
Link ==
  /\ cargo = "build" /\ dirty /\ target = "bpf"
  /\ "libarena_c.a" \in DOMAIN out
  /\ object' = [archive |-> out["libarena_c.a"], trap |-> TrapMode(shell, kernel)]
  /\ \/ dirty' = FALSE /\ cargo' = "finished"
     \/ UNCHANGED dirty /\ cargo' = "off"      \* it failed in btf_rename.py
  /\ UNCHANGED <<world, script, sources_vars, shell, touched, on, changes>>

LinkFails ==
  /\ cargo = "build" /\ dirty /\ target = "bpf"
  /\ cargo' = "off"
  /\ UNCHANGED <<world, script, sources_vars, shell, touched, dirty, object, on, changes>>

\* The library, the consumer's build script, and its call of extract().
CompileLibrary ==
  /\ cargo = "build" /\ dirty /\ target = "host" /\ ~Extracting
  /\ Embed(out["libarena-bpf.tar"])
  /\ UNCHANGED <<world, script, cargo_vars>>

RunExtract ==
  /\ cargo = "build" /\ target = "host" /\ ExtractStep
  /\ CASE step' = "Ok"  -> dirty' = FALSE /\ cargo' = "finished"
       [] step' = "Err" -> cargo' = "off" /\ UNCHANGED dirty
       [] OTHER         -> UNCHANGED <<cargo, dirty>>
  /\ UNCHANGED <<world, script, shell, touched, object, on, changes>>

-----------------------------------------------------------------------------
\* The developer, and the machine.
Change == changes < MaxChanges /\ changes' = changes + 1

EditSources ==
  /\ Change
  /\ \E p \in DOMAIN sources, t \in Trees :
       /\ t # sources[p]
       /\ sources' = [sources EXCEPT ![p] = t]
       /\ touched' = (touched \/ p \in Watched)
  /\ UNCHANGED <<target, compat, kernel, script, sources_vars, cargo, shell, dirty, object, on>>

EditProgram ==
  /\ Change
  /\ cargo \in {"off", "finished"} /\ dirty' = TRUE
  /\ cargo' = "off"
  /\ UNCHANGED <<world, script, sources_vars, shell, touched, object, on>>

\* The consumer leaves files of its own among those it extracted.
AddFile ==
  /\ Change
  /\ cargo \in {"off", "finished"} /\ target = "host" /\ tree # NoTree
  /\ tree' = With(tree, "stale", 0)
  /\ dirty' = TRUE /\ cargo' = "off"
  /\ UNCHANGED <<world, script, embedded, step, shell, touched, object, on>>

SetEnv ==
  /\ Change
  /\ cargo \in {"off", "finished"}
  /\ shell' \in Envs \ {shell}
  /\ cargo' = "off"
  /\ UNCHANGED <<world, script, sources_vars, touched, dirty, object, on>>

Reboot ==
  /\ Change
  /\ kernel' \in Kernels \ {kernel}
  /\ cargo' = "off"
  /\ IF Running
     THEN at' = "failed" /\ cmd' = << >> /\ declared' = {}
     ELSE UNCHANGED <<at, cmd, declared>>
  /\ step' = IF Extracting THEN "Err" ELSE step
  /\ UNCHANGED <<target, compat, sources, given, out, embedded, tree,
                 shell, touched, dirty, object, on>>

Init ==
  /\ target \in {"bpf", "host"} /\ compat \in BOOLEAN
  /\ \E t \in Trees : sources = [p \in {"libarena", "libarena-compat", "csrc"} |-> t]
  /\ kernel \in Kernels /\ on = kernel
  /\ shell \in Envs
  /\ ScriptInit /\ SourcesInit
  /\ cargo = "off" /\ touched = FALSE /\ dirty = TRUE
  /\ object = None /\ changes = 0

Next ==
  \/ Invoke \/ RunScript \/ ScriptEnds \/ NothingToBuild
  \/ Link \/ LinkFails \/ CompileLibrary \/ RunExtract
  \/ EditSources \/ EditProgram \/ AddFile \/ SetEnv \/ Reboot

Spec == Init /\ [][Next]_vars

-----------------------------------------------------------------------------
Settled == cargo \in {"off", "finished"} /\ Fresh /\ ~dirty

(***************************************************************************)
(* Types: what the script has declared are variables, what it writes are   *)
(* the files it names, and the header it generates is there when used.     *)
(***************************************************************************)
TypeOK ==
  /\ at \in Steps \cup {"done", "failed"}
  /\ step \in {"remove", "create", "unpack", "Ok", "Err"}
  /\ declared \subseteq Vars
  /\ DOMAIN out \subseteq Bitcode \cup {"libarena-bpf.tar", "vmlinux.h", "libarena_c.a"}
  /\ at \in Bitcode /\ cmd.vmlinux = "OUT_DIR" => "vmlinux.h" \in DOMAIN out
  /\ cargo = "script" \/ ~Running
  /\ Extracting => cargo = "build" /\ target = "host"

(***************************************************************************)
(* An incremental build is a clean build: when cargo has nothing left to   *)
(* do, the object contains what a build from nothing would make of the     *)
(* present sources and environment, whatever was edited, set, interrupted  *)
(* or failed since (build.rs declares all it reads, on the paths where it  *)
(* reads it).  The kernel is the one the script was run on.                *)
(***************************************************************************)
IncrementalIsClean ==
  Settled /\ target = "bpf" => object.archive = CleanArchive(shell, on, sources)

(***************************************************************************)
(* And the consumer's tree is the selected snapshot, with no file of an    *)
(* older one, none of its own and none cut short ("stale" in the unit test *)
(* of src/lib.rs).                                                         *)
(***************************************************************************)
TreeIsSnapshot ==
  Settled /\ target = "host" => Extracted /\ tree = sources[snapshot]

(***************************************************************************)
(* libarena_c.a is whole whenever it is there, though runs fail between    *)
(* any two steps: all three members, compiled by one command line; and it  *)
(* is there when the linker looks for it.                                  *)
(***************************************************************************)
ArchiveWhole ==
  /\ "libarena_c.a" \in DOMAIN out =>
       LET a == out["libarena_c.a"]
       IN  /\ DOMAIN a = Bitcode
           /\ \A b, c \in Bitcode, f \in {"clang", "libbpf", "stream", "arch", "cpu", "vmlinux"} :
                a[b][f] = a[c][f]
  /\ cargo = "build" /\ target = "bpf" => "libarena_c.a" \in DOMAIN out

(***************************************************************************)
(* README.md, "Knobs": TRAP_MODE says how a panic exits, and is detected   *)
(* for the running kernel if unset: a build that has finished has done so. *)
(***************************************************************************)
KnobsHonoured ==
  cargo = "finished" /\ target = "bpf" => object.trap = TrapMode(shell, kernel)
=============================================================================
