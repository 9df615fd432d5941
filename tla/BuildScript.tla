----------------------------- MODULE BuildScript -----------------------------
(***************************************************************************)
(* build.rs of libarena-rs: archive the selected snapshot of libarena and, *)
(* for a BPF target, compile it and the glue to bitcode in OUT_DIR.        *)
(* Contents are versions: a source tree is a function from its files to    *)
(* theirs, bitcode a record of all it was compiled from.  The script may   *)
(* fail at any step; whatever it has written stays, and is there when      *)
(* cargo runs it again.                                                    *)
(***************************************************************************)
EXTENDS Naturals

CONSTANTS
  Vars,       \* the environment variables the script reads
  None,       \* the value of one that is unset or empty
  Cut         \* a file that has been created and not filled

ASSUME VarsAssumption ==
  {"LLVM_PREFIX", "CLANG", "LIBARENA_VMLINUX_H", "VMLINUX_BTF", "BPFTOOL",
   "LIBBPF_INCLUDE", "BPF_STREAM_KFUNC", "BPF_ARCH_DEFINE", "BPF_CPU"} \subseteq Vars

VARIABLES
  target,     \* CARGO_CFG_TARGET_ARCH: "bpf" or "host"
  compat,     \* CARGO_FEATURE_COMPAT is set
  sources,    \* the trees under vendor/ and csrc
  kernel,     \* the running kernel: [btf, impl], what bpftool and kallsyms say
  at,         \* where main() is: a step, "done" or "failed"
  given,      \* the environment of this run, or of the last
  declared,   \* the variables it has told cargo to watch
  cmd,        \* the clang command line, as far as it is known
  out         \* OUT_DIR

world == <<target, compat, sources, kernel>>
script == <<at, given, declared, cmd, out>>

Running == at \notin {"done", "failed"}

\* libarena_snapshot
snapshot == IF compat THEN "libarena-compat" ELSE "libarena"

Bitcode == {"common.bc", "buddy.bc", "arena_glue.bc"}

Steps == {"create", "archive", "tools", "vmlinux", "libbpf", "knobs", "clear", "ar"}
           \cup Bitcode

\* Which tree a bitcode file's source is in.
Origin(bc) == IF bc = "arena_glue.bc" THEN "csrc" ELSE snapshot

Or(value, default) == IF value = None THEN default ELSE value

-----------------------------------------------------------------------------
\* envv prints rerun-if-env-changed for each variable it reads, those that
\* only matter while LIBARENA_VMLINUX_H is unset in that case only.
\* (Slip: env::var reads it, unseen by cargo.)
VmlinuxUnseen(e) ==
  IF e["LIBARENA_VMLINUX_H"] = None THEN {"VMLINUX_BTF", "BPFTOOL"} ELSE {}
VmlinuxVars(e) ==
  {"LIBARENA_VMLINUX_H"}
    \cup (IF e["LIBARENA_VMLINUX_H"] = None THEN {"VMLINUX_BTF", "BPFTOOL"} ELSE {})

\* Whether bpftool is to write vmlinux.h.
\* (Slip: only where the user names a BTF file.)
IfBtfNamed(e) == e["VMLINUX_BTF"] # None
Generates(e) == e["LIBARENA_VMLINUX_H"] = None

Put(name, content) ==
  out' = [f \in DOMAIN out \cup {name} |-> IF f = name THEN content ELSE out[f]]

\* cargo runs the script with environment e; the last run's files are there.
Start(e) ==
  /\ ~Running
  /\ given' = e
  /\ declared' = {}
  /\ cmd' = << >>
  /\ at' = "create"
  /\ UNCHANGED <<world, out>>

\* archive_bpf_sources: File::create, then the two directories.
CreateTar ==
  /\ at = "create"
  /\ Put("libarena-bpf.tar", Cut)
  /\ at' = "archive"
  /\ UNCHANGED <<world, given, declared, cmd>>

ArchiveSources ==
  /\ at = "archive"
  /\ Put("libarena-bpf.tar", sources[snapshot])
  /\ at' = IF target = "bpf" THEN "tools" ELSE "done"
  /\ UNCHANGED <<world, given, declared, cmd>>

FindTools ==
  /\ at = "tools"
  /\ declared' = declared \cup {"LLVM_PREFIX", "CLANG"}
  /\ cmd' = [clang |-> Or(given["CLANG"], Or(given["LLVM_PREFIX"], "PATH"))]
  /\ at' = "vmlinux"
  /\ UNCHANGED <<world, given, out>>

Extended(field, value) ==
  [f \in DOMAIN cmd \cup {field} |-> IF f = field THEN value ELSE cmd[f]]

\* vmlinux.h is the user's, or bpftool writes one for the running kernel;
\* clang gets the directory, and reads the file when it is run.
FindVmlinux ==
  /\ at = "vmlinux"
  /\ declared' = declared \cup VmlinuxVars(given)
  /\ cmd' = Extended("vmlinux", Or(given["LIBARENA_VMLINUX_H"], "OUT_DIR"))
  /\ IF Generates(given)
     THEN Put("vmlinux.h", [btf |-> Or(given["VMLINUX_BTF"], kernel.btf),
                            tool |-> Or(given["BPFTOOL"], "PATH")])
     ELSE UNCHANGED out
  /\ at' = "libbpf"
  /\ UNCHANGED <<world, given>>

FindLibbpf ==
  /\ at = "libbpf"
  /\ declared' = declared \cup {"LIBBPF_INCLUDE"}
  /\ cmd' = Extended("libbpf", Or(given["LIBBPF_INCLUDE"], "pkg-config"))
  /\ at' = "knobs"
  /\ UNCHANGED <<world, given, out>>

\* The running kernel is asked for its stream kfunc only if vmlinux.h is its.
Stream(e, k) ==
  Or(e["BPF_STREAM_KFUNC"],
     IF e["LIBARENA_VMLINUX_H"] = None /\ k.impl THEN "impl" ELSE "plain")

ReadKnobs ==
  /\ at = "knobs"
  /\ declared' = declared \cup {"BPF_STREAM_KFUNC", "BPF_ARCH_DEFINE", "BPF_CPU"}
  /\ cmd' = [f \in DOMAIN cmd \cup {"stream", "arch", "cpu"} |->
               CASE f = "stream" -> Stream(given, kernel)
                 [] f = "arch"   -> Or(given["BPF_ARCH_DEFINE"], "x86")
                 [] f = "cpu"    -> Or(given["BPF_CPU"], "v4")
                 [] OTHER        -> cmd[f]]
  /\ at' = "common.bc"
  /\ UNCHANGED <<world, given, out>>

\* clang, once per source; what it finds is what is there by then.
\* (Slip: the loop ends one source early.)
NextTooSoon(bc) == IF bc = "common.bc" THEN "buddy.bc" ELSE "clear"
NextStep(bc) == CASE bc = "common.bc" -> "buddy.bc"
                  [] bc = "buddy.bc"  -> "arena_glue.bc"
                  [] OTHER            -> "clear"

Header == IF cmd.vmlinux = "OUT_DIR" THEN out["vmlinux.h"]
          ELSE [user |-> cmd.vmlinux]

Compile ==
  /\ at \in Bitcode
  /\ Put(at, [clang |-> cmd.clang, libbpf |-> cmd.libbpf, stream |-> cmd.stream,
              arch |-> cmd.arch, cpu |-> cmd.cpu, vmlinux |-> Header,
              include |-> sources[snapshot], kfuncs |-> sources["csrc"],
              source |-> sources[Origin(at)]])
  /\ at' = NextStep(at)
  /\ UNCHANGED <<world, given, declared, cmd>>

RemoveArchive ==
  /\ at = "clear"
  /\ out' = [f \in DOMAIN out \ {"libarena_c.a"} |-> out[f]]
  /\ at' = "ar"
  /\ UNCHANGED <<world, given, declared, cmd>>

\* llvm-ar rcs, of the .bc files by their names.
Ar ==
  /\ at = "ar"
  /\ Put("libarena_c.a", [bc \in Bitcode \cap DOMAIN out |-> out[bc]])
  /\ at' = "done"
  /\ cmd' = << >>
  /\ UNCHANGED <<world, given, declared>>

\* A panic: no sources, a tool that cannot be run or fails, a full disk.  cargo
\* keeps nothing of what the script declared.
Panic ==
  /\ Running
  /\ at' = "failed"
  /\ cmd' = << >> /\ declared' = {}
  /\ UNCHANGED <<world, given, out>>

ScriptInit ==
  /\ at = "failed"      \* it has never succeeded
  /\ given = [v \in Vars |-> None]
  /\ declared = {}
  /\ cmd = << >>
  /\ out = << >>

ScriptStep ==
  \/ CreateTar \/ ArchiveSources \/ FindTools \/ FindVmlinux \/ FindLibbpf
  \/ ReadKnobs \/ Compile \/ RemoveArchive \/ Ar \/ Panic

-----------------------------------------------------------------------------
\* What a clean build makes of environment e, kernel k and the sources s.
CleanVmlinux(e, k) ==
  IF e["LIBARENA_VMLINUX_H"] # None THEN [user |-> e["LIBARENA_VMLINUX_H"]]
  ELSE [btf |-> Or(e["VMLINUX_BTF"], k.btf), tool |-> Or(e["BPFTOOL"], "PATH")]

CleanArchive(e, k, s) ==
  [bc \in Bitcode |->
     [clang |-> Or(e["CLANG"], Or(e["LLVM_PREFIX"], "PATH")),
      libbpf |-> Or(e["LIBBPF_INCLUDE"], "pkg-config"), stream |-> Stream(e, k),
      arch |-> Or(e["BPF_ARCH_DEFINE"], "x86"), cpu |-> Or(e["BPF_CPU"], "v4"),
      vmlinux |-> CleanVmlinux(e, k),
      include |-> s[snapshot], kfuncs |-> s["csrc"], source |-> s[Origin(bc)]]]
=============================================================================
