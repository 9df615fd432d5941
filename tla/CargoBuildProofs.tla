-------------------------- MODULE CargoBuildProofs --------------------------
(***************************************************************************)
(* Proofs about CargoBuild, for every set of environments, source trees    *)
(* and kernels and any number of changes.                                  *)
(***************************************************************************)
EXTENDS CargoBuild, TLAPS

\* What main() has found out when it gets past "tools", "vmlinux", ...
PastTools == {"vmlinux", "libbpf", "knobs", "clear", "ar"} \cup Bitcode
PastVmlinux == PastTools \ {"vmlinux"}
PastLibbpf == PastVmlinux \ {"libbpf"}
PastKnobs == PastLibbpf \ {"knobs"}

\* The steps at which a bitcode file of this run is there.
PastSource(bc) ==
  {"clear", "ar"} \cup (CASE bc = "common.bc" -> {"buddy.bc", "arena_glue.bc"}
                          [] bc = "buddy.bc"  -> {"arena_glue.bc"}
                          [] OTHER            -> {})

ClangOf(e) == Or(e["CLANG"], Or(e["LLVM_PREFIX"], "PATH"))

\* All the variables a run for a BPF target reads.
Reads(e) ==
  {"LLVM_PREFIX", "CLANG", "LIBBPF_INCLUDE", "BPF_STREAM_KFUNC", "BPF_ARCH_DEFINE", "BPF_CPU"}
    \cup VmlinuxVars(e)

\* Bitcode compiled with the settings of environment e on kernel k.
Matches(b, e, k) ==
  b = [clang |-> ClangOf(e), libbpf |-> Or(e["LIBBPF_INCLUDE"], "pkg-config"),
       stream |-> Stream(e, k), arch |-> Or(e["BPF_ARCH_DEFINE"], "x86"),
       cpu |-> Or(e["BPF_CPU"], "v4"), vmlinux |-> CleanVmlinux(e, k),
       include |-> b.include, kfuncs |-> b.kfuncs, source |-> b.source]

\* From the sources as they are.
UpToDate(b, bc) ==
  b.include = sources[snapshot] /\ b.kfuncs = sources["csrc"] /\ b.source = sources[Origin(bc)]

-----------------------------------------------------------------------------
Phases ==
  /\ at \in Steps \cup {"done", "failed"}
  /\ step \in {"remove", "create", "unpack", "Ok", "Err"}
  /\ target \in {"bpf", "host"}
  /\ cargo \in {"off", "script", "build", "finished"}
  /\ dirty \in BOOLEAN /\ touched \in BOOLEAN
  /\ sources \in [Watched -> Trees] /\ kernel \in Kernels
  /\ declared \subseteq Vars
  /\ shell \in Envs /\ (at # "failed" => given \in Envs)
  /\ DOMAIN out \subseteq Bitcode \cup {"libarena-bpf.tar", "vmlinux.h", "libarena_c.a"}
  /\ Running => cargo = "script" /\ on = kernel
  /\ cargo = "script" => dirty
  /\ cargo = "build" => at = "done"
  /\ Extracting => cargo = "build" /\ target = "host" /\ dirty
  /\ target = "host" => at \in {"create", "archive", "done", "failed"}

\* What the run knows, and what it has declared by then.
CommandKnown ==
  /\ at \in PastTools => /\ "clang" \in DOMAIN cmd /\ cmd["clang"] = ClangOf(given)
                         /\ {"LLVM_PREFIX", "CLANG"} \subseteq declared
  /\ at \in PastVmlinux =>
       /\ "vmlinux" \in DOMAIN cmd
       /\ cmd["vmlinux"] = Or(given["LIBARENA_VMLINUX_H"], "OUT_DIR")
       /\ VmlinuxVars(given) \subseteq declared
       /\ Generates(given) => /\ "vmlinux.h" \in DOMAIN out
                              /\ out["vmlinux.h"] = CleanVmlinux(given, kernel)
  /\ at \in PastLibbpf => /\ "libbpf" \in DOMAIN cmd
                          /\ cmd["libbpf"] = Or(given["LIBBPF_INCLUDE"], "pkg-config")
                          /\ "LIBBPF_INCLUDE" \in declared
  /\ at \in PastKnobs => /\ {"stream", "arch", "cpu"} \subseteq DOMAIN cmd
                         /\ cmd["stream"] = Stream(given, kernel)
                         /\ cmd["arch"] = Or(given["BPF_ARCH_DEFINE"], "x86")
                         /\ cmd["cpu"] = Or(given["BPF_CPU"], "v4")
                         /\ Reads(given) \subseteq declared

SourcesCompiled ==
  \A bc \in Bitcode : at \in PastSource(bc) =>
    /\ bc \in DOMAIN out
    /\ Matches(out[bc], given, kernel)
    /\ ~touched => UpToDate(out[bc], bc)

ArchiveMade ==
  LET a == out["libarena_c.a"]
  IN  /\ "libarena_c.a" \in DOMAIN out =>
           /\ a = [bc \in Bitcode |-> a[bc]]
           /\ \E e \in Envs, k \in Kernels : \A bc \in Bitcode : Matches(a[bc], e, k)
      /\ at = "done" /\ target = "bpf" =>
           /\ "libarena_c.a" \in DOMAIN out
           /\ Reads(given) \subseteq declared
           /\ \A bc \in Bitcode : Matches(a[bc], given, on)
           /\ ~touched => \A bc \in Bitcode : UpToDate(a[bc], bc)
      /\ ~dirty /\ target = "bpf" /\ at = "done" => object.archive = a

TarMade ==
  at = "done" /\ target = "host" =>
    /\ "libarena-bpf.tar" \in DOMAIN out
    /\ out["libarena-bpf.tar"] \in Trees
    /\ ~touched => out["libarena-bpf.tar"] = sources[snapshot]

\* What extract() has unpacked is from the embedded archive, and nothing else.
TreeUnpacked ==
  /\ Extracting => embedded = out["libarena-bpf.tar"]
  /\ step = "create" => tree = NoTree
  /\ step = "unpack" => /\ DOMAIN tree \subseteq DOMAIN embedded
                        /\ tree = [f \in DOMAIN tree |-> embedded[f]]
  /\ ~dirty /\ target = "host" /\ at = "done" =>
       tree = embedded /\ embedded = out["libarena-bpf.tar"]

IInv == Phases /\ CommandKnown /\ SourcesCompiled /\ ArchiveMade /\ TarMade /\ TreeUnpacked

-----------------------------------------------------------------------------
\* Nothing has been built: the script counts as failed.
LEMMA InitInv == Init => IInv
<1> SUFFICES ASSUME Init PROVE IInv
  OBVIOUS
<1> USE DEF Init, ScriptInit, SourcesInit, world, script, sources_vars
<1>1. Phases
  <2>1. DOMAIN << >> = {}
    OBVIOUS
  <2>2. sources \in [Watched -> Trees]
    BY DEF Watched
  <2> QED BY <2>1, <2>2 DEF Phases, Running, Extracting
<1>2. CommandKnown /\ SourcesCompiled
  BY DEF CommandKnown, SourcesCompiled, PastTools, PastVmlinux, PastLibbpf, PastKnobs, PastSource, Bitcode
<1>3. ArchiveMade
  BY DEF ArchiveMade
<1>4. TarMade /\ TreeUnpacked
  BY DEF TarMade, TreeUnpacked, Extracting
<1> QED BY <1>1, <1>2, <1>3, <1>4 DEF IInv

-----------------------------------------------------------------------------
\* cargo, the link and the library.
LEMMA InvokeInv == ASSUME IInv, Invoke PROVE IInv'
<1> USE DEF IInv, world, script, sources_vars, cargo_vars, Invoke, Start, Fresh
<1>1. Phases'
  BY DEF Phases, Running, Extracting, Steps, Bitcode, Watched
<1>2. CommandKnown'
  BY DEF Phases, Running, Extracting, CommandKnown, PastTools, PastVmlinux, PastLibbpf, PastKnobs, Bitcode
<1>3. SourcesCompiled'
  BY DEF Phases, Running, Extracting, SourcesCompiled, PastSource, Bitcode, UpToDate, snapshot, Origin
<1>4. ArchiveMade'
  BY DEF Phases, Running, Extracting, ArchiveMade, UpToDate, snapshot, Origin
<1>5. TarMade'
  BY DEF Phases, Running, Extracting, TarMade, snapshot
<1>6. TreeUnpacked'
  BY DEF Phases, Running, Extracting, TreeUnpacked
<1> QED BY <1>1, <1>2, <1>3, <1>4, <1>5, <1>6

LEMMA ScriptEndsInv == ASSUME IInv, ScriptEnds PROVE IInv'
<1> USE DEF IInv, world, script, sources_vars, cargo_vars, ScriptEnds
<1>1. Phases'
  BY DEF Phases, Running, Extracting, Steps, Bitcode, Watched
<1>2. CommandKnown'
  BY DEF Phases, Running, Extracting, CommandKnown, PastTools, PastVmlinux, PastLibbpf, PastKnobs, Bitcode
<1>3. SourcesCompiled'
  BY DEF Phases, Running, Extracting, SourcesCompiled, PastSource, Bitcode, UpToDate, snapshot, Origin
<1>4. ArchiveMade'
  BY DEF Phases, Running, Extracting, ArchiveMade, UpToDate, snapshot, Origin
<1>5. TarMade'
  BY DEF Phases, Running, Extracting, TarMade, snapshot
<1>6. TreeUnpacked'
  BY DEF Phases, Running, Extracting, TreeUnpacked
<1> QED BY <1>1, <1>2, <1>3, <1>4, <1>5, <1>6

LEMMA NothingToBuildInv == ASSUME IInv, NothingToBuild PROVE IInv'
<1> USE DEF IInv, world, script, sources_vars, cargo_vars, NothingToBuild
<1>1. Phases'
  BY DEF Phases, Running, Extracting, Steps, Bitcode, Watched
<1>2. CommandKnown'
  BY DEF Phases, Running, Extracting, CommandKnown, PastTools, PastVmlinux, PastLibbpf, PastKnobs, Bitcode
<1>3. SourcesCompiled'
  BY DEF Phases, Running, Extracting, SourcesCompiled, PastSource, Bitcode, UpToDate, snapshot, Origin
<1>4. ArchiveMade'
  BY DEF Phases, Running, Extracting, ArchiveMade, UpToDate, snapshot, Origin
<1>5. TarMade'
  BY DEF Phases, Running, Extracting, TarMade, snapshot
<1>6. TreeUnpacked'
  BY DEF Phases, Running, Extracting, TreeUnpacked
<1> QED BY <1>1, <1>2, <1>3, <1>4, <1>5, <1>6

LEMMA LinkInv == ASSUME IInv, Link PROVE IInv'
<1> USE DEF IInv, world, script, sources_vars, cargo_vars, Link
<1>1. Phases'
  BY DEF Phases, Running, Extracting, Steps, Bitcode, Watched
<1>2. CommandKnown'
  BY DEF Phases, Running, Extracting, CommandKnown, PastTools, PastVmlinux, PastLibbpf, PastKnobs, Bitcode
<1>3. SourcesCompiled'
  BY DEF Phases, Running, Extracting, SourcesCompiled, PastSource, Bitcode, UpToDate, snapshot, Origin
<1>4. ArchiveMade'
  BY DEF Phases, Running, Extracting, ArchiveMade, UpToDate, snapshot, Origin
<1>5. TarMade'
  BY DEF Phases, Running, Extracting, TarMade, snapshot
<1>6. TreeUnpacked'
  BY DEF Phases, Running, Extracting, TreeUnpacked
<1> QED BY <1>1, <1>2, <1>3, <1>4, <1>5, <1>6

LEMMA LinkFailsInv == ASSUME IInv, LinkFails PROVE IInv'
<1> USE DEF IInv, world, script, sources_vars, cargo_vars, LinkFails
<1>1. Phases'
  BY DEF Phases, Running, Extracting, Steps, Bitcode, Watched
<1>2. CommandKnown'
  BY DEF Phases, Running, Extracting, CommandKnown, PastTools, PastVmlinux, PastLibbpf, PastKnobs, Bitcode
<1>3. SourcesCompiled'
  BY DEF Phases, Running, Extracting, SourcesCompiled, PastSource, Bitcode, UpToDate, snapshot, Origin
<1>4. ArchiveMade'
  BY DEF Phases, Running, Extracting, ArchiveMade, UpToDate, snapshot, Origin
<1>5. TarMade'
  BY DEF Phases, Running, Extracting, TarMade, snapshot
<1>6. TreeUnpacked'
  BY DEF Phases, Running, Extracting, TreeUnpacked
<1> QED BY <1>1, <1>2, <1>3, <1>4, <1>5, <1>6

LEMMA CompileLibraryInv == ASSUME IInv, CompileLibrary PROVE IInv'
<1> USE DEF IInv, world, script, sources_vars, cargo_vars, CompileLibrary, Embed
<1>1. Phases'
  BY DEF Phases, Running, Extracting, Steps, Bitcode, Watched
<1>2. CommandKnown'
  BY DEF Phases, Running, Extracting, CommandKnown, PastTools, PastVmlinux, PastLibbpf, PastKnobs, Bitcode
<1>3. SourcesCompiled'
  BY DEF Phases, Running, Extracting, SourcesCompiled, PastSource, Bitcode, UpToDate, snapshot, Origin
<1>4. ArchiveMade'
  BY DEF Phases, Running, Extracting, ArchiveMade, UpToDate, snapshot, Origin
<1>5. TarMade'
  BY DEF Phases, Running, Extracting, TarMade, snapshot
<1>6. TreeUnpacked'
  BY DEF Phases, Running, Extracting, TreeUnpacked
<1> QED BY <1>1, <1>2, <1>3, <1>4, <1>5, <1>6

LEMMA RunExtractInv == ASSUME IInv, RunExtract PROVE IInv'
<1> USE DEF IInv, world, script, sources_vars, cargo_vars, RunExtract, ExtractStep, RemoveTree, CreateRoot, Unpack, Unpacks, ExtractFails, Removed, With, Unpacked
<1>1. Phases'
  BY DEF Phases, Running, Extracting, Steps, Bitcode, Watched
<1>2. CommandKnown'
  BY DEF Phases, Running, Extracting, CommandKnown, PastTools, PastVmlinux, PastLibbpf, PastKnobs, Bitcode
<1>3. SourcesCompiled'
  BY DEF Phases, Running, Extracting, SourcesCompiled, PastSource, Bitcode, UpToDate, snapshot, Origin
<1>4. ArchiveMade'
  BY DEF Phases, Running, Extracting, ArchiveMade, UpToDate, snapshot, Origin
<1>5. TarMade'
  BY DEF Phases, Running, Extracting, TarMade, snapshot
<1>6. TreeUnpacked'
  <2> USE DEF Phases, Running, Extracting, TreeUnpacked
  <2>1. CASE RemoveTree
    BY <2>1
  <2>2. CASE CreateRoot
    <3>1. DOMAIN << >> = {} /\ << >> = [f \in {} |-> embedded[f]]
      OBVIOUS
    <3> QED BY <2>2, <3>1
  <2>3. CASE Unpack
    BY <2>3
  <2>4. CASE Unpacks
    <3>1. DOMAIN tree = DOMAIN embedded
      BY <2>4
    <3>2. embedded \in Trees
      BY <2>4 DEF TarMade
    <3> QED BY <2>4, <3>1, <3>2, TreesAssumption
  <2>5. CASE ExtractFails
    BY <2>5
  <2> QED BY <2>1, <2>2, <2>3, <2>4, <2>5
<1> QED BY <1>1, <1>2, <1>3, <1>4, <1>5, <1>6

-----------------------------------------------------------------------------
\* The developer, and the machine.
LEMMA EditSourcesInv == ASSUME IInv, EditSources PROVE IInv'
<1> USE DEF IInv, world, script, sources_vars, cargo_vars, EditSources, Change
<1>1. Phases'
  BY DEF Phases, Running, Extracting, Steps, Bitcode, Watched
<1>2. CommandKnown'
  BY DEF Phases, Running, Extracting, CommandKnown, PastTools, PastVmlinux, PastLibbpf, PastKnobs, Bitcode
<1>3. SourcesCompiled'
  BY DEF Phases, Running, Extracting, SourcesCompiled, PastSource, Bitcode, UpToDate, snapshot, Origin
<1>4. ArchiveMade'
  BY DEF Phases, Running, Extracting, ArchiveMade, UpToDate, snapshot, Origin
<1>5. TarMade'
  BY DEF Phases, Running, Extracting, TarMade, snapshot
<1>6. TreeUnpacked'
  BY DEF Phases, Running, Extracting, TreeUnpacked
<1> QED BY <1>1, <1>2, <1>3, <1>4, <1>5, <1>6

LEMMA EditProgramInv == ASSUME IInv, EditProgram PROVE IInv'
<1> USE DEF IInv, world, script, sources_vars, cargo_vars, EditProgram, Change
<1>1. Phases'
  BY DEF Phases, Running, Extracting, Steps, Bitcode, Watched
<1>2. CommandKnown'
  BY DEF Phases, Running, Extracting, CommandKnown, PastTools, PastVmlinux, PastLibbpf, PastKnobs, Bitcode
<1>3. SourcesCompiled'
  BY DEF Phases, Running, Extracting, SourcesCompiled, PastSource, Bitcode, UpToDate, snapshot, Origin
<1>4. ArchiveMade'
  BY DEF Phases, Running, Extracting, ArchiveMade, UpToDate, snapshot, Origin
<1>5. TarMade'
  BY DEF Phases, Running, Extracting, TarMade, snapshot
<1>6. TreeUnpacked'
  BY DEF Phases, Running, Extracting, TreeUnpacked
<1> QED BY <1>1, <1>2, <1>3, <1>4, <1>5, <1>6

LEMMA AddFileInv == ASSUME IInv, AddFile PROVE IInv'
<1> USE DEF IInv, world, script, sources_vars, cargo_vars, AddFile, Change, With
<1>1. Phases'
  BY DEF Phases, Running, Extracting, Steps, Bitcode, Watched
<1>2. CommandKnown'
  BY DEF Phases, Running, Extracting, CommandKnown, PastTools, PastVmlinux, PastLibbpf, PastKnobs, Bitcode
<1>3. SourcesCompiled'
  BY DEF Phases, Running, Extracting, SourcesCompiled, PastSource, Bitcode, UpToDate, snapshot, Origin
<1>4. ArchiveMade'
  BY DEF Phases, Running, Extracting, ArchiveMade, UpToDate, snapshot, Origin
<1>5. TarMade'
  BY DEF Phases, Running, Extracting, TarMade, snapshot
<1>6. TreeUnpacked'
  BY DEF Phases, Running, Extracting, TreeUnpacked
<1> QED BY <1>1, <1>2, <1>3, <1>4, <1>5, <1>6

LEMMA SetEnvInv == ASSUME IInv, SetEnv PROVE IInv'
<1> USE DEF IInv, world, script, sources_vars, cargo_vars, SetEnv, Change
<1>1. Phases'
  BY DEF Phases, Running, Extracting, Steps, Bitcode, Watched
<1>2. CommandKnown'
  BY DEF Phases, Running, Extracting, CommandKnown, PastTools, PastVmlinux, PastLibbpf, PastKnobs, Bitcode
<1>3. SourcesCompiled'
  BY DEF Phases, Running, Extracting, SourcesCompiled, PastSource, Bitcode, UpToDate, snapshot, Origin
<1>4. ArchiveMade'
  BY DEF Phases, Running, Extracting, ArchiveMade, UpToDate, snapshot, Origin
<1>5. TarMade'
  BY DEF Phases, Running, Extracting, TarMade, snapshot
<1>6. TreeUnpacked'
  BY DEF Phases, Running, Extracting, TreeUnpacked
<1> QED BY <1>1, <1>2, <1>3, <1>4, <1>5, <1>6

LEMMA RebootInv == ASSUME IInv, Reboot PROVE IInv'
<1> USE DEF IInv, world, script, sources_vars, cargo_vars, Reboot, Change
<1>1. Phases'
  BY DEF Phases, Running, Extracting, Steps, Bitcode, Watched
<1>2. CommandKnown'
  BY DEF Phases, Running, Extracting, CommandKnown, PastTools, PastVmlinux, PastLibbpf, PastKnobs, Bitcode
<1>3. SourcesCompiled'
  BY DEF Phases, Running, Extracting, SourcesCompiled, PastSource, Bitcode, UpToDate, snapshot, Origin
<1>4. ArchiveMade'
  BY DEF Phases, Running, Extracting, ArchiveMade, UpToDate, snapshot, Origin
<1>5. TarMade'
  BY DEF Phases, Running, Extracting, TarMade, snapshot
<1>6. TreeUnpacked'
  BY DEF Phases, Running, Extracting, TreeUnpacked
<1> QED BY <1>1, <1>2, <1>3, <1>4, <1>5, <1>6

-----------------------------------------------------------------------------
\* The steps of build.rs.
LEMMA CreateTarInv == ASSUME IInv, cargo = "script", UNCHANGED <<sources_vars, cargo_vars>>, CreateTar PROVE IInv'
<1> USE DEF IInv, world, script, sources_vars, cargo_vars, CreateTar, Put
<1>1. Phases'
  BY DEF Phases, Running, Extracting, Steps, Bitcode, Watched
<1>2. CommandKnown'
  BY DEF Phases, Running, Extracting, CommandKnown, PastTools, PastVmlinux, PastLibbpf, PastKnobs, Bitcode
<1>3. SourcesCompiled'
  BY DEF Phases, Running, Extracting, SourcesCompiled, PastSource, Bitcode, UpToDate, snapshot, Origin
<1>4. ArchiveMade'
  BY DEF Phases, Running, Extracting, ArchiveMade, UpToDate, snapshot, Origin
<1>5. TarMade'
  BY DEF Phases, Running, Extracting, TarMade, snapshot
<1>6. TreeUnpacked'
  BY DEF Phases, Running, Extracting, TreeUnpacked
<1> QED BY <1>1, <1>2, <1>3, <1>4, <1>5, <1>6

LEMMA ArchiveSourcesInv == ASSUME IInv, cargo = "script", UNCHANGED <<sources_vars, cargo_vars>>, ArchiveSources PROVE IInv'
<1> USE DEF IInv, world, script, sources_vars, cargo_vars, ArchiveSources, Put
<1>1. Phases'
  BY DEF Phases, Running, Extracting, Steps, Bitcode, Watched
<1>2. CommandKnown'
  BY DEF Phases, Running, Extracting, CommandKnown, PastTools, PastVmlinux, PastLibbpf, PastKnobs, Bitcode
<1>3. SourcesCompiled'
  BY DEF Phases, Running, Extracting, SourcesCompiled, PastSource, Bitcode, UpToDate, snapshot, Origin
<1>4. ArchiveMade'
  BY DEF Phases, Running, Extracting, ArchiveMade, UpToDate, snapshot, Origin
<1>5. TarMade'
  BY DEF Phases, TarMade, snapshot, Watched
<1>6. TreeUnpacked'
  BY DEF Phases, Running, Extracting, TreeUnpacked
<1> QED BY <1>1, <1>2, <1>3, <1>4, <1>5, <1>6

LEMMA FindToolsInv == ASSUME IInv, cargo = "script", UNCHANGED <<sources_vars, cargo_vars>>, FindTools PROVE IInv'
<1> USE DEF IInv, world, script, sources_vars, cargo_vars, FindTools
<1>1. Phases'
  BY VarsAssumption DEF Phases, Running, Extracting, Steps, Bitcode, Watched
<1>2. CommandKnown'
  BY DEF Phases, CommandKnown, ClangOf, PastTools, PastVmlinux, PastLibbpf, PastKnobs, Bitcode
<1>3. SourcesCompiled'
  BY DEF Phases, Running, Extracting, SourcesCompiled, PastSource, Bitcode, UpToDate, snapshot, Origin
<1>4. ArchiveMade'
  BY DEF Phases, Running, Extracting, ArchiveMade, UpToDate, snapshot, Origin
<1>5. TarMade'
  BY DEF Phases, Running, Extracting, TarMade, snapshot
<1>6. TreeUnpacked'
  BY DEF Phases, Running, Extracting, TreeUnpacked
<1> QED BY <1>1, <1>2, <1>3, <1>4, <1>5, <1>6

LEMMA FindVmlinuxInv == ASSUME IInv, cargo = "script", UNCHANGED <<sources_vars, cargo_vars>>, FindVmlinux PROVE IInv'
<1> USE DEF IInv, world, script, sources_vars, cargo_vars, FindVmlinux, Put, Extended
<1>1. Phases'
  BY VarsAssumption DEF Phases, Running, Extracting, Steps, Bitcode, Watched, VmlinuxVars
<1>2. CommandKnown'
  <2>1. at' \notin PastLibbpf /\ at' \notin PastKnobs
    BY DEF PastTools, PastVmlinux, PastLibbpf, PastKnobs, Bitcode
  <2>2. "vmlinux" \in DOMAIN cmd' /\ cmd'["vmlinux"] = Or(given["LIBARENA_VMLINUX_H"], "OUT_DIR")
    OBVIOUS
  <2>3. "clang" \in DOMAIN cmd' /\ cmd'["clang"] = ClangOf(given)
    BY DEF CommandKnown, PastTools
  <2>4. Generates(given) => /\ "vmlinux.h" \in DOMAIN out'
                            /\ out'["vmlinux.h"] = CleanVmlinux(given, kernel)'
    BY DEF Generates, CleanVmlinux
  <2>5. {"LLVM_PREFIX", "CLANG"} \subseteq declared'
    BY DEF CommandKnown, PastTools
  <2> QED BY <2>1, <2>2, <2>3, <2>4, <2>5 DEF CommandKnown
<1>3. SourcesCompiled'
  BY DEF Phases, Running, Extracting, SourcesCompiled, PastSource, Bitcode, UpToDate, snapshot, Origin
<1>4. ArchiveMade'
  BY DEF Phases, Running, Extracting, ArchiveMade, UpToDate, snapshot, Origin
<1>5. TarMade'
  BY DEF Phases, Running, Extracting, TarMade, snapshot
<1>6. TreeUnpacked'
  BY DEF Phases, Running, Extracting, TreeUnpacked
<1> QED BY <1>1, <1>2, <1>3, <1>4, <1>5, <1>6

LEMMA FindLibbpfInv == ASSUME IInv, cargo = "script", UNCHANGED <<sources_vars, cargo_vars>>, FindLibbpf PROVE IInv'
<1> USE DEF IInv, world, script, sources_vars, cargo_vars, FindLibbpf, Extended
<1>1. Phases'
  BY VarsAssumption DEF Phases, Running, Extracting, Steps, Bitcode, Watched
<1>2. CommandKnown'
  BY DEF Phases, Running, Extracting, CommandKnown, PastTools, PastVmlinux, PastLibbpf, PastKnobs, Bitcode
<1>3. SourcesCompiled'
  BY DEF Phases, Running, Extracting, SourcesCompiled, PastSource, Bitcode, UpToDate, snapshot, Origin
<1>4. ArchiveMade'
  BY DEF Phases, Running, Extracting, ArchiveMade, UpToDate, snapshot, Origin
<1>5. TarMade'
  BY DEF Phases, Running, Extracting, TarMade, snapshot
<1>6. TreeUnpacked'
  BY DEF Phases, Running, Extracting, TreeUnpacked
<1> QED BY <1>1, <1>2, <1>3, <1>4, <1>5, <1>6

LEMMA ReadKnobsInv == ASSUME IInv, cargo = "script", UNCHANGED <<sources_vars, cargo_vars>>, ReadKnobs PROVE IInv'
<1> USE DEF IInv, world, script, sources_vars, cargo_vars, ReadKnobs
<1>1. Phases'
  BY VarsAssumption DEF Phases, Running, Extracting, Steps, Bitcode, Watched
<1>2. CommandKnown'
  <2>1. at \in PastTools /\ at \in PastVmlinux /\ at \in PastLibbpf
    BY DEF PastTools, PastVmlinux, PastLibbpf
  <2>2. Reads(given) \subseteq declared'
    BY <2>1 DEF CommandKnown, Reads
  <2> QED BY <2>1, <2>2 DEF CommandKnown
<1>3. SourcesCompiled'
  BY DEF Phases, Running, Extracting, SourcesCompiled, PastSource, Bitcode, UpToDate, snapshot, Origin
<1>4. ArchiveMade'
  BY DEF Phases, Running, Extracting, ArchiveMade, UpToDate, snapshot, Origin
<1>5. TarMade'
  BY DEF Phases, Running, Extracting, TarMade, snapshot
<1>6. TreeUnpacked'
  BY DEF Phases, Running, Extracting, TreeUnpacked
<1> QED BY <1>1, <1>2, <1>3, <1>4, <1>5, <1>6

LEMMA CompileInv == ASSUME IInv, cargo = "script", UNCHANGED <<sources_vars, cargo_vars>>, Compile PROVE IInv'
<1> USE DEF IInv, world, script, sources_vars, cargo_vars, Compile, Put, NextStep, Header
<1>1. Phases'
  BY DEF Phases, Running, Extracting, Steps, Bitcode, Watched
<1>2. CommandKnown'
  BY DEF Phases, Running, Extracting, CommandKnown, PastTools, PastVmlinux, PastLibbpf, PastKnobs, Bitcode
<1>3. SourcesCompiled'
  <2> USE DEF Phases, Running, Bitcode
  <2>1. Header = CleanVmlinux(given, kernel)
    <3>1. cmd["vmlinux"] = Or(given["LIBARENA_VMLINUX_H"], "OUT_DIR")
      BY DEF CommandKnown, PastVmlinux, PastTools
    <3>2. CASE given["LIBARENA_VMLINUX_H"] = None
      BY <3>1, <3>2 DEF CommandKnown, PastVmlinux, PastTools, Generates, Or
    <3>3. CASE given["LIBARENA_VMLINUX_H"] # None
      BY <3>1, <3>3, EnvsAssumption DEF CleanVmlinux, Or
    <3> QED BY <3>2, <3>3
  <2>2. at \in DOMAIN out' /\ Matches(out'[at], given, kernel) /\ UpToDate(out'[at], at)
    <3>1. at \in PastTools /\ at \in PastLibbpf /\ at \in PastKnobs
      BY DEF PastTools, PastVmlinux, PastLibbpf, PastKnobs
    <3>2. /\ cmd.clang = ClangOf(given) /\ cmd.libbpf = Or(given["LIBBPF_INCLUDE"], "pkg-config")
          /\ cmd.stream = Stream(given, kernel) /\ cmd.arch = Or(given["BPF_ARCH_DEFINE"], "x86")
          /\ cmd.cpu = Or(given["BPF_CPU"], "v4")
      BY <3>1 DEF CommandKnown
    <3> QED BY <2>1, <3>2 DEF Matches, UpToDate
  <2>3. ASSUME NEW bc \in Bitcode, at' \in PastSource(bc), bc # at
        PROVE  at \in PastSource(bc) /\ (bc \in DOMAIN out => bc \in DOMAIN out' /\ out'[bc] = out[bc])
    BY <2>3 DEF PastSource
  <2> QED BY <2>2, <2>3 DEF SourcesCompiled, UpToDate, snapshot, Origin
<1>4. ArchiveMade'
  BY DEF Phases, Running, ArchiveMade, UpToDate, snapshot, Origin, Bitcode
<1>5. TarMade'
  BY DEF Phases, Running, Extracting, TarMade, snapshot
<1>6. TreeUnpacked'
  BY DEF Phases, Running, Extracting, TreeUnpacked
<1> QED BY <1>1, <1>2, <1>3, <1>4, <1>5, <1>6

LEMMA RemoveArchiveInv == ASSUME IInv, cargo = "script", UNCHANGED <<sources_vars, cargo_vars>>, RemoveArchive PROVE IInv'
<1> USE DEF IInv, world, script, sources_vars, cargo_vars, RemoveArchive
<1>1. Phases'
  BY DEF Phases, Running, Extracting, Steps, Bitcode, Watched
<1>2. CommandKnown'
  BY DEF Phases, Running, Extracting, CommandKnown, PastTools, PastVmlinux, PastLibbpf, PastKnobs, Bitcode
<1>3. SourcesCompiled'
  BY DEF Phases, Running, Extracting, SourcesCompiled, PastSource, Bitcode, UpToDate, snapshot, Origin
<1>4. ArchiveMade'
  BY DEF Phases, Running, Extracting, ArchiveMade, UpToDate, snapshot, Origin
<1>5. TarMade'
  BY DEF Phases, Running, Extracting, TarMade, snapshot
<1>6. TreeUnpacked'
  BY DEF Phases, Running, Extracting, TreeUnpacked
<1> QED BY <1>1, <1>2, <1>3, <1>4, <1>5, <1>6

LEMMA ArInv == ASSUME IInv, cargo = "script", UNCHANGED <<sources_vars, cargo_vars>>, Ar PROVE IInv'
<1> USE DEF IInv, world, script, sources_vars, cargo_vars, Ar, Put
<1>1. Phases'
  BY DEF Phases, Running, Extracting, Steps, Bitcode, Watched
<1>2. CommandKnown'
  BY DEF Phases, Running, Extracting, CommandKnown, PastTools, PastVmlinux, PastLibbpf, PastKnobs, Bitcode
<1>3. SourcesCompiled'
  BY DEF Phases, Running, Extracting, SourcesCompiled, PastSource, Bitcode, UpToDate, snapshot, Origin
<1>4. ArchiveMade'
  <2> DEFINE a == [bc \in Bitcode |-> out[bc]]
  <2>1. \A bc \in Bitcode : /\ bc \in DOMAIN out /\ Matches(out[bc], given, kernel)
                            /\ ~touched => UpToDate(out[bc], bc)
    BY DEF SourcesCompiled, PastSource
  <2>2. "libarena_c.a" \in DOMAIN out' /\ out'["libarena_c.a"] = a
    <3>1. Bitcode \cap DOMAIN out = Bitcode
      BY <2>1
    <3> QED BY <3>1
  <2>3. given \in Envs /\ kernel \in Kernels /\ on = kernel /\ dirty
    BY DEF Phases, Running
  <2>4. Reads(given) \subseteq declared
    BY DEF CommandKnown, PastTools, PastVmlinux, PastLibbpf, PastKnobs
  <2>5. ASSUME NEW bc \in Bitcode
        PROVE  /\ Matches(out["libarena_c.a"][bc], given, on)'
               /\ (~touched => UpToDate(out["libarena_c.a"][bc], bc))'
    <3>1. out'["libarena_c.a"][bc] = out[bc]
      BY <2>2
    <3> QED BY <2>1, <2>3, <3>1 DEF Matches, UpToDate, snapshot, Origin
  <2>6. out'["libarena_c.a"] = [bc \in Bitcode |-> out'["libarena_c.a"][bc]]
    BY <2>2
  <2>7. given' \in Envs /\ on' \in Kernels /\ dirty'
    BY <2>3
  <2> HIDE DEF a, IInv, Ar, Put, cargo_vars
  <2>8. Reads(given)' \subseteq declared'
    BY <2>4 DEF Ar, Reads
  <2> QED BY <2>2, <2>5, <2>6, <2>7, <2>8 DEF ArchiveMade
<1>5. TarMade'
  BY DEF Phases, Running, Extracting, TarMade, snapshot
<1>6. TreeUnpacked'
  BY DEF Phases, Running, Extracting, TreeUnpacked
<1> QED BY <1>1, <1>2, <1>3, <1>4, <1>5, <1>6

LEMMA PanicInv == ASSUME IInv, cargo = "script", UNCHANGED <<sources_vars, cargo_vars>>, Panic PROVE IInv'
<1> USE DEF IInv, world, script, sources_vars, cargo_vars, Panic
<1>1. Phases'
  BY DEF Phases, Running, Extracting, Steps, Bitcode, Watched
<1>2. CommandKnown'
  BY DEF Phases, Running, Extracting, CommandKnown, PastTools, PastVmlinux, PastLibbpf, PastKnobs, Bitcode
<1>3. SourcesCompiled'
  BY DEF Phases, Running, Extracting, SourcesCompiled, PastSource, Bitcode, UpToDate, snapshot, Origin
<1>4. ArchiveMade'
  BY DEF Phases, Running, Extracting, ArchiveMade, UpToDate, snapshot, Origin
<1>5. TarMade'
  BY DEF Phases, Running, Extracting, TarMade, snapshot
<1>6. TreeUnpacked'
  BY DEF Phases, Running, Extracting, TreeUnpacked
<1> QED BY <1>1, <1>2, <1>3, <1>4, <1>5, <1>6
-----------------------------------------------------------------------------
\* Steps of nobody, and all steps.
LEMMA StutterInv == ASSUME IInv, UNCHANGED vars PROVE IInv'
<1> USE DEF IInv, vars, world, script, sources_vars, cargo_vars
<1>1. Phases'
  BY DEF Phases, Running, Extracting, Steps, Bitcode, Watched
<1>2. CommandKnown'
  BY DEF Phases, Running, Extracting, CommandKnown, PastTools, PastVmlinux, PastLibbpf, PastKnobs, Bitcode
<1>3. SourcesCompiled'
  BY DEF Phases, Running, Extracting, SourcesCompiled, PastSource, Bitcode, UpToDate, snapshot, Origin
<1>4. ArchiveMade'
  BY DEF Phases, Running, Extracting, ArchiveMade, UpToDate, snapshot, Origin
<1>5. TarMade'
  BY DEF Phases, Running, Extracting, TarMade, snapshot
<1>6. TreeUnpacked'
  BY DEF Phases, Running, Extracting, TreeUnpacked
<1> QED BY <1>1, <1>2, <1>3, <1>4, <1>5, <1>6

LEMMA StepInv == IInv /\ [Next]_vars => IInv'
<1> SUFFICES ASSUME IInv, [Next]_vars PROVE IInv'
  OBVIOUS
<1>1. CASE Invoke
  BY <1>1, InvokeInv
<1>2. CASE ScriptEnds
  BY <1>2, ScriptEndsInv
<1>3. CASE NothingToBuild
  BY <1>3, NothingToBuildInv
<1>4. CASE Link
  BY <1>4, LinkInv
<1>5. CASE LinkFails
  BY <1>5, LinkFailsInv
<1>6. CASE CompileLibrary
  BY <1>6, CompileLibraryInv
<1>7. CASE RunExtract
  BY <1>7, RunExtractInv
<1>8. CASE EditSources
  BY <1>8, EditSourcesInv
<1>9. CASE EditProgram
  BY <1>9, EditProgramInv
<1>10. CASE AddFile
  BY <1>10, AddFileInv
<1>11. CASE SetEnv
  BY <1>11, SetEnvInv
<1>12. CASE Reboot
  BY <1>12, RebootInv
<1>13. CASE RunScript
  <2>0. cargo = "script" /\ UNCHANGED <<sources_vars, cargo_vars>> /\ ScriptStep
    BY <1>13 DEF RunScript
  <2>1. CASE CreateTar
    BY <2>0, <2>1, CreateTarInv
  <2>2. CASE ArchiveSources
    BY <2>0, <2>2, ArchiveSourcesInv
  <2>3. CASE FindTools
    BY <2>0, <2>3, FindToolsInv
  <2>4. CASE FindVmlinux
    BY <2>0, <2>4, FindVmlinuxInv
  <2>5. CASE FindLibbpf
    BY <2>0, <2>5, FindLibbpfInv
  <2>6. CASE ReadKnobs
    BY <2>0, <2>6, ReadKnobsInv
  <2>7. CASE Compile
    BY <2>0, <2>7, CompileInv
  <2>8. CASE RemoveArchive
    BY <2>0, <2>8, RemoveArchiveInv
  <2>9. CASE Ar
    BY <2>0, <2>9, ArInv
  <2>10. CASE Panic
    BY <2>0, <2>10, PanicInv
  <2> QED BY <2>0, <2>1, <2>2, <2>3, <2>4, <2>5, <2>6, <2>7, <2>8, <2>9, <2>10 DEF ScriptStep
<1>14. CASE UNCHANGED vars
  BY <1>14, StutterInv
<1> QED
  BY <1>1, <1>2, <1>3, <1>4, <1>5, <1>6, <1>7, <1>8, <1>9, <1>10, <1>11, <1>12, <1>13, <1>14 DEF Next

(***************************************************************************)
(* Builds go on as IInv says, whatever is edited, set, interrupted or      *)
(* fails: what a run knows and has written is what build.rs would find out *)
(* and write for the environment it was given, and the archive and the     *)
(* extracted tree are what they were made of.                              *)
(***************************************************************************)
THEOREM CargoBuildCorrect == Spec => []IInv
<1> QED BY InitInv, StepInv, PTL DEF Spec

(***************************************************************************)
(* Every variable declared is one the script may read, and clang is never  *)
(* pointed at a header in OUT_DIR that bpftool has not written there.      *)
(***************************************************************************)
THEOREM CargoBuildTypes == Spec => []TypeOK
<1>1. IInv => TypeOK
  <2> SUFFICES ASSUME IInv PROVE TypeOK
    OBVIOUS
  <2>1. ASSUME at \in Bitcode, cmd.vmlinux = "OUT_DIR"
        PROVE  "vmlinux.h" \in DOMAIN out
    <3>1. at \in PastVmlinux
      BY <2>1 DEF PastVmlinux, PastTools, Bitcode
    <3>2. given \in Envs
      BY <2>1 DEF IInv, Phases, Bitcode
    <3>3. Or(given["LIBARENA_VMLINUX_H"], "OUT_DIR") = "OUT_DIR"
      BY <2>1, <3>1 DEF IInv, CommandKnown
    <3> QED BY <3>1, <3>2, <3>3, EnvsAssumption DEF IInv, CommandKnown, Generates, Or
  <2> QED BY <2>1 DEF IInv, Phases, TypeOK
<1> QED BY <1>1, CargoBuildCorrect, PTL

\* An environment that agrees with this run's on all it declared is read
\* alike.  (This is what build.rs's rerun-if-env-changed lines are for.)
LEMMA ReadAlike ==
  ASSUME NEW e, NEW g, NEW k, NEW b, Matches(b, g, k), \A v \in Reads(g) : e[v] = g[v]
  PROVE  Matches(b, e, k)
<1>1. /\ e["LLVM_PREFIX"] = g["LLVM_PREFIX"] /\ e["CLANG"] = g["CLANG"]
      /\ e["LIBBPF_INCLUDE"] = g["LIBBPF_INCLUDE"]
      /\ e["BPF_STREAM_KFUNC"] = g["BPF_STREAM_KFUNC"]
      /\ e["BPF_ARCH_DEFINE"] = g["BPF_ARCH_DEFINE"] /\ e["BPF_CPU"] = g["BPF_CPU"]
      /\ e["LIBARENA_VMLINUX_H"] = g["LIBARENA_VMLINUX_H"]
  BY DEF Reads, VmlinuxVars
<1>2. ClangOf(e) = ClangOf(g) /\ Stream(e, k) = Stream(g, k)
  BY <1>1 DEF ClangOf, Stream
<1>3. CleanVmlinux(e, k) = CleanVmlinux(g, k)
  <2>1. g["LIBARENA_VMLINUX_H"] = None
          => e["VMLINUX_BTF"] = g["VMLINUX_BTF"] /\ e["BPFTOOL"] = g["BPFTOOL"]
    BY DEF Reads, VmlinuxVars
  <2> QED BY <1>1, <2>1 DEF CleanVmlinux
<1> QED BY <1>1, <1>2, <1>3 DEF Matches

(***************************************************************************)
(* When cargo has nothing left to do, the object contains what a build     *)
(* from nothing makes of the present sources and environment: build.rs     *)
(* declares all it reads, for any environments, sources and kernels.       *)
(***************************************************************************)
THEOREM BuildsAreClean == Spec => []IncrementalIsClean
<1>1. IInv => IncrementalIsClean
  <2> SUFFICES ASSUME IInv, Settled, target = "bpf"
               PROVE  object.archive = CleanArchive(shell, on, sources)
    BY DEF IncrementalIsClean
  <2> DEFINE a == out["libarena_c.a"]
  <2>1. at = "done" /\ ~touched /\ ~dirty /\ \A v \in declared : shell[v] = given[v]
    BY DEF Settled, Fresh
  <2>2. /\ Reads(given) \subseteq declared /\ object.archive = a
        /\ a = [bc \in Bitcode |-> a[bc]]
        /\ \A bc \in Bitcode : Matches(a[bc], given, on) /\ UpToDate(a[bc], bc)
    BY <2>1 DEF IInv, ArchiveMade
  <2> HIDE DEF a
  <2>3. ASSUME NEW bc \in Bitcode
        PROVE  a[bc] = CleanArchive(shell, on, sources)[bc]
    <3>1. Matches(a[bc], shell, on)
      BY <2>1, <2>2, ReadAlike
    <3> QED BY <2>2, <3>1 DEF Matches, UpToDate, CleanArchive, ClangOf
  <2>4. CleanArchive(shell, on, sources)
          = [bc \in Bitcode |-> CleanArchive(shell, on, sources)[bc]]
    BY DEF CleanArchive
  <2> QED BY <2>2, <2>3, <2>4
<1> QED BY <1>1, CargoBuildCorrect, PTL

(***************************************************************************)
(* When cargo has nothing left to do, the consumer's tree is the selected  *)
(* snapshot: extract() keeps no older file and returns Ok of no part.      *)
(***************************************************************************)
THEOREM TreesAreClean == Spec => []TreeIsSnapshot
<1>1. IInv => TreeIsSnapshot
  BY DEF IInv, TreeUnpacked, TarMade, TreeIsSnapshot, Settled, Fresh, Extracted
<1> QED BY <1>1, CargoBuildCorrect, PTL

(***************************************************************************)
(* libarena_c.a is never partial, and it is there for every link.          *)
(***************************************************************************)
THEOREM ArchivesWhole == Spec => []ArchiveWhole
<1>1. IInv => ArchiveWhole
  <2> SUFFICES ASSUME IInv PROVE ArchiveWhole
    OBVIOUS
  <2> DEFINE a == out["libarena_c.a"]
  <2>1. ASSUME "libarena_c.a" \in DOMAIN out
        PROVE  /\ DOMAIN a = Bitcode
               /\ \A b, c \in Bitcode, f \in {"clang", "libbpf", "stream", "arch", "cpu", "vmlinux"} :
                    a[b][f] = a[c][f]
    <3>1. a = [bc \in Bitcode |-> a[bc]]
      BY <2>1 DEF IInv, ArchiveMade
    <3>2. PICK e \in Envs, k \in Kernels : \A bc \in Bitcode : Matches(a[bc], e, k)
      BY <2>1 DEF IInv, ArchiveMade
    <3> HIDE DEF a
    <3>3. ASSUME NEW b \in Bitcode, NEW c \in Bitcode,
                 NEW f \in {"clang", "libbpf", "stream", "arch", "cpu", "vmlinux"}
          PROVE  a[b][f] = a[c][f]
      <4>1. /\ a[b].clang = a[c].clang /\ a[b].libbpf = a[c].libbpf
            /\ a[b].stream = a[c].stream /\ a[b].arch = a[c].arch
            /\ a[b].cpu = a[c].cpu /\ a[b].vmlinux = a[c].vmlinux
        <5>1. Matches(a[b], e, k) /\ Matches(a[c], e, k)
          BY <3>2
        <5> QED BY <5>1 DEF Matches
      <4> QED BY <4>1
    <3> QED BY <3>1, <3>3
  <2>2. cargo = "build" /\ target = "bpf" => "libarena_c.a" \in DOMAIN out
    BY DEF IInv, Phases, ArchiveMade
  <2> QED BY <2>1, <2>2 DEF ArchiveWhole
<1> QED BY <1>1, CargoBuildCorrect, PTL
=============================================================================
