---------------------------- MODULE MCCargoBuild -----------------------------
(* Environments that take each of build.rs's decisions both ways, two      *)
(* source trees of which one lacks a file, two kernels.                    *)
EXTENDS CargoBuild

MCVars == {"LLVM_PREFIX", "CLANG", "LIBARENA_VMLINUX_H", "VMLINUX_BTF", "BPFTOOL",
           "LIBBPF_INCLUDE", "BPF_STREAM_KFUNC", "BPF_ARCH_DEFINE", "BPF_CPU", "TRAP_MODE"}

Environment(set) == [v \in MCVars |-> IF v \in DOMAIN set THEN set[v] ELSE None]

MCEnvs ==
  {Environment(<< >>),
   Environment([LIBARENA_VMLINUX_H |-> "h"]),
   Environment([LIBARENA_VMLINUX_H |-> "h", VMLINUX_BTF |-> "b", TRAP_MODE |-> "auto"]),
   Environment([VMLINUX_BTF |-> "b", BPF_STREAM_KFUNC |-> "impl", BPF_CPU |-> "v3"]),
   Environment([TRAP_MODE |-> "ret"])}

MCTrees == {[buddy |-> 1, rbtree |-> 1], [buddy |-> 2]}

MCKernels == {[btf |-> "k1", impl |-> TRUE, config |-> TRUE, orc |-> FALSE],
              [btf |-> "k2", impl |-> FALSE, config |-> TRUE, orc |-> TRUE]}

OneKernel == {[btf |-> "k2", impl |-> FALSE, config |-> TRUE, orc |-> TRUE]}
=============================================================================
