------------------------------ MODULE MCLinkDir ------------------------------
(* Two programs: q is linked from an object and an rlib, p from two rlibs    *)
(* that both have a member m, with libarena in the second of its two library *)
(* directories.  The first rlib has another member after a rebuild.          *)
EXTENDS LinkDir

Word_(v) == <<[opt |-> "", val |-> v]>>
Joined(flag, v) == <<[opt |-> flag, val |-> v]>>
Apart(flag, v) == Joined(flag, None) \o Word_(v)

MCDisk(members) ==
  [rlib1 |-> [kind |-> "archive", members |-> members],
   rlib2 |-> [kind |-> "archive", members |-> [m |-> "c2", meta |-> "rmeta"]],
   obj   |-> [kind |-> "bitcode", members |-> [self |-> "c3"]],
   so    |-> [kind |-> "other", members |-> [self |-> "elf"]],
   dir   |-> [kind |-> "archive", members |-> [alloc |-> "a1"]],
   old   |-> [kind |-> "archive", members |-> [alloc |-> "a0"]]]

MCDisks == {MCDisk([m |-> "c1"]), MCDisk([n |-> "d1"])}
MCBitcode == {"c1", "c2", "c3", "d1", "a0", "a1"}

P == [inputs |-> <<"rlib1", "rlib2">>, libDirs |-> <<"empty", "dir", "old">>,
      export |-> None, output |-> "p", cpu |-> "v4"]
Q == [inputs |-> <<"obj", "gone", "so", "rlib1">>, libDirs |-> <<"dir">>,
      export |-> "exp", output |-> "q", cpu |-> "v3"]

Rlibs == Word_("rlib1") \o Word_("rlib2")
Dirs == Joined("-L", "empty") \o Apart("-L", "dir") \o Joined("-L", "old")
Noise == Apart("--cpu-features", "alu32") \o Apart("-l", "c") \o Joined("-l", "m")
           \o Joined("-O3", None) \o Joined("--new", "x")

\* The pieces of each line in several orders; a response file; arguments that
\* are lost.
PLines == {Rlibs \o Dirs \o Noise \o Apart("-o", "p"),
           Noise \o Apart("-o", "p") \o Dirs \o Rlibs,
           <<[opt |-> "@", val |-> Dirs \o Rlibs]>> \o Apart("-o", "p"),
           Rlibs \o Dirs \o Joined("-o", None), Dirs \o Rlibs}
QLines == {Word_("obj") \o Word_("gone") \o Apart("--cpu", "v3") \o Word_("so")
             \o Apart("--export-symbols", "exp") \o Apart("-o", "q") \o Word_("rlib1")
             \o Apart("-L", "dir"),
           <<[opt |-> "@", val |-> Joined("-L", "dir") \o Apart("--cpu", "v2")
                                     \o Word_("obj") \o Word_("gone")]>>
             \o Word_("so") \o Word_("rlib1") \o Joined("--cpu", "v3") \o Apart("-o", "q")
             \o Apart("--export-symbols", "exp")}

MCLines == [argv : PLines, request : {P}] \cup [argv : QLines, request : {Q}]
=============================================================================
