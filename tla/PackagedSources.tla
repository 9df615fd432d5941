--------------------------- MODULE PackagedSources ---------------------------
(***************************************************************************)
(* src/lib.rs, module build (feature build-support): the sources that      *)
(* build.rs archived are part of the library, and a consumer's build       *)
(* script extracts them below its own OUT_DIR.  A tree is a function from  *)
(* its files to their versions.  Every file operation may fail, and leaves *)
(* what it has done; a later extract starts from there.                    *)
(***************************************************************************)
EXTENDS Naturals

CONSTANTS
  NoTree,     \* there is no such directory, or no archive yet
  CutFile     \* a file of which only a part was written

VARIABLES
  embedded,   \* BPF_ARCHIVE: the tree in the library
  tree,       \* <out_dir>/libarena-rs
  step        \* where extract() is: "remove", "create", "unpack", "Ok", "Err"

sources_vars == <<embedded, tree, step>>

Extracting == step \notin {"Ok", "Err"}

\* The library is compiled: include_bytes! takes the archive in.
Embed(archive) ==
  /\ ~Extracting
  /\ embedded' = archive
  /\ step' = "remove"
  /\ UNCHANGED tree

\* remove_dir_all; that there is none is no error.
\* (Slip: the old files are left to be overwritten.)
KeepOld(t) == t
Removed(t) == NoTree

RemoveTree ==
  /\ step = "remove"
  /\ tree' = Removed(tree)
  /\ step' = "create"
  /\ UNCHANGED embedded

CreateRoot ==
  /\ step = "create"
  /\ tree' = IF tree = NoTree THEN << >> ELSE tree
  /\ step' = "unpack"
  /\ UNCHANGED embedded

With(t, f, content) == [g \in DOMAIN t \cup {f} |-> IF g = f THEN content ELSE t[g]]

\* tar's unpack, file by file, in the archive's order (any here).
Unpacked == {f \in DOMAIN embedded \cap DOMAIN tree : tree[f] = embedded[f]}

Unpack ==
  /\ step = "unpack"
  /\ \E f \in DOMAIN embedded \ Unpacked : tree' = With(tree, f, embedded[f])
  /\ UNCHANGED <<embedded, step>>

Unpacks ==
  /\ step = "unpack"
  /\ Unpacked = DOMAIN embedded
  /\ step' = "Ok"
  /\ UNCHANGED <<embedded, tree>>

\* An error: part of the old tree is still there, or part of a file.
ExtractFails ==
  /\ Extracting
  /\ step' = "Err"
  /\ \/ UNCHANGED tree
     \/ /\ step = "remove" /\ tree # NoTree
        /\ \E left \in SUBSET DOMAIN tree : tree' = [f \in left |-> tree[f]]
     \/ /\ step = "unpack"
        /\ \E f \in DOMAIN embedded \ Unpacked : tree' = With(tree, f, CutFile)
  /\ UNCHANGED embedded

SourcesInit == embedded = NoTree /\ tree = NoTree /\ step = "Err"

ExtractStep == RemoveTree \/ CreateRoot \/ Unpack \/ Unpacks \/ ExtractFails

\* What extract() promises its caller: the packaged tree, and nothing else.
Extracted == tree = embedded
=============================================================================
