------------------------------ MODULE BtfRename ------------------------------
(***************************************************************************)
(* linker/scripts/btf_rename.py: walk the types of an object's .BTF, give  *)
(* Rust's integers their C names and every other type name the form the    *)
(* kernel accepts, and put the grown .BTF at the end of the file.          *)
(*                                                                         *)
(* An object is a record: types by their position in the type section,     *)
(* [kind, vlen, name], name being an offset into the string table or 0;    *)
(* strings by their offset; strLen, typeLen; slack, what the blob has      *)
(* after its strings; and the file: the extents [off, size] of its parts,  *)
(* ".BTF" among them with alignment `align', and its length.               *)
(* A name is a sequence of characters of the three classes below.          *)
(***************************************************************************)
EXTENDS Integers, Sequences, FiniteSets

CONSTANTS
  Objects,    \* what llvm-objcopy may have written
  RENAME      \* from the integers' Rust names to their C names

\* Letters, digits, what identifiers do not have, and the underscores that
\* sanitising makes of it.
Letters == {"a", "u", "_"}
Digits == {"1"}
Others == {"<", " "}

INT == 1
DATASEC == 15
DECL_TAG == 17

Names == Seq(Letters \cup Digits \cup Others)

\* The kernel's layout (uapi/linux/btf.h): struct btf_type, then one u32 of an
\* integer, variable or tag, a btf_array, a btf_member, btf_var_secinfo or
\* btf_enum64 each, a btf_enum or btf_param each.
SizeOf(t) ==
  12 + CASE t.kind \in {1, 14, 17}    -> 4
         [] t.kind = 3                -> 12
         [] t.kind \in {4, 5, 15, 19} -> 12 * t.vlen
         [] t.kind \in {6, 13}        -> 8 * t.vlen
         [] OTHER                     -> 0

Apart(x, y) == x.off + x.size <= y.off \/ y.off + y.size <= x.off

\* What llc and llvm-objcopy write: types of the known kinds one behind the
\* other, their names in a table of strings that do not overlap, and .BTF in
\* its place in the file.  No name that is sanitised is empty or starts with a
\* digit: none is a type's name in Rust or C.
TypesGiven(o) ==
  /\ DOMAIN o.types \subseteq Nat /\ o.typeLen \in Nat
  /\ 0 \in DOMAIN o.types \cup {o.typeLen}
  /\ \A p \in DOMAIN o.types :
       /\ o.types[p] \in [kind : 1 .. 19, vlen : Nat, name : DOMAIN o.strings \cup {0}]
       /\ p < o.typeLen
       /\ p + SizeOf(o.types[p]) \in DOMAIN o.types \cup {o.typeLen}
       /\ \A q \in DOMAIN o.types : p < q => p + SizeOf(o.types[p]) <= q
       /\ LET n == o.strings[o.types[p].name]
          IN  o.types[p].name # 0 /\ o.types[p].kind \notin {INT, DATASEC, DECL_TAG}
                => n # << >> /\ n[1] \notin Digits

StringsGiven(o) ==
  /\ DOMAIN o.strings \subseteq Nat /\ o.strLen \in Nat
  /\ \A n \in DOMAIN o.strings :
       /\ o.strings[n] \in Names
       /\ n + Len(o.strings[n]) + 1 <= o.strLen
       /\ \A q \in DOMAIN o.strings : n < q => n + Len(o.strings[n]) + 1 <= q

FileGiven(o) ==
  /\ o.len \in Nat /\ o.align \in Nat \ {0} /\ o.slack \in Nat
  /\ \A n \in DOMAIN o.parts :
       /\ o.parts[n] \in [off : Nat, size : Nat]
       /\ o.parts[n].off + o.parts[n].size <= o.len
       /\ n # ".BTF" /\ ".BTF" \in DOMAIN o.parts => Apart(o.parts[n], o.parts[".BTF"])
  /\ ".BTF" \in DOMAIN o.parts => o.parts[".BTF"].off % o.align = 0

ASSUME ObjectsAssumption ==
  \A o \in Objects : TypesGiven(o) /\ StringsGiven(o) /\ FileGiven(o)

\* No C name of an integer is also a Rust name.
ASSUME RenameAssumption ==
  \A n \in DOMAIN RENAME : RENAME[n] \in Names /\ RENAME[n] \notin DOMAIN RENAME

VARIABLES
  at,         \* where main() is: "open", "scan", "write", "empty", "done", "died"
  given,      \* the object as it was
  types,      \* its types, names replaced so far
  pos,        \* the position of the next one
  appended,   \* the new strings, by their offsets
  grown,      \* len(new_strings)
  file        \* the parts of the file at path: extents, or none

vars == <<at, given, types, pos, appended, grown, file>>

-----------------------------------------------------------------------------
valid_ident(n) ==
  /\ n # << >>
  /\ n[1] \in Letters
  /\ \A i \in DOMAIN n : n[i] \in Letters \cup Digits

Sanitised(n) == [i \in DOMAIN n |-> IF n[i] \in Others THEN "_" ELSE n[i]]

\* Kinds whose names keep what an identifier may not have.
\* (Slip: section names are sanitised too.)
NoSections == {DECL_TAG, INT}
Exempt == {DATASEC, DECL_TAG, INT}

\* Whether a type of this kind and name gets another, and which.
Touched(kind, n) ==
  IF kind = INT THEN n \in DOMAIN RENAME ELSE kind \notin Exempt /\ ~valid_ident(n)
NewName(kind, n) == IF kind = INT THEN RENAME[n] ELSE Sanitised(n)

\* What follows the twelve bytes of a type: FIXED_EXTRA, PER_VLEN.
\* (Slip: enumerators are as long as members.)
FIXED_EXTRA == [k \in {1, 2, 3, 7, 8, 9, 10, 11, 12, 14, 16, 17, 18} |->
                  CASE k \in {1, 14, 17} -> 4 [] k = 3 -> 12 [] OTHER -> 0]
EnumAsStruct == [k \in {4, 5, 6, 13, 15, 19} |-> IF k = 13 THEN 8 ELSE 12]
PER_VLEN == [k \in {4, 5, 6, 13, 15, 19} |-> IF k \in {6, 13} THEN 8 ELSE 12]

Extra(t) == IF t.kind \in DOMAIN FIXED_EXTRA THEN FIXED_EXTRA[t.kind]
            ELSE t.vlen * PER_VLEN[t.kind]

\* The offset of n among the new strings, and the bytes it adds.
\* (Slips: the terminating zero, or the whole string, is not counted.)
Interned(n) == {o \in DOMAIN appended : appended[o] = n}
BytesUnterminated(n) == Len(n)
BytesUncounted(n) == 0
Bytes(n) == Len(n) + 1

-----------------------------------------------------------------------------
\* Find .BTF and check its magic number, or raise.
Open ==
  /\ at = "open"
  /\ ".BTF" \in DOMAIN file
  /\ at' = "scan"
  /\ UNCHANGED <<given, types, pos, appended, grown, file>>

\* One type of the walk.
Scan ==
  /\ at = "scan" /\ pos < given.typeLen
  /\ LET t == types[pos]
         old == given.strings[t.name]
         new == NewName(t.kind, old)
         o == IF Interned(new) = {} THEN given.strLen + grown
              ELSE CHOOSE x \in Interned(new) : TRUE
     IN  /\ pos' = pos + 12 + Extra(t)
         /\ IF t.name # 0 /\ Touched(t.kind, old)
            THEN /\ types' = [types EXCEPT ![pos].name = o]
                 /\ appended' = [x \in DOMAIN appended \cup {o} |->
                                   IF x = o THEN new ELSE appended[x]]
                 /\ grown' = IF Interned(new) = {} THEN grown + Bytes(new) ELSE grown
            ELSE UNCHANGED <<types, appended, grown>>
  /\ UNCHANGED <<at, given, file>>

\* Nothing to rename, or the blob ends with its strings as asserted.
Finish ==
  /\ at = "scan" /\ pos >= given.typeLen
  /\ \/ appended = << >> /\ at' = "done"
     \/ appended # << >> /\ given.slack = 0 /\ at' = "write"
  /\ UNCHANGED <<given, types, pos, appended, grown, file>>

\* open(path, "wb") empties the file.
Truncate ==
  /\ at = "write"
  /\ file' = << >>
  /\ at' = "empty"
  /\ UNCHANGED <<given, types, pos, appended, grown>>

\* The payload goes to the end, aligned; its section header follows it.
\* (Slip: it is not aligned.)
Unaligned(o) == o.len
NewOffset(o) == o.len + ((-o.len) % o.align)

Write ==
  /\ at = "empty"
  /\ file' = [given.parts EXCEPT ![".BTF"] =
                [off |-> NewOffset(given), size |-> @.size + grown]]
  /\ at' = "done"
  /\ UNCHANGED <<given, types, pos, appended, grown>>

\* An exception, or the process is killed.
Die ==
  /\ at \notin {"done", "died"}
  /\ at' = "died"
  /\ UNCHANGED <<given, types, pos, appended, grown, file>>

Init ==
  /\ at = "open"
  /\ given \in Objects
  /\ types = given.types
  /\ pos = 0
  /\ appended = << >>
  /\ grown = 0
  /\ file = given.parts

Next == Open \/ Scan \/ Finish \/ Truncate \/ Write \/ Die

Spec == Init /\ [][Next]_vars

-----------------------------------------------------------------------------
\* The string table as the loader finds it.
Strings == [o \in DOMAIN given.strings \cup DOMAIN appended |->
              IF o \in DOMAIN appended THEN appended[o] ELSE given.strings[o]]

\* Types: every name is a string of the table, the new ones behind the old.
TypeOK ==
  /\ at \in {"open", "scan", "write", "empty", "done", "died"}
  /\ DOMAIN types = DOMAIN given.types
  /\ \A p \in DOMAIN types : types[p].name = 0 \/ types[p].name \in DOMAIN Strings
  /\ DOMAIN appended \subseteq given.strLen .. given.strLen + grown - 1
  /\ grown \in Nat

(***************************************************************************)
(* The walk stays in step with the kernel's layout of the types            *)
(* (struct btf_type and what follows it, uapi/linux/btf.h): it stops at    *)
(* every type and nowhere else, whatever kinds and vlens come first.       *)
(***************************************************************************)
WalkInStep == pos \in DOMAIN given.types \cup {given.typeLen}

(***************************************************************************)
(* "Offsets of existing strings never change" (btf_rename.py:13): no byte  *)
(* of the table belongs to two strings, each ends with a zero of its own,  *)
(* and the table is exactly as long as its header will say.                *)
(***************************************************************************)
StringsApart ==
  /\ \A o, q \in DOMAIN Strings : o < q => o + Len(Strings[o]) + 1 <= q
  /\ \A o \in DOMAIN Strings : o + Len(Strings[o]) + 1 <= given.strLen + grown

(***************************************************************************)
(* The kernel takes the whole of .BTF or none of it: when the script is    *)
(* done every type name it checks is an identifier, no integer has a Rust  *)
(* name, section names and tags are as they were, and a name that was      *)
(* valid has not been touched.                                             *)
(***************************************************************************)
NamesAccepted ==
  at = "done" =>
    \A p \in DOMAIN types : given.types[p].name # 0 =>
      LET k == types[p].kind
          old == given.strings[given.types[p].name]
          new == Strings[types[p].name]
      IN  /\ k = INT => new \notin DOMAIN RENAME
          /\ k \in {DATASEC, DECL_TAG} => new = old
          /\ k \notin {INT, DATASEC, DECL_TAG} => valid_ident(new)
          /\ k # INT /\ valid_ident(old) => types[p] = given.types[p]

(***************************************************************************)
(* The finished file is an object again: .BTF lies behind everything else, *)
(* aligned and as long as its strings have grown, and no other part has    *)
(* moved or lost a byte.  Until it is opened for writing it is untouched.  *)
(***************************************************************************)
FileIntact ==
  /\ at \in {"open", "scan", "write"} => file = given.parts
  /\ at = "done" =>
       /\ DOMAIN file = DOMAIN given.parts
       /\ \A n \in DOMAIN file \ {".BTF"} : file[n] = given.parts[n]
       /\ \A n \in DOMAIN file \ {".BTF"} : Apart(file[n], file[".BTF"])
       /\ file[".BTF"].off % given.align = 0
       /\ file[".BTF"].size = given.parts[".BTF"].size + grown
=============================================================================
