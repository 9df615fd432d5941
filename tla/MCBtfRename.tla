---------------------------- MODULE MCBtfRename ------------------------------
(* Small objects for BtfRename: a first type of every kind, then two that  *)
(* are renamed or not.                                                     *)
EXTENDS BtfRename

(* By their offsets: the empty string, a Rust integer, a C integer, a      *)
(* valid name, two generic types that sanitising makes one.                *)
MCStrings ==
  [o \in {0, 1, 4, 8, 10, 14} |->
     CASE o = 0  -> << >>
       [] o = 1  -> <<"u", "1">>
       [] o = 4  -> <<"a", " ", "u">>
       [] o = 8  -> <<"a">>
       [] o = 10 -> <<"a", "<", "1">>
       [] OTHER  -> <<"a", " ", "1">>]

MCRename == [n \in {<<"u", "1">>} |-> <<"a", " ", "a", " ", "a">>]

T(kind, vlen, name) == [kind |-> kind, vlen |-> vlen, name |-> name]

FirstTypes == {T(k, v, n) : k \in 1..19, v \in {0, 1, 3}, n \in {0, 1, 8, 10}}
LaterTypes == {T(1, 0, 1), T(1, 0, 4), T(4, 2, 10), T(4, 1, 14), T(8, 0, 8), T(15, 1, 10)}

Object(a, b, c, slack, align) ==
  LET pb == SizeOf(a)
      pc == pb + SizeOf(b)
      len == pc + SizeOf(c)
      size == 24 + len + 18 + slack
  IN  [types |-> [p \in {0, pb, pc} |-> CASE p = 0 -> a [] p = pb -> b [] OTHER -> c],
       typeLen |-> len, strings |-> MCStrings, strLen |-> 18, slack |-> slack,
       align |-> align, len |-> 72 + size + 129,
       parts |-> [n \in {".text", ".BTF", "shdrs"} |->
                    CASE n = ".text" -> [off |-> 64, size |-> 7]
                      [] n = ".BTF"  -> [off |-> 72, size |-> size]
                      [] OTHER       -> [off |-> 72 + size, size |-> 129]]]

MCObjects ==
  {Object(a, b, c, 0, 4) : a \in FirstTypes, b \in LaterTypes, c \in LaterTypes}
  \cup {Object(T(2, 0, 0), b, c, slack, align) :
          b \in LaterTypes, c \in LaterTypes, slack \in {0, 3}, align \in {1, 8}}
=============================================================================
