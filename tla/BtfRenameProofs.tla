--------------------------- MODULE BtfRenameProofs ---------------------------
(***************************************************************************)
(* Proofs about BtfRename, for any objects laid out as the module assumes  *)
(* and any table of integer names.                                         *)
(***************************************************************************)
EXTENDS BtfRename, SequenceTheorems, TLAPS

-----------------------------------------------------------------------------
(* The tables and the names.                                               *)

Types(o) == [kind : 1 .. 19, vlen : Nat, name : DOMAIN o.strings \cup {0}]

\* FIXED_EXTRA and PER_VLEN are the kernel's layout, kind by kind.
LEMMA TablesRight ==
  ASSUME NEW t, t.kind \in 1 .. 19, t.vlen \in Nat
  PROVE  12 + Extra(t) = SizeOf(t) /\ SizeOf(t) \in Nat /\ SizeOf(t) > 0
<1>1. CASE t.kind \in {1, 2, 3, 7, 8, 9, 10, 11, 12, 14, 16, 17, 18}
  <2>1. Extra(t) = FIXED_EXTRA[t.kind]
    BY <1>1 DEF Extra, FIXED_EXTRA
  <2>2. FIXED_EXTRA[t.kind] = CASE t.kind \in {1, 14, 17} -> 4 [] t.kind = 3 -> 12 [] OTHER -> 0
    BY <1>1 DEF FIXED_EXTRA
  <2>3. CASE t.kind \in {1, 14, 17}
    BY <2>1, <2>2, <2>3 DEF SizeOf
  <2>4. CASE t.kind = 3
    BY <2>1, <2>2, <2>4 DEF SizeOf
  <2>5. CASE t.kind \in {2, 7, 8, 9, 10, 11, 12, 16, 18}
    BY <2>1, <2>2, <2>5 DEF SizeOf
  <2> QED BY <1>1, <2>3, <2>4, <2>5
<1>2. CASE t.kind \in {4, 5, 6, 13, 15, 19}
  <2>1. t.kind \notin DOMAIN FIXED_EXTRA
    BY <1>2 DEF FIXED_EXTRA
  <2>2. Extra(t) = t.vlen * PER_VLEN[t.kind]
    BY <2>1 DEF Extra
  <2>3. PER_VLEN[t.kind] = IF t.kind \in {6, 13} THEN 8 ELSE 12
    BY <1>2 DEF PER_VLEN
  <2>4. CASE t.kind \in {6, 13}
    <3>1. Extra(t) = t.vlen * 8
      BY <2>2, <2>3, <2>4
    <3> QED BY <2>4, <3>1 DEF SizeOf
  <2>5. CASE t.kind \in {4, 5, 15, 19}
    <3>1. Extra(t) = t.vlen * 12
      BY <2>2, <2>3, <2>5
    <3> QED BY <2>5, <3>1 DEF SizeOf
  <2> QED BY <1>2, <2>4, <2>5
<1> QED BY <1>1, <1>2

\* A sanitised name is an identifier unless it is empty or starts with a digit.
LEMMA SanitisedValid ==
  ASSUME NEW n \in Names
  PROVE  /\ Sanitised(n) \in Names
         /\ n # << >> /\ n[1] \notin Digits => valid_ident(Sanitised(n))
<1> DEFINE C == Letters \cup Digits \cup Others
<1>1. n \in Seq(C)
  BY DEF Names
<1>2. "_" \in Letters
  BY DEF Letters
<1> HIDE DEF C
<1> DEFINE k == Len(n)
           s == Sanitised(n)
<1>3. k \in Nat /\ DOMAIN n = 1 .. k /\ \A i \in 1 .. k : n[i] \in C
  BY <1>1
<1>4. s = [i \in 1 .. k |-> IF n[i] \in Others THEN "_" ELSE n[i]]
  BY <1>3 DEF Sanitised
<1>5. \A i \in 1 .. k : s[i] \in Letters \cup Digits /\ (n[i] \notin Digits => s[i] \in Letters)
  BY <1>2, <1>3, <1>4 DEF C
<1>6. s \in Seq(C)
  <2>1. s \in [1 .. k -> C]
    BY <1>4, <1>5 DEF C
  <2> QED BY <1>3, <2>1, SeqDef
<1>7. ASSUME n # << >>, n[1] \notin Digits PROVE valid_ident(s)
  <2>1. 1 \in 1 .. k
    BY <1>1, <1>3, <1>7
  <2>2. DOMAIN s = 1 .. k
    BY <1>4
  <2>3. s # << >>
    BY <2>1, <2>2
  <2> QED BY <1>5, <1>7, <2>1, <2>2, <2>3 DEF valid_ident
<1> QED BY <1>6, <1>7 DEF Names, C

LEMMA Multiple ==
  ASSUME NEW a \in Nat \ {0}, NEW q \in Int
  PROVE  (a * q) % a = 0
OBVIOUS

\* The new place of .BTF is behind the file and aligned.
LEMMA PlaceRight ==
  ASSUME NEW o, o.len \in Nat, o.align \in Nat \ {0}
  PROVE  NewOffset(o) \in Nat /\ NewOffset(o) >= o.len /\ NewOffset(o) % o.align = 0
<1> DEFINE l == o.len
           a == o.align
           q == (-l) \div a
           r == (-l) % a
<1>1. l \in Nat /\ a \in Nat \ {0}
  OBVIOUS
<1> HIDE DEF l, a
<1>2. r \in 0 .. (a - 1) /\ -l = a * q + r /\ q \in Int
  BY <1>1
<1>3. NewOffset(o) = l + r
  BY DEF NewOffset, l, a
<1> HIDE DEF q, r
<1>4. PICK z \in Int : z = -q
  BY <1>2
<1>5. a * q \in Int /\ a * z = -(a * q)
  BY <1>1, <1>2, <1>4
<1>6. l + r = a * z /\ l + r \in Nat /\ l + r >= l
  BY <1>1, <1>2, <1>5
<1>7. (a * z) % a = 0
  BY <1>1, Multiple
<1> QED BY <1>3, <1>6, <1>7 DEF l, a

-----------------------------------------------------------------------------
(* The inductive invariant.                                                *)

\* What the walk has made of type t: u, over the strings ap that it added.
Renamed(t, u, strings, ap) ==
  IF t.name # 0 /\ Touched(t.kind, strings[t.name])
  THEN /\ u = [t EXCEPT !.name = u.name]
       /\ u.name \in DOMAIN ap
       /\ ap[u.name] = NewName(t.kind, strings[t.name])
  ELSE u = t

Walked(o, ty, p, ap) ==
  /\ DOMAIN ty = DOMAIN o.types
  /\ p \in DOMAIN o.types \cup {o.typeLen}
  /\ \A x \in DOMAIN ty : IF x < p THEN Renamed(o.types[x], ty[x], o.strings, ap)
                          ELSE ty[x] = o.types[x]

Table(o, ap, g) ==
  /\ g \in Nat
  /\ \A n \in DOMAIN ap :
       /\ n \in Nat /\ ap[n] \in Names
       /\ o.strLen <= n /\ n + Len(ap[n]) + 1 <= o.strLen + g
       /\ \A q \in DOMAIN ap : n < q => n + Len(ap[n]) + 1 <= q
  /\ ap = << >> => g = 0

Grown(o, g) ==
  [o.parts EXCEPT ![".BTF"] = [off |-> NewOffset(o), size |-> @.size + g]]

FileAt(o, a, f, g) ==
  /\ a # "open" /\ a # "died" => ".BTF" \in DOMAIN o.parts
  /\ a \in {"open", "scan", "write"} => f = o.parts
  /\ a = "done" => f = Grown(o, g) \/ (f = o.parts /\ g = 0)

IInv ==
  /\ given \in Objects
  /\ at \in {"open", "scan", "write", "empty", "done", "died"}
  /\ Walked(given, types, pos, appended)
  /\ Table(given, appended, grown)
  /\ at \in {"write", "empty", "done"} => pos = given.typeLen
  /\ FileAt(given, at, file, grown)

-----------------------------------------------------------------------------
(* The walk.                                                               *)

\* Interning a name gives it a place of its own behind the others, or the
\* place it has; no string moves.
LEMMA InternRight ==
  ASSUME NEW o, o.strLen \in Nat, NEW ap, NEW g, Table(o, ap, g), NEW new \in Names,
         NEW n, NEW ap2, NEW g2,
         \/ n = o.strLen + g /\ g2 = g + Bytes(new)
         \/ n \in DOMAIN ap /\ ap[n] = new /\ g2 = g,
         DOMAIN ap2 = DOMAIN ap \cup {n},
         \A x \in DOMAIN ap2 : ap2[x] = IF x = n THEN new ELSE ap[x]
  PROVE  Table(o, ap2, g2) /\ n \in DOMAIN ap2 /\ \A x \in DOMAIN ap : ap2[x] = ap[x]
<1>1. Len(new) \in Nat /\ Bytes(new) = Len(new) + 1
  BY DEF Names, Bytes
<1>2. \A x \in DOMAIN ap : Len(ap[x]) \in Nat
  BY DEF Table, Names
<1>3. ap2 # << >>
  <2>1. DOMAIN << >> = {}
    OBVIOUS
  <2> QED BY <2>1
<1>4. CASE n = o.strLen + g /\ g2 = g + Bytes(new)
  <2>1. n \in Nat /\ g2 \in Nat /\ g2 = g + Len(new) + 1
    BY <1>1, <1>4 DEF Table
  <2>2. \A x \in DOMAIN ap : /\ x \in Nat /\ ap[x] \in Names
                             /\ o.strLen <= x /\ x + Len(ap[x]) + 1 <= n
                             /\ x < n
                             /\ \A q \in DOMAIN ap : x < q => x + Len(ap[x]) + 1 <= q
    BY <1>2, <1>4 DEF Table
  <2>3. \A x \in DOMAIN ap2 :
          /\ x \in Nat /\ ap2[x] \in Names
          /\ o.strLen <= x /\ x + Len(ap2[x]) + 1 <= o.strLen + g2
          /\ \A q \in DOMAIN ap2 : x < q => x + Len(ap2[x]) + 1 <= q
    <3>1. /\ ap2[n] = new /\ n \notin DOMAIN ap
          /\ n + Len(new) + 1 = o.strLen + g2 /\ o.strLen <= n
      BY <1>1, <1>4, <2>1, <2>2 DEF Table
    <3>2. ASSUME NEW x \in DOMAIN ap
          PROVE  /\ x \in Nat /\ ap2[x] \in Names
                 /\ o.strLen <= x /\ x + Len(ap2[x]) + 1 <= o.strLen + g2
                 /\ \A q \in DOMAIN ap2 : x < q => x + Len(ap2[x]) + 1 <= q
      <4>1. ap2[x] = ap[x]
        BY <3>1
      <4>2. x + Len(ap[x]) + 1 <= n /\ n <= o.strLen + g2
        BY <1>1, <2>1, <2>2, <3>1
      <4> QED BY <1>2, <2>1, <2>2, <4>1, <4>2
    <3>3. \A q \in DOMAIN ap2 : ~(n < q)
      BY <2>1, <2>2
    <3> QED BY <1>1, <2>1, <3>1, <3>2, <3>3
  <2>4. \A x \in DOMAIN ap : ap2[x] = ap[x]
    BY <2>1, <2>2
  <2> QED BY <1>3, <2>1, <2>3, <2>4 DEF Table
<1>5. CASE n \in DOMAIN ap /\ ap[n] = new /\ g2 = g
  <2>1. DOMAIN ap2 = DOMAIN ap /\ \A x \in DOMAIN ap : ap2[x] = ap[x]
    BY <1>5
  <2> QED BY <1>3, <1>5, <2>1 DEF Table
<1> QED BY <1>4, <1>5

\* What the walk has done stays done when strings are added.
LEMMA RenamedStays ==
  ASSUME NEW t, NEW u, NEW strings, NEW ap, NEW ap2, Renamed(t, u, strings, ap),
         DOMAIN ap \subseteq DOMAIN ap2, \A x \in DOMAIN ap : ap2[x] = ap[x]
  PROVE  Renamed(t, u, strings, ap2)
BY DEF Renamed

\* One type further: the next position is the next type's, and no type lies
\* between the two.
LEMMA WalkRight ==
  ASSUME NEW o, TypesGiven(o), NEW ty, NEW p, NEW ap, Walked(o, ty, p, ap),
         p \in DOMAIN o.types, NEW ty2, NEW ap2,
         DOMAIN ap \subseteq DOMAIN ap2, \A x \in DOMAIN ap : ap2[x] = ap[x],
         DOMAIN ty2 = DOMAIN ty, \A x \in DOMAIN ty : x # p => ty2[x] = ty[x],
         Renamed(o.types[p], ty2[p], o.strings, ap2)
  PROVE  Walked(o, ty2, p + 12 + Extra(o.types[p]), ap2)
<1> DEFINE t == o.types[p]
           r == p + 12 + Extra(t)
<1>1. t \in Types(o) /\ p \in Nat
  BY DEF TypesGiven, Types
<1>2. 12 + Extra(t) = SizeOf(t) /\ SizeOf(t) \in Nat /\ SizeOf(t) > 0
  BY <1>1, TablesRight DEF Types
<1>3. Extra(t) \in Int
  <2>1. t.kind \in 1 .. 19 /\ t.vlen \in Nat
    BY <1>1 DEF Types
  <2> QED BY <2>1 DEF Extra, FIXED_EXTRA, PER_VLEN
<1>4. r = p + SizeOf(t)
  BY <1>1, <1>2, <1>3
<1> HIDE DEF r, t
<1>5. r \in DOMAIN o.types \cup {o.typeLen}
  BY <1>4 DEF TypesGiven, t
<1>6. \A q \in DOMAIN o.types : q \in Nat /\ (p < q => r <= q)
  BY <1>4 DEF TypesGiven, t
<1>7. r \in Nat /\ p < r
  BY <1>1, <1>2, <1>4
<1>8. ASSUME NEW x \in DOMAIN o.types
      PROVE  IF x < r THEN Renamed(o.types[x], ty2[x], o.strings, ap2)
             ELSE ty2[x] = o.types[x]
  <2>1. CASE x < p
    <3>1. Renamed(o.types[x], ty[x], o.strings, ap) /\ ty2[x] = ty[x] /\ x < r
      BY <1>1, <1>6, <1>7, <2>1 DEF Walked
    <3> QED BY <3>1, RenamedStays
  <2>2. CASE x = p
    BY <1>7, <2>2
  <2>3. CASE p < x
    <3>1. ~(x < r) /\ x # p /\ ~(x < p)
      BY <1>1, <1>6, <1>7, <2>3
    <3> QED BY <3>1 DEF Walked
  <2> QED BY <1>1, <1>6, <2>1, <2>2, <2>3
<1> QED BY <1>5, <1>8 DEF Walked, r, t

LEMMA NewNameRight ==
  ASSUME NEW o \in Objects, NEW p \in DOMAIN o.types, o.types[p].name # 0,
         Touched(o.types[p].kind, o.strings[o.types[p].name])
  PROVE  NewName(o.types[p].kind, o.strings[o.types[p].name]) \in Names
<1> DEFINE t == o.types[p]
           old == o.strings[t.name]
<1>1. old \in Names
  <2>1. t \in Types(o)
    BY ObjectsAssumption DEF TypesGiven, Types
  <2>2. t.name \in DOMAIN o.strings
    BY <2>1 DEF Types
  <2> QED BY <2>2, ObjectsAssumption DEF StringsGiven
<1>2. CASE t.kind = INT
  <2>1. old \in DOMAIN RENAME
    BY <1>2 DEF Touched
  <2> QED BY <1>2, <2>1, RenameAssumption DEF NewName
<1>3. CASE t.kind # INT
  BY <1>1, <1>3, SanitisedValid DEF NewName
<1> QED BY <1>2, <1>3

\* One type of the walk, with its new name interned at n.
LEMMA RenameRight ==
  ASSUME NEW o, TypesGiven(o), StringsGiven(o),
         NEW ty, NEW p, NEW ap, NEW g, Walked(o, ty, p, ap), Table(o, ap, g),
         p \in DOMAIN o.types, NEW t, t = o.types[p],
         t.name # 0, Touched(t.kind, o.strings[t.name]),
         NEW new \in Names, new = NewName(t.kind, o.strings[t.name]),
         NEW n, NEW ty2, NEW ap2, NEW g2,
         \/ n = o.strLen + g /\ g2 = g + Bytes(new)
         \/ n \in DOMAIN ap /\ ap[n] = new /\ g2 = g,
         DOMAIN ap2 = DOMAIN ap \cup {n},
         \A x \in DOMAIN ap2 : ap2[x] = IF x = n THEN new ELSE ap[x],
         DOMAIN ty2 = DOMAIN ty, \A x \in DOMAIN ty : x # p => ty2[x] = ty[x],
         ty2[p] = [t EXCEPT !.name = n]
  PROVE  Walked(o, ty2, p + 12 + Extra(t), ap2) /\ Table(o, ap2, g2)
<1>1. o.strLen \in Nat
  BY DEF StringsGiven
<1>2. Table(o, ap2, g2) /\ n \in DOMAIN ap2 /\ \A x \in DOMAIN ap : ap2[x] = ap[x]
  BY <1>1, InternRight
<1>3. ty2[p].name = n
  <2>1. t \in Types(o)
    BY DEF TypesGiven, Types
  <2> QED BY <2>1 DEF Types
<1>4. ap2[n] = new
  OBVIOUS
<1>5. Renamed(t, ty2[p], o.strings, ap2)
  BY <1>2, <1>3, <1>4 DEF Renamed
<1>6. DOMAIN ap \subseteq DOMAIN ap2
  OBVIOUS
<1>7. Walked(o, ty2, p + 12 + Extra(o.types[p]), ap2)
  BY <1>2, <1>5, <1>6, WalkRight
<1> QED BY <1>2, <1>7

LEMMA ScanStep ==
  ASSUME IInv, Scan PROVE IInv'
<1> DEFINE t == types[pos]
           old == given.strings[t.name]
           new == NewName(t.kind, old)
           n == IF Interned(new) = {} THEN given.strLen + grown
                ELSE CHOOSE x \in Interned(new) : TRUE
<1>1. /\ at = "scan" /\ pos < given.typeLen /\ given \in Objects
      /\ Walked(given, types, pos, appended) /\ Table(given, appended, grown)
      /\ TypesGiven(given) /\ StringsGiven(given)
  BY ObjectsAssumption DEF Scan, IInv
<1>2. pos \in DOMAIN given.types /\ pos \in Nat
  <2>1. pos \in DOMAIN given.types \cup {given.typeLen} /\ given.typeLen \in Nat
    BY <1>1 DEF Walked, TypesGiven
  <2> QED BY <1>1, <2>1 DEF TypesGiven
<1>3. t = given.types[pos] /\ pos \in DOMAIN types
  <2>1. ~(pos < pos)
    BY <1>2
  <2> QED BY <1>1, <1>2, <2>1 DEF Walked
<1>4. /\ pos' = pos + 12 + Extra(t)
      /\ IF t.name # 0 /\ Touched(t.kind, old)
         THEN /\ types' = [types EXCEPT ![pos].name = n]
              /\ appended' = [x \in DOMAIN appended \cup {n} |-> IF x = n THEN new ELSE appended[x]]
              /\ grown' = IF Interned(new) = {} THEN grown + Bytes(new) ELSE grown
         ELSE UNCHANGED <<types, appended, grown>>
      /\ UNCHANGED <<at, given, file>>
  BY DEF Scan
<1>5. FileAt(given, at, file, grown)'
  BY <1>1, <1>4 DEF IInv, FileAt
<1>6. CASE ~(t.name # 0 /\ Touched(t.kind, old))
  <2>1. UNCHANGED <<types, appended, grown>>
    BY <1>4, <1>6
  <2>2. Renamed(given.types[pos], types[pos], given.strings, appended)
    BY <1>3, <1>6 DEF Renamed
  <2>3. Walked(given, types, pos + 12 + Extra(given.types[pos]), appended)
    BY <1>1, <1>2, <2>2, WalkRight
  <2> QED BY <1>1, <1>3, <1>4, <1>5, <2>1, <2>3 DEF IInv
<1>7. CASE t.name # 0 /\ Touched(t.kind, old)
  <2>1. new \in Names
    BY <1>1, <1>2, <1>3, <1>7, NewNameRight
  <2>2. \/ n = given.strLen + grown /\ grown' = grown + Bytes(new)
        \/ n \in DOMAIN appended /\ appended[n] = new /\ grown' = grown
    <3>1. CASE Interned(new) = {}
      BY <1>4, <1>7, <3>1
    <3>2. CASE Interned(new) # {}
      <4>1. n \in Interned(new) /\ grown' = grown
        BY <1>4, <1>7, <3>2
      <4> QED BY <4>1 DEF Interned
    <3> QED BY <3>1, <3>2
  <2>3. types' = [types EXCEPT ![pos].name = n]
    BY <1>4, <1>7
  <2>4. appended' = [x \in DOMAIN appended \cup {n} |-> IF x = n THEN new ELSE appended[x]]
    BY <1>4, <1>7
  <2>5. new = NewName(t.kind, given.strings[t.name]) /\ Touched(t.kind, given.strings[t.name])
        /\ t.name # 0 /\ pos' = pos + 12 + Extra(t)
    BY <1>4, <1>7
  <2> HIDE DEF n, new
  <2>6. /\ DOMAIN appended' = DOMAIN appended \cup {n}
        /\ \A x \in DOMAIN appended' : appended'[x] = IF x = n THEN new ELSE appended[x]
    BY <2>4
  <2>7. /\ DOMAIN types' = DOMAIN types
        /\ \A x \in DOMAIN types : x # pos => types'[x] = types[x]
        /\ types'[pos] = [t EXCEPT !.name = n]
    BY <1>3, <2>3
  <2> HIDE DEF t
  <2>8. Walked(given, types', pos + 12 + Extra(t), appended') /\ Table(given, appended', grown')
    BY <1>1, <1>2, <1>3, <2>1, <2>2, <2>5, <2>6, <2>7, RenameRight
  <2> QED BY <1>1, <1>4, <1>5, <2>5, <2>8 DEF IInv
<1> QED BY <1>6, <1>7

-----------------------------------------------------------------------------
(* The invariant is one.                                                   *)

THEOREM Invariance == Spec => []IInv
<1>1. Init => IInv
  <2> SUFFICES ASSUME Init PROVE IInv
    OBVIOUS
  <2>1. /\ given \in Objects /\ types = given.types /\ pos = 0 /\ appended = << >>
        /\ grown = 0 /\ file = given.parts /\ at = "open"
    BY DEF Init
  <2>2. TypesGiven(given)
    BY <2>1, ObjectsAssumption
  <2>3. Walked(given, types, pos, appended)
    <3>1. \A x \in DOMAIN given.types : ~(x < 0)
      BY <2>2 DEF TypesGiven
    <3> QED BY <2>1, <2>2, <3>1 DEF Walked, TypesGiven
  <2>4. Table(given, appended, grown)
    <3>1. DOMAIN appended = {}
      BY <2>1
    <3> QED BY <2>1, <3>1 DEF Table
  <2> QED BY <2>1, <2>3, <2>4 DEF IInv, FileAt
<1>2. ASSUME IInv, [Next]_vars PROVE IInv'
  <2>1. CASE Open
    BY <1>2, <2>1 DEF Open, IInv, FileAt
  <2>2. CASE Scan
    BY <1>2, <2>2, ScanStep
  <2>3. CASE Finish
    <3>1. /\ at = "scan" /\ pos >= given.typeLen
          /\ at' \in {"done", "write"} /\ (at' = "done" => appended = << >>)
          /\ UNCHANGED <<given, types, pos, appended, grown, file>>
      BY <2>3 DEF Finish
    <3>2. pos = given.typeLen
      <4>1. pos \in DOMAIN given.types \cup {given.typeLen} /\ TypesGiven(given)
        BY <1>2, ObjectsAssumption DEF IInv, Walked
      <4> QED BY <3>1, <4>1 DEF TypesGiven
    <3>3. FileAt(given, at, file, grown)'
      BY <1>2, <3>1 DEF IInv, FileAt, Table
    <3> QED BY <1>2, <3>1, <3>2, <3>3 DEF IInv
  <2>4. CASE Truncate
    BY <1>2, <2>4 DEF Truncate, IInv, FileAt
  <2>5. CASE Write
    <3>1. file' = Grown(given, grown)
      BY <2>5 DEF Write, Grown
    <3>2. FileAt(given, at, file, grown)'
      BY <1>2, <2>5, <3>1 DEF Write, IInv, FileAt
    <3> QED BY <1>2, <2>5, <3>2 DEF Write, IInv
  <2>6. CASE Die
    BY <1>2, <2>6 DEF Die, IInv, FileAt
  <2>7. CASE UNCHANGED vars
    BY <1>2, <2>7 DEF vars, IInv
  <2> QED BY <1>2, <2>1, <2>2, <2>3, <2>4, <2>5, <2>6, <2>7 DEF Next
<1> QED BY <1>1, <1>2, PTL DEF Spec

-----------------------------------------------------------------------------
(* What follows from it.                                                   *)

\* The walk stops at types, whatever kinds and lengths come first.
THEOREM StaysInStep == Spec => []WalkInStep
<1>1. IInv => WalkInStep
  BY DEF IInv, Walked, WalkInStep
<1> QED BY <1>1, Invariance, PTL

\* The strings, old and new, by their places.
LEMMA AllStrings ==
  ASSUME IInv
  PROVE  /\ TypesGiven(given) /\ StringsGiven(given) /\ FileGiven(given)
         /\ DOMAIN Strings = DOMAIN given.strings \cup DOMAIN appended
         /\ \A x \in DOMAIN given.strings : x \notin DOMAIN appended /\ Strings[x] = given.strings[x]
         /\ \A x \in DOMAIN appended : Strings[x] = appended[x]
<1>1. TypesGiven(given) /\ StringsGiven(given) /\ FileGiven(given)
  BY ObjectsAssumption DEF IInv
<1>2. ASSUME NEW x \in DOMAIN given.strings PROVE x \notin DOMAIN appended
  <2>1. x \in Nat /\ Len(given.strings[x]) \in Nat /\ x < given.strLen /\ given.strLen \in Nat
    <3>1. /\ x \in Nat /\ given.strings[x] \in Names /\ given.strLen \in Nat
          /\ x + Len(given.strings[x]) + 1 <= given.strLen
      BY <1>1 DEF StringsGiven
    <3>2. Len(given.strings[x]) \in Nat
      BY <3>1 DEF Names
    <3> QED BY <3>1, <3>2
  <2>2. x \in DOMAIN appended => given.strLen <= x
    BY DEF IInv, Table
  <2> QED BY <2>1, <2>2
<1> QED BY <1>1, <1>2 DEF Strings

\* No string overlaps another, and the table is as long as its header says.
THEOREM TableSound == Spec => []StringsApart
<1>1. ASSUME IInv, NEW x \in DOMAIN Strings
      PROVE  /\ x + Len(Strings[x]) + 1 <= given.strLen + grown
             /\ \A q \in DOMAIN Strings : x < q => x + Len(Strings[x]) + 1 <= q
  <2>1. /\ StringsGiven(given) /\ Table(given, appended, grown)
        /\ DOMAIN Strings = DOMAIN given.strings \cup DOMAIN appended
        /\ \A y \in DOMAIN given.strings : y \notin DOMAIN appended /\ Strings[y] = given.strings[y]
        /\ \A y \in DOMAIN appended : Strings[y] = appended[y]
    BY <1>1, AllStrings DEF IInv
  <2>2. grown \in Nat /\ given.strLen \in Nat
    BY <2>1 DEF Table, StringsGiven
  <2>3. CASE x \in DOMAIN given.strings
    <3>1. /\ x \in Nat /\ Len(given.strings[x]) \in Nat
          /\ x + Len(given.strings[x]) + 1 <= given.strLen
          /\ \A q \in DOMAIN given.strings : x < q => x + Len(given.strings[x]) + 1 <= q
      BY <2>1, <2>3 DEF StringsGiven, Names
    <3>2. \A q \in DOMAIN appended : q \in Nat /\ given.strLen <= q
      BY <2>1 DEF Table
    <3> QED BY <2>1, <2>2, <2>3, <3>1, <3>2
  <2>4. CASE x \in DOMAIN appended
    <3>1. /\ x \in Nat /\ Len(appended[x]) \in Nat /\ given.strLen <= x
          /\ x + Len(appended[x]) + 1 <= given.strLen + grown
          /\ \A q \in DOMAIN appended : x < q => x + Len(appended[x]) + 1 <= q
      BY <2>1, <2>4 DEF Table, Names
    <3>2. \A q \in DOMAIN given.strings : ~(x < q)
      <4>1. \A q \in DOMAIN given.strings :
              /\ q \in Nat /\ Len(given.strings[q]) \in Nat
              /\ q + Len(given.strings[q]) + 1 <= given.strLen
        BY <2>1 DEF StringsGiven, Names
      <4> QED BY <2>2, <3>1, <4>1
    <3> QED BY <2>1, <2>4, <3>1, <3>2
  <2> QED BY <2>1, <2>3, <2>4
<1>2. IInv => StringsApart
  BY <1>1 DEF StringsApart
<1> QED BY <1>2, Invariance, PTL

\* Types: every name is a string of the table.
THEOREM TypeCorrect == Spec => []TypeOK
<1>1. ASSUME IInv PROVE TypeOK
  <2>1. /\ TypesGiven(given) /\ Table(given, appended, grown) /\ Walked(given, types, pos, appended)
        /\ DOMAIN Strings = DOMAIN given.strings \cup DOMAIN appended
        /\ given.strLen \in Nat
    BY <1>1, AllStrings DEF IInv, StringsGiven
  <2>2. ASSUME NEW p \in DOMAIN types PROVE types[p].name = 0 \/ types[p].name \in DOMAIN Strings
    <3>1. given.types[p].name \in DOMAIN given.strings \cup {0}
      BY <2>1 DEF Walked, TypesGiven
    <3>2. \/ types[p] = given.types[p]
          \/ types[p].name \in DOMAIN appended
      BY <2>1 DEF Walked, Renamed
    <3> QED BY <2>1, <3>1, <3>2
  <2>3. ASSUME NEW x \in DOMAIN appended PROVE x \in given.strLen .. given.strLen + grown - 1
    <3>1. /\ x \in Nat /\ appended[x] \in Names /\ given.strLen <= x /\ grown \in Nat
          /\ x + Len(appended[x]) + 1 <= given.strLen + grown
      BY <2>1 DEF Table
    <3>2. Len(appended[x]) \in Nat
      BY <3>1 DEF Names
    <3> QED BY <2>1, <3>1, <3>2
  <2> QED BY <1>1, <2>1, <2>2, <2>3 DEF TypeOK, IInv, Walked, Table
<1> QED BY <1>1, Invariance, PTL

\* Every name the kernel checks is one it accepts, and no other was touched.
THEOREM KernelAccepts == Spec => []NamesAccepted
<1>1. ASSUME IInv, at = "done", NEW p \in DOMAIN types, given.types[p].name # 0
      PROVE  LET k == types[p].kind
                 old == given.strings[given.types[p].name]
                 new == Strings[types[p].name]
             IN  /\ k = INT => new \notin DOMAIN RENAME
                 /\ k \in {DATASEC, DECL_TAG} => new = old
                 /\ k \notin {INT, DATASEC, DECL_TAG} => valid_ident(new)
                 /\ k # INT /\ valid_ident(old) => types[p] = given.types[p]
  <2> DEFINE t == given.types[p]
             u == types[p]
             old == given.strings[t.name]
             new == Strings[u.name]
  <2>1. /\ TypesGiven(given) /\ StringsGiven(given) /\ Walked(given, types, pos, appended)
        /\ pos = given.typeLen /\ p \in DOMAIN given.types
        /\ \A x \in DOMAIN given.strings : Strings[x] = given.strings[x]
        /\ \A x \in DOMAIN appended : Strings[x] = appended[x]
    BY <1>1, AllStrings DEF IInv, Walked
  <2>2. Renamed(t, u, given.strings, appended)
    <3>1. p < pos
      BY <2>1 DEF TypesGiven
    <3> QED BY <2>1, <3>1 DEF Walked
  <2>3. t \in Types(given) /\ t.name \in DOMAIN given.strings /\ old \in Names
    BY <1>1, <2>1 DEF TypesGiven, Types, StringsGiven
  <2>4. t.kind \notin {INT, DATASEC, DECL_TAG} => old # << >> /\ old[1] \notin Digits
    BY <1>1, <2>1 DEF TypesGiven
  <2>5. CASE ~Touched(t.kind, old)
    <3>1. u = t /\ new = old
      BY <2>1, <2>2, <2>3, <2>5 DEF Renamed
    <3> QED BY <2>5, <3>1 DEF Touched, Exempt
  <2>6. CASE Touched(t.kind, old)
    <3>1. u = [t EXCEPT !.name = u.name] /\ new = NewName(t.kind, old)
      BY <1>1, <2>1, <2>2, <2>6 DEF Renamed
    <3>2. u.kind = t.kind
      BY <2>3, <3>1 DEF Types
    <3>3. CASE t.kind = INT
      <4>1. new = RENAME[old] /\ old \in DOMAIN RENAME
        BY <2>6, <3>1, <3>3 DEF Touched, NewName
      <4>2. new \notin DOMAIN RENAME
        BY <4>1, RenameAssumption
      <4> QED BY <3>2, <3>3, <4>2 DEF INT, DATASEC, DECL_TAG
    <3>4. CASE t.kind # INT
      <4>1. t.kind \notin {INT, DATASEC, DECL_TAG} /\ ~valid_ident(old)
        BY <2>6, <3>4 DEF Touched, Exempt
      <4>2. valid_ident(new)
        BY <2>3, <2>4, <3>1, <3>4, <4>1, SanitisedValid DEF NewName
      <4> QED BY <3>2, <4>1, <4>2
    <3> QED BY <3>3, <3>4
  <2> QED BY <2>5, <2>6
<1>2. IInv => NamesAccepted
  BY <1>1 DEF NamesAccepted
<1> QED BY <1>2, Invariance, PTL

\* The finished file holds every other part as it was, and .BTF behind them.
THEOREM FileSound == Spec => []FileIntact
<1>1. ASSUME IInv, at = "done"
      PROVE  /\ DOMAIN file = DOMAIN given.parts
             /\ \A n \in DOMAIN file \ {".BTF"} : file[n] = given.parts[n]
             /\ \A n \in DOMAIN file \ {".BTF"} : Apart(file[n], file[".BTF"])
             /\ file[".BTF"].off % given.align = 0
             /\ file[".BTF"].size = given.parts[".BTF"].size + grown
  <2> DEFINE b == given.parts[".BTF"]
  <2>1. FileGiven(given) /\ ".BTF" \in DOMAIN given.parts /\ grown \in Nat
    BY <1>1, AllStrings DEF IInv, FileAt, Table
  <2>2. b.size \in Nat /\ b.off \in Nat
    BY <2>1 DEF FileGiven
  <2>3. CASE file = given.parts /\ grown = 0
    BY <2>1, <2>2, <2>3 DEF FileGiven
  <2>4. CASE file = Grown(given, grown)
    <3>1. /\ DOMAIN file = DOMAIN given.parts
          /\ \A n \in DOMAIN file \ {".BTF"} : file[n] = given.parts[n]
          /\ file[".BTF"] = [off |-> NewOffset(given), size |-> b.size + grown]
      BY <2>1, <2>4 DEF Grown
    <3>2. file[".BTF"].off = NewOffset(given) /\ file[".BTF"].size = b.size + grown
      BY <3>1
    <3>3. /\ NewOffset(given) \in Nat /\ NewOffset(given) >= given.len
          /\ NewOffset(given) % given.align = 0
      BY <2>1, PlaceRight DEF FileGiven
    <3>4. ASSUME NEW n \in DOMAIN file \ {".BTF"} PROVE Apart(file[n], file[".BTF"])
      <4>1. /\ given.parts[n].off + given.parts[n].size <= given.len
            /\ given.parts[n].off \in Nat /\ given.parts[n].size \in Nat /\ given.len \in Nat
        BY <2>1, <3>1 DEF FileGiven
      <4> QED BY <3>1, <3>2, <3>3, <4>1 DEF Apart
    <3> QED BY <3>1, <3>2, <3>3, <3>4
  <2> QED BY <1>1, <2>3, <2>4 DEF IInv, FileAt
<1>2. IInv => FileIntact
  BY <1>1 DEF FileIntact, IInv, FileAt
<1> QED BY <1>2, Invariance, PTL
=============================================================================
