----------------------------- MODULE LinkDirProofs ----------------------------
(***************************************************************************)
(* Proofs about LinkDir, for any outputs, disks and number of links, and   *)
(* for any command lines that parse_args takes as rustc meant them:        *)
(* Take is folded over the line, and what a fold computes for every line   *)
(* is not proved here.                                                     *)
(***************************************************************************)
EXTENDS LinkDir, FiniteSetTheorems, SequenceTheorems, TLAPS

-----------------------------------------------------------------------------
(* Sequences that list the elements of a set, each once.                   *)

Lists(s, S) == s \in Seq(S) /\ ToSet(s) = S /\ IsInjective(s)

LEMMA ListsShape ==
  ASSUME NEW S, NEW s, Lists(s, S)
  PROVE  /\ Len(s) \in Nat /\ DOMAIN s = 1 .. Len(s)
         /\ \A i \in 1 .. Len(s) : s[i] \in S
         /\ \A x \in S : \E i \in 1 .. Len(s) : s[i] = x
         /\ \A i, j \in 1 .. Len(s) : s[i] = s[j] => i = j
<1>1. s \in Seq(S) /\ ToSet(s) = S /\ IsInjective(s)
  BY DEF Lists
<1>2. Len(s) \in Nat /\ DOMAIN s = 1 .. Len(s)
  BY <1>1
<1>3. S = {s[i] : i \in 1 .. Len(s)}
  BY <1>1, <1>2 DEF ToSet
<1> QED BY <1>1, <1>2, <1>3 DEF IsInjective

LEMMA ListsIf ==
  ASSUME NEW S, NEW s \in Seq(S),
         \A x \in S : \E i \in 1 .. Len(s) : s[i] = x,
         \A i, j \in 1 .. Len(s) : s[i] = s[j] => i = j
  PROVE  Lists(s, S)
<1>1. DOMAIN s = 1 .. Len(s) /\ \A i \in 1 .. Len(s) : s[i] \in S
  BY LenProperties, ElementOfSeq
<1> QED BY <1>1 DEF Lists, ToSet, IsInjective

LEMMA EmptyLists == Lists(<< >>, {})
<1>1. << >> \in Seq({}) /\ DOMAIN << >> = {}
  OBVIOUS
<1> QED BY <1>1 DEF Lists, ToSet, IsInjective

LEMMA AppendLists ==
  ASSUME NEW S, NEW s, Lists(s, S), NEW x, x \notin S
  PROVE  Lists(Append(s, x), S \cup {x})
<1> DEFINE T == S \cup {x}
           n == Len(s)
           t == Append(s, x)
<1>1. s \in Seq(T) /\ n \in Nat
  <2>1. s \in Seq(S)
    BY DEF Lists
  <2> QED BY <2>1, SeqMonotonic, ListsShape
<1>2. t \in Seq(T) /\ Len(t) = n + 1 /\ t[n + 1] = x /\ \A i \in 1 .. n : t[i] = s[i]
  BY <1>1
<1>3. /\ \A i \in 1 .. n : s[i] \in S
      /\ \A y \in S : \E i \in 1 .. n : s[i] = y
      /\ \A i, j \in 1 .. n : s[i] = s[j] => i = j
  BY ListsShape
<1> HIDE DEF t, n
<1>4. \A y \in T : \E i \in 1 .. n + 1 : t[i] = y
  BY <1>1, <1>2, <1>3
<1>5. ASSUME NEW i \in 1 .. n + 1, NEW j \in 1 .. n + 1, t[i] = t[j]
      PROVE  i = j
  <2>1. \A k \in 1 .. n + 1 : k = n + 1 \/ k \in 1 .. n
    BY <1>1
  <2> QED BY <1>2, <1>3, <1>5, <2>1
<1>6. Lists(t, T)
  BY <1>2, <1>4, <1>5, ListsIf
<1> QED BY <1>6 DEF t

LEMMA ConcatLists ==
  ASSUME NEW S, NEW s, Lists(s, S), NEW R, NEW r, Lists(r, R), S \cap R = {}
  PROVE  Lists(s \o r, S \cup R)
<1> DEFINE T == S \cup R
           n == Len(s)
           m == Len(r)
           t == s \o r
<1>1. s \in Seq(T) /\ r \in Seq(T) /\ n \in Nat /\ m \in Nat
  <2>1. s \in Seq(S) /\ r \in Seq(R)
    BY DEF Lists
  <2>2. s \in Seq(T)
    BY <2>1, SeqMonotonic
  <2>3. r \in Seq(T)
    BY <2>1, SeqMonotonic
  <2> QED BY <2>2, <2>3, ListsShape
<1>2. t \in Seq(T) /\ Len(t) = n + m
      /\ \A i \in 1 .. n + m : t[i] = IF i <= n THEN s[i] ELSE r[i - n]
  BY <1>1, ConcatProperties
<1>3. /\ \A i \in 1 .. n : s[i] \in S
      /\ \A y \in S : \E i \in 1 .. n : s[i] = y
      /\ \A i, j \in 1 .. n : s[i] = s[j] => i = j
  BY ListsShape
<1>4. /\ \A i \in 1 .. m : r[i] \in R
      /\ \A y \in R : \E i \in 1 .. m : r[i] = y
      /\ \A i, j \in 1 .. m : r[i] = r[j] => i = j
  BY ListsShape
<1> HIDE DEF t, n, m
<1>5. ASSUME NEW y \in T PROVE \E i \in 1 .. n + m : t[i] = y
  <2>1. CASE y \in S
    <3>1. PICK i \in 1 .. n : s[i] = y
      BY <1>3, <2>1
    <3>2. i \in 1 .. n + m /\ i <= n
      BY <1>1
    <3> QED BY <1>2, <3>1, <3>2
  <2>2. CASE y \in R
    <3>1. PICK i \in 1 .. m : r[i] = y
      BY <1>4, <2>2
    <3>2. n + i \in 1 .. n + m /\ ~(n + i <= n) /\ (n + i) - n = i
      BY <1>1
    <3> QED BY <1>2, <3>1, <3>2
  <2> QED BY <2>1, <2>2
<1>6. ASSUME NEW i \in 1 .. n + m, NEW j \in 1 .. n + m, t[i] = t[j]
      PROVE  i = j
  <2>1. \A k \in 1 .. n + m : \/ k \in 1 .. n /\ t[k] = s[k]
                              \/ k - n \in 1 .. m /\ t[k] = r[k - n]
    BY <1>1, <1>2
  <2>2. CASE i \in 1 .. n /\ t[i] = s[i] /\ j \in 1 .. n /\ t[j] = s[j]
    BY <1>3, <1>6, <2>2
  <2>3. CASE i - n \in 1 .. m /\ t[i] = r[i - n] /\ j - n \in 1 .. m /\ t[j] = r[j - n]
    <3>1. i - n = j - n
      BY <1>4, <1>6, <2>3
    <3> QED BY <1>1, <3>1
  <2>4. CASE i \in 1 .. n /\ t[i] = s[i] /\ j - n \in 1 .. m /\ t[j] = r[j - n]
    BY <1>3, <1>4, <1>6, <2>4
  <2>5. CASE i - n \in 1 .. m /\ t[i] = r[i - n] /\ j \in 1 .. n /\ t[j] = s[j]
    BY <1>3, <1>4, <1>6, <2>5
  <2> QED BY <2>1, <2>2, <2>3, <2>4, <2>5
<1>7. Lists(t, T)
  BY <1>2, <1>5, <1>6, ListsIf
<1> QED BY <1>7 DEF t

\* A list is as long as its set is large.
LEMMA ListsCard ==
  ASSUME NEW S, NEW s, Lists(s, S)
  PROVE  Len(s) = Cardinality(S)
<1> DEFINE n == Len(s)
<1>1. n \in Nat /\ s \in [1 .. n -> S]
  BY LenProperties DEF Lists
<1>2. s \in Bijection(1 .. n, S)
  BY <1>1, ListsShape DEF Bijection, Injection, Surjection, IsInjective
<1>3. ExistsBijection(1 .. n, S)
  BY <1>2 DEF ExistsBijection
<1>4. IsFiniteSet(1 .. n) /\ Cardinality(1 .. n) = n
  BY <1>1, FS_Interval
<1> QED BY <1>3, <1>4, FS_Bijection

LEMMA SetToSeqLists ==
  ASSUME NEW S, IsFiniteSet(S)
  PROVE  Lists(SetToSeq(S), S)
<1> DEFINE n == Cardinality(S)
           s == SetToSeq(S)
<1>1. n \in Nat /\ ExistsBijection(1 .. n, S)
  BY FS_CardinalityType
<1>2. PICK f \in Bijection(1 .. n, S) : TRUE
  BY <1>1 DEF ExistsBijection
<1>3. \E g \in [1 .. n -> S] : IsInjective(g)
  BY <1>2 DEF Bijection, Injection
<1>4. s \in [1 .. n -> S] /\ IsInjective(s)
  BY <1>3 DEF SetToSeq
<1> HIDE DEF s
<1>5. s \in Injection(1 .. n, S)
  BY <1>4 DEF Injection
<1>6. IsFiniteSet(1 .. n) /\ Cardinality(1 .. n) = n
  BY <1>1, FS_Interval
<1>7. s \in Surjection(1 .. n, S)
  BY <1>5, <1>6, FS_Injection
<1>8. s \in Seq(S) /\ Len(s) = n
  BY <1>1, <1>4, SeqDef
<1>9. \A x \in S : \E i \in 1 .. Len(s) : s[i] = x
  BY <1>7, <1>8 DEF Surjection
<1>10. \A i, j \in 1 .. Len(s) : s[i] = s[j] => i = j
  BY <1>4, <1>8 DEF IsInjective
<1>11. Lists(s, S)
  BY <1>8, <1>9, <1>10, ListsIf
<1> QED BY <1>11 DEF s

-----------------------------------------------------------------------------
(* The directory of a link, and what is listed of it.                      *)

Tree(files) ==
  IsFiniteSet(DOMAIN files) /\ \A f \in DOMAIN files : f = <<f[1], f[2]>>

\* The bitcode in subdirectories S of directory t.
Bits(t, files, S) ==
  {<<t, f>> : f \in {g \in DOMAIN files : g[1] \in S /\ files[g] \in Bitcode}}

\* The inputs before n that are bitcode themselves, and the rlibs among them.
Plain(d, r, n) ==
  {<<"disk", r.inputs[k]>> : k \in {j \in 1 .. n - 1 : KindOf(d, r.inputs[j]) = "bitcode"}}
Rlibs(d, r, n) == {j \in 1 .. n - 1 : KindOf(d, r.inputs[j]) = "archive"}

\* The members of an archive, and no others, in a subdirectory.
InPlace(d, path, s, files) ==
  \A m \in DOMAIN d[path].members :
    <<s, m>> \in DOMAIN files /\ files[<<s, m>>] = d[path].members[m]
Of(d, path, s, f) == f[1] = s /\ f[2] \in DOMAIN d[path].members

Gathered(d, o, r, n, files, rbs) ==
  /\ n \in 1 .. Len(r.inputs) + 1
  /\ Lists(rbs, Plain(d, r, n) \cup Bits(o, files, Rlibs(d, r, n)))
  /\ \A k \in Rlibs(d, r, n) : InPlace(d, r.inputs[k], k, files)

OfRlibs(d, r, n, f) == \E k \in Rlibs(d, r, n) : Of(d, r.inputs[k], k, f)

\* What the module assumes of the disks and of what rustc asks.
DiskGiven(d) ==
  /\ \A p \in DOMAIN d :
       /\ IsFiniteSet(DOMAIN d[p].members)
       /\ d[p].kind = "bitcode" =>
            DOMAIN d[p].members = {"self"} /\ d[p].members["self"] \in Bitcode
  /\ \A p, q \in DOMAIN d :
       \A m \in DOMAIN d[p].members, n \in DOMAIN d[q].members :
         d[p].members[m] = d[q].members[n] /\ d[p].members[m] \in Bitcode => p = q /\ m = n

RequestGiven(r) ==
  /\ Len(r.inputs) \in Nat /\ DOMAIN r.inputs = 1 .. Len(r.inputs)
  /\ \A i, j \in 1 .. Len(r.inputs) : r.inputs[i] = r.inputs[j] => i = j
  /\ Len(r.libDirs) \in Nat /\ DOMAIN r.libDirs = 1 .. Len(r.libDirs)
  /\ \A i \in 1 .. Len(r.inputs), j \in 1 .. Len(r.libDirs) : r.inputs[i] # r.libDirs[j]

LEMMA Given ==
  /\ \A d \in Disks : DiskGiven(d)
  /\ \A l \in Lines : RequestGiven(l.request)
<1>1. \A d \in Disks : DiskGiven(d)
  BY DisksAssumption DEF DiskGiven
<1>2. ASSUME NEW l \in Lines PROVE RequestGiven(l.request)
  <2> DEFINE ins == l.request.inputs
             dirs == l.request.libDirs
  <2>1. /\ ins \in Seq(ToSet(ins)) /\ IsInjective(ins)
        /\ dirs \in Seq(ToSet(dirs)) /\ ToSet(ins) \cap ToSet(dirs) = {}
    BY LinesAssumption
  <2> HIDE DEF ins, dirs
  <2>2. /\ Len(ins) \in Nat /\ DOMAIN ins = 1 .. Len(ins)
        /\ Len(dirs) \in Nat /\ DOMAIN dirs = 1 .. Len(dirs)
    BY <2>1, LenProperties
  <2>3. \A i \in 1 .. Len(ins), j \in 1 .. Len(dirs) : ins[i] # dirs[j]
    BY <2>1, <2>2 DEF ToSet
  <2> QED BY <2>1, <2>2, <2>3 DEF RequestGiven, IsInjective, ins, dirs
<1> QED BY <1>1, <1>2

LEMMA ModulesLists ==
  ASSUME NEW t, NEW files, Tree(files), NEW sub
  PROVE  Lists(Modules(t, files, sub), Bits(t, files, {sub}))
<1> DEFINE G == {g \in DOMAIN files : g[1] = sub /\ is_bitcode(files[g])}
           M == {<<t, f>> : f \in G}
<1>1. IsFiniteSet(G)
  BY FS_Subset DEF Tree
<1>2. IsFiniteSet({t} \X G)
  BY <1>1, FS_Singleton, FS_Product
<1>3. M \in SUBSET ({t} \X G)
  OBVIOUS
<1>4. IsFiniteSet(M)
  BY <1>2, <1>3, FS_Subset
<1>5. M = Bits(t, files, {sub})
  BY DEF Bits, is_bitcode
<1>6. Lists(SetToSeq(M), M)
  BY <1>4, SetToSeqLists
<1> QED BY <1>5, <1>6 DEF Modules

Beyond(files, sub, members, new) ==
  /\ Tree(new)
  /\ \A m \in DOMAIN members : <<sub, m>> \in DOMAIN new /\ new[<<sub, m>>] = members[m]
  /\ \A f \in DOMAIN files : f[1] # sub => f \in DOMAIN new /\ new[f] = files[f]
  /\ \A f \in DOMAIN new : f \in DOMAIN files \/ (f[1] = sub /\ f[2] \in DOMAIN members)

\* An archive extracted into sub has its members there and touches nothing else.
LEMMA UnpackedRight ==
  ASSUME NEW files, Tree(files), NEW sub, NEW members, IsFiniteSet(DOMAIN members)
  PROVE  Beyond(files, sub, members, Unpacked(files, sub, members))
<1> DEFINE new == Unpacked(files, sub, members)
           D == DOMAIN files \cup ({sub} \X DOMAIN members)
<1>1. DOMAIN new = D
  BY DEF Unpacked
<1>2. \A f \in D : new[f] = IF f[1] = sub /\ f[2] \in DOMAIN members THEN members[f[2]]
                            ELSE files[f]
  BY DEF Unpacked
<1> HIDE DEF new
<1>3. Tree(new)
  <2>1. IsFiniteSet({sub} \X DOMAIN members)
    BY FS_Singleton, FS_Product
  <2>2. IsFiniteSet(D)
    BY <2>1, FS_Union DEF Tree
  <2>3. \A f \in D : f = <<f[1], f[2]>>
    BY DEF Tree
  <2> QED BY <1>1, <2>2, <2>3 DEF Tree
<1>4. \A m \in DOMAIN members : <<sub, m>> \in DOMAIN new /\ new[<<sub, m>>] = members[m]
  BY <1>1, <1>2
<1>5. \A f \in DOMAIN files : f[1] # sub => f \in DOMAIN new /\ new[f] = files[f]
  BY <1>1, <1>2
<1>6. ASSUME NEW f \in DOMAIN new
      PROVE  f \in DOMAIN files \/ (f[1] = sub /\ f[2] \in DOMAIN members)
  <2>1. f \in DOMAIN files \/ f \in {sub} \X DOMAIN members
    BY <1>1
  <2> QED BY <2>1
<1>7. Beyond(files, sub, members, new)
  BY <1>3, <1>4, <1>5, <1>6 DEF Beyond
<1> QED BY <1>7 DEF new

-----------------------------------------------------------------------------
(* Gathering, input by input.                                              *)

LEMMA SkipRight ==
  ASSUME NEW d, NEW o, NEW r, RequestGiven(r), NEW n, NEW files, NEW rbs,
         Gathered(d, o, r, n, files, rbs), n \in 1 .. Len(r.inputs),
         KindOf(d, r.inputs[n]) \notin {"bitcode", "archive"}
  PROVE  /\ Gathered(d, o, r, n + 1, files, rbs)
         /\ Rlibs(d, r, n + 1) = Rlibs(d, r, n)
<1>1. n \in Nat /\ n + 1 \in 1 .. Len(r.inputs) + 1
      /\ \A j : j \in 1 .. (n + 1) - 1 <=> j \in 1 .. n - 1 \/ j = n
  BY DEF RequestGiven
<1>2. Rlibs(d, r, n + 1) = Rlibs(d, r, n)
  BY <1>1 DEF Rlibs
<1>3. Plain(d, r, n + 1) = Plain(d, r, n)
  BY <1>1 DEF Plain
<1> QED BY <1>1, <1>2, <1>3 DEF Gathered

LEMMA ObjectRight ==
  ASSUME NEW d, NEW o, o # "disk", NEW r, RequestGiven(r), NEW n, NEW files, NEW rbs,
         Gathered(d, o, r, n, files, rbs), n \in 1 .. Len(r.inputs),
         KindOf(d, r.inputs[n]) = "bitcode"
  PROVE  /\ Gathered(d, o, r, n + 1, files, Append(rbs, <<"disk", r.inputs[n]>>))
         /\ Rlibs(d, r, n + 1) = Rlibs(d, r, n)
<1>1. n \in Nat /\ n + 1 \in 1 .. Len(r.inputs) + 1
      /\ \A j : j \in 1 .. (n + 1) - 1 <=> j \in 1 .. n - 1 \/ j = n
  BY DEF RequestGiven
<1>2. Rlibs(d, r, n + 1) = Rlibs(d, r, n)
  BY <1>1 DEF Rlibs
<1>3. Plain(d, r, n + 1) = Plain(d, r, n) \cup {<<"disk", r.inputs[n]>>}
  BY <1>1 DEF Plain
<1> DEFINE x == <<"disk", r.inputs[n]>>
           S == Plain(d, r, n) \cup Bits(o, files, Rlibs(d, r, n))
<1>4. x \notin S
  <2>1. \A j \in 1 .. n - 1 : j \in 1 .. Len(r.inputs) /\ j # n
    BY DEF RequestGiven
  <2>2. x \notin Plain(d, r, n)
    BY <2>1 DEF Plain, RequestGiven
  <2>3. x \notin Bits(o, files, Rlibs(d, r, n))
    BY DEF Bits
  <2> QED BY <2>2, <2>3
<1>5. Lists(Append(rbs, x), S \cup {x})
  BY <1>4, AppendLists DEF Gathered
<1>6. S \cup {x} = Plain(d, r, n + 1) \cup Bits(o, files, Rlibs(d, r, n + 1))
  BY <1>2, <1>3
<1> QED BY <1>1, <1>2, <1>5, <1>6 DEF Gathered

LEMMA RlibRight ==
  ASSUME NEW d, DiskGiven(d), NEW o, o # "disk", NEW r, RequestGiven(r), NEW n,
         NEW files, Tree(files), NEW rbs,
         Gathered(d, o, r, n, files, rbs), n \in 1 .. Len(r.inputs),
         KindOf(d, r.inputs[n]) = "archive",
         NEW new, new = Unpacked(files, n, d[r.inputs[n]].members)
  PROVE  /\ Gathered(d, o, r, n + 1, new, rbs \o Modules(o, new, n))
         /\ Tree(new)
         /\ (\A f \in DOMAIN files : OfRlibs(d, r, n, f))
              => \A f \in DOMAIN new : OfRlibs(d, r, n + 1, f)
<1> DEFINE path == r.inputs[n]
           R == Rlibs(d, r, n)
<1>1. n \in Nat /\ n + 1 \in 1 .. Len(r.inputs) + 1
      /\ (\A j : j \in 1 .. (n + 1) - 1 <=> j \in 1 .. n - 1 \/ j = n)
      /\ n \notin 1 .. n - 1
  BY DEF RequestGiven
<1>2. path \in DOMAIN d
  BY DEF KindOf
<1>3. IsFiniteSet(DOMAIN d[path].members)
  BY <1>2 DEF DiskGiven
<1>4. /\ Tree(new)
      /\ \A m \in DOMAIN d[path].members :
           <<n, m>> \in DOMAIN new /\ new[<<n, m>>] = d[path].members[m]
      /\ \A f \in DOMAIN files : f[1] # n => f \in DOMAIN new /\ new[f] = files[f]
      /\ \A f \in DOMAIN new : f \in DOMAIN files \/ (f[1] = n /\ f[2] \in DOMAIN d[path].members)
  BY <1>3, UnpackedRight DEF Beyond
<1>5. Rlibs(d, r, n + 1) = R \cup {n} /\ n \notin R
  BY <1>1 DEF Rlibs
<1>6. Plain(d, r, n + 1) = Plain(d, r, n)
  BY <1>1 DEF Plain
<1>7. Bits(o, new, R) = Bits(o, files, R)
  <2>1. ASSUME NEW g, g[1] \in R
        PROVE  /\ g \in DOMAIN new <=> g \in DOMAIN files
               /\ g \in DOMAIN files => new[g] = files[g]
    BY <1>4, <1>5, <2>1
  <2> QED BY <2>1 DEF Bits
<1>8. Bits(o, new, R \cup {n}) = Bits(o, new, R) \cup Bits(o, new, {n})
  BY DEF Bits
<1>9. (Plain(d, r, n) \cup Bits(o, files, R)) \cap Bits(o, new, {n}) = {}
  <2>1. Plain(d, r, n) \cap Bits(o, new, {n}) = {}
    BY DEF Plain, Bits
  <2>2. Bits(o, files, R) \cap Bits(o, new, {n}) = {}
    BY <1>5 DEF Bits
  <2> QED BY <2>1, <2>2
<1>10. Lists(rbs \o Modules(o, new, n), (Plain(d, r, n) \cup Bits(o, files, R)) \cup Bits(o, new, {n}))
  <2>1. Lists(Modules(o, new, n), Bits(o, new, {n}))
    BY <1>4, ModulesLists
  <2> QED BY <1>9, <2>1, ConcatLists DEF Gathered
<1>11. ASSUME NEW k \in Rlibs(d, r, n + 1) PROVE InPlace(d, r.inputs[k], k, new)
  <2>1. CASE k = n
    BY <1>4, <2>1 DEF InPlace
  <2>2. CASE k # n
    <3>1. InPlace(d, r.inputs[k], k, files)
      BY <1>5, <2>2 DEF Gathered
    <3> QED BY <1>4, <2>2, <3>1 DEF InPlace
  <2> QED BY <2>1, <2>2
<1>12. (Plain(d, r, n) \cup Bits(o, files, R)) \cup Bits(o, new, {n})
         = Plain(d, r, n + 1) \cup Bits(o, new, Rlibs(d, r, n + 1))
  BY <1>5, <1>6, <1>7, <1>8
<1>13. ASSUME \A f \in DOMAIN files : OfRlibs(d, r, n, f), NEW f \in DOMAIN new
       PROVE  OfRlibs(d, r, n + 1, f)
  BY <1>4, <1>5, <1>13 DEF OfRlibs, Of
<1> QED BY <1>1, <1>4, <1>10, <1>11, <1>12, <1>13 DEF Gathered

\* The arena's archive goes to a directory that no rlib has.
WithArena(d, o, r, n, files, rbs, members, new) ==
  /\ Gathered(d, o, r, n, new, rbs) /\ Tree(new)
  /\ Lists(Modules(o, new, arena_c), Bits(o, new, {arena_c}))
  /\ \A m \in DOMAIN members : <<arena_c, m>> \in DOMAIN new /\ new[<<arena_c, m>>] = members[m]
  /\ (\A f \in DOMAIN files : OfRlibs(d, r, n, f))
       => \A f \in DOMAIN new : \/ OfRlibs(d, r, n, f)
                                \/ f[1] = arena_c /\ f[2] \in DOMAIN members

LEMMA ArenaRight ==
  ASSUME NEW d, NEW o, NEW r, RequestGiven(r), NEW n, NEW files, Tree(files), NEW rbs,
         Gathered(d, o, r, n, files, rbs), NEW members, IsFiniteSet(DOMAIN members)
  PROVE  WithArena(d, o, r, n, files, rbs, members, Unpacked(files, arena_c, members))
<1> DEFINE new == Unpacked(files, arena_c, members)
           R == Rlibs(d, r, n)
<1>1. /\ Tree(new)
      /\ \A m \in DOMAIN members : <<arena_c, m>> \in DOMAIN new /\ new[<<arena_c, m>>] = members[m]
      /\ \A f \in DOMAIN files : f[1] # arena_c => f \in DOMAIN new /\ new[f] = files[f]
      /\ \A f \in DOMAIN new : f \in DOMAIN files \/ (f[1] = arena_c /\ f[2] \in DOMAIN members)
  BY UnpackedRight DEF Beyond
<1> HIDE DEF new
<1>2. arena_c \notin R
  <2>1. n \in Nat
    BY DEF Gathered, RequestGiven
  <2> QED BY <2>1 DEF Rlibs, arena_c
<1>3. Bits(o, new, R) = Bits(o, files, R)
  <2>1. ASSUME NEW g, g[1] \in R
        PROVE  /\ g \in DOMAIN new <=> g \in DOMAIN files
               /\ g \in DOMAIN files => new[g] = files[g]
    BY <1>1, <1>2, <2>1
  <2> QED BY <2>1 DEF Bits
<1>4. ASSUME NEW k \in R PROVE InPlace(d, r.inputs[k], k, new)
  <2>1. InPlace(d, r.inputs[k], k, files) /\ k # arena_c
    BY <1>2 DEF Gathered
  <2> QED BY <1>1, <2>1 DEF InPlace
<1>5. Gathered(d, o, r, n, new, rbs)
  BY <1>3, <1>4 DEF Gathered
<1>6. Lists(Modules(o, new, arena_c), Bits(o, new, {arena_c}))
  BY <1>1, ModulesLists
<1>7. ASSUME \A f \in DOMAIN files : OfRlibs(d, r, n, f), NEW f \in DOMAIN new
      PROVE  OfRlibs(d, r, n, f) \/ (f[1] = arena_c /\ f[2] \in DOMAIN members)
  BY <1>1, <1>7
<1>8. WithArena(d, o, r, n, files, rbs, members, new)
  BY <1>1, <1>5, <1>6, <1>7 DEF WithArena
<1> QED BY <1>8 DEF new

\* Everything that is listed when llvm-link runs.
All(d, o, r, files) ==
  Plain(d, r, Len(r.inputs) + 1) \cup Bits(o, files, Rlibs(d, r, Len(r.inputs) + 1))
    \cup Bits(o, files, {arena_c})

In(d, files, f) == IF f[1] = "disk" THEN d[f[2]].members["self"] ELSE files[f[2]]

\* The lists, put together.
LEMMA ListedRight ==
  ASSUME NEW d, NEW o, o # "disk", NEW r, RequestGiven(r), NEW files, NEW rbs, NEW abs,
         Gathered(d, o, r, Len(r.inputs) + 1, files, rbs),
         Lists(abs, Bits(o, files, {arena_c}))
  PROVE  Lists(rbs \o abs, All(d, o, r, files))
<1> DEFINE R == Rlibs(d, r, Len(r.inputs) + 1)
           S == Plain(d, r, Len(r.inputs) + 1) \cup Bits(o, files, R)
<1>1. arena_c \notin R
  BY DEF Rlibs, arena_c, RequestGiven
<1>2. S \cap Bits(o, files, {arena_c}) = {}
  BY <1>1 DEF Bits, Plain
<1>3. Lists(rbs, S)
  BY DEF Gathered
<1> HIDE DEF S
<1>4. Lists(rbs \o abs, S \cup Bits(o, files, {arena_c}))
  BY <1>2, <1>3, ConcatLists
<1> QED BY <1>4 DEF All, S

LEMMA FirstIsOne ==
  ASSUME NEW d, NEW r, RequestGiven(r), NEW p \in First(d, r.libDirs)
  PROVE  First(d, r.libDirs) = {p} /\ p \in DOMAIN d /\ p \notin ToSet(r.inputs)
<1> DEFINE dirs == r.libDirs
<1>1. Len(dirs) \in Nat /\ DOMAIN dirs = 1 .. Len(dirs)
  BY DEF RequestGiven
<1>2. PICK k \in 1 .. Len(dirs) : /\ p = dirs[k] /\ dirs[k] \in DOMAIN d
                                  /\ \A i \in 1 .. k - 1 : dirs[i] \notin DOMAIN d
  BY <1>1 DEF First
<1>3. ASSUME NEW q \in First(d, dirs) PROVE q = p
  <2>1. PICK j \in 1 .. Len(dirs) : /\ q = dirs[j] /\ dirs[j] \in DOMAIN d
                                    /\ \A i \in 1 .. j - 1 : dirs[i] \notin DOMAIN d
    BY <1>1, <1>3 DEF First
  <2>2. ~(j < k) /\ ~(k < j)
    BY <1>1, <1>2, <2>1
  <2> QED BY <1>1, <1>2, <2>1, <2>2
<1>4. p \notin ToSet(r.inputs)
  BY <1>2 DEF ToSet, RequestGiven
<1> QED BY <1>2, <1>3, <1>4

\* What is listed holds what was asked for, and bitcode only; with nothing of an
\* earlier link in the directory it is that, every module once.
Sound(d, o, r, files, p) ==
  /\ \A f \in All(d, o, r, files) : /\ In(d, files, f) \in Bitcode
                                    /\ f = <<f[1], f[2]>>
                                    /\ f[1] # "disk" => f[1] = o /\ f[2] \in DOMAIN files
  /\ \A c \in Asked(d, r) : \E f \in All(d, o, r, files) : c = In(d, files, f)
  /\ (\A f \in DOMAIN files : OfRlibs(d, r, Len(r.inputs) + 1, f) \/ Of(d, p, arena_c, f))
       => /\ \A f \in All(d, o, r, files) : In(d, files, f) \in Asked(d, r)
          /\ \A f, g \in All(d, o, r, files) : In(d, files, f) = In(d, files, g) => f = g

LEMMA AllRight ==
  ASSUME NEW d, DiskGiven(d), NEW o, o # "disk", NEW r, RequestGiven(r),
         NEW files, Tree(files), NEW rbs,
         Gathered(d, o, r, Len(r.inputs) + 1, files, rbs),
         NEW p \in First(d, r.libDirs), d[p].kind = "archive", InPlace(d, p, arena_c, files)
  PROVE  Sound(d, o, r, files, p)
<1> DEFINE N == Len(r.inputs) + 1
           R == Rlibs(d, r, N)
           A == All(d, o, r, files)
           In1(f) == In(d, files, f)
<1>1. /\ Len(r.inputs) \in Nat /\ DOMAIN r.inputs = 1 .. Len(r.inputs)
      /\ \A j : j \in 1 .. N - 1 <=> j \in 1 .. Len(r.inputs)
  BY DEF RequestGiven
<1>2. /\ First(d, r.libDirs) = {p} /\ p \in DOMAIN d /\ p \notin ToSet(r.inputs)
      /\ KindOf(d, p) = "archive"
  BY FirstIsOne DEF KindOf
<1>3. \A k \in R : /\ k \in 1 .. Len(r.inputs) /\ InPlace(d, r.inputs[k], k, files)
                   /\ KindOf(d, r.inputs[k]) = "archive" /\ r.inputs[k] \in DOMAIN d
                   /\ r.inputs[k] \in ToSet(r.inputs) /\ k # arena_c
  BY <1>1 DEF Rlibs, Gathered, KindOf, ToSet, arena_c
<1>4. A = Plain(d, r, N) \cup Bits(o, files, R) \cup Bits(o, files, {arena_c})
  BY DEF All
<1>5. ASSUME NEW f \in Plain(d, r, N)
      PROVE  \E k \in 1 .. Len(r.inputs) :
               /\ f = <<"disk", r.inputs[k]>> /\ KindOf(d, r.inputs[k]) = "bitcode"
               /\ r.inputs[k] \in DOMAIN d /\ r.inputs[k] \in ToSet(r.inputs)
               /\ "self" \in DOMAIN d[r.inputs[k]].members
               /\ In1(f) = d[r.inputs[k]].members["self"] /\ In1(f) \in Bitcode
  <2>1. PICK k \in 1 .. Len(r.inputs) :
          f = <<"disk", r.inputs[k]>> /\ KindOf(d, r.inputs[k]) = "bitcode"
    BY <1>1, <1>5 DEF Plain
  <2>2. r.inputs[k] \in DOMAIN d /\ r.inputs[k] \in ToSet(r.inputs)
    BY <1>1, <2>1 DEF KindOf, ToSet
  <2> QED BY <2>1, <2>2 DEF KindOf, DiskGiven, In
<1>6. ASSUME NEW S, NEW f \in Bits(o, files, S)
      PROVE  /\ f = <<o, f[2]>> /\ f[2] \in DOMAIN files /\ f[2][1] \in S
             /\ In1(f) = files[f[2]] /\ In1(f) \in Bitcode
  BY <1>6 DEF Bits, In
<1>7. \A f \in A : /\ In1(f) \in Bitcode
                   /\ f = <<f[1], f[2]>>
                   /\ f[1] # "disk" => f[1] = o /\ f[2] \in DOMAIN files
  BY <1>4, <1>5, <1>6
<1>8. ASSUME NEW c \in Asked(d, r) PROVE \E f \in A : c = In1(f)
  <2>1. PICK path \in ToSet(r.inputs) \cup {p} : c \in Payload(d, path)
    BY <1>2, <1>8 DEF Asked
  <2>2. /\ KindOf(d, path) \in {"bitcode", "archive"} /\ c \in Bitcode /\ path \in DOMAIN d
        /\ \E m \in DOMAIN d[path].members : c = d[path].members[m]
    BY <2>1 DEF Payload, KindOf
  <2>3. PICK m \in DOMAIN d[path].members : c = d[path].members[m]
    BY <2>2
  <2>4. CASE path = p
    <3> DEFINE g == <<arena_c, m>>
    <3>1. g \in DOMAIN files /\ files[g] = c
      BY <2>3, <2>4 DEF InPlace
    <3>2. <<o, g>> \in Bits(o, files, {arena_c})
      BY <2>2, <3>1 DEF Bits
    <3>3. In1(<<o, g>>) = c
      BY <3>1 DEF In
    <3> QED BY <1>4, <3>2, <3>3
  <2>5. CASE path # p
    <3>1. PICK k \in 1 .. Len(r.inputs) : path = r.inputs[k]
      BY <1>1, <2>5 DEF ToSet
    <3>2. CASE KindOf(d, path) = "bitcode"
      <4>1. <<"disk", path>> \in Plain(d, r, N)
        BY <1>1, <3>1, <3>2 DEF Plain
      <4>2. m = "self"
        BY <2>2, <2>3, <3>2 DEF DiskGiven, KindOf
      <4>3. In1(<<"disk", path>>) = c
        BY <2>3, <4>2 DEF In
      <4> QED BY <1>4, <4>1, <4>3
    <3>3. CASE KindOf(d, path) = "archive"
      <4> DEFINE g == <<k, m>>
      <4>1. k \in R
        BY <1>1, <3>1, <3>3 DEF Rlibs
      <4>2. g \in DOMAIN files /\ files[g] = c
        BY <1>3, <2>3, <3>1, <4>1 DEF InPlace
      <4>3. <<o, g>> \in Bits(o, files, R)
        BY <2>2, <4>1, <4>2 DEF Bits
      <4>4. In1(<<o, g>>) = c
        BY <4>2 DEF In
      <4> QED BY <1>4, <4>3, <4>4
    <3> QED BY <2>2, <3>2, <3>3
  <2> QED BY <2>4, <2>5
<1>9. ASSUME \A f \in DOMAIN files : OfRlibs(d, r, N, f) \/ Of(d, p, arena_c, f)
      PROVE  /\ \A f \in A : In1(f) \in Asked(d, r)
             /\ \A f, g \in A : In1(f) = In1(g) => f = g
  <2> DEFINE From(f, q, m) ==
        /\ q \in DOMAIN d /\ m \in DOMAIN d[q].members
        /\ KindOf(d, q) \in {"bitcode", "archive"}
        /\ In1(f) = d[q].members[m] /\ In1(f) \in Bitcode
        /\ \/ KindOf(d, q) = "bitcode" /\ f = <<"disk", q>> /\ q \in ToSet(r.inputs)
           \/ q = p /\ f = <<o, <<arena_c, m>>>>
           \/ \E k \in R : q = r.inputs[k] /\ f = <<o, <<k, m>>>>
  <2>1. ASSUME NEW f \in A PROVE \E q \in ToSet(r.inputs) \cup {p} : \E m : From(f, q, m)
    <3>1. CASE f \in Plain(d, r, N)
      <4>1. PICK k \in 1 .. Len(r.inputs) :
               /\ f = <<"disk", r.inputs[k]>> /\ KindOf(d, r.inputs[k]) = "bitcode"
               /\ r.inputs[k] \in DOMAIN d /\ r.inputs[k] \in ToSet(r.inputs)
               /\ "self" \in DOMAIN d[r.inputs[k]].members
               /\ In1(f) = d[r.inputs[k]].members["self"] /\ In1(f) \in Bitcode
        BY <1>5, <3>1
      <4>2. From(f, r.inputs[k], "self")
        BY <4>1
      <4> QED BY <4>1, <4>2
    <3>2. CASE f \in Bits(o, files, R)
      <4>1. /\ f = <<o, f[2]>> /\ f[2] \in DOMAIN files /\ f[2][1] \in R
            /\ In1(f) = files[f[2]] /\ In1(f) \in Bitcode
        BY <1>6, <3>2
      <4>2. PICK k \in R : f[2][1] = k /\ f[2][2] \in DOMAIN d[r.inputs[k]].members
        BY <1>3, <1>9, <4>1 DEF OfRlibs, Of
      <4>3. f[2] = <<k, f[2][2]>>
        BY <4>1, <4>2 DEF Tree
      <4>4. files[f[2]] = d[r.inputs[k]].members[f[2][2]]
        BY <1>3, <4>2, <4>3 DEF InPlace
      <4>5. From(f, r.inputs[k], f[2][2])
        BY <1>3, <4>1, <4>2, <4>3, <4>4
      <4> QED BY <1>3, <4>2, <4>5
    <3>3. CASE f \in Bits(o, files, {arena_c})
      <4>1. /\ f = <<o, f[2]>> /\ f[2] \in DOMAIN files /\ f[2][1] = arena_c
            /\ In1(f) = files[f[2]] /\ In1(f) \in Bitcode
        BY <1>6, <3>3
      <4>2. f[2][2] \in DOMAIN d[p].members
        BY <1>3, <1>9, <4>1 DEF OfRlibs, Of
      <4>3. f[2] = <<arena_c, f[2][2]>>
        BY <4>1 DEF Tree
      <4>4. files[f[2]] = d[p].members[f[2][2]]
        BY <4>2, <4>3 DEF InPlace
      <4>5. From(f, p, f[2][2])
        BY <1>2, <4>1, <4>2, <4>3, <4>4
      <4> QED BY <4>5
    <3> QED BY <1>4, <2>1, <3>1, <3>2, <3>3
  <2>2. ASSUME NEW f \in A PROVE In1(f) \in Asked(d, r)
    <3>1. PICK q \in ToSet(r.inputs) \cup {p} : \E m : From(f, q, m)
      BY <2>1, <2>2
    <3>2. In1(f) \in Payload(d, q)
      BY <3>1 DEF Payload
    <3> QED BY <1>2, <3>1, <3>2 DEF Asked
  <2>3. ASSUME NEW f \in A, NEW g \in A, In1(f) = In1(g) PROVE f = g
    <3>1. PICK q : \E m : From(f, q, m)
      BY <2>1, <2>3
    <3>2. PICK m : From(f, q, m)
      BY <3>1
    <3>3. PICK q2 : \E m2 : From(g, q2, m2)
      BY <2>1, <2>3
    <3>4. PICK m2 : From(g, q2, m2)
      BY <3>3
    <3>5. q = q2 /\ m = m2
      <4>1. /\ q \in DOMAIN d /\ m \in DOMAIN d[q].members
            /\ q2 \in DOMAIN d /\ m2 \in DOMAIN d[q2].members
            /\ d[q].members[m] = d[q2].members[m2] /\ d[q].members[m] \in Bitcode
        BY <2>3, <3>2, <3>4
      <4>2. \A x, y \in DOMAIN d : \A i \in DOMAIN d[x].members, j \in DOMAIN d[y].members :
              d[x].members[i] = d[y].members[j] /\ d[x].members[i] \in Bitcode => x = y /\ i = j
        BY DEF DiskGiven
      <4> QED BY <4>1, <4>2
    <3>6. \A i, k \in R : r.inputs[i] = r.inputs[k] => i = k
      BY <1>3 DEF RequestGiven
    <3> QED BY <1>2, <1>3, <3>2, <3>4, <3>5, <3>6
  <2> QED BY <2>2, <2>3
<1> QED BY <1>7, <1>8, <1>9 DEF Sound

-----------------------------------------------------------------------------
(* The inductive invariant: one part for each link, by where its main() is. *)

Functions ==
  /\ DOMAIN argv = Outputs /\ DOMAIN request = Outputs /\ DOMAIN asked = Outputs
  /\ DOMAIN at = Outputs /\ DOMAIN next = Outputs /\ DOMAIN opts = Outputs
  /\ DOMAIN tmp = Outputs /\ DOMAIN stage = Outputs
  /\ DOMAIN rust_bcs = Outputs /\ DOMAIN arena_bcs = Outputs
  /\ DOMAIN object = Outputs /\ DOMAIN exit = Outputs /\ cluttered \in [Outputs -> BOOLEAN]

Shape(o) ==
  /\ at[o] \in {"idle", "args", "prepare", "gather", "link", "passes", "rename", "clean"}
  /\ exit[o] \in {"running", "ok", "failed"} /\ (exit[o] = "running" <=> at[o] # "idle")
  /\ cluttered[o] \in BOOLEAN
  /\ asked[o] \subseteq Bitcode /\ stage[o] \subseteq Bitcode
  /\ Tree(tmp[o])
  /\ object[o] = NoObject \/ object[o] \in [members : SUBSET Bitcode, renamed : BOOLEAN]

\* What the link was asked, and what parse_args has made of it.
Asking(o) ==
  at[o] # "idle" =>
    /\ \E l \in Lines : request[o] = l.request /\ (at[o] = "args" => argv[o] = l.argv)
    /\ asked[o] = Asked(disk, request[o])
    /\ at[o] \in {"args", "prepare"} => ~cluttered[o]
    /\ at[o] # "args" => opts[o] = request[o]

\* What it has gathered so far.
Gathering(o) ==
  /\ at[o] \in {"gather", "link"} =>
       Gathered(disk, o, request[o], next[o], tmp[o], rust_bcs[o])
  /\ at[o] = "gather" =>
       /\ arena_bcs[o] = << >>
       /\ ~cluttered[o] => \A f \in DOMAIN tmp[o] : OfRlibs(disk, request[o], next[o], f)
  /\ at[o] = "link" =>
       /\ next[o] = Len(request[o].inputs) + 1
       /\ Lists(arena_bcs[o], Bits(o, tmp[o], {arena_c}))
       /\ \E p \in First(disk, request[o].libDirs) :
            /\ disk[p].kind = "archive" /\ InPlace(disk, p, arena_c, tmp[o])
            /\ ~cluttered[o] =>
                 \A f \in DOMAIN tmp[o] : \/ OfRlibs(disk, request[o], next[o], f)
                                          \/ Of(disk, p, arena_c, f)

\* What it has made of that: all that was asked for, and no more unless the
\* directory was cluttered.
Holds(S, asks, clutter) == asks \subseteq S /\ (~clutter => S = asks)

Made(o) ==
  /\ at[o] = "passes" => Holds(stage[o], asked[o], cluttered[o])
  /\ at[o] \in {"rename", "clean"} =>
       object[o] # NoObject /\ Holds(object[o].members, asked[o], cluttered[o])
  /\ at[o] = "clean" => object[o].renamed

LinkInv(o) == Shape(o) /\ Asking(o) /\ Gathering(o) /\ Made(o)

IInv ==
  /\ disk \in Disks /\ links \in 0 .. MaxLinks
  /\ Functions
  /\ \A o \in Outputs : LinkInv(o)

\* A step of another link, or a rebuild while this one is idle.
Same(o) ==
  UNCHANGED <<at[o], argv[o], request[o], asked[o], next[o], opts[o], tmp[o], stage[o],
              rust_bcs[o], arena_bcs[o], object[o], exit[o], cluttered[o]>>

LEMMA Frame ==
  ASSUME NEW o, LinkInv(o), Same(o), disk' = disk \/ at[o] = "idle"
  PROVE  LinkInv(o)'
<1>1. CASE disk' = disk
  <2>1. Shape(o)'
    BY DEF Same, LinkInv, Shape
  <2>2. Asking(o)'
    BY <1>1 DEF Same, LinkInv, Asking
  <2>3. Gathering(o)'
    BY <1>1 DEF Same, LinkInv, Gathering
  <2>4. Made(o)'
    BY DEF Same, LinkInv, Made
  <2> QED BY <2>1, <2>2, <2>3, <2>4 DEF LinkInv
<1>2. CASE at[o] = "idle"
  <2>1. at'[o] = "idle"
    BY <1>2 DEF Same
  <2>2. Shape(o)'
    BY DEF Same, LinkInv, Shape
  <2> QED BY <2>1, <2>2 DEF LinkInv, Asking, Gathering, Made
<1> QED BY <1>1, <1>2

\* A step of the link to o alone.
LEMMA OneStep ==
  ASSUME IInv, NEW o \in Outputs, disk' = disk, links' \in 0 .. MaxLinks,
         Functions', LinkInv(o)', \A x \in Outputs \ {o} : Same(x)
  PROVE  IInv'
<1>1. ASSUME NEW x \in Outputs \ {o} PROVE LinkInv(x)'
  BY Frame DEF IInv
<1>2. \A x \in Outputs : LinkInv(x)'
  BY <1>1
<1> QED BY <1>2 DEF IInv

LEMMA BeginStep ==
  ASSUME IInv, NEW o \in Outputs, Begin(o) PROVE IInv'
<1>1. PICK l \in Lines :
        /\ argv' = [argv EXCEPT ![o] = l.argv]
        /\ request' = [request EXCEPT ![o] = l.request]
        /\ asked' = [asked EXCEPT ![o] = Asked(disk, l.request)]
  BY DEF Begin
<1>2. /\ at' = [at EXCEPT ![o] = "args"] /\ exit' = [exit EXCEPT ![o] = "running"]
      /\ cluttered' = [cluttered EXCEPT ![o] = FALSE]
      /\ links < MaxLinks /\ links' = links + 1
      /\ UNCHANGED <<disk, next, opts, tmp, stage, rust_bcs, arena_bcs, object>>
  BY DEF Begin
<1>3. Functions /\ LinkInv(o)
  BY DEF IInv
<1>4. /\ argv'[o] = l.argv /\ request'[o] = l.request /\ asked'[o] = Asked(disk, l.request)
      /\ at'[o] = "args" /\ exit'[o] = "running" /\ ~cluttered'[o] /\ cluttered'[o] \in BOOLEAN
  BY <1>1, <1>2, <1>3 DEF Functions
<1>5. Functions'
  BY <1>1, <1>2, <1>3 DEF Functions
<1>6. \A x \in Outputs \ {o} : Same(x)
  BY <1>1, <1>2, <1>3 DEF Functions, Same
<1>7. Asked(disk, l.request) \subseteq Bitcode
  BY DEF Asked, Payload
<1>8. Shape(o)'
  BY <1>2, <1>3, <1>4, <1>7 DEF LinkInv, Shape
<1>9. Asking(o)'
  BY <1>2, <1>4 DEF Asking
<1>10. Gathering(o)' /\ Made(o)'
  BY <1>4 DEF Gathering, Made
<1>11. links' \in 0 .. MaxLinks
  BY <1>2, NamesAssumption DEF IInv
<1> QED BY <1>2, <1>5, <1>6, <1>8, <1>9, <1>10, <1>11, OneStep DEF LinkInv

LEMMA ParseArgsStep ==
  ASSUME AsMeant, IInv, NEW o \in Outputs, ParseArgs(o) PROVE IInv'
<1>1. /\ at[o] = "args" /\ argv' = [argv EXCEPT ![o] = << >>]
      /\ at' = [at EXCEPT ![o] = "prepare"]
      /\ UNCHANGED <<disk, request, asked, next, tmp, stage, rust_bcs, arena_bcs, object, exit,
                     cluttered, links>>
  BY DEF ParseArgs
<1>2. LET s == Parse(argv[o])
      IN  s.want = "" /\ s.p.output # None /\ opts' = [opts EXCEPT ![o] = s.p]
  BY DEF ParseArgs
<1>3. Functions /\ LinkInv(o)
  BY DEF IInv
<1>4. PICK l \in Lines : request[o] = l.request /\ argv[o] = l.argv
  BY <1>1, <1>3 DEF LinkInv, Asking
<1>5. opts' = [opts EXCEPT ![o] = l.request]
  BY <1>2, <1>4 DEF AsMeant
<1>6. Functions' /\ at'[o] = "prepare" /\ opts'[o] = l.request
  BY <1>1, <1>3, <1>5 DEF Functions
<1>7. \A x \in Outputs \ {o} : Same(x)
  BY <1>1, <1>3, <1>5 DEF Functions, Same
<1>8. Shape(o)'
  BY <1>1, <1>3, <1>6 DEF LinkInv, Shape
<1>9. Asking(o)'
  BY <1>1, <1>3, <1>4, <1>6 DEF LinkInv, Asking
<1>10. Gathering(o)' /\ Made(o)'
  BY <1>6 DEF Gathering, Made
<1> QED BY <1>1, <1>6, <1>7, <1>8, <1>9, <1>10, OneStep DEF LinkInv, IInv

\* remove_dir_all leaves a part of the directory, and of what was in stage.
LEMMA RemoveDirRight ==
  ASSUME IInv, NEW o \in Outputs, RemoveDir(o)
  PROVE  /\ DOMAIN tmp' = Outputs /\ DOMAIN stage' = Outputs
         /\ Tree(tmp'[o]) /\ stage'[o] \subseteq Bitcode
         /\ \A x \in Outputs \ {o} : tmp'[x] = tmp[x] /\ stage'[x] = stage[x]
<1>1. PICK left \in SUBSET DOMAIN tmp[o] : tmp' = [tmp EXCEPT ![o] = Restrict(tmp[o], left)]
  BY DEF RemoveDir
<1>2. PICK old \in {stage[o], {}} : stage' = [stage EXCEPT ![o] = old]
  BY DEF RemoveDir
<1>3. Functions /\ Shape(o)
  BY DEF IInv, LinkInv
<1>4. tmp'[o] = Restrict(tmp[o], left) /\ DOMAIN Restrict(tmp[o], left) = left
  BY <1>1, <1>3 DEF Functions, Restrict
<1>5. IsFiniteSet(left) /\ \A f \in left : f = <<f[1], f[2]>>
  BY <1>3, FS_Subset DEF Shape, Tree
<1>6. Tree(tmp'[o])
  BY <1>4, <1>5 DEF Tree
<1> QED BY <1>1, <1>2, <1>3, <1>6 DEF Functions, Shape

LEMMA PrepareStep ==
  ASSUME IInv, NEW o \in Outputs, Prepare(o) PROVE IInv'
<1>1. /\ at[o] = "prepare" /\ at' = [at EXCEPT ![o] = "gather"]
      /\ cluttered' = [cluttered EXCEPT ![o] = tmp'[o] # << >>]
      /\ rust_bcs' = [rust_bcs EXCEPT ![o] = << >>]
      /\ arena_bcs' = [arena_bcs EXCEPT ![o] = << >>]
      /\ next' = [next EXCEPT ![o] = 1]
      /\ UNCHANGED <<disk, argv, request, asked, opts, object, exit, links>>
  BY DEF Prepare, Tmp
<1>2. /\ DOMAIN tmp' = Outputs /\ DOMAIN stage' = Outputs
      /\ Tree(tmp'[o]) /\ stage'[o] \subseteq Bitcode
      /\ \A x \in Outputs \ {o} : tmp'[x] = tmp[x] /\ stage'[x] = stage[x]
  BY RemoveDirRight DEF Prepare, Tmp
<1>3. Functions /\ LinkInv(o)
  BY DEF IInv
<1>4. /\ at'[o] = "gather" /\ rust_bcs'[o] = << >> /\ arena_bcs'[o] = << >> /\ next'[o] = 1
      /\ cluttered'[o] = (tmp'[o] # << >>)
  BY <1>1, <1>3 DEF Functions
<1>5. Functions'
  BY <1>1, <1>2, <1>3 DEF Functions
<1>6. \A x \in Outputs \ {o} : Same(x)
  BY <1>1, <1>2, <1>3 DEF Functions, Same
<1>7. Shape(o)'
  <2>1. cluttered'[o] \in BOOLEAN
    BY <1>4
  <2> QED BY <1>1, <1>2, <1>3, <1>4, <2>1 DEF LinkInv, Shape
<1>8. Asking(o)'
  BY <1>1, <1>3, <1>4 DEF LinkInv, Asking
<1>9. Gathering(o)'
  <2> DEFINE r == request[o]
  <2>1. Len(r.inputs) \in Nat
    BY <1>1, <1>3, Given DEF LinkInv, Asking, RequestGiven
  <2>2. Plain(disk, r, 1) = {} /\ Rlibs(disk, r, 1) = {}
    BY DEF Plain, Rlibs
  <2>3. Bits(o, tmp'[o], {}) = {}
    BY DEF Bits
  <2>4. Gathered(disk, o, r, 1, tmp'[o], << >>)
    <3> DEFINE S == Plain(disk, r, 1) \cup Bits(o, tmp'[o], Rlibs(disk, r, 1))
    <3>1. S = {}
      BY <2>2, <2>3
    <3> HIDE DEF S
    <3>2. Lists(<< >>, S)
      BY <3>1, EmptyLists
    <3>3. 1 \in 1 .. Len(r.inputs) + 1
      BY <2>1
    <3> QED BY <2>2, <3>2, <3>3 DEF Gathered, S
  <2>5. ~cluttered'[o] => DOMAIN tmp'[o] = {}
    <3>1. DOMAIN << >> = {}
      OBVIOUS
    <3> QED BY <1>4, <3>1
  <2> QED BY <1>1, <1>4, <2>4, <2>5 DEF Gathering
<1>10. Made(o)'
  BY <1>4 DEF Made
<1> QED BY <1>1, <1>5, <1>6, <1>7, <1>8, <1>9, <1>10, OneStep DEF LinkInv, IInv

\* What the inductive invariant gives the steps that gather.
LEMMA AtWork ==
  ASSUME IInv, NEW o \in Outputs, at[o] # "idle"
  PROVE  /\ RequestGiven(request[o]) /\ DiskGiven(disk) /\ o # "disk" /\ Tree(tmp[o])
         /\ at[o] # "args" => opts[o] = request[o]
BY Given, NamesAssumption DEF IInv, LinkInv, Asking, Shape

LEMMA GatherStep ==
  ASSUME IInv, NEW o \in Outputs, Gather(o) PROVE IInv'
<1> DEFINE r == request[o]
           n == next[o]
           path == r.inputs[n]
           new == Unpacked(tmp[o], n, disk[path].members)
<1>1. /\ at[o] = "gather" /\ next' = [next EXCEPT ![o] = n + 1]
      /\ UNCHANGED <<disk, argv, request, asked, at, opts, stage, arena_bcs, object, exit,
                     cluttered, links>>
  BY DEF Gather
<1>2. /\ RequestGiven(r) /\ DiskGiven(disk) /\ o # "disk" /\ Tree(tmp[o]) /\ opts[o] = r
      /\ Functions /\ LinkInv(o)
  BY <1>1, AtWork DEF IInv
<1>3. n \in 1 .. Len(r.inputs)
  BY <1>2 DEF Gather, RequestGiven
<1>4. \/ /\ KindOf(disk, path) = "bitcode" /\ tmp' = tmp
         /\ rust_bcs' = [rust_bcs EXCEPT ![o] = Append(@, <<"disk", path>>)]
      \/ /\ KindOf(disk, path) = "archive"
         /\ tmp' = [tmp EXCEPT ![o] = new]
         /\ rust_bcs' = [rust_bcs EXCEPT ![o] = @ \o Modules(o, new, n)]
      \/ KindOf(disk, path) \notin {"bitcode", "archive"} /\ tmp' = tmp /\ rust_bcs' = rust_bcs
  BY <1>2 DEF Gather, Extract, Extracted, Tmp, SubDir
<1> HIDE DEF new
<1>5. Functions' /\ next'[o] = n + 1
  BY <1>1, <1>2, <1>4 DEF Functions
<1>6. \A x \in Outputs \ {o} : Same(x)
  BY <1>1, <1>2, <1>4 DEF Functions, Same
<1>7. Gathered(disk, o, r, n, tmp[o], rust_bcs[o])
  BY <1>1, <1>2 DEF LinkInv, Gathering
<1>8. /\ Gathered(disk, o, r, n + 1, tmp'[o], rust_bcs'[o]) /\ Tree(tmp'[o])
      /\ (\A f \in DOMAIN tmp[o] : OfRlibs(disk, r, n, f))
           => \A f \in DOMAIN tmp'[o] : OfRlibs(disk, r, n + 1, f)
  <2>1. CASE /\ KindOf(disk, path) = "bitcode" /\ tmp' = tmp
             /\ rust_bcs' = [rust_bcs EXCEPT ![o] = Append(@, <<"disk", path>>)]
    <3>1. rust_bcs'[o] = Append(rust_bcs[o], <<"disk", path>>) /\ tmp'[o] = tmp[o]
      BY <1>2, <2>1 DEF Functions
    <3>2. /\ Gathered(disk, o, r, n + 1, tmp[o], Append(rust_bcs[o], <<"disk", path>>))
          /\ Rlibs(disk, r, n + 1) = Rlibs(disk, r, n)
      BY <1>2, <1>3, <1>7, <2>1, ObjectRight
    <3> QED BY <1>2, <3>1, <3>2 DEF OfRlibs
  <2>2. CASE /\ KindOf(disk, path) = "archive"
             /\ tmp' = [tmp EXCEPT ![o] = new]
             /\ rust_bcs' = [rust_bcs EXCEPT ![o] = @ \o Modules(o, new, n)]
    <3>1. rust_bcs'[o] = rust_bcs[o] \o Modules(o, new, n) /\ tmp'[o] = new
      BY <1>2, <2>2 DEF Functions
    <3>2. new = Unpacked(tmp[o], n, disk[r.inputs[n]].members)
      BY DEF new
    <3>3. /\ Gathered(disk, o, r, n + 1, new, rust_bcs[o] \o Modules(o, new, n)) /\ Tree(new)
          /\ (\A f \in DOMAIN tmp[o] : OfRlibs(disk, r, n, f))
               => \A f \in DOMAIN new : OfRlibs(disk, r, n + 1, f)
      BY <1>2, <1>3, <1>7, <2>2, <3>2, RlibRight
    <3> QED BY <3>1, <3>3
  <2>3. CASE KindOf(disk, path) \notin {"bitcode", "archive"} /\ tmp' = tmp
             /\ rust_bcs' = rust_bcs
    <3> HIDE DEF r, n
    <3>1. KindOf(disk, r.inputs[n]) \notin {"bitcode", "archive"}
      BY <2>3
    <3>2. /\ Gathered(disk, o, r, n + 1, tmp[o], rust_bcs[o])
          /\ Rlibs(disk, r, n + 1) = Rlibs(disk, r, n)
      BY <1>2, <1>3, <1>7, <3>1, SkipRight
    <3> QED BY <1>2, <2>3, <3>2 DEF OfRlibs
  <2> QED BY <1>4, <2>1, <2>2, <2>3
<1>9. Shape(o)' /\ Asking(o)' /\ Made(o)'
  BY <1>1, <1>2, <1>8 DEF LinkInv, Shape, Asking, Made
<1>10. Gathering(o)'
  BY <1>1, <1>2, <1>5, <1>8 DEF LinkInv, Gathering
<1> QED BY <1>1, <1>5, <1>6, <1>9, <1>10, OneStep DEF LinkInv, IInv

LEMMA GatherArenaStep ==
  ASSUME IInv, NEW o \in Outputs, GatherArena(o) PROVE IInv'
<1> DEFINE r == request[o]
           n == next[o]
<1>1. /\ at[o] = "gather" /\ at' = [at EXCEPT ![o] = "link"]
      /\ UNCHANGED <<disk, argv, request, asked, next, opts, stage, rust_bcs, object, exit,
                     cluttered, links>>
  BY DEF GatherArena
<1>2. /\ RequestGiven(r) /\ DiskGiven(disk) /\ o # "disk" /\ Tree(tmp[o]) /\ opts[o] = r
      /\ Functions /\ LinkInv(o)
  BY <1>1, AtWork DEF IInv
<1>3. n = Len(r.inputs) + 1
  BY <1>2 DEF GatherArena
<1>4. PICK k \in DOMAIN r.libDirs :
        LET d == r.libDirs[k]
        IN  /\ d \in DOMAIN disk /\ disk[d].kind = "archive"
            /\ \A j \in 1 .. k - 1 : r.libDirs[j] \notin DOMAIN disk
            /\ tmp' = [tmp EXCEPT ![o] = Unpacked(@, arena_c, disk[d].members)]
            /\ arena_bcs' = [arena_bcs EXCEPT ![o] =
                 Modules(o, Unpacked(tmp[o], arena_c, disk[d].members), arena_c)]
  BY <1>2 DEF GatherArena, Extract, Extracted, Tmp
<1> DEFINE p == r.libDirs[k]
           new == Unpacked(tmp[o], arena_c, disk[p].members)
<1>5. p \in First(disk, r.libDirs) /\ p \in DOMAIN disk /\ disk[p].kind = "archive"
  BY <1>4 DEF First
<1>6. tmp' = [tmp EXCEPT ![o] = new] /\ arena_bcs' = [arena_bcs EXCEPT ![o] = Modules(o, new, arena_c)]
  BY <1>4
<1>7. IsFiniteSet(DOMAIN disk[p].members) /\ new = Unpacked(tmp[o], arena_c, disk[p].members)
  BY <1>2, <1>5 DEF DiskGiven
<1> HIDE DEF new, p
<1>8. Gathered(disk, o, r, n, tmp[o], rust_bcs[o])
  BY <1>1, <1>2 DEF LinkInv, Gathering
<1>9. /\ Gathered(disk, o, r, n, new, rust_bcs[o]) /\ Tree(new)
      /\ Lists(Modules(o, new, arena_c), Bits(o, new, {arena_c}))
      /\ \A m \in DOMAIN disk[p].members :
           <<arena_c, m>> \in DOMAIN new /\ new[<<arena_c, m>>] = disk[p].members[m]
      /\ (\A f \in DOMAIN tmp[o] : OfRlibs(disk, r, n, f))
           => \A f \in DOMAIN new : \/ OfRlibs(disk, r, n, f)
                                    \/ f[1] = arena_c /\ f[2] \in DOMAIN disk[p].members
  <2> HIDE DEF r, n
  <2>1. WithArena(disk, o, r, n, tmp[o], rust_bcs[o], disk[p].members, new)
    BY <1>2, <1>7, <1>8, ArenaRight
  <2> QED BY <2>1 DEF WithArena
<1>10. Functions' /\ at'[o] = "link" /\ tmp'[o] = new /\ arena_bcs'[o] = Modules(o, new, arena_c)
  BY <1>1, <1>2, <1>6 DEF Functions
<1>11. \A x \in Outputs \ {o} : Same(x)
  BY <1>1, <1>2, <1>6 DEF Functions, Same
<1>12. Shape(o)' /\ Asking(o)' /\ Made(o)'
  BY <1>1, <1>2, <1>9, <1>10 DEF LinkInv, Shape, Asking, Made
<1>13. Gathering(o)'
  <2>1. InPlace(disk, p, arena_c, new)
    BY <1>9 DEF InPlace
  <2>2. ~cluttered[o] => \A f \in DOMAIN new : OfRlibs(disk, r, n, f) \/ Of(disk, p, arena_c, f)
    BY <1>1, <1>2, <1>9 DEF LinkInv, Gathering, Of
  <2> QED BY <1>1, <1>3, <1>5, <1>9, <1>10, <2>1, <2>2 DEF Gathering
<1> QED BY <1>1, <1>10, <1>11, <1>12, <1>13, OneStep DEF LinkInv, IInv

\* What llvm-link is given.
LEMMA AtLink ==
  ASSUME IInv, NEW o \in Outputs, at[o] = "link"
  PROVE  LET A == All(disk, o, request[o], tmp[o])
         IN  /\ Lists(Listed(o), A)
             /\ \A f \in A : Exists(f) /\ Contents(f) \in Bitcode
             /\ Holds({Contents(f) : f \in A}, asked[o], cluttered[o])
             /\ ~cluttered[o] => \A f, g \in A : Contents(f) = Contents(g) => f = g
<1> DEFINE r == request[o]
           A == All(disk, o, r, tmp[o])
<1>1. /\ RequestGiven(r) /\ DiskGiven(disk) /\ o # "disk" /\ Tree(tmp[o])
      /\ LinkInv(o) /\ asked[o] = Asked(disk, r)
  BY AtWork DEF IInv, LinkInv, Asking
<1>2. /\ Gathered(disk, o, r, Len(r.inputs) + 1, tmp[o], rust_bcs[o])
      /\ Lists(arena_bcs[o], Bits(o, tmp[o], {arena_c}))
  BY <1>1 DEF LinkInv, Gathering
<1>3. PICK p \in First(disk, r.libDirs) :
        /\ disk[p].kind = "archive" /\ InPlace(disk, p, arena_c, tmp[o])
        /\ ~cluttered[o] =>
             \A f \in DOMAIN tmp[o] : \/ OfRlibs(disk, r, Len(r.inputs) + 1, f)
                                      \/ Of(disk, p, arena_c, f)
  BY <1>1 DEF LinkInv, Gathering
<1>4. Lists(Listed(o), A)
  BY <1>1, <1>2, ListedRight DEF Listed
<1>5. /\ \A f \in A : /\ In(disk, tmp[o], f) \in Bitcode
                      /\ f = <<f[1], f[2]>>
                      /\ f[1] # "disk" => f[1] = o /\ f[2] \in DOMAIN tmp[o]
      /\ \A c \in Asked(disk, r) : \E f \in A : c = In(disk, tmp[o], f)
      /\ ~cluttered[o] =>
           /\ \A f \in A : In(disk, tmp[o], f) \in Asked(disk, r)
           /\ \A f, g \in A : In(disk, tmp[o], f) = In(disk, tmp[o], g) => f = g
  <2>1. Sound(disk, o, r, tmp[o], p)
    <3> HIDE DEF r
    <3> QED BY <1>1, <1>2, <1>3, AllRight
  <2> QED BY <1>3, <2>1 DEF Sound
<1> HIDE DEF A
<1>6. \A f \in A : Exists(f) /\ Contents(f) = In(disk, tmp[o], f)
  BY <1>5 DEF Exists, Contents, In
<1>7. Holds({Contents(f) : f \in A}, asked[o], cluttered[o])
  BY <1>1, <1>5, <1>6 DEF Holds
<1>8. /\ Lists(Listed(o), A)
      /\ \A f \in A : Exists(f) /\ Contents(f) \in Bitcode
      /\ Holds({Contents(f) : f \in A}, asked[o], cluttered[o])
      /\ ~cluttered[o] => \A f, g \in A : Contents(f) = Contents(g) => f = g
  BY <1>4, <1>5, <1>6, <1>7
<1> QED BY <1>8 DEF A

LEMMA LinkModulesStep ==
  ASSUME IInv, NEW o \in Outputs, LinkModules(o) PROVE IInv'
<1> DEFINE A == All(disk, o, request[o], tmp[o])
<1>1. /\ at[o] = "link" /\ at' = [at EXCEPT ![o] = "passes"]
      /\ stage' = [stage EXCEPT ![o] = {Contents(f) : f \in ToSet(Listed(o))}]
      /\ UNCHANGED <<disk, argv, request, asked, next, opts, tmp, rust_bcs, arena_bcs, object,
                     exit, cluttered, links>>
  BY DEF LinkModules, Tmp
<1>2. Functions /\ LinkInv(o)
  BY DEF IInv
<1>3. /\ ToSet(Listed(o)) = A /\ \A f \in A : Contents(f) \in Bitcode
      /\ Holds({Contents(f) : f \in A}, asked[o], cluttered[o])
  BY <1>1, AtLink DEF Lists
<1> HIDE DEF A
<1>4. Functions' /\ at'[o] = "passes" /\ stage'[o] = {Contents(f) : f \in A}
  BY <1>1, <1>2, <1>3 DEF Functions
<1>5. \A x \in Outputs \ {o} : Same(x)
  BY <1>1, <1>2 DEF Functions, Same
<1>6. Shape(o)'
  BY <1>1, <1>2, <1>3, <1>4 DEF LinkInv, Shape
<1>7. Asking(o)' /\ Gathering(o)'
  BY <1>1, <1>2, <1>4 DEF LinkInv, Asking, Gathering
<1>8. Made(o)'
  BY <1>1, <1>3, <1>4 DEF Made
<1> QED BY <1>1, <1>4, <1>5, <1>6, <1>7, <1>8, OneStep DEF LinkInv, IInv

LEMMA PassesStep ==
  ASSUME IInv, NEW o \in Outputs, Passes(o) PROVE IInv'
<1>1. /\ at[o] = "passes" /\ at' = [at EXCEPT ![o] = "rename"]
      /\ object' = [object EXCEPT ![o] = [members |-> stage[o], renamed |-> FALSE]]
      /\ UNCHANGED <<disk, argv, request, asked, next, opts, tmp, stage, rust_bcs, arena_bcs, exit,
                     cluttered, links>>
  BY DEF Passes, Tmp
<1>2. Functions /\ LinkInv(o)
  BY DEF IInv
<1>3. Functions' /\ at'[o] = "rename" /\ object'[o] = [members |-> stage[o], renamed |-> FALSE]
  BY <1>1, <1>2 DEF Functions
<1>4. object'[o] \in [members : SUBSET Bitcode, renamed : BOOLEAN] /\ object'[o].members = stage[o]
  BY <1>2, <1>3 DEF LinkInv, Shape
<1>5. object'[o] # NoObject
  BY <1>4, NamesAssumption
<1>6. \A x \in Outputs \ {o} : Same(x)
  BY <1>1, <1>2 DEF Functions, Same
<1>7. Shape(o)'
  BY <1>1, <1>2, <1>3, <1>4 DEF LinkInv, Shape
<1>8. Asking(o)' /\ Gathering(o)'
  BY <1>1, <1>2, <1>3 DEF LinkInv, Asking, Gathering
<1>9. Made(o)'
  BY <1>1, <1>2, <1>3, <1>4, <1>5 DEF LinkInv, Made
<1> QED BY <1>1, <1>3, <1>6, <1>7, <1>8, <1>9, OneStep DEF LinkInv, IInv

LEMMA BtfRenameStep ==
  ASSUME IInv, NEW o \in Outputs, BtfRename(o) PROVE IInv'
<1>1. /\ at[o] = "rename" /\ at' = [at EXCEPT ![o] = "clean"]
      /\ object' = [object EXCEPT ![o].renamed = TRUE]
      /\ UNCHANGED <<disk, argv, request, asked, next, opts, tmp, stage, rust_bcs, arena_bcs, exit,
                     cluttered, links>>
  BY DEF BtfRename
<1>2. Functions /\ LinkInv(o)
  BY DEF IInv
<1>3. Functions' /\ at'[o] = "clean" /\ object'[o] = [object[o] EXCEPT !.renamed = TRUE]
  BY <1>1, <1>2 DEF Functions
<1>4. /\ object'[o] \in [members : SUBSET Bitcode, renamed : BOOLEAN]
      /\ object'[o].members = object[o].members /\ object'[o].renamed
  <2>1. object[o] \in [members : SUBSET Bitcode, renamed : BOOLEAN]
    BY <1>1, <1>2 DEF LinkInv, Shape, Made
  <2> QED BY <1>3, <2>1
<1>5. object'[o] # NoObject
  BY <1>4, NamesAssumption
<1>6. \A x \in Outputs \ {o} : Same(x)
  BY <1>1, <1>2 DEF Functions, Same
<1>7. Shape(o)'
  BY <1>1, <1>2, <1>3, <1>4 DEF LinkInv, Shape
<1>8. Asking(o)' /\ Gathering(o)'
  BY <1>1, <1>2, <1>3 DEF LinkInv, Asking, Gathering
<1>9. Made(o)'
  BY <1>1, <1>2, <1>3, <1>4, <1>5 DEF LinkInv, Made
<1> QED BY <1>1, <1>3, <1>6, <1>7, <1>8, <1>9, OneStep DEF LinkInv, IInv

LEMMA CleanUpStep ==
  ASSUME IInv, NEW o \in Outputs, CleanUp(o) PROVE IInv'
<1>1. /\ at' = [at EXCEPT ![o] = "idle"] /\ exit' = [exit EXCEPT ![o] = "ok"]
      /\ UNCHANGED <<disk, argv, request, asked, next, opts, rust_bcs, arena_bcs, object,
                     cluttered, links>>
  BY DEF CleanUp
<1>2. /\ DOMAIN tmp' = Outputs /\ DOMAIN stage' = Outputs
      /\ Tree(tmp'[o]) /\ stage'[o] \subseteq Bitcode
      /\ \A x \in Outputs \ {o} : tmp'[x] = tmp[x] /\ stage'[x] = stage[x]
  BY RemoveDirRight DEF CleanUp, Tmp
<1>3. Functions /\ LinkInv(o)
  BY DEF IInv
<1>4. Functions' /\ at'[o] = "idle" /\ exit'[o] = "ok"
  BY <1>1, <1>2, <1>3 DEF Functions
<1>5. \A x \in Outputs \ {o} : Same(x)
  BY <1>1, <1>2, <1>3 DEF Functions, Same
<1>6. Shape(o)'
  BY <1>1, <1>2, <1>3, <1>4 DEF LinkInv, Shape
<1>7. Asking(o)' /\ Gathering(o)' /\ Made(o)'
  BY <1>4 DEF Asking, Gathering, Made
<1> QED BY <1>1, <1>4, <1>5, <1>6, <1>7, OneStep DEF LinkInv, IInv

LEMMA DieStep ==
  ASSUME IInv, NEW o \in Outputs, Die(o) PROVE IInv'
<1>1. /\ at' = [at EXCEPT ![o] = "idle"] /\ exit' = [exit EXCEPT ![o] = "failed"]
      /\ UNCHANGED <<disk, argv, request, asked, next, opts, tmp, stage, rust_bcs, arena_bcs,
                     object, cluttered, links>>
  BY DEF Die
<1>2. Functions /\ LinkInv(o)
  BY DEF IInv
<1>3. Functions' /\ at'[o] = "idle" /\ exit'[o] = "failed"
  BY <1>1, <1>2 DEF Functions
<1>4. \A x \in Outputs \ {o} : Same(x)
  BY <1>1, <1>2 DEF Functions, Same
<1>5. Shape(o)'
  BY <1>1, <1>2, <1>3 DEF LinkInv, Shape
<1>6. Asking(o)' /\ Gathering(o)' /\ Made(o)'
  BY <1>3 DEF Asking, Gathering, Made
<1> QED BY <1>1, <1>3, <1>4, <1>5, <1>6, OneStep DEF LinkInv, IInv

LEMMA RebuildStep ==
  ASSUME IInv, Rebuild PROVE IInv'
<1>1. /\ disk' \in Disks
      /\ UNCHANGED <<argv, request, asked, at, next, opts, tmp, stage, rust_bcs, arena_bcs, object,
                     exit, cluttered, links>>
      /\ \A o \in Outputs : exit[o] # "running"
  BY DEF Rebuild, Running
<1>2. ASSUME NEW o \in Outputs PROVE LinkInv(o)'
  <2>1. LinkInv(o) /\ at[o] = "idle"
    BY <1>1 DEF IInv, LinkInv, Shape
  <2>2. Same(o)
    BY <1>1 DEF Same
  <2> QED BY <2>1, <2>2, Frame
<1> QED BY <1>1, <1>2 DEF IInv, Functions

-----------------------------------------------------------------------------
(* The invariant is one.                                                   *)

\* Where each link is, what is in its directory and what its object is made of
\* agree, whatever the other links do and earlier ones have left.
THEOREM Invariance ==
  ASSUME AsMeant PROVE Spec => []IInv
<1>1. Init => IInv
  <2> SUFFICES ASSUME Init PROVE IInv
    OBVIOUS
  <2>1. disk \in Disks /\ links \in 0 .. MaxLinks
    BY NamesAssumption DEF Init
  <2>2. Functions
    BY DEF Init, Functions
  <2>3. ASSUME NEW o \in Outputs PROVE LinkInv(o)
    <3>1. /\ at[o] = "idle" /\ exit[o] = "failed" /\ ~cluttered[o] /\ cluttered[o] \in BOOLEAN
          /\ asked[o] = {} /\ stage[o] = {} /\ tmp[o] = << >> /\ object[o] = NoObject
      BY DEF Init
    <3>2. Tree(tmp[o])
      <4>1. DOMAIN << >> = {}
        OBVIOUS
      <4> QED BY <3>1, <4>1, FS_EmptySet DEF Tree
    <3> QED BY <3>1, <3>2 DEF LinkInv, Shape, Asking, Gathering, Made
  <2> QED BY <2>1, <2>2, <2>3 DEF IInv
<1>2. ASSUME IInv, [Next]_vars PROVE IInv'
  <2>1. CASE UNCHANGED vars
    <3>1. \A o \in Outputs : Same(o) /\ LinkInv(o)
      BY <1>2, <2>1 DEF vars, Same, IInv
    <3>2. disk' = disk /\ links' = links /\ Functions'
      BY <1>2, <2>1 DEF vars, Functions, IInv
    <3>3. \A o \in Outputs : LinkInv(o)'
      BY <3>1, <3>2, Frame
    <3> QED BY <1>2, <3>2, <3>3 DEF IInv
  <2>2. CASE Rebuild
    BY <1>2, <2>2, RebuildStep
  <2>3. ASSUME NEW o \in Outputs,
               Begin(o) \/ ParseArgs(o) \/ Prepare(o) \/ Gather(o) \/ GatherArena(o)
                 \/ LinkModules(o) \/ Passes(o) \/ BtfRename(o) \/ CleanUp(o) \/ Die(o)
        PROVE  IInv'
    BY <1>2, <2>3, BeginStep, ParseArgsStep, PrepareStep, GatherStep, GatherArenaStep,
       LinkModulesStep, PassesStep, BtfRenameStep, CleanUpStep, DieStep
  <2> QED BY <1>2, <2>1, <2>2, <2>3 DEF Next
<1> QED BY <1>1, <1>2, PTL DEF Spec

-----------------------------------------------------------------------------
(* What follows from it.                                                   *)

\* What has been gathered is there and is bitcode.
LEMMA GatheredThere ==
  ASSUME IInv, NEW o \in Outputs, at[o] = "gather", NEW f \in ToSet(Listed(o))
  PROVE  Exists(f) /\ Contents(f) \in Bitcode
<1> DEFINE r == request[o]
           S == Plain(disk, r, next[o]) \cup Bits(o, tmp[o], Rlibs(disk, r, next[o]))
<1>1. /\ RequestGiven(r) /\ DiskGiven(disk) /\ o # "disk"
      /\ Lists(rust_bcs[o], S) /\ arena_bcs[o] = << >>
  BY AtWork DEF IInv, LinkInv, Gathering, Gathered
<1>2. Listed(o) = rust_bcs[o]
  BY <1>1, ConcatEmptySeq DEF Listed, Lists
<1>3. f \in S
  BY <1>1, <1>2 DEF Lists
<1>4. CASE f \in Plain(disk, r, next[o])
  <2>1. PICK k \in 1 .. next[o] - 1 :
          f = <<"disk", r.inputs[k]>> /\ KindOf(disk, r.inputs[k]) = "bitcode"
    BY <1>4 DEF Plain
  <2>2. /\ r.inputs[k] \in DOMAIN disk /\ disk[r.inputs[k]].kind = "bitcode"
        /\ f[1] = "disk" /\ f[2] = r.inputs[k]
    BY <2>1 DEF KindOf
  <2> QED BY <1>1, <2>2 DEF DiskGiven, Exists, Contents
<1>5. CASE f \in Bits(o, tmp[o], Rlibs(disk, r, next[o]))
  <2>1. f[1] = o /\ f[2] \in DOMAIN tmp[o] /\ tmp[o][f[2]] \in Bitcode
    BY <1>5 DEF Bits
  <2> QED BY <1>1, <2>1 DEF Exists, Contents
<1> QED BY <1>3, <1>4, <1>5

\* The types; what the lists name is there, and is bitcode.
THEOREM TypeCorrect ==
  ASSUME AsMeant PROVE Spec => []TypeOK
<1>1. ASSUME IInv PROVE TypeOK
  <2>1. ASSUME NEW o \in Outputs
        PROVE  /\ at[o] \in {"idle", "args", "prepare", "gather", "link", "passes", "rename", "clean"}
               /\ exit[o] \in {"running", "ok", "failed"} /\ (Running(o) <=> at[o] # "idle")
               /\ at[o] \in {"gather", "link"} => next[o] \in 1 .. Len(opts[o].inputs) + 1
               /\ cluttered[o] \in BOOLEAN /\ asked[o] \subseteq Bitcode /\ stage[o] \subseteq Bitcode
               /\ at[o] \in {"gather", "link"} =>
                    \A f \in ToSet(Listed(o)) : Exists(f) /\ Contents(f) \in Bitcode
               /\ object[o] # NoObject => object[o].members \subseteq Bitcode
    <3>1. Shape(o) /\ LinkInv(o)
      BY <1>1 DEF IInv, LinkInv
    <3>2. at[o] \in {"gather", "link"} => next[o] \in 1 .. Len(opts[o].inputs) + 1
      BY <3>1 DEF LinkInv, Asking, Gathering, Gathered
    <3>3. ASSUME at[o] = "link", NEW f \in ToSet(Listed(o))
          PROVE  Exists(f) /\ Contents(f) \in Bitcode
      BY <1>1, <3>3, AtLink DEF Lists
    <3>4. at[o] \in {"gather", "link"} =>
            \A f \in ToSet(Listed(o)) : Exists(f) /\ Contents(f) \in Bitcode
      BY <1>1, <3>3, GatheredThere
    <3>5. object[o] # NoObject => object[o].members \subseteq Bitcode
      BY <3>1 DEF Shape
    <3> QED BY <3>1, <3>2, <3>4, <3>5 DEF Shape, Running
  <2> QED BY <1>1, <2>1 DEF TypeOK, IInv
<1> QED BY <1>1, Invariance, PTL

\* llvm-link gets every module that was asked for, once.
THEOREM EveryMemberOnce ==
  ASSUME AsMeant PROVE Spec => []MembersOnce
<1>1. ASSUME IInv, NEW o \in Outputs, at[o] = "link"
      PROVE  LET given == [k \in DOMAIN Listed(o) |-> Contents(Listed(o)[k])]
             IN  /\ asked[o] \subseteq ToSet(given)
                 /\ ~cluttered[o] => ToSet(given) = asked[o] /\ Len(given) = Cardinality(asked[o])
  <2> DEFINE A == All(disk, o, request[o], tmp[o])
             s == Listed(o)
             given == [k \in DOMAIN s |-> Contents(s[k])]
             C == {Contents(f) : f \in A}
  <2>1. /\ Lists(s, A) /\ Holds(C, asked[o], cluttered[o])
        /\ ~cluttered[o] => \A f, g \in A : Contents(f) = Contents(g) => f = g
    BY <1>1, AtLink
  <2> HIDE DEF A, s
  <2> DEFINE n == Len(s)
  <2>2. /\ n \in Nat /\ DOMAIN s = 1 .. n
        /\ \A i \in 1 .. n : s[i] \in A
        /\ \A x \in A : \E i \in 1 .. n : s[i] = x
        /\ \A i, j \in 1 .. n : s[i] = s[j] => i = j
    BY <2>1, ListsShape
  <2> HIDE DEF n
  <2>3. DOMAIN given = 1 .. n /\ \A i \in 1 .. n : given[i] = Contents(s[i])
    BY <2>2
  <2>4. given \in Seq(C) /\ Len(given) = n
    <3>1. given \in [1 .. n -> C]
      BY <2>2
    <3> QED BY <2>2, <3>1, SeqDef
  <2>5. ToSet(given) = C
    BY <2>2, <2>3 DEF ToSet
  <2>6. ASSUME ~cluttered[o] PROVE Len(given) = Cardinality(asked[o])
    <3>1. \A i, j \in 1 .. n : given[i] = given[j] => i = j
      BY <2>1, <2>2, <2>3, <2>6
    <3>2. IsInjective(given)
      BY <2>3, <3>1 DEF IsInjective
    <3> HIDE DEF given, C
    <3>3. Lists(given, C)
      BY <2>4, <2>5, <3>2 DEF Lists
    <3>4. C = asked[o]
      BY <2>1, <2>6 DEF Holds
    <3> QED BY <3>3, <3>4, ListsCard
  <2>7. asked[o] \subseteq ToSet(given) /\ (~cluttered[o] => ToSet(given) = asked[o])
    BY <2>1, <2>5 DEF Holds
  <2> QED BY <2>6, <2>7 DEF s
<1>2. IInv => MembersOnce
  BY <1>1 DEF MembersOnce
<1> QED BY <1>2, Invariance, PTL

-----------------------------------------------------------------------------
(* The refinement: gathering and linking are invisible; preparing a        *)
(* cluttered directory is Litter, and the rest one step each.              *)

THEOREM Implements ==
  ASSUME AsMeant PROVE Spec => ImplementsLinkOutput
<1>1. Init => Output!Init
  BY DEF Init, Output!Init
<1>2. ASSUME IInv, [Next]_vars PROVE [Output!Next]_<<asked, object, exit, cluttered>>
  <2> USE DEF Output!Next
  <2>1. CASE UNCHANGED vars
    BY <2>1 DEF vars
  <2>2. CASE Rebuild
    BY <2>2 DEF Rebuild
  <2>3. ASSUME NEW o \in Outputs, Begin(o) PROVE Output!Ask(o)
    <3>1. PICK l \in Lines : asked' = [asked EXCEPT ![o] = Asked(disk, l.request)]
      BY <2>3 DEF Begin
    <3>2. Asked(disk, l.request) \in SUBSET Bitcode
      BY DEF Asked, Payload
    <3> QED BY <2>3, <3>1, <3>2 DEF Begin, Running, Output!Ask
  <2>4. ASSUME NEW o \in Outputs, ParseArgs(o) \/ Gather(o) \/ GatherArena(o) \/ LinkModules(o)
        PROVE  UNCHANGED <<asked, object, exit, cluttered>>
    BY <2>4 DEF ParseArgs, Gather, GatherArena, LinkModules
  <2>5. ASSUME NEW o \in Outputs, Prepare(o)
        PROVE  Output!Litter(o) \/ UNCHANGED <<asked, object, exit, cluttered>>
    <3>1. /\ cluttered' = [cluttered EXCEPT ![o] = tmp'[o] # << >>] /\ at[o] = "prepare"
          /\ UNCHANGED <<asked, object, exit>>
      BY <2>5 DEF Prepare, Tmp
    <3>2. cluttered \in [Outputs -> BOOLEAN] /\ cluttered[o] = FALSE /\ exit[o] = "running"
      BY <1>2, <3>1 DEF IInv, Functions, LinkInv, Shape, Asking
    <3>3. CASE tmp'[o] # << >>
      BY <3>1, <3>2, <3>3 DEF Output!Litter
    <3>4. CASE tmp'[o] = << >>
      <4>1. cluttered' = [cluttered EXCEPT ![o] = FALSE]
        BY <3>1, <3>4
      <4>2. cluttered' = cluttered
        BY <3>2, <4>1
      <4> QED BY <3>1, <4>2
    <3> QED BY <3>3, <3>4
  <2>6. ASSUME NEW o \in Outputs, Passes(o) PROVE Output!Write(o)
    <3>1. /\ at[o] = "passes"
          /\ object' = [object EXCEPT ![o] = [members |-> stage[o], renamed |-> FALSE]]
          /\ UNCHANGED <<asked, exit, cluttered>>
      BY <2>6 DEF Passes, Tmp
    <3>2. /\ exit[o] = "running" /\ stage[o] \subseteq Bitcode
          /\ Holds(stage[o], asked[o], cluttered[o])
      BY <1>2, <3>1 DEF IInv, LinkInv, Shape, Made
    <3> DEFINE more == stage[o] \ asked[o]
    <3>3. more \in SUBSET Bitcode /\ stage[o] = asked[o] \cup more /\ (more # {} => cluttered[o])
      BY <3>2 DEF Holds
    <3> QED BY <3>1, <3>2, <3>3 DEF Output!Write
  <2>7. ASSUME NEW o \in Outputs, BtfRename(o) PROVE Output!Rename(o)
    BY <1>2, <2>7 DEF BtfRename, IInv, LinkInv, Shape, Made, Output!Rename
  <2>8. ASSUME NEW o \in Outputs, CleanUp(o) PROVE Output!Succeed(o)
    BY <1>2, <2>8 DEF CleanUp, IInv, LinkInv, Shape, Made, Holds, Output!Succeed
  <2>9. ASSUME NEW o \in Outputs, Die(o) PROVE Output!Fail(o)
    BY <2>9 DEF Die, Running, Output!Fail
  <2>10. ASSUME NEW o \in Outputs,
                Begin(o) \/ ParseArgs(o) \/ Prepare(o) \/ Gather(o) \/ GatherArena(o)
                  \/ LinkModules(o) \/ Passes(o) \/ BtfRename(o) \/ CleanUp(o) \/ Die(o)
         PROVE  \/ Output!Ask(o) \/ Output!Litter(o) \/ Output!Write(o) \/ Output!Rename(o)
                \/ Output!Succeed(o) \/ Output!Fail(o)
                \/ UNCHANGED <<asked, object, exit, cluttered>>
    BY <2>3, <2>4, <2>5, <2>6, <2>7, <2>8, <2>9, <2>10
  <2> QED BY <1>2, <2>1, <2>2, <2>10 DEF Next
<1>3. ASSUME IInv, [Next]_vars PROVE [Output!Next]_Output!vars
  BY <1>2, <1>3 DEF Output!vars
<1> QED BY <1>1, <1>3, Invariance, PTL DEF Spec, ImplementsLinkOutput, Output!Spec
=============================================================================
