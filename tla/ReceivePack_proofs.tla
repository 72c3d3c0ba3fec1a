------------------------- MODULE ReceivePack_proofs -------------------------
(***************************************************************************)
(* Proofs about ReceivePack, for any tree of any depth, whatever its       *)
(* author does to it while it is walked, and however often: what a         *)
(* packfile holds, why a backend is asked in place of the root, and that   *)
(* Git reads what was sent as the files that were read.                    *)
(***************************************************************************)
EXTENDS ReceivePack, SequenceTheorems, WellFoundedInduction, TLAPS

Object == [name : Files, data : Contents]
Opened == [name : Files, at : SUBSET Files, held : SUBSET Contents]

TypeOK ==
    /\ IsTree(tree)
    /\ config \in [root : BOOLEAN, backend : BOOLEAN]
    /\ mode \in {"binary", "text"}
    /\ unreadable \subseteq Files
    /\ route \in Paths
    /\ step \in {"begin", "walk", "read", "write", "fetch", "done"}
    /\ source \in {"nowhere", "root", "backend"}
    /\ pending \subseteq Paths
    /\ open \subseteq Opened
    /\ objects \in Seq(Object)
    /\ had \in [Files -> SUBSET Contents]
    /\ \A f \in Files \cap DOMAIN tree : tree[f] \in had[f]

\* The walk never comes to a path twice: what it has still to visit does not
\* overlap, nor hold anything that was read.
Disjoint ==
    /\ \A p, q \in pending : IsPrefix(p, q) => p = q
    /\ \A i \in DOMAIN objects : \A p \in pending : ~IsPrefix(p, objects[i].name)
    /\ \A i, j \in DOMAIN objects : objects[i].name = objects[j].name => i = j

\* What was read is of the route, and was there, whole or torn.
Genuine ==
    \A i \in DOMAIN objects : /\ IsPrefix(route, objects[i].name)
                             /\ objects[i].data \in ReadsAs(had[objects[i].name])

\* The walk is not done with the file being read; while nobody touches it, it
\* holds one thing.
Still(o) == o.name \in DOMAIN tree /\ o.at = {o.name} /\ o.held = {tree[o.name]}
OpenFits ==
    /\ step # "read" => open = {}
    /\ \A o \in open : /\ o.name \in pending /\ o.held \subseteq had[o.name]
                       /\ o.name \notin touched => Still(o)

\* An untouched file of the route was read, or the walk will come to it.
Read(f)   == \E i \in DOMAIN objects : objects[i] = [name |-> f, data |-> tree[f]]
Coming(f) == \E p \in pending : IsPrefix(p, f)
Covered ==
    step \in {"walk", "read"} \/ source = "root" =>
        \A f \in Files \cap DOMAIN tree :
            IsPrefix(route, f) /\ f \notin touched => Read(f) \/ Coming(f)

\* What the walk will come to is part of the route, and still there unless the
\* author has edited the route.
OnRoute == \A p \in pending : IsPrefix(route, p) /\ (~Disturbed => Exists(p))

\* Only what looks inside the root is walked.
Checked == step \in {"walk", "read"} \/ source = "root" => LooksInside(route)

Reason ==
    \/ ~IsPrefix(Root, route) \/ ~Exists(route)
    \/ \E f \in unreadable : IsPrefix(route, f)
    \/ Disturbed

IInv ==
    /\ TypeOK
    /\ Disjoint
    /\ Genuine
    /\ OpenFits
    /\ Covered
    /\ OnRoute
    /\ Checked
    /\ step \in {"begin", "walk", "read"} => source = "nowhere"
    /\ step = "begin" => pending = {} /\ objects = <<>>
    /\ source = "root" => pending = {}
    /\ step = "fetch" \/ source = "backend" => mode = "binary"
    /\ (step = "fetch" \/ source = "backend") /\ config.root => Reason

-----------------------------------------------------------------------------
(* Facts about paths. *)

LEMMA PathType == ASSUME NEW p \in Paths PROVE p \in Seq(STRING) /\ Len(p) \in Nat
BY PathsAssumption

(* A path is a prefix of another when the names agree. *)
LEMMA PrefixByNames ==
    ASSUME NEW p \in Seq(STRING), NEW q \in Seq(STRING)
    PROVE  IsPrefix(p, q) <=> /\ Len(p) <= Len(q)
                              /\ \A i \in 1 .. Len(p) : p[i] = q[i]
<1>1. SubSeq(p, 1, Len(p)) = p
  OBVIOUS
<1>2. ASSUME Len(p) <= Len(q)
      PROVE  SubSeq(q, 1, Len(p)) = p <=> \A i \in 1 .. Len(p) : p[i] = q[i]
  <2>. DEFINE r == SubSeq(q, 1, Len(p))
  <2>1. /\ r \in Seq(STRING) /\ Len(r) = Len(p)
        /\ \A i \in 1 .. Len(p) : r[i] = q[i]
    BY <1>2
  <2>. HIDE DEF r
  <2>2. r = p => \A i \in 1 .. Len(p) : p[i] = q[i]
    BY <2>1
  <2>3. (\A i \in 1 .. Len(p) : p[i] = q[i]) => r = p
    BY <2>1, SeqEqual
  <2>. QED  BY <2>2, <2>3 DEF r
<1>. QED  BY <1>1, <1>2 DEF IsPrefix

LEMMA PrefixReflexive == ASSUME NEW p \in Paths PROVE IsPrefix(p, p)
BY PathType, PrefixByNames

LEMMA PrefixTransitive ==
    ASSUME NEW p \in Paths, NEW q \in Paths, NEW r \in Paths,
           IsPrefix(p, q), IsPrefix(q, r)
    PROVE  IsPrefix(p, r)
<1>1. /\ Len(p) <= Len(q) /\ \A i \in 1 .. Len(p) : p[i] = q[i]
      /\ Len(q) <= Len(r) /\ \A i \in 1 .. Len(q) : q[i] = r[i]
      /\ Len(p) \in Nat /\ Len(q) \in Nat /\ Len(r) \in Nat
  BY PathType, PrefixByNames
<1>2. Len(p) <= Len(r) /\ \A i \in 1 .. Len(p) : p[i] = r[i]
  BY <1>1
<1>. QED  BY <1>2, PathType, PrefixByNames

(* What is above a path are the prefixes of it that are shorter. *)
LEMMA AboveIsPrefix ==
    ASSUME NEW p \in Paths, NEW q \in Paths
    PROVE  IsPrefix(p, q) <=> p = q \/ p \in Above(q)
<1>1. /\ p \in Seq(STRING) /\ Len(p) \in Nat /\ q \in Seq(STRING) /\ Len(q) \in Nat
  BY PathType
<1>2. ASSUME IsPrefix(p, q), p # q PROVE p \in Above(q)
  <2>1. SubSeq(q, 1, Len(p)) = p /\ Len(p) <= Len(q)
    BY <1>1, <1>2 DEF IsPrefix
  <2>2. Len(p) # Len(q)
    <3>. SUFFICES ASSUME Len(p) = Len(q) PROVE p = q
      BY <1>2
    <3>1. SubSeq(q, 1, Len(q)) = q
      BY <1>1
    <3>2. SubSeq(q, 1, Len(p)) = SubSeq(q, 1, Len(q))
      OBVIOUS
    <3>. QED  BY <2>1, <3>1, <3>2, Zenon
  <2>3. Len(p) \in 0 .. Len(q) - 1
    BY <1>1, <2>1, <2>2
  <2>4. SubSeq(q, 1, Len(p)) \in Above(q)
    BY <2>3 DEF Above
  <2>. QED  BY <2>1, <2>4, Zenon
<1>3. ASSUME p \in Above(q) PROVE IsPrefix(p, q)
  <2>1. PICK n \in 0 .. Len(q) - 1 : p = SubSeq(q, 1, n)
    BY <1>3 DEF Above
  <2>2. Len(p) = n /\ \A i \in 1 .. n : p[i] = q[i]
    BY <1>1, <2>1
  <2>. QED  BY <1>1, <2>2, PrefixByNames
<1>. QED  BY <1>2, <1>3, PrefixReflexive

(* Two prefixes of a path are prefixes one of the other. *)
LEMMA PrefixesOfOne ==
    ASSUME NEW p \in Paths, NEW q \in Paths, NEW r \in Paths,
           IsPrefix(p, r), IsPrefix(q, r)
    PROVE  /\ Len(p) <= Len(q) => IsPrefix(p, q)
           /\ Len(q) <= Len(p) => IsPrefix(q, p)
<1>1. /\ p \in Seq(STRING) /\ Len(p) \in Nat /\ q \in Seq(STRING) /\ Len(q) \in Nat
      /\ r \in Seq(STRING)
  BY PathType
<1>2. /\ \A i \in 1 .. Len(p) : p[i] = r[i]
      /\ \A i \in 1 .. Len(q) : q[i] = r[i]
  BY <1>1, PrefixByNames
<1>3. Len(p) <= Len(q) => \A i \in 1 .. Len(p) : p[i] = q[i]
  BY <1>1, <1>2
<1>4. Len(q) <= Len(p) => \A i \in 1 .. Len(q) : q[i] = p[i]
  BY <1>1, <1>2
<1>. QED  BY <1>1, <1>3, <1>4, PrefixByNames

(* Everything above a child is its parent or above it. *)
LEMMA ChildOf ==
    ASSUME NEW c \in Paths, NEW p \in Paths, c # <<>>, Parent(c) = p
    PROVE  /\ Len(c) = Len(p) + 1
           /\ IsPrefix(p, c) /\ p # c
           /\ p \in Above(c)
           /\ \A q \in Paths : IsPrefix(q, c) => q = c \/ IsPrefix(q, p)
<1>1. /\ c \in Seq(STRING) /\ Len(c) \in Nat \ {0} /\ p \in Seq(STRING) /\ Len(p) \in Nat
  BY PathType, EmptySeq
<1>2. Len(p) = Len(c) - 1
  BY <1>1 DEF Parent
<1>3. p \in Above(c)
  BY <1>1 DEF Above, Parent
<1>4. IsPrefix(p, c)
  BY <1>3, AboveIsPrefix
<1>5. ASSUME NEW q \in Paths, IsPrefix(q, c), q # c
      PROVE  IsPrefix(q, p)
  <2>1. q \in Seq(STRING) /\ Len(q) \in Nat /\ Len(q) <= Len(c)
    BY <1>1, <1>5, PathType DEF IsPrefix
  <2>2. Len(q) # Len(c)
    <3>1. Len(q) = Len(c) => IsPrefix(c, q)
      BY <1>5, <1>1, PrefixesOfOne, PrefixReflexive
    <3>2. Len(q) = Len(c) => \A i \in 1 .. Len(q) : q[i] = c[i]
      BY <1>5, <1>1, <2>1, PrefixByNames
    <3>. QED  BY <1>1, <1>5, <2>1, <3>2, SeqEqual
  <2>3. Len(q) <= Len(p)
    BY <1>1, <1>2, <2>1, <2>2
  <2>. QED  BY <1>4, <1>5, <2>3, PrefixesOfOne
<1>. QED  BY <1>1, <1>2, <1>3, <1>4, <1>5

(* Between a path and one below it lies a child of it. *)
LEMMA ChildTowards ==
    ASSUME NEW p \in Paths, NEW f \in Paths, IsPrefix(p, f), p # f, Above(f) \subseteq Paths
    PROVE  \E c \in Above(f) \cup {f} : c # <<>> /\ Parent(c) = p
<1>1. /\ p \in Seq(STRING) /\ Len(p) \in Nat /\ f \in Seq(STRING) /\ Len(f) \in Nat
      /\ p = SubSeq(f, 1, Len(p)) /\ Len(p) <= Len(f)
  BY PathType DEF IsPrefix
<1>2. Len(p) < Len(f)
  <2>1. SubSeq(f, 1, Len(f)) = f
    BY <1>1
  <2>. QED  BY <1>1, <2>1
<1>. DEFINE c == SubSeq(f, 1, Len(p) + 1)
<1>3. c \in Above(f) \cup {f}
  <2>1. CASE Len(p) + 1 = Len(f)
    BY <1>1, <2>1
  <2>2. CASE Len(p) + 1 # Len(f)
    BY <1>1, <1>2, <2>2 DEF Above
  <2>. QED  BY <2>1, <2>2
<1>4. /\ c \in Seq(STRING) /\ Len(c) = Len(p) + 1
      /\ \A i \in 1 .. Len(p) + 1 : c[i] = f[i]
  BY <1>1, <1>2
<1>5. c # <<>>
  BY <1>1, <1>4
<1>6. Parent(c) = p
  <2>1. Parent(c) = SubSeq(c, 1, Len(p))
    BY <1>1, <1>4 DEF Parent
  <2>. DEFINE d == SubSeq(c, 1, Len(p))
  <2>2. d \in Seq(STRING) /\ Len(d) = Len(p) /\ \A i \in 1 .. Len(p) : d[i] = c[i]
    BY <1>1, <1>4
  <2>3. \A i \in 1 .. Len(p) : p[i] = f[i]
    BY <1>1, PrefixByNames
  <2>4. \A i \in 1 .. Len(p) : d[i] = p[i]
    BY <1>1, <1>4, <2>2, <2>3
  <2>. HIDE DEF d
  <2>5. d = p
    BY <1>1, <2>2, <2>4, SeqEqual
  <2>. QED  BY <2>1, <2>5 DEF d
<1>. QED  BY <1>3, <1>5, <1>6

(* What is in the root looks inside it, and so does all that is below what  *)
(* looks so.                                                                *)
LEMMA InsideLooksInside ==
    ASSUME NEW p \in Paths, IsPrefix(Root, p)
    PROVE  LooksInside(p)
<1>1. /\ p \in Seq(STRING) /\ Len(p) \in Nat /\ Root \in Seq(STRING) /\ Len(Root) \in Nat
      /\ DOMAIN p = 1 .. Len(p)
  BY PathType, PathsAssumption
<1>2. Len(Root) <= Len(p) /\ \A i \in 1 .. Len(Root) : p[i] = Root[i]
  BY <1>1, PrefixByNames
<1>3. \A i \in 1 .. Len(Root) : <<p[i], p[i]>> \in NameStarts
  BY <1>1, <1>2, NamesAssumption
<1>. QED  BY <1>2, <1>3 DEF LooksInside

LEMMA BelowLooksInside ==
    ASSUME NEW p \in Paths, NEW q \in Paths, LooksInside(p), IsPrefix(p, q)
    PROVE  LooksInside(q)
<1>1. /\ Len(p) \in Nat /\ Len(q) \in Nat /\ Len(Root) \in Nat
      /\ Len(p) <= Len(q) /\ \A i \in 1 .. Len(p) : p[i] = q[i]
  BY PathType, PrefixByNames, PathsAssumption
<1>2. Len(Root) <= Len(p)
  BY DEF LooksInside
<1>3. \A i \in 1 .. Len(Root) : p[i] = q[i]
  BY <1>1, <1>2
<1>. QED  BY <1>1, <1>2, <1>3 DEF LooksInside

(* What can be read of less can be read of more, and of one content only    *)
(* itself.                                                                  *)
LEMMA ReadsMore ==
    ASSUME NEW h, NEW k, h \subseteq k
    PROVE  ReadsAs(h) \subseteq ReadsAs(k)
BY DEF ReadsAs

LEMMA ReadsOne ==
    ASSUME NEW c
    PROVE  ReadsAs({c}) = {c}
<1>1. \A torn \in Torn : ~(torn.of \subseteq {c})
  BY TornAssumption
<1>. QED  BY <1>1 DEF ReadsAs

-----------------------------------------------------------------------------
(* What the author can make of a tree. *)

LEMMA DirsAbove ==
    ASSUME NEW p \in Paths
    PROVE  Above(p) \subseteq Dirs /\ Above(p) \subseteq Paths
BY PathsAssumption

LEMMA WithTree ==
    ASSUME NEW t, IsTree(t), NEW p \in Paths, p # <<>>, Parent(p) \in DOMAIN t,
           NEW c, p \in Files => c \in Contents
    PROVE  /\ IsTree(With(t, p, c))
           /\ DOMAIN With(t, p, c) = DOMAIN t \cup {p}
           /\ \A f \in DOMAIN With(t, p, c) \ {p} : With(t, p, c)[f] = t[f]
<1>. DEFINE w == With(t, p, c)
<1>1. /\ DOMAIN w = DOMAIN t \cup {p}
      /\ w[p] = c
      /\ \A f \in DOMAIN w \ {p} : f \in DOMAIN t /\ w[f] = t[f]
  BY DEF With
<1>2. Above(p) \subseteq DOMAIN t
  <2>. SUFFICES ASSUME NEW q \in Above(p) PROVE q \in DOMAIN t
    OBVIOUS
  <2>1. q \in Paths /\ Parent(p) \in Paths
    BY DirsAbove DEF IsTree
  <2>2. IsPrefix(q, p)
    BY <2>1, AboveIsPrefix
  <2>3. q # p
    <3>1. PICK n \in 0 .. Len(p) - 1 : q = SubSeq(p, 1, n)
      BY DEF Above
    <3>2. Len(q) = n /\ n < Len(p)
      BY <3>1, PathType
    <3>. QED  BY <3>2, PathType
  <2>4. IsPrefix(q, Parent(p))
    BY <2>1, <2>2, <2>3, ChildOf
  <2>5. q = Parent(p) \/ q \in Above(Parent(p))
    BY <2>1, <2>4, AboveIsPrefix
  <2>. QED  BY <2>5 DEF IsTree
<1>. HIDE DEF w
<1>3. DOMAIN w \subseteq Paths /\ <<>> \in DOMAIN w
  BY <1>1 DEF IsTree
<1>4. ASSUME NEW q \in DOMAIN w PROVE Above(q) \subseteq DOMAIN w
  BY <1>1, <1>2 DEF IsTree
<1>5. ASSUME NEW f \in Files \cap DOMAIN w PROVE w[f] \in Contents
  BY <1>1 DEF IsTree
<1>6. IsTree(w)
  BY <1>3, <1>4, <1>5 DEF IsTree
<1>. QED  BY <1>1, <1>6 DEF w

LEMMA WithoutTree ==
    ASSUME NEW t, IsTree(t), NEW p \in DOMAIN t, p # <<>>,
           \A c \in DOMAIN t \ {<<>>} : Parent(c) # p
    PROVE  /\ IsTree(Without(t, p))
           /\ DOMAIN Without(t, p) = DOMAIN t \ {p}
           /\ \A f \in DOMAIN Without(t, p) : Without(t, p)[f] = t[f]
<1>. DEFINE w == Without(t, p)
<1>1. DOMAIN w = DOMAIN t \ {p} /\ \A f \in DOMAIN w : w[f] = t[f]
  BY DEF Without, Restrict
<1>2. ASSUME NEW q \in DOMAIN w PROVE p \notin Above(q)
  <2>. SUFFICES ASSUME p \in Above(q) PROVE FALSE
    OBVIOUS
  <2>1. /\ p \in Paths /\ q \in Paths /\ p # q
        /\ Above(q) \cup {q} \subseteq DOMAIN t /\ Above(q) \subseteq Paths
    BY <1>1, DirsAbove DEF IsTree
  <2>2. IsPrefix(p, q)
    BY <2>1, AboveIsPrefix
  <2>3. PICK c \in Above(q) \cup {q} : c # <<>> /\ Parent(c) = p
    BY <2>1, <2>2, ChildTowards
  <2>. QED  BY <2>1, <2>3
<1>. HIDE DEF w
<1>3. DOMAIN w \subseteq Paths /\ <<>> \in DOMAIN w
  BY <1>1 DEF IsTree
<1>4. ASSUME NEW q \in DOMAIN w PROVE Above(q) \subseteq DOMAIN w
  <2>1. Above(q) \subseteq DOMAIN t
    BY <1>1 DEF IsTree
  <2>. QED  BY <1>1, <1>2, <2>1
<1>5. ASSUME NEW f \in Files \cap DOMAIN w PROVE w[f] \in Contents
  BY <1>1 DEF IsTree
<1>6. IsTree(w)
  BY <1>3, <1>4, <1>5 DEF IsTree
<1>. QED  BY <1>1, <1>6 DEF w

LEMMA ObjectFields ==
    ASSUME TypeOK
    PROVE  /\ DOMAIN objects = 1 .. Len(objects) /\ Len(objects) \in Nat
           /\ \A i \in DOMAIN objects : /\ objects[i] \in Object
                                        /\ objects[i].name \in Files
                                        /\ objects[i].data \in Contents
<1>1. objects \in Seq(Object)
  BY DEF TypeOK
<1>2. /\ DOMAIN objects = 1 .. Len(objects) /\ Len(objects) \in Nat
      /\ \A i \in 1 .. Len(objects) : objects[i] \in Object
  BY <1>1
<1>. QED  BY <1>2 DEF Object

\* The file being read is what it was, but for the paths that are edited.
Keeps(file, paths) ==
    \A n \in file : \E o \in open :
        /\ n \in Opened /\ n.name = o.name
        /\ n.name \notin paths /\ o.at = {o.name} => n.at = o.at /\ n.held = o.held

LEMMA EditIInv ==
    ASSUME IInv, NEW t, NEW paths, NEW file, Edit(t, paths, file), IsTree(t), Keeps(file, paths),
           \A p \in Paths \ paths : p \in DOMAIN t <=> p \in DOMAIN tree,
           \A f \in DOMAIN t \ paths : t[f] = tree[f]
    PROVE  IInv'
<1>. DEFINE opened(f) == UNION {o.held : o \in {o \in file : o.name = f}}
<1>1. /\ tree' = t /\ touched' = touched \cup paths /\ open' = file
      /\ had' = [f \in Files |-> had[f] \cup (IF f \in DOMAIN t THEN {t[f]} ELSE {}) \cup opened(f)]
      /\ UNCHANGED <<config, unreadable, mode, route, step, pending, objects, source>>
  BY DEF Edit, request
<1>2. file \subseteq Opened
  BY DEF Keeps
<1>3. \A f \in Files : opened(f) \subseteq Contents
  BY <1>2 DEF Opened
<1>4. \A o \in file : o.held \subseteq opened(o.name) /\ o.name \in Files
  BY <1>2 DEF Opened
<1>. HIDE DEF opened
<1>5. \A f \in Files :
         /\ had'[f] = had[f] \cup (IF f \in DOMAIN t THEN {t[f]} ELSE {}) \cup opened(f)
         /\ had[f] \subseteq had'[f]
  BY <1>1
<1>6. TypeOK'
  <2>1. had' \in [Files -> SUBSET Contents]
    BY <1>1, <1>3 DEF IInv, TypeOK, IsTree
  <2>2. \A f \in Files \cap DOMAIN t : t[f] \in had'[f]
    BY <1>5
  <2>3. IsTree(tree)'
    BY <1>1 DEF IsTree
  <2>. QED  BY <1>1, <1>2, <2>1, <2>2, <2>3 DEF IInv, TypeOK
<1>7. Disjoint'
  BY <1>1 DEF IInv, Disjoint
<1>8. Genuine'
  <2>1. \A i \in DOMAIN objects : objects[i].name \in Files
    BY ObjectFields DEF IInv
  <2>. QED  BY <1>1, <1>5, <2>1, ReadsMore DEF IInv, Genuine
<1>9. OpenFits'
  <2>. SUFFICES ASSUME NEW n \in file
                PROVE  /\ step = "read" /\ n.name \in pending /\ n.held \subseteq had'[n.name]
                       /\ n.name \notin touched' => Still(n)'
    BY <1>1 DEF OpenFits
  <2>1. PICK o \in open :
            /\ n.name = o.name
            /\ n.name \notin paths /\ o.at = {o.name} => n.at = o.at /\ n.held = o.held
    BY DEF Keeps
  <2>2. step = "read" /\ o.name \in pending /\ (o.name \notin touched => Still(o))
    BY DEF IInv, OpenFits
  <2>3. n.held \subseteq had'[n.name]
    BY <1>4, <1>5
  <2>4. ASSUME n.name \notin touched' PROVE Still(n)'
    <3>1. n.name \notin touched /\ n.name \notin paths
      BY <1>1, <2>4
    <3>2. o.name \in DOMAIN tree /\ o.at = {o.name} /\ o.held = {tree[o.name]}
      BY <2>1, <2>2, <3>1 DEF Still
    <3>3. n.name \in DOMAIN t /\ t[n.name] = tree[n.name]
      BY <1>4, <2>1, <3>1, <3>2 DEF Files
    <3>. QED  BY <1>1, <2>1, <3>1, <3>2, <3>3 DEF Still
  <2>. QED  BY <2>1, <2>2, <2>3, <2>4
<1>10. Covered'
  <2>. SUFFICES ASSUME step \in {"walk", "read"} \/ source = "root",
                       NEW f \in Files \cap DOMAIN t, IsPrefix(route, f), f \notin touched'
                PROVE  Read(f)' \/ Coming(f)'
    BY <1>1 DEF Covered
  <2>1. f \in DOMAIN tree /\ tree'[f] = tree[f] /\ f \notin touched
    BY <1>1 DEF Files
  <2>2. Read(f) \/ Coming(f)
    BY <2>1 DEF IInv, Covered
  <2>. QED  BY <1>1, <2>1, <2>2 DEF Read, Coming
<1>11. Disturbed => Disturbed'
  BY <1>1 DEF Disturbed
<1>12. \A p \in Paths : IsPrefix(route, p) /\ ~Disturbed' => (Exists(p)' <=> Exists(p))
  BY <1>1 DEF Disturbed, Exists
<1>13. pending \subseteq Paths /\ route \in Paths
  BY DEF IInv, TypeOK
<1>14. OnRoute'
  BY <1>1, <1>11, <1>12, <1>13 DEF IInv, OnRoute
<1>15. Checked'
  BY <1>1 DEF IInv, Checked, LooksInside
<1>16. Reason => Reason'
  BY <1>1, <1>11, <1>12, <1>13, PrefixReflexive DEF Reason
<1>. QED  BY <1>1, <1>6, <1>7, <1>8, <1>9, <1>10, <1>14, <1>15, <1>16 DEF IInv

LEMMA MakeDirIInv ==
    ASSUME IInv, NEW p \in Paths, MakeDir(p)
    PROVE  IInv'
<1>1. /\ p \in Dirs /\ p # <<>> /\ Parent(p) \in DOMAIN tree
      /\ Edit(With(tree, p, "dir"), {p}, open)
  BY DEF MakeDir, Exists
<1>2. IsTree(tree) /\ open \subseteq Opened
  BY DEF IInv, TypeOK
<1>3. /\ IsTree(With(tree, p, "dir"))
      /\ DOMAIN With(tree, p, "dir") = DOMAIN tree \cup {p}
      /\ \A f \in DOMAIN With(tree, p, "dir") \ {p} : With(tree, p, "dir")[f] = tree[f]
  <2>1. p \in Files => "dir" \in Contents
    BY <1>1 DEF Files
  <2>. QED  BY <1>1, <1>2, <2>1, WithTree, Zenon
<1>4. Keeps(open, {p})
  BY <1>2 DEF Keeps
<1>. QED  BY <1>1, <1>3, <1>4, EditIInv

LEMMA WriteFileIInv ==
    ASSUME IInv, NEW p \in Paths, WriteFile(p)
    PROVE  IInv'
<1>. DEFINE now(o, c) == [o EXCEPT !.held = IF p \in o.at THEN @ \cup {c} ELSE @]
<1>1. PICK c \in Drafts : Edit(With(tree, p, c), {p}, {now(o, c) : o \in open})
  BY DEF WriteFile
<1>2. /\ p \in Files /\ p # <<>> /\ Parent(p) \in DOMAIN tree /\ c \in Contents
  BY PathsAssumption, SizeAssumption DEF WriteFile, Exists, Files
<1>3. IsTree(tree) /\ open \subseteq Opened
  BY DEF IInv, TypeOK
<1>4. /\ IsTree(With(tree, p, c))
      /\ DOMAIN With(tree, p, c) = DOMAIN tree \cup {p}
      /\ \A f \in DOMAIN With(tree, p, c) \ {p} : With(tree, p, c)[f] = tree[f]
  BY <1>2, <1>3, WithTree, Zenon
<1>5. ASSUME NEW o \in open
      PROVE  /\ now(o, c) \in Opened /\ now(o, c).name = o.name
             /\ o.name # p /\ o.at = {o.name} => now(o, c).at = o.at /\ now(o, c).held = o.held
  BY <1>2, <1>3 DEF Opened
<1>. HIDE DEF now
<1>6. Keeps({now(o, c) : o \in open}, {p})
  BY <1>5 DEF Keeps
<1>. QED  BY <1>1, <1>4, <1>6, EditIInv

LEMMA DeleteIInv ==
    ASSUME IInv, NEW p \in Paths, Delete(p)
    PROVE  IInv'
<1>. DEFINE now(o) == [o EXCEPT !.at = @ \ {p}]
<1>1. /\ p # <<>> /\ p \in DOMAIN tree /\ Children(p) = {}
      /\ Edit(Without(tree, p), {p}, {now(o) : o \in open})
  BY DEF Delete, Exists
<1>2. \A c \in DOMAIN tree \ {<<>>} : Parent(c) # p
  BY <1>1 DEF Children
<1>3. IsTree(tree) /\ open \subseteq Opened
  BY DEF IInv, TypeOK
<1>4. /\ IsTree(Without(tree, p))
      /\ DOMAIN Without(tree, p) = DOMAIN tree \ {p}
      /\ \A f \in DOMAIN Without(tree, p) : Without(tree, p)[f] = tree[f]
  BY <1>1, <1>2, <1>3, WithoutTree
<1>5. ASSUME NEW o \in open
      PROVE  /\ now(o) \in Opened /\ now(o).name = o.name
             /\ o.name # p /\ o.at = {o.name} => now(o).at = o.at /\ now(o).held = o.held
  BY <1>3 DEF Opened
<1>. HIDE DEF now
<1>6. Keeps({now(o) : o \in open}, {p})
  BY <1>5 DEF Keeps
<1>. QED  BY <1>1, <1>4, <1>6, EditIInv

(* Nothing is below a file. *)
LEMMA FileIsLeaf ==
    ASSUME NEW p \in Files, NEW c \in Paths, c # <<>>
    PROVE  Parent(c) # p
<1>. SUFFICES ASSUME Parent(c) = p PROVE FALSE
  OBVIOUS
<1>1. p \in Above(c)
  BY ChildOf DEF Files
<1>. QED  BY <1>1, DirsAbove DEF Files

LEMMA MoveIInv ==
    ASSUME IInv, NEW p \in Paths, NEW q \in Paths, Move(p, q)
    PROVE  IInv'
<1>. DEFINE rest == Without(tree, p)
            moved == With(rest, q, tree[p])
            now(o) == [o EXCEPT !.at = IF p \in @ THEN {q} ELSE @ \ {q}]
<1>1. /\ p \in Files /\ q \in Files /\ p # q /\ p \in DOMAIN tree /\ Parent(q) \in DOMAIN tree
      /\ Edit(moved, {p, q}, {now(o) : o \in open})
  BY DEF Move, Exists
<1>2. IsTree(tree)
  BY DEF IInv, TypeOK
<1>3. p # <<>> /\ q # <<>>
  BY <1>1, PathsAssumption DEF Files
<1>4. \A c \in DOMAIN tree \ {<<>>} : Parent(c) # p
  BY <1>1, <1>2, FileIsLeaf DEF IsTree
<1>5. /\ IsTree(rest)
      /\ DOMAIN rest = DOMAIN tree \ {p}
      /\ \A f \in DOMAIN rest : rest[f] = tree[f]
  BY <1>1, <1>2, <1>3, <1>4, WithoutTree
<1>6. tree[p] \in Contents
  BY <1>1, <1>2 DEF IsTree
<1>7. Parent(q) \in DOMAIN rest
  BY <1>1, <1>3, <1>5, FileIsLeaf
<1>. HIDE DEF rest
<1>8. /\ IsTree(moved)
      /\ DOMAIN moved = DOMAIN rest \cup {q}
      /\ \A f \in DOMAIN moved \ {q} : moved[f] = rest[f]
  BY <1>3, <1>5, <1>6, <1>7, WithTree
<1>. HIDE DEF moved
<1>9. open \subseteq Opened
  BY DEF IInv, TypeOK
<1>10. ASSUME NEW o \in open
       PROVE  /\ now(o) \in Opened /\ now(o).name = o.name
              /\ o.name \notin {p, q} /\ o.at = {o.name} => now(o).at = o.at /\ now(o).held = o.held
  BY <1>1, <1>9 DEF Opened
<1>. HIDE DEF now
<1>11. Keeps({now(o) : o \in open}, {p, q})
  BY <1>10 DEF Keeps
<1>. QED  BY <1>1, <1>5, <1>8, <1>11, EditIInv

-----------------------------------------------------------------------------

LEMMA InitIInv == Init => IInv
<1>. SUFFICES ASSUME Init PROVE IInv
  OBVIOUS
<1>1. IsTree(tree)
  BY OriginsAssumption DEF Init
<1>2. unreadable \subseteq Files
  BY DEF Init
<1>3. had = [f \in Files |-> IF f \in DOMAIN tree THEN {tree[f]} ELSE {}]
  BY DEF Init, Exists
<1>4. /\ had \in [Files -> SUBSET Contents]
      /\ \A f \in Files \cap DOMAIN tree : tree[f] \in had[f]
  BY <1>1, <1>3 DEF IsTree
<1>5. TypeOK
  BY <1>1, <1>2, <1>4 DEF Init, TypeOK
<1>6. Disjoint /\ Genuine /\ OpenFits /\ Covered /\ OnRoute /\ Checked
  BY DEF Init, Disjoint, Genuine, OpenFits, Covered, OnRoute, Checked
<1>. QED  BY <1>5, <1>6 DEF Init, IInv

(* A step that leaves the walk and the site alone. *)
LEMMA SameWalk ==
    ASSUME IInv, UNCHANGED <<request, author, pending, open, objects>>, step # "read",
           step' \in {"write", "fetch", "done"}, source' \in {"nowhere", "root", "backend"}
    PROVE  TypeOK' /\ Disjoint' /\ Genuine' /\ OpenFits' /\ OnRoute' /\ (Reason' <=> Reason)
<1>1. UNCHANGED <<config, unreadable, mode, route, tree, touched, had>>
  BY DEF request, author
<1>2. TypeOK'
  <2>1. IsTree(tree)'
    BY <1>1 DEF IInv, TypeOK, IsTree
  <2>. QED  BY <1>1, <2>1 DEF IInv, TypeOK
<1>3. Disturbed' <=> Disturbed
  BY <1>1 DEF Disturbed
<1>4. Disjoint' /\ Genuine' /\ OnRoute'
  BY <1>1, <1>3 DEF IInv, Disjoint, Genuine, OnRoute, Exists
<1>5. OpenFits'
  BY <1>1 DEF IInv, OpenFits
<1>6. Reason' <=> Reason
  BY <1>1, <1>3 DEF Reason, Exists
<1>. QED  BY <1>2, <1>4, <1>5, <1>6

(* No packfile can be built, with a reason. *)
LEMMA NoPackIInv ==
    ASSUME IInv, NoPack, step # "read", source = "nowhere", config.root => Reason
    PROVE  IInv'
<1>1. /\ UNCHANGED <<request, author, pending, open, objects, source>>
      /\ step' \in {"fetch", "done"}
  BY DEF NoPack, Goto, Done
<1>2. TypeOK' /\ Disjoint' /\ Genuine' /\ OpenFits' /\ OnRoute' /\ (Reason' <=> Reason)
  BY <1>1, SameWalk
<1>3. Covered' /\ Checked'
  BY <1>1 DEF Covered, Checked
<1>4. config' = config /\ mode' = mode /\ (step' = "fetch" => mode = "binary")
  BY <1>1 DEF request, NoPack, Goto, Done
<1>. QED  BY <1>1, <1>2, <1>3, <1>4 DEF IInv

(* Answering does not change what was read. *)
LEMMA AnswerIInv ==
    ASSUME IInv, UNCHANGED <<request, author, pending, open, objects, source>>,
           step \in {"write", "fetch"}, step' \in {"write", "done"}
    PROVE  IInv'
<1>1. TypeOK' /\ Disjoint' /\ Genuine' /\ OpenFits' /\ OnRoute' /\ (Reason' <=> Reason)
  BY SameWalk DEF IInv, TypeOK
<1>2. UNCHANGED <<config, mode, tree, route, touched>>
  BY DEF request, author
<1>3. Covered' /\ Checked'
  BY <1>2 DEF IInv, Covered, Read, Coming, Checked, LooksInside
<1>. QED  BY <1>1, <1>2, <1>3 DEF IInv

LEMMA FetchIInv ==
    ASSUME IInv, Fetch
    PROVE  IInv'
<1>1. /\ UNCHANGED <<request, author, pending, open, objects>>
      /\ step = "fetch" /\ step' = "write" /\ source' = "backend"
  BY DEF Fetch
<1>2. TypeOK' /\ Disjoint' /\ Genuine' /\ OpenFits' /\ OnRoute' /\ (Reason' <=> Reason)
  BY <1>1, SameWalk
<1>3. Covered' /\ Checked'
  BY <1>1 DEF Covered, Checked
<1>4. config' = config /\ mode' = mode
  BY <1>1 DEF request
<1>. QED  BY <1>1, <1>2, <1>3, <1>4 DEF IInv

(* The walk has come to its end: nothing is left to come. *)
LEMMA WalkEndsIInv ==
    ASSUME IInv, WalkEnds
    PROVE  IInv'
<1>1. /\ UNCHANGED <<request, author, pending, open, objects>>
      /\ step = "walk" /\ pending = {} /\ step' = "write" /\ source' = "root"
  BY DEF WalkEnds
<1>2. TypeOK' /\ Disjoint' /\ Genuine' /\ OpenFits' /\ OnRoute' /\ (Reason' <=> Reason)
  BY <1>1, SameWalk
<1>3. UNCHANGED <<config, tree, route, touched>>
  BY <1>1 DEF request, author
<1>4. Covered' /\ Checked'
  BY <1>1, <1>3 DEF IInv, Covered, Read, Coming, Checked, LooksInside
<1>. QED  BY <1>1, <1>2, <1>3, <1>4 DEF IInv

LEMMA BeginIInv ==
    ASSUME IInv, Begin
    PROVE  IInv'
<1>0. /\ step = "begin" /\ source = "nowhere" /\ pending = {} /\ objects = <<>>
      /\ route \in Paths /\ open = {}
  BY DEF Begin, IInv, TypeOK, OpenFits
<1>1. CASE config.root /\ LooksInside(route) /\ Exists(route)
  <2>1. /\ Goto("walk") /\ pending' = {route}
    BY <1>1 DEF Begin
  <2>2. UNCHANGED <<config, unreadable, mode, route, tree, touched, had, open, objects, source>>
        /\ step' = "walk"
    BY <2>1 DEF Goto, request, author
  <2>3. TypeOK'
    <3>1. IsTree(tree)'
      BY <2>2 DEF IInv, TypeOK, IsTree
    <3>. QED  BY <1>0, <2>1, <2>2, <3>1 DEF IInv, TypeOK
  <2>4. Disjoint' /\ Genuine' /\ OpenFits'
    BY <1>0, <2>1, <2>2 DEF Disjoint, Genuine, OpenFits
  <2>5. Covered'
    BY <2>1, <2>2 DEF Covered, Coming
  <2>6. OnRoute'
    BY <1>0, <1>1, <2>1, <2>2, PrefixReflexive DEF OnRoute, Exists
  <2>7. Checked'
    BY <1>1, <2>2 DEF Checked, LooksInside
  <2>. QED  BY <1>0, <2>2, <2>3, <2>4, <2>5, <2>6, <2>7 DEF IInv
<1>2. CASE ~(config.root /\ LooksInside(route) /\ Exists(route))
  <2>1. NoPack
    BY <1>2 DEF Begin
  <2>2. config.root => Reason
    BY <1>0, <1>2, InsideLooksInside DEF Reason
  <2>. QED  BY <1>0, <2>1, <2>2, NoPackIInv
<1>. QED  BY <1>1, <1>2

LEMMA DescendIInv ==
    ASSUME IInv, step = "walk", NEW p \in pending, p \in Dirs, Exists(p), Descend(p)
    PROVE  IInv'
<1>1. /\ pending' = (pending \ {p}) \cup Children(p)
      /\ UNCHANGED <<config, unreadable, mode, route, tree, touched, had, open, objects, source,
                     step>>
  BY DEF Descend, Goto, request, author
<1>2. IsTree(tree) /\ p \in Paths /\ pending \subseteq Paths /\ DOMAIN tree \subseteq Paths
  BY DEF IInv, TypeOK, IsTree
<1>3. \A c \in Children(p) :
         /\ c \in Paths /\ c \in DOMAIN tree /\ c # <<>> /\ Parent(c) = p
         /\ Len(c) = Len(p) + 1 /\ IsPrefix(p, c) /\ p # c
         /\ \A q \in Paths : IsPrefix(q, c) => q = c \/ IsPrefix(q, p)
  BY <1>2, ChildOf DEF Children
<1>4. TypeOK'
  <2>1. IsTree(tree)'
    BY <1>1, <1>2 DEF IsTree
  <2>2. pending' \subseteq Paths
    BY <1>1, <1>2, <1>3
  <2>. QED  BY <1>1, <2>1, <2>2 DEF IInv, TypeOK
<1>5. Disjoint'
  <2>1. ASSUME NEW q \in pending', NEW r \in pending', IsPrefix(q, r), q # r
        PROVE  FALSE
    <3>0. q \in Paths /\ r \in Paths
      BY <1>1, <1>2, <1>3
    <3>1. CASE q \in pending \ {p} /\ r \in pending \ {p}
      BY <2>1, <3>1 DEF IInv, Disjoint
    <3>2. CASE q \in pending \ {p} /\ r \in Children(p)
      <4>1. IsPrefix(q, p)
        BY <1>3, <2>1, <3>0, <3>2
      <4>. QED  BY <3>2, <4>1 DEF IInv, Disjoint
    <3>3. CASE q \in Children(p) /\ r \in pending \ {p}
      <4>1. IsPrefix(p, r)
        BY <1>2, <1>3, <2>1, <3>0, <3>3, PrefixTransitive
      <4>. QED  BY <3>3, <4>1 DEF IInv, Disjoint
    <3>4. CASE q \in Children(p) /\ r \in Children(p)
      <4>1. IsPrefix(q, p) /\ Len(q) = Len(p) + 1
        BY <1>3, <2>1, <3>0, <3>4
      <4>2. Len(q) <= Len(p) /\ Len(p) \in Nat
        BY <1>2, <4>1, PathType DEF IsPrefix
      <4>. QED  BY <4>1, <4>2
    <3>. QED  BY <1>1, <2>1, <3>1, <3>2, <3>3, <3>4
  <2>2. ASSUME NEW i \in DOMAIN objects, NEW q \in pending'
        PROVE  ~IsPrefix(q, objects[i].name)
    <3>1. CASE q \in pending
      BY <3>1 DEF IInv, Disjoint
    <3>2. CASE q \in Children(p)
      <4>1. objects[i].name \in Paths
        BY ObjectFields DEF IInv, Files
      <4>2. IsPrefix(q, objects[i].name) => IsPrefix(p, objects[i].name)
        BY <1>2, <1>3, <3>2, <4>1, PrefixTransitive
      <4>. QED  BY <4>2 DEF IInv, Disjoint
    <3>. QED  BY <1>1, <3>1, <3>2
  <2>3. \A i, j \in DOMAIN objects : objects[i].name = objects[j].name => i = j
    BY DEF IInv, Disjoint
  <2>. QED  BY <1>1, <2>1, <2>2, <2>3 DEF Disjoint
<1>6. Genuine' /\ OpenFits' /\ Checked'
  BY <1>1 DEF IInv, Genuine, OpenFits, Checked, LooksInside
<1>7. Covered'
  <2>. SUFFICES ASSUME NEW f \in Files \cap DOMAIN tree, IsPrefix(route, f), f \notin touched
                PROVE  Read(f)' \/ Coming(f)'
    BY <1>1 DEF Covered
  <2>1. CASE Read(f)
    BY <1>1, <2>1 DEF Read
  <2>2. ASSUME NEW q \in pending, IsPrefix(q, f) PROVE Coming(f)'
    <3>1. CASE q # p
      BY <1>1, <2>2, <3>1 DEF Coming
    <3>2. CASE q = p
      <4>1. p # f
        BY DEF Files
      <4>2. f \in Paths /\ Above(f) \subseteq DOMAIN tree /\ Above(f) \subseteq Paths
        BY <1>2, DirsAbove DEF IsTree
      <4>3. PICK c \in Above(f) \cup {f} : c # <<>> /\ Parent(c) = p
        BY <1>2, <2>2, <3>2, <4>1, <4>2, ChildTowards
      <4>4. c \in Children(p)
        BY <4>2, <4>3 DEF Children
      <4>5. IsPrefix(c, f)
        BY <4>2, <4>3, AboveIsPrefix
      <4>. QED  BY <1>1, <4>4, <4>5 DEF Coming
    <3>. QED  BY <3>1, <3>2
  <2>. QED  BY <2>1, <2>2 DEF IInv, Covered, Coming
<1>8. OnRoute'
  <2>. SUFFICES ASSUME NEW q \in pending' PROVE IsPrefix(route, q) /\ (~Disturbed => Exists(q))
    BY <1>1 DEF OnRoute, Exists, Disturbed
  <2>1. CASE q \in pending
    BY <2>1 DEF IInv, OnRoute
  <2>2. CASE q \in Children(p)
    <3>1. IsPrefix(route, p)
      BY DEF IInv, OnRoute
    <3>2. route \in Paths
      BY DEF IInv, TypeOK
    <3>3. IsPrefix(route, q)
      BY <1>2, <1>3, <2>2, <3>1, <3>2, PrefixTransitive
    <3>. QED  BY <1>3, <2>2, <3>3 DEF Exists
  <2>. QED  BY <1>1, <2>1, <2>2
<1>. QED  BY <1>1, <1>4, <1>5, <1>6, <1>7, <1>8 DEF IInv

LEMMA OpenFileIInv ==
    ASSUME IInv, step = "walk", NEW p \in pending, Readable(p), OpenFile(p)
    PROVE  IInv'
<1>1. /\ open' = {[name |-> p, at |-> {p}, held |-> {tree[p]}]} /\ step' = "read"
      /\ UNCHANGED <<config, unreadable, mode, route, tree, touched, had, pending, objects, source>>
  BY DEF OpenFile, request, author
<1>2. p \in Files /\ p \in DOMAIN tree /\ tree[p] \in had[p] /\ tree[p] \in Contents
  BY DEF IInv, TypeOK, IsTree, Readable, Exists
<1>3. TypeOK'
  <2>1. IsTree(tree)'
    BY <1>1 DEF IInv, TypeOK, IsTree
  <2>2. open' \subseteq Opened
    BY <1>1, <1>2 DEF Opened
  <2>. QED  BY <1>1, <2>1, <2>2 DEF IInv, TypeOK
<1>4. Disjoint' /\ Genuine' /\ OnRoute'
  BY <1>1 DEF IInv, Disjoint, Genuine, OnRoute, Exists, Disturbed
<1>5. OpenFits'
  BY <1>1, <1>2 DEF OpenFits, Still
<1>6. Covered' /\ Checked'
  BY <1>1 DEF IInv, Covered, Read, Coming, Checked, LooksInside
<1>. QED  BY <1>1, <1>3, <1>4, <1>5, <1>6 DEF IInv

LEMMA ReadFileIInv ==
    ASSUME IInv, ReadFile
    PROVE  IInv'
<1>a. step = "read" /\ step' = "walk" /\ open' = {}
  BY DEF ReadFile
<1>b. PICK e \in open, data \in Contents :
         /\ data \in ReadsAs(e.held)
         /\ objects' = Append(objects, [name |-> e.name, data |-> data])
         /\ pending' = pending \ {e.name}
  BY DEF ReadFile
<1>. DEFINE p == e.name
            o == [name |-> p, data |-> data]
<1>c. p \in pending /\ e.held \subseteq had[p] /\ (p \notin touched => Still(e)) /\ p \in Files
  BY DEF IInv, OpenFits, TypeOK, Opened
<1>d. data \in ReadsAs(had[p])
  BY <1>b, <1>c, ReadsMore
<1>e. p \notin touched => p \in DOMAIN tree /\ data = tree[p]
  BY <1>b, <1>c, ReadsOne DEF Still
<1>1. /\ pending' = pending \ {p}
      /\ objects' = Append(objects, o)
      /\ UNCHANGED <<config, unreadable, mode, route, tree, touched, had, source>>
  BY <1>b DEF ReadFile, request, author
<1>4. o.name = p /\ o.data = data
  OBVIOUS
<1>. HIDE DEF o, p
<1>2. IsTree(tree) /\ pending \subseteq Paths /\ DOMAIN tree \subseteq Paths
  BY DEF IInv, TypeOK, IsTree
<1>3. objects \in Seq(Object) /\ o \in Object
  BY <1>c DEF IInv, TypeOK, Object, o
<1>5. /\ DOMAIN objects = 1 .. Len(objects) /\ Len(objects) \in Nat
      /\ objects' \in Seq(Object)
      /\ DOMAIN objects' = DOMAIN objects \cup {Len(objects) + 1}
      /\ \A i \in DOMAIN objects : objects'[i] = objects[i]
      /\ objects'[Len(objects) + 1] = o
  BY <1>1, <1>3
<1>6. TypeOK'
  <2>1. IsTree(tree)'
    BY <1>1, <1>2 DEF IsTree
  <2>. QED  BY <1>1, <1>5, <1>a, <2>1 DEF IInv, TypeOK
<1>7. \A i \in DOMAIN objects : objects[i].name # p
  <2>1. \A i \in DOMAIN objects : ~IsPrefix(p, objects[i].name)
    BY <1>c DEF IInv, Disjoint
  <2>. QED  BY <1>2, <1>c, <2>1, PrefixReflexive
<1>8. Disjoint'
  <2>1. \A q, r \in pending' : IsPrefix(q, r) => q = r
    BY <1>1 DEF IInv, Disjoint
  <2>2. ASSUME NEW i \in DOMAIN objects', NEW q \in pending'
        PROVE  ~IsPrefix(q, objects'[i].name)
    <3>1. CASE i \in DOMAIN objects
      BY <1>1, <1>5, <3>1 DEF IInv, Disjoint
    <3>2. CASE i = Len(objects) + 1
      BY <1>1, <1>4, <1>5, <1>c, <3>2 DEF IInv, Disjoint
    <3>. QED  BY <1>5, <3>1, <3>2
  <2>3. ASSUME NEW i \in DOMAIN objects', NEW j \in DOMAIN objects',
               objects'[i].name = objects'[j].name
        PROVE  i = j
    <3>1. CASE i \in DOMAIN objects /\ j \in DOMAIN objects
      BY <1>5, <2>3, <3>1 DEF IInv, Disjoint
    <3>2. CASE i \in DOMAIN objects /\ j = Len(objects) + 1
      BY <1>4, <1>5, <1>7, <2>3, <3>2
    <3>3. CASE i = Len(objects) + 1 /\ j \in DOMAIN objects
      BY <1>4, <1>5, <1>7, <2>3, <3>3
    <3>. QED  BY <1>5, <3>1, <3>2, <3>3
  <2>. QED  BY <2>1, <2>2, <2>3 DEF Disjoint
<1>9. Genuine'
  <2>. SUFFICES ASSUME NEW i \in DOMAIN objects'
                PROVE  /\ IsPrefix(route, objects'[i].name)
                       /\ objects'[i].data \in ReadsAs(had[objects'[i].name])
    BY <1>1 DEF Genuine
  <2>1. CASE i \in DOMAIN objects
    BY <1>5, <2>1 DEF IInv, Genuine
  <2>2. CASE i = Len(objects) + 1
    BY <1>4, <1>5, <1>c, <1>d, <2>2 DEF IInv, OnRoute
  <2>. QED  BY <1>5, <2>1, <2>2
<1>10. Covered'
  <2>. SUFFICES ASSUME NEW f \in Files \cap DOMAIN tree, IsPrefix(route, f), f \notin touched
                PROVE  Read(f)' \/ Coming(f)'
    BY <1>1 DEF Covered
  <2>0. Read(f) \/ Coming(f)
    BY <1>a DEF IInv, Covered
  <2>1. CASE Read(f)
    BY <1>1, <1>5, <2>1 DEF Read
  <2>2. ASSUME NEW q \in pending, IsPrefix(q, f) PROVE Read(f)' \/ Coming(f)'
    <3>1. CASE q # p
      BY <1>1, <2>2, <3>1 DEF Coming
    <3>2. CASE q = p
      <4>1. f = p
        <5>1. f \in Paths /\ p \in Paths
          BY <1>2, <1>c
        <5>2. p \notin Above(f)
          BY <1>c, <5>1, DirsAbove DEF Files
        <5>. QED  BY <2>2, <3>2, <5>1, <5>2, AboveIsPrefix
      <4>2. Len(objects) + 1 \in DOMAIN objects'
        BY <1>5
      <4>3. objects'[Len(objects) + 1] = [name |-> f, data |-> tree'[f]]
        BY <1>1, <1>5, <1>e, <4>1 DEF o
      <4>. QED  BY <4>2, <4>3 DEF Read
    <3>. QED  BY <3>1, <3>2
  <2>. QED  BY <2>0, <2>1, <2>2 DEF Coming
<1>11. OnRoute' /\ OpenFits' /\ Checked'
  BY <1>1, <1>a DEF IInv, OnRoute, Exists, Disturbed, OpenFits, Checked, LooksInside
<1>. QED  BY <1>1, <1>6, <1>8, <1>9, <1>10, <1>11, <1>a DEF IInv

LEMMA WalkIInv ==
    ASSUME IInv, Walk
    PROVE  IInv'
<1>1. PICK p \in pending : Visit(p)
  BY DEF Walk
<1>2. step = "walk" /\ step # "read" /\ source = "nowhere" /\ pending \subseteq Paths
  BY DEF Walk, IInv, TypeOK
<1>3. IsPrefix(route, p) /\ (~Disturbed => Exists(p))
  BY DEF IInv, OnRoute
<1>4. CASE p \in Dirs /\ Exists(p) /\ Descend(p)
  BY <1>2, <1>4, DescendIInv
<1>5. CASE Readable(p) /\ OpenFile(p)
  BY <1>2, <1>5, OpenFileIInv
<1>6. CASE ~Exists(p) /\ NoPack
  <2>1. Reason
    BY <1>3, <1>6 DEF Reason
  <2>. QED  BY <1>2, <1>6, <2>1, NoPackIInv
<1>7. CASE p \in unreadable /\ Exists(p) /\ NoPack
  <2>1. Reason
    BY <1>3, <1>7 DEF Reason
  <2>. QED  BY <1>2, <1>7, <2>1, NoPackIInv
<1>. QED  BY <1>1, <1>4, <1>5, <1>6, <1>7 DEF Visit

LEMMA NextIInv == IInv /\ [Next]_vars => IInv'
<1>. SUFFICES ASSUME IInv, [Next]_vars PROVE IInv'
  OBVIOUS
<1>0. Edited \subseteq Paths
  BY PathsAssumption
<1>1. ASSUME NEW p \in Paths, MakeDir(p) \/ WriteFile(p) PROVE IInv'
  BY <1>1, MakeDirIInv, WriteFileIInv
<1>2. ASSUME NEW p \in Paths, Delete(p) PROVE IInv'
  BY <1>2, DeleteIInv
<1>3. ASSUME NEW p \in Paths, NEW q \in Paths, Move(p, q) PROVE IInv'
  BY <1>3, MoveIInv
<1>4. CASE Begin
  BY <1>4, BeginIInv
<1>5. CASE Walk
  BY <1>5, WalkIInv
<1>6. CASE WalkEnds
  BY <1>6, WalkEndsIInv
<1>7. CASE Fetch
  BY <1>7, FetchIInv
<1>8. CASE FetchFails
  BY <1>8, AnswerIInv DEF FetchFails, Done
<1>9. CASE Write
  BY <1>9, AnswerIInv DEF Write
<1>10. CASE WriteFails
  BY <1>10, AnswerIInv DEF WriteFails
<1>11. CASE Written
  BY <1>11, AnswerIInv DEF Written, Done
<1>12. CASE ReadFile
  BY <1>12, ReadFileIInv
<1>13. CASE UNCHANGED vars
  <2>1. UNCHANGED <<config, unreadable, mode, route, tree, touched, had, pending, open, objects,
                    source, step>>
    BY <1>13 DEF vars
  <2>2. TypeOK'
    <3>1. IsTree(tree)'
      BY <2>1 DEF IInv, TypeOK, IsTree
    <3>. QED  BY <2>1, <3>1 DEF IInv, TypeOK
  <2>3. Disjoint' /\ Genuine' /\ OpenFits' /\ OnRoute' /\ (Reason' <=> Reason)
    BY <2>1 DEF IInv, Disjoint, Genuine, OpenFits, Still, OnRoute, Reason, Exists, Disturbed
  <2>4. Covered' /\ Checked'
    BY <2>1 DEF IInv, Covered, Read, Coming, Checked, LooksInside
  <2>. QED  BY <2>1, <2>2, <2>3, <2>4 DEF IInv
<1>. QED  BY <1>0, <1>1, <1>2, <1>3, <1>4, <1>5, <1>6, <1>7, <1>8, <1>9, <1>10, <1>11, <1>12, <1>13
          DEF Next

THEOREM Invariant == Spec => []IInv
<1>. QED  BY InitIInv, NextIInv, PTL DEF Spec

(* The variables keep their types; whatever the author does, what there is  *)
(* is a tree.                                                               *)
THEOREM TypeCorrect == Spec => []TypeOK
<1>1. IInv => TypeOK
  BY DEF IInv
<1>. QED  BY <1>1, Invariant, PTL

(* A packfile holds each untouched file of the route, as it is and once, of *)
(* the touched ones what they held since the request came, whole or torn,   *)
(* and nothing else; all of it looks inside the root (buildPackfile).       *)
THEOREM PackHoldsSite == Spec => []PackIsTheSite
<1>1. IInv => PackIsTheSite
  <2>. SUFFICES ASSUME IInv, source = "root" PROVE PackIsTheSite
    BY DEF PackIsTheSite
  <2>1. pending = {}
    BY DEF IInv
  <2>2. ASSUME NEW f \in Files \cap DOMAIN tree, IsPrefix(route, f), f \notin touched
        PROVE  \E i \in DOMAIN objects : objects[i] = [name |-> f, data |-> tree[f]]
    BY <2>1, <2>2 DEF IInv, Covered, Read, Coming
  <2>3. ASSUME NEW i \in DOMAIN objects
        PROVE  /\ IsPrefix(route, objects[i].name) /\ LooksInside(objects[i].name)
               /\ objects[i].data \in ReadsAs(had[objects[i].name])
    <3>1. objects[i].name \in Paths /\ route \in Paths
      BY ObjectFields DEF IInv, TypeOK, Files
    <3>2. LooksInside(route)
      BY DEF IInv, Checked
    <3>3. IsPrefix(route, objects[i].name) /\ objects[i].data \in ReadsAs(had[objects[i].name])
      BY DEF IInv, Genuine
    <3>. QED  BY <3>1, <3>2, <3>3, BelowLooksInside
  <2>. QED  BY <2>2, <2>3 DEF IInv, Disjoint, PackIsTheSite
<1>. QED  BY <1>1, Invariant, PTL

(* The backend stands in for the root only with a reason                    *)
(* (receivePackBinary).                                                     *)
THEOREM BackendHasReason == Spec => []BackendOnlyForAReason
<1>1. IInv => BackendOnlyForAReason
  BY DEF IInv, Reason, BackendOnlyForAReason
<1>. QED  BY <1>1, Invariant, PTL

-----------------------------------------------------------------------------
(* The bytes of a size.  What a recursive function is at every number is    *)
(* shown by the least number at which it would not be.                      *)

(* A set of numbers has a least one. *)
LEMMA Least ==
    ASSUME NEW T, T \subseteq Nat, T # {}
    PROVE  \E n \in T : \A m \in T : ~(m < n)
<1>. DEFINE R == {ss \in Nat \X Nat : ss[1] < ss[2]}
<1>1. IsWellFoundedOn(R, Nat)
  BY NatLessThanWellFounded DEF OpToRel
<1>2. \E n \in T : \A m \in T : ~(<<m, n>> \in R)
  <2>. HIDE DEF R
  <2>. QED  BY <1>1, WFMin, Zenon
<1>3. \A m, n \in T : m < n => <<m, n>> \in R
  OBVIOUS
<1>. QED  BY <1>2, <1>3, Zenon

SevenBitsFcn(f, k) ==
    f = [n \in 0 .. k |-> IF n < 128 THEN <<n>> ELSE <<128 + (n % 128)>> \o f[n \div 128]]

LEMMA SmallerQuotient ==
    ASSUME NEW n \in Nat, n >= 128
    PROVE  n \div 128 \in 0 .. n - 1
OBVIOUS

LEMMA SevenBitsExist ==
    ASSUME NEW k \in Nat
    PROVE  \E f : SevenBitsFcn(f, k)
<1>. DEFINE T == {n \in Nat : ~ \E f : SevenBitsFcn(f, n)}
<1>. SUFFICES ASSUME T # {} PROVE FALSE
  OBVIOUS
<1>1. PICK n \in T : \A m \in T : ~(m < n)
  BY Least
<1>2. CASE n = 0
  <2>1. SevenBitsFcn([i \in 0 .. 0 |-> <<i>>], 0)
    BY DEF SevenBitsFcn
  <2>. QED  BY <1>2, <2>1
<1>3. CASE n # 0
  <2>1. n - 1 \in Nat /\ n - 1 \notin T
    BY <1>1, <1>3
  <2>2. PICK f : SevenBitsFcn(f, n - 1)
    BY <2>1
  <2>. DEFINE last == IF n < 128 THEN <<n>> ELSE <<128 + (n % 128)>> \o f[n \div 128]
              g    == [i \in 0 .. n |-> IF i = n THEN last ELSE f[i]]
  <2>3. \A i \in 0 .. n - 1 : f[i] = IF i < 128 THEN <<i>> ELSE <<128 + (i % 128)>> \o f[i \div 128]
    BY <2>2 DEF SevenBitsFcn
  <2>4. \A i \in 0 .. n : i >= 128 => i \div 128 \in 0 .. n - 1 /\ g[i \div 128] = f[i \div 128]
    BY <2>1, SmallerQuotient
  <2>5. \A i \in 0 .. n : g[i] = IF i < 128 THEN <<i>> ELSE <<128 + (i % 128)>> \o g[i \div 128]
    <3>. SUFFICES ASSUME NEW i \in 0 .. n
                  PROVE  g[i] = IF i < 128 THEN <<i>> ELSE <<128 + (i % 128)>> \o g[i \div 128]
      BY Zenon
    <3>1. CASE i = n
      BY <2>4, <3>1
    <3>2. CASE i # n
      <4>1. i \in 0 .. n - 1 /\ g[i] = f[i]
        BY <3>2, <2>1
      <4>. QED  BY <2>3, <2>4, <4>1
    <3>. QED  BY <3>1, <3>2
  <2>6. DOMAIN g = 0 .. n /\ g = [i \in 0 .. n |-> g[i]]
    OBVIOUS
  <2>. HIDE DEF g
  <2>7. SevenBitsFcn(g, n)
    BY <2>5, <2>6 DEF SevenBitsFcn
  <2>. QED  BY <2>7
<1>. QED  BY <1>2, <1>3

LEMMA SevenBitsIs ==
    ASSUME NEW k \in Nat
    PROVE  \E f : SevenBitsFcn(f, k) /\ SevenBits(k) = f[k]
BY SevenBitsExist DEF SevenBits, SevenBitsFcn

-----------------------------------------------------------------------------

(* The reader goes on, item by item, from lo to hi. *)
Runs(r, s, lo, hi) == \A p \in lo + 1 .. hi : r[p] = Reads(r[p - 1], s[p])

(* At q stands the sequence t. *)
Stands(s, q, t) == \A j \in 1 .. Len(t) : s[q + j] = t[j]

LEMMA Units ==
    ASSUME NEW u \in Nat, NEW x \in Nat, NEW m \in Nat, NEW size \in Nat
    PROVE  (size + u * x) + (u * 128) * m = size + u * (128 * m + x)
OBVIOUS

LEMMA LastByte ==
    ASSUME NEW n \in Nat, n < 128
    PROVE  After(n) = "data" /\ n % 128 = n
BY DEF After

LEMMA MoreBytes ==
    ASSUME NEW n \in Nat, n >= 128
    PROVE  /\ After(128 + (n % 128)) = "size" /\ (128 + (n % 128)) % 128 = n % 128
           /\ n % 128 \in Nat /\ n \div 128 \in Nat /\ n = 128 * (n \div 128) + (n % 128)
<1>1. n % 128 \in 0 .. 127 /\ n \div 128 \in Nat /\ n = 128 * (n \div 128) + (n % 128)
  OBVIOUS
<1>2. \A x \in 0 .. 127 : 128 + x >= 128 /\ (128 + x) % 128 = x
  OBVIOUS
<1>3. After(128 + (n % 128)) = "size"
  BY <1>1, <1>2 DEF After
<1>. QED  BY <1>1, <1>2, <1>3

(* The reader makes the number n of the bytes t of a size, wherever they    *)
(* stand.                                                                   *)
ReadAs(r, s, lo, hi, t, n) ==
    \A type, read : \A q \in lo .. hi, size \in Nat, unit \in Nat :
        /\ q + Len(t) <= hi /\ Stands(s, q, t)
        /\ r[q] = Reader("size", type, size, unit, read)
        => \E u : r[q + Len(t)] = Reader("data", type, size + unit * n, u, read)

LEMMA ReadAt ==
    ASSUME NEW r, NEW s, NEW lo, NEW hi, NEW t, NEW n, ReadAs(r, s, lo, hi, t, n),
           NEW q \in lo .. hi, NEW type, NEW size \in Nat, NEW unit \in Nat, NEW read,
           q + Len(t) <= hi, Stands(s, q, t), r[q] = Reader("size", type, size, unit, read)
    PROVE  \E u : r[q + Len(t)] = Reader("data", type, size + unit * n, u, read)
BY DEF ReadAs

LEMMA LastByteRead ==
    ASSUME NEW n \in Nat, n < 128,
           NEW lo \in Nat, NEW hi \in Nat, NEW r, NEW s, Runs(r, s, lo, hi)
    PROVE  ReadAs(r, s, lo, hi, <<n>>, n)
<1>. SUFFICES ASSUME NEW type, NEW read, NEW q \in lo .. hi, NEW size \in Nat, NEW unit \in Nat,
                     q + 1 <= hi, s[q + 1] = n,
                     r[q] = Reader("size", type, size, unit, read)
              PROVE  \E u : r[q + 1] = Reader("data", type, size + unit * n, u, read)
  BY DEF ReadAs, Stands
<1>1. q + 1 \in lo + 1 .. hi /\ (q + 1) - 1 = q
  OBVIOUS
<1>2. r[q + 1] = Reads(r[q], n)
  BY <1>1 DEF Runs
<1>3. r[q + 1] = Reader("data", type, size + unit * n, unit * 128, read)
  BY <1>2, LastByte DEF Reads, Reader
<1>. QED  BY <1>3

LEMMA MoreBytesRead ==
    ASSUME NEW n \in Nat, n >= 128,
           NEW lo \in Nat, NEW hi \in Nat, NEW r, NEW s, Runs(r, s, lo, hi),
           NEW t \in Seq(Nat), ReadAs(r, s, lo, hi, t, n \div 128)
    PROVE  ReadAs(r, s, lo, hi, <<128 + (n % 128)>> \o t, n)
<1>. DEFINE m == n \div 128
            x == n % 128
            b == 128 + x
            w == <<b>> \o t
<1>1. After(b) = "size" /\ b % 128 = x /\ x \in Nat /\ b \in Nat /\ m \in Nat /\ n = 128 * m + x
  BY MoreBytes
<1>2. /\ Len(w) = Len(t) + 1 /\ Len(t) \in Nat
      /\ w[1] = b /\ \A j \in 1 .. Len(t) : j + 1 \in 1 .. Len(w) /\ w[j + 1] = t[j]
  BY <1>1
<1>. HIDE DEF m, x, b, w
<1>. SUFFICES ASSUME NEW type, NEW read, NEW q \in lo .. hi, NEW size \in Nat, NEW unit \in Nat,
                     q + Len(w) <= hi, Stands(s, q, w),
                     r[q] = Reader("size", type, size, unit, read)
              PROVE  \E u : r[q + Len(w)] = Reader("data", type, size + unit * n, u, read)
  BY DEF ReadAs, w, b, x
<1>3. q \in Nat /\ q + 1 <= hi /\ (q + 1) + Len(t) = q + Len(w) /\ (q + 1) + Len(t) <= hi
  BY <1>2
<1>4. q + 1 \in lo .. hi /\ q + 1 \in lo + 1 .. hi /\ (q + 1) - 1 = q /\ 1 \in 1 .. Len(w)
  BY <1>2, <1>3
<1>5. r[q + 1] = Reads(r[q], b)
  BY <1>2, <1>4 DEF Runs, Stands
<1>6. r[q + 1] = Reader("size", type, size + unit * x, unit * 128, read)
  BY <1>1, <1>5 DEF Reads, Reader
<1>7. Stands(s, q + 1, t)
  <2>. SUFFICES ASSUME NEW j \in 1 .. Len(t) PROVE s[(q + 1) + j] = t[j]
    BY DEF Stands
  <2>1. j + 1 \in 1 .. Len(w) /\ w[j + 1] = t[j] /\ q + (j + 1) = (q + 1) + j
    BY <1>2, <1>3
  <2>2. s[q + (j + 1)] = w[j + 1]
    BY <2>1 DEF Stands
  <2>. QED  BY <2>1, <2>2
<1>8. size + unit * x \in Nat /\ unit * 128 \in Nat
  <2>1. \A a, c \in Nat : a * c \in Nat /\ a + c \in Nat
    OBVIOUS
  <2>. QED  BY <1>1, <2>1
<1>9. PICK u : r[(q + 1) + Len(t)]
                  = Reader("data", type, (size + unit * x) + (unit * 128) * m, u, read)
  <2>1. ReadAs(r, s, lo, hi, t, m)
    BY DEF m
  <2>. DEFINE at == q + 1
              z  == size + unit * x
              v  == unit * 128
  <2>2. at \in lo .. hi /\ at + Len(t) <= hi /\ Stands(s, at, t)
        /\ r[at] = Reader("size", type, z, v, read) /\ z \in Nat /\ v \in Nat
    BY <1>3, <1>4, <1>6, <1>7, <1>8
  <2>. HIDE DEF at, z, v
  <2>3. \E u : r[at + Len(t)] = Reader("data", type, z + v * m, u, read)
    <3>1. /\ at \in lo .. hi /\ at + Len(t) <= hi /\ Stands(s, at, t)
          /\ r[at] = Reader("size", type, z, v, read)
      BY <2>2
    <3>2. z \in Nat /\ v \in Nat
      BY <2>2
    <3>3. at + Len(t) <= hi /\ Stands(s, at, t) /\ r[at] = Reader("size", type, z, v, read)
             => \E u : r[at + Len(t)] = Reader("data", type, z + v * m, u, read)
      <4>. HIDE DEF Reader, Stands
      <4>. QED  BY <2>1, <3>1, <3>2 DEF ReadAs
    <3>. QED  BY <3>1, <3>3
  <2>. QED  BY <2>3 DEF at, z, v
<1>10. (size + unit * x) + (unit * 128) * m = size + unit * n
  BY <1>1, Units
<1>. QED  BY <1>3, <1>9, <1>10

LEMMA SevenBitsRead ==
    ASSUME NEW k \in Nat,
           NEW lo \in Nat, NEW hi \in Nat, NEW r, NEW s, Runs(r, s, lo, hi)
    PROVE  SevenBits(k) \in Seq(Nat) /\ ReadAs(r, s, lo, hi, SevenBits(k), k)
<1>0. PICK f : SevenBitsFcn(f, k) /\ SevenBits(k) = f[k]
  BY SevenBitsIs
<1>. DEFINE P(n) == f[n] \in Seq(Nat) /\ ReadAs(r, s, lo, hi, f[n], n)
            T == {n \in 0 .. k : ~P(n)}
<1>1. ASSUME NEW n \in 0 .. k, \A m \in 0 .. k : m < n => P(m)
      PROVE  P(n)
  <2>1. f[n] = IF n < 128 THEN <<n>> ELSE <<128 + (n % 128)>> \o f[n \div 128]
    BY <1>0 DEF SevenBitsFcn
  <2>2. CASE n < 128
    <3>1. f[n] = <<n>> /\ <<n>> \in Seq(Nat)
      BY <2>1, <2>2
    <3>2. ReadAs(r, s, lo, hi, <<n>>, n)
      BY <2>2, LastByteRead
    <3>. QED  BY <3>1, <3>2
  <2>3. CASE n >= 128
    <3>1. n \div 128 \in 0 .. k /\ n \div 128 < n
      BY <2>3, SmallerQuotient
    <3>2. P(n \div 128)
      BY <1>1, <3>1
    <3>3. f[n] = <<128 + (n % 128)>> \o f[n \div 128]
      <4>1. ~(n < 128)
        BY <2>3
      <4>. QED  BY <2>1, <4>1, Zenon
    <3>4. ReadAs(r, s, lo, hi, <<128 + (n % 128)>> \o f[n \div 128], n)
      BY <2>3, <3>2, MoreBytesRead
    <3>5. <<128 + (n % 128)>> \o f[n \div 128] \in Seq(Nat)
      <4>1. 128 + (n % 128) \in Nat
        BY <2>3, MoreBytes
      <4>. QED  BY <3>2, <4>1
    <3>. QED  BY <3>3, <3>4, <3>5
  <2>. QED  BY <2>2, <2>3
<1>2. T = {}
  <2>. SUFFICES ASSUME T # {} PROVE FALSE
    OBVIOUS
  <2>1. T \subseteq Nat
    OBVIOUS
  <2>2. PICK n \in T : \A m \in T : ~(m < n)
    <3>. HIDE DEF T
    <3>. QED  BY <2>1, Least, Zenon
  <2>. HIDE DEF P
  <2>. QED  BY <1>1, <2>2
<1>3. k \in 0 .. k
  OBVIOUS
<1>. HIDE DEF P
<1>4. P(k)
  BY <1>2, <1>3
<1>. QED  BY <1>0, <1>4 DEF P

-----------------------------------------------------------------------------

LEMMA OnlyByte ==
    ASSUME NEW size \in Nat, size < 16
    PROVE  LET c == 3 * 16 + size
           IN  c \in Nat /\ After(c) = "data" /\ (c % 128) \div 16 = 3 /\ c % 16 = size
<1>1. \A x \in 0 .. 15 : /\ 3 * 16 + x \in Nat /\ 3 * 16 + x < 128
                          /\ (3 * 16 + x) % 128 = 3 * 16 + x
                          /\ (3 * 16 + x) \div 16 = 3 /\ (3 * 16 + x) % 16 = x
  OBVIOUS
<1>2. size \in 0 .. 15
  OBVIOUS
<1>. QED  BY <1>1, <1>2 DEF After

LEMMA FirstByte ==
    ASSUME NEW size \in Nat
    PROVE  LET c == 128 + 3 * 16 + (size % 16)
           IN  /\ c \in Nat /\ After(c) = "size" /\ (c % 128) \div 16 = 3
               /\ c % 16 = size % 16 /\ size % 16 \in Nat
               /\ size \div 16 \in Nat /\ size = (size % 16) + 16 * (size \div 16)
<1>1. \A x \in 0 .. 15 : /\ 128 + 3 * 16 + x \in Nat /\ ~(128 + 3 * 16 + x < 128)
                          /\ (128 + 3 * 16 + x) % 128 = 3 * 16 + x
                          /\ (3 * 16 + x) \div 16 = 3 /\ (128 + 3 * 16 + x) % 16 = x
  OBVIOUS
<1>2. /\ size % 16 \in 0 .. 15 /\ size \div 16 \in Nat
      /\ size = (size % 16) + 16 * (size \div 16)
  OBVIOUS
<1>. QED  BY <1>1, <1>2 DEF After

LEMMA HeaderIsNumbers ==
    ASSUME NEW size \in Nat
    PROVE  ObjectHeader(size) \in Seq(Nat)
<1>1. CASE size < 16
  <2>1. 3 * 16 + size \in Nat
    OBVIOUS
  <2>. QED  BY <1>1, <2>1 DEF ObjectHeader
<1>2. CASE size >= 16
  <2>1. size \div 16 \in Nat /\ 128 + 3 * 16 + (size % 16) \in Nat
    BY FirstByte
  <2>2. Runs(<<>>, <<>>, 0, 0)
    BY DEF Runs
  <2>3. SevenBits(size \div 16) \in Seq(Nat)
    BY <2>1, <2>2, SevenBitsRead
  <2>4. ObjectHeader(size) = <<128 + 3 * 16 + (size % 16)>> \o SevenBits(size \div 16)
    <3>1. ~(size < 16)
      BY <1>2
    <3>. QED  BY <3>1, Zenon DEF ObjectHeader
  <2>. QED  BY <2>1, <2>3, <2>4
<1>. QED  BY <1>1, <1>2

(* The reader takes the type and the size from the header of an object.    *)
LEMMA HeaderRead ==
    ASSUME NEW size \in Nat,
           NEW lo \in Nat, NEW hi \in Nat, NEW r, NEW s, Runs(r, s, lo, hi),
           NEW q \in lo .. hi, NEW read,
           q + Len(ObjectHeader(size)) <= hi, Stands(s, q, ObjectHeader(size)),
           r[q] = Reader("type", 0, 0, 0, read)
    PROVE  \E u : r[q + Len(ObjectHeader(size))] = Reader("data", 3, size, u, read)
<1>. DEFINE h == ObjectHeader(size)
<1>1. CASE size < 16
  <2>. DEFINE c == 3 * 16 + size
  <2>1. c \in Nat /\ After(c) = "data" /\ (c % 128) \div 16 = 3 /\ c % 16 = size
    BY <1>1, OnlyByte
  <2>2. h = <<c>>
    BY <1>1 DEF ObjectHeader
  <2>. HIDE DEF h, c
  <2>3. Len(h) = 1 /\ h[1] = c
    BY <2>1, <2>2
  <2>4. q + 1 \in lo + 1 .. hi /\ (q + 1) - 1 = q /\ s[q + 1] = c
    BY <2>3 DEF Stands, h
  <2>5. r[q + 1] = Reads(r[q], c)
    BY <2>4 DEF Runs
  <2>6. r[q + 1] = Reader("data", 3, size, 16, read)
    BY <2>1, <2>5 DEF Reads, Reader
  <2>. QED  BY <2>3, <2>6 DEF h
<1>2. CASE size >= 16
  <2>. DEFINE c == 128 + 3 * 16 + (size % 16)
              x == size % 16
              m == size \div 16
              t == SevenBits(m)
  <2>1. /\ c \in Nat /\ After(c) = "size" /\ (c % 128) \div 16 = 3 /\ c % 16 = x /\ x \in Nat
        /\ m \in Nat /\ size = x + 16 * m
    BY FirstByte
  <2>2. h = <<c>> \o t
    <3>1. ~(size < 16)
      BY <1>2
    <3>. QED  BY <3>1, Zenon DEF ObjectHeader
  <2>. HIDE DEF h, c, x, m
  <2>3. t \in Seq(Nat) /\ ReadAs(r, s, lo, hi, t, m)
    BY <2>1, SevenBitsRead
  <2>. HIDE DEF t
  <2>4. /\ Len(h) = Len(t) + 1 /\ Len(t) \in Nat /\ h[1] = c
        /\ \A j \in 1 .. Len(t) : j + 1 \in 1 .. Len(h) /\ h[j + 1] = t[j]
    BY <2>1, <2>2, <2>3
  <2>5. q + Len(h) <= hi /\ Stands(s, q, h)
    BY DEF h
  <2>. DEFINE at == q + 1
  <2>6. /\ at \in lo .. hi /\ at \in lo + 1 .. hi /\ at - 1 = q
        /\ at + Len(t) = q + Len(h) /\ at + Len(t) <= hi /\ 1 \in 1 .. Len(h)
    BY <2>4, <2>5
  <2>7. s[at] = c
    BY <2>4, <2>5, <2>6 DEF Stands
  <2>8. Stands(s, at, t)
    <3>. SUFFICES ASSUME NEW j \in 1 .. Len(t) PROVE s[at + j] = t[j]
      BY DEF Stands
    <3>1. j + 1 \in 1 .. Len(h) /\ h[j + 1] = t[j] /\ q + (j + 1) = at + j
      BY <2>4, <2>6
    <3>2. s[q + (j + 1)] = h[j + 1]
      BY <2>5, <3>1 DEF Stands
    <3>. QED  BY <3>1, <3>2
  <2>. HIDE DEF at
  <2>9. r[at] = Reads(r[q], c)
    BY <2>6, <2>7 DEF Runs
  <2>10. r[at] = Reader("size", 3, x, 16, read)
    BY <2>1, <2>9 DEF Reads, Reader
  <2>11. PICK u : r[at + Len(t)] = Reader("data", 3, x + 16 * m, u, read)
    <3>. DEFINE blob == 3
                unit == 16
    <3>1. at \in lo .. hi /\ at + Len(t) <= hi /\ Stands(s, at, t) /\ x \in Nat /\ unit \in Nat
          /\ r[at] = Reader("size", blob, x, unit, read)
      BY <2>1, <2>6, <2>8, <2>10
    <3>. HIDE DEF blob, unit
    <3>2. \E u : r[at + Len(t)] = Reader("data", blob, x + unit * m, u, read)
      BY <2>3, <3>1, ReadAt
    <3>. QED  BY <3>2 DEF blob, unit
  <2>12. r[q + Len(h)] = Reader("data", 3, size, u, read)
    BY <2>1, <2>6, <2>11
  <2>. QED  BY <2>12 DEF h
<1>. QED  BY <1>1, <1>2

(* The reader takes an object, header and content, as what was written.    *)
LEMMA ObjectRead ==
    ASSUME NEW size \in Nat, NEW d,
           NEW lo \in Nat, NEW hi \in Nat, NEW r, NEW s, Runs(r, s, lo, hi),
           NEW q \in lo .. hi, NEW read,
           q + Len(Append(ObjectHeader(size), d)) <= hi,
           Stands(s, q, Append(ObjectHeader(size), d)),
           r[q] = Reader("type", 0, 0, 0, read)
    PROVE  r[q + Len(Append(ObjectHeader(size), d))]
               = Reader("type", 0, 0, 0,
                        Append(read, [type |-> 3, size |-> size, data |-> d]))
<1>. DEFINE h == ObjectHeader(size)
            o == Append(h, d)
            at == q + Len(h)
<1>1. h \in Seq(Nat)
  BY HeaderIsNumbers
<1>. HIDE DEF h
<1>2. /\ Len(h) \in Nat /\ Len(o) = Len(h) + 1 /\ o[Len(h) + 1] = d
      /\ \A j \in 1 .. Len(h) : j \in 1 .. Len(o) /\ o[j] = h[j]
  <2>1. h \in Seq(Nat \cup {d})
    BY <1>1
  <2>. QED  BY <2>1
<1>3. q + Len(o) <= hi /\ Stands(s, q, o)
  BY DEF h
<1>. HIDE DEF o
<1>4. /\ at \in lo .. hi /\ at + 1 \in lo + 1 .. hi /\ (at + 1) - 1 = at /\ at <= hi
      /\ at + 1 = q + Len(o) /\ Len(h) + 1 \in 1 .. Len(o) /\ at + 1 = q + (Len(h) + 1)
  <2>1. \A a \in Nat : q + (a + 1) <= hi =>
            /\ q + a \in lo .. hi /\ (q + a) + 1 \in lo + 1 .. hi /\ ((q + a) + 1) - 1 = q + a
            /\ q + a <= hi /\ (q + a) + 1 = q + (a + 1) /\ a + 1 \in 1 .. a + 1
    OBVIOUS
  <2>2. Len(h) \in Nat /\ Len(o) = Len(h) + 1 /\ q + (Len(h) + 1) <= hi
    BY <1>2, <1>3
  <2>. QED  BY <2>1, <2>2, Zenon
<1>5. Stands(s, q, h)
  BY <1>2, <1>3 DEF Stands
<1>6. s[at + 1] = d
  <2>1. s[q + (Len(h) + 1)] = o[Len(h) + 1]
    BY <1>3, <1>4 DEF Stands
  <2>. QED  BY <1>2, <1>4, <2>1
<1>7. PICK u : r[at] = Reader("data", 3, size, u, read)
  BY <1>4, <1>5, HeaderRead DEF h
<1>. HIDE DEF at
<1>8. r[at + 1] = Reads(r[at], d)
  BY <1>4, <1>6 DEF Runs
<1>9. r[at + 1] = Reader("type", 0, 0, 0, Append(read, [type |-> 3, size |-> size, data |-> d]))
  BY <1>7, <1>8 DEF Reads, Reader
<1>. QED  BY <1>4, <1>9 DEF o, h

-----------------------------------------------------------------------------

Start == Reader("type", 0, 0, 0, <<>>)

ReaderFcn(f, s, n) ==
    f = [p \in 3 .. n |-> IF p = 3 THEN Start ELSE Reads(f[p - 1], s[p])]

LEMMA ReaderExists ==
    ASSUME NEW s, NEW k \in Nat, k >= 3
    PROVE  \E f : ReaderFcn(f, s, k)
<1>. DEFINE T == {n \in Nat : n >= 3 /\ ~ \E f : ReaderFcn(f, s, n)}
<1>. SUFFICES ASSUME T # {} PROVE FALSE
  OBVIOUS
<1>1. PICK n \in T : \A m \in T : ~(m < n)
  BY Least
<1>2. CASE n = 3
  <2>1. ReaderFcn([p \in 3 .. 3 |-> Start], s, 3)
    BY DEF ReaderFcn
  <2>. QED  BY <1>2, <2>1
<1>3. CASE n # 3
  <2>1. n - 1 \in Nat /\ n - 1 >= 3 /\ n - 1 \notin T
    BY <1>1, <1>3
  <2>2. PICK f : ReaderFcn(f, s, n - 1)
    BY <2>1
  <2>. DEFINE g == [p \in 3 .. n |-> IF p = n THEN Reads(f[n - 1], s[n]) ELSE f[p]]
  <2>3. \A p \in 3 .. n - 1 : f[p] = IF p = 3 THEN Start ELSE Reads(f[p - 1], s[p])
    BY <2>2 DEF ReaderFcn
  <2>4. \A p \in 3 .. n : g[p] = IF p = 3 THEN Start ELSE Reads(g[p - 1], s[p])
    <3>. SUFFICES ASSUME NEW p \in 3 .. n
                  PROVE  g[p] = IF p = 3 THEN Start ELSE Reads(g[p - 1], s[p])
      BY Zenon
    <3>1. CASE p = n
      <4>1. n - 1 \in 3 .. n /\ n - 1 # n /\ p # 3
        BY <1>3, <2>1, <3>1
      <4>2. g[p] = Reads(f[n - 1], s[n]) /\ g[n - 1] = f[n - 1]
        BY <3>1, <4>1
      <4>. QED  BY <3>1, <4>1, <4>2
    <3>2. CASE p # n
      <4>1. p \in 3 .. n - 1 /\ g[p] = f[p]
        BY <3>2, <2>1
      <4>2. p # 3 => p - 1 \in 3 .. n /\ p - 1 # n
        BY <4>1
      <4>3. p # 3 => g[p - 1] = f[p - 1]
        BY <4>2
      <4>. HIDE DEF g
      <4>. QED  BY <2>3, <4>1, <4>3
    <3>. QED  BY <3>1, <3>2
  <2>5. g = [p \in 3 .. n |-> g[p]]
    OBVIOUS
  <2>. HIDE DEF g
  <2>6. ReaderFcn(g, s, n)
    BY <2>4, <2>5 DEF ReaderFcn
  <2>. QED  BY <2>6
<1>. QED  BY <1>2, <1>3

LEMMA GitReadsIs ==
    ASSUME NEW s, Len(s) \in Nat, Len(s) >= 4
    PROVE  \E f : /\ ReaderFcn(f, s, Len(s) - 1)
                  /\ GitReads(s) = [count   |-> s[3],
                                    objects |-> f[Len(s) - 1].objects,
                                    whole   |-> f[Len(s) - 1].next = "type"]
<1>1. Len(s) - 1 \in Nat /\ Len(s) - 1 >= 3
  OBVIOUS
<1>2. \E f : ReaderFcn(f, s, Len(s) - 1)
  BY <1>1, ReaderExists
<1>. QED  BY <1>2 DEF GitReads, ReaderFcn, Start

-----------------------------------------------------------------------------

(* What a Write call can carry. *)
Marks == {"PACK", "checksum", "status line", "headers", "blank line", "body"}
Item  == Nat \cup Marks \cup Contents
            \cup [count : Nat, files : Seq([name : Files, size : Nat])]

(* The first k of the pieces make up s; cut[i] items stand before piece i.  *)
Laid(s, pieces, k, cut) ==
    /\ cut \in [1 .. k + 1 -> Nat] /\ cut[1] = 0 /\ Len(s) = cut[k + 1]
    /\ \A i \in 1 .. k : cut[i + 1] = cut[i] + Len(pieces[i]) /\ Stands(s, cut[i], pieces[i])
    /\ \A i, j \in 1 .. k + 1 : i <= j => cut[i] <= cut[j]

LEMMA LaidMore ==
    ASSUME NEW s \in Seq(Item), NEW pieces, NEW k \in Nat, pieces[k + 1] \in Seq(Item),
           NEW cut, Laid(s, pieces, k, cut)
    PROVE  \E c : Laid(s \o pieces[k + 1], pieces, k + 1, c)
<1>. DEFINE w == pieces[k + 1]
            e == s \o w
            m == cut[k + 1] + Len(w)
            c == [i \in 1 .. (k + 1) + 1 |-> IF i = k + 2 THEN m ELSE cut[i]]
<1>0. /\ cut \in [1 .. k + 1 -> Nat] /\ cut[1] = 0 /\ Len(s) = cut[k + 1]
      /\ \A i \in 1 .. k : cut[i + 1] = cut[i] + Len(pieces[i]) /\ Stands(s, cut[i], pieces[i])
      /\ \A i, j \in 1 .. k + 1 : i <= j => cut[i] <= cut[j]
  BY DEF Laid
<1>1. /\ Len(w) \in Nat /\ Len(s) \in Nat /\ Len(e) = Len(s) + Len(w)
      /\ \A j \in 1 .. Len(s) : e[j] = s[j]
      /\ \A j \in 1 .. Len(w) : e[Len(s) + j] = w[j]
  OBVIOUS
<1>2. m \in Nat /\ cut[k + 1] \in Nat /\ cut[k + 1] <= m /\ \A i \in 1 .. k + 1 : cut[i] \in Nat
  BY <1>0, <1>1
<1>. HIDE DEF w, e, m
<1>3. /\ \A i \in 1 .. k + 1 : c[i] = cut[i]
      /\ c[k + 2] = m /\ c \in [1 .. (k + 1) + 1 -> Nat] /\ (k + 1) + 1 = k + 2
  BY <1>2
<1>. HIDE DEF c
<1>4. \A i, j \in 1 .. (k + 1) + 1 : i <= j => c[i] <= c[j]
  <2>. SUFFICES ASSUME NEW i \in 1 .. (k + 1) + 1, NEW j \in 1 .. (k + 1) + 1, i <= j
                PROVE  c[i] <= c[j]
    OBVIOUS
  <2>1. CASE j \in 1 .. k + 1
    <3>1. i \in 1 .. k + 1
      BY <2>1
    <3>. QED  BY <1>0, <1>3, <2>1, <3>1
  <2>2. CASE j = k + 2 /\ i \in 1 .. k + 1
    <3>1. k + 1 \in 1 .. k + 1 /\ i <= k + 1
      BY <2>2
    <3>2. cut[i] <= cut[k + 1] /\ cut[i] \in Nat
      BY <1>0, <1>2, <2>2, <3>1
    <3>3. cut[i] <= m
      BY <1>2, <3>2
    <3>. QED  BY <1>3, <2>2, <3>3
  <2>3. CASE j = k + 2 /\ i = k + 2
    BY <1>2, <1>3, <2>3
  <2>4. (j \in 1 .. k + 1 \/ j = k + 2) /\ (i \in 1 .. k + 1 \/ i = k + 2)
    OBVIOUS
  <2>. QED  BY <2>1, <2>2, <2>3, <2>4
<1>5. ASSUME NEW i \in 1 .. k + 1
      PROVE  c[i + 1] = c[i] + Len(pieces[i]) /\ Stands(e, c[i], pieces[i])
  <2>1. CASE i = k + 1
    <3>1. c[i] = cut[k + 1] /\ c[i + 1] = m /\ i + 1 = k + 2
      BY <1>3, <2>1
    <3>2. Stands(e, cut[k + 1], w)
      BY <1>0, <1>1 DEF Stands
    <3>. QED  BY <2>1, <3>1, <3>2 DEF w, m
  <2>2. CASE i # k + 1
    <3>1. i \in 1 .. k /\ i + 1 \in 1 .. k + 1 /\ k + 1 \in 1 .. k + 1 /\ i + 1 <= k + 1
      BY <2>2
    <3>2. c[i] = cut[i] /\ c[i + 1] = cut[i + 1]
      BY <1>3, <3>1
    <3>3. /\ cut[i + 1] = cut[i] + Len(pieces[i]) /\ cut[i + 1] <= Len(s)
          /\ Stands(s, cut[i], pieces[i])
      BY <1>0, <3>1
    <3>4. Stands(e, cut[i], pieces[i])
      <4>. SUFFICES ASSUME NEW j \in 1 .. Len(pieces[i]) PROVE e[cut[i] + j] = pieces[i][j]
        BY DEF Stands
      <4>1. s[cut[i] + j] = pieces[i][j]
        BY <3>3 DEF Stands
      <4>2. cut[i] \in Nat /\ cut[i + 1] \in Nat
        BY <1>2, <3>1
      <4>3. cut[i] + j \in 1 .. Len(s)
        <5>1. \A l, c1, c2, w1 \in Nat : \A x \in 1 .. w1 :
                  c2 = c1 + w1 /\ c2 <= l => c1 + x \in 1 .. l
          OBVIOUS
        <5>2. Len(pieces[i]) \in Nat
          BY <3>3, <4>2
        <5>. QED  BY <1>1, <3>3, <4>2, <5>1, <5>2, Zenon
      <4>. QED  BY <1>1, <4>1, <4>3
    <3>. QED  BY <3>2, <3>3, <3>4
  <2>. QED  BY <2>1, <2>2
<1>6. Len(e) = c[(k + 1) + 1] /\ c[1] = 0
  <2>1. 1 \in 1 .. k + 1
    OBVIOUS
  <2>. QED  BY <1>0, <1>1, <1>3, <2>1 DEF m
<1>7. Laid(e, pieces, k + 1, c)
  BY <1>3, <1>4, <1>5, <1>6 DEF Laid
<1>. QED  BY <1>7 DEF e, w

(* The packfile, piece by piece. *)
LEMMA PackPieces ==
    ASSUME objects \in Seq(Object)
    PROVE  /\ Pack \in Seq(Seq(Item)) /\ Len(Pack) = Len(objects) + 2
           /\ Pack[1] = <<"PACK", 2, Len(objects)>>
           /\ Pack[Len(objects) + 2] = <<"checksum">>
           /\ \A i \in 1 .. Len(objects) :
                 /\ SizeOf[objects[i].data] \in Nat
                 /\ Pack[i + 1] = Append(ObjectHeader(SizeOf[objects[i].data]), objects[i].data)
<1>. DEFINE n == Len(objects)
            piece(i) == Append(ObjectHeader(SizeOf[objects[i].data]), objects[i].data)
            middle == [i \in 1 .. n |-> piece(i)]
            head == <<"PACK", 2, n>>
            tail == <<"checksum">>
<1>1. n \in Nat /\ \A i \in 1 .. n : objects[i] \in Object
  OBVIOUS
<1>2. \A i \in 1 .. n : objects[i].data \in Contents /\ SizeOf[objects[i].data] \in Nat
  BY <1>1, SizeAssumption DEF Object
<1>3. ASSUME NEW i \in 1 .. n PROVE piece(i) \in Seq(Item)
  <2>1. ObjectHeader(SizeOf[objects[i].data]) \in Seq(Nat)
    BY <1>2, HeaderIsNumbers
  <2>2. ObjectHeader(SizeOf[objects[i].data]) \in Seq(Item)
    BY <2>1 DEF Item
  <2>3. objects[i].data \in Item
    BY <1>2 DEF Item
  <2>. QED  BY <2>2, <2>3
<1>4. head \in Seq(Item) /\ tail \in Seq(Item)
  <2>1. "PACK" \in Item /\ "checksum" \in Item
    BY Zenon DEF Item, Marks
  <2>2. 2 \in Item /\ n \in Item
    BY <1>1 DEF Item
  <2>. HIDE DEF n
  <2>. QED  BY <2>1, <2>2
<1>5. Pack = (<<head>> \o middle) \o <<tail>>
  BY DEF Pack
<1>. HIDE DEF n, piece, head, tail
<1>6. /\ middle \in Seq(Seq(Item)) /\ Len(middle) = n
      /\ \A i \in 1 .. n : middle[i] = piece(i)
  BY <1>1, <1>3
<1>. HIDE DEF middle
<1>7. /\ Pack \in Seq(Seq(Item)) /\ Len(Pack) = n + 2
      /\ Pack[1] = head /\ Pack[n + 2] = tail
      /\ \A i \in 1 .. n : Pack[i + 1] = middle[i]
  <2>. DEFINE V == Seq(Item)
              f == <<head>> \o middle
  <2>1. head \in V /\ tail \in V /\ middle \in Seq(V)
    BY <1>4, <1>6
  <2>. HIDE DEF V
  <2>2. <<head>> \in Seq(V) /\ Len(<<head>>) = 1 /\ <<tail>> \in Seq(V)
        /\ Len(<<tail>>) = 1 /\ <<tail>>[1] = tail /\ <<head>>[1] = head
    BY <2>1
  <2>3. /\ f \in Seq(V) /\ Len(f) = n + 1 /\ f[1] = head
        /\ \A i \in 1 .. n : f[i + 1] = middle[i]
    BY <1>1, <1>6, <2>1, <2>2
  <2>. HIDE DEF f
  <2>4. /\ f \o <<tail>> \in Seq(V) /\ Len(f \o <<tail>>) = n + 2
        /\ (f \o <<tail>>)[n + 2] = tail
        /\ \A i \in 1 .. n + 1 : (f \o <<tail>>)[i] = f[i]
    BY <1>1, <2>2, <2>3
  <2>5. 1 \in 1 .. n + 1 /\ \A i \in 1 .. n : i + 1 \in 1 .. n + 1
    BY <1>1
  <2>6. Pack = f \o <<tail>>
    BY <1>5 DEF f
  <2>. QED  BY <2>3, <2>4, <2>5, <2>6 DEF V
<1>. QED  BY <1>2, <1>6, <1>7 DEF n, piece, head, tail

(* Git reads a whole packfile as the files that were read. *)
LEMMA PackRead ==
    ASSUME objects \in Seq(Object), NEW s, NEW cut, Laid(s, Pack, Len(Pack), cut)
    PROVE  GitReads(s) =
               [count   |-> Len(objects),
                objects |-> [i \in 1 .. Len(objects) |->
                               [type |-> 3, size |-> SizeOf[objects[i].data],
                                data |-> objects[i].data]],
                whole   |-> TRUE]
<1>. DEFINE n == Len(objects)
            size(i) == SizeOf[objects[i].data]
            data(i) == objects[i].data
            blob(i) == [type |-> 3, size |-> size(i), data |-> data(i)]
            piece(i) == Append(ObjectHeader(size(i)), data(i))
            first(i) == [j \in 1 .. i |-> blob(j)]
            hi == Len(s) - 1
<1>1. /\ n \in Nat /\ Len(Pack) = n + 2
      /\ Pack[1] = <<"PACK", 2, n>> /\ Pack[n + 2] = <<"checksum">>
      /\ \A i \in 1 .. n : size(i) \in Nat /\ Pack[i + 1] = piece(i)
  BY PackPieces
<1>. HIDE DEF n, size, data
<1>2. /\ cut \in [1 .. n + 3 -> Nat] /\ cut[1] = 0 /\ Len(s) = cut[n + 3]
      /\ \A i \in 1 .. n + 2 : cut[i + 1] = cut[i] + Len(Pack[i]) /\ Stands(s, cut[i], Pack[i])
      /\ \A i, j \in 1 .. n + 3 : i <= j => cut[i] <= cut[j]
  <2>1. (n + 2) + 1 = n + 3
    BY <1>1
  <2>. QED  BY <1>1, <2>1 DEF Laid
<1>3. cut[2] = 3 /\ s[3] = n
  <2>1. 1 \in 1 .. n + 2 /\ 1 + 1 = 2 /\ 0 + 3 = 3
    BY <1>1
  <2>2. Len(Pack[1]) = 3 /\ 3 \in 1 .. Len(Pack[1]) /\ Pack[1][3] = n
    BY <1>1
  <2>3. cut[2] = 0 + 3 /\ Stands(s, 0, Pack[1])
    BY <1>2, <2>1, <2>2
  <2>4. s[0 + 3] = n
    BY <2>2, <2>3 DEF Stands
  <2>. QED  BY <2>1, <2>3, <2>4
<1>4. cut[n + 2] = hi /\ hi \in Nat /\ hi >= 3 /\ Len(s) \in Nat
  <2>1. n + 2 \in 1 .. n + 2 /\ (n + 2) + 1 = n + 3 /\ n + 2 \in 1 .. n + 3
        /\ n + 3 \in 1 .. n + 3 /\ 2 \in 1 .. n + 3 /\ 2 <= n + 2
    BY <1>1
  <2>2. Len(Pack[n + 2]) = 1
    BY <1>1
  <2>3. cut[n + 3] = cut[n + 2] + 1 /\ cut[n + 2] \in Nat /\ cut[2] <= cut[n + 2]
    BY <1>2, <2>1, <2>2
  <2>. QED  BY <1>2, <1>3, <2>3
<1>5. PICK r : /\ ReaderFcn(r, s, hi)
               /\ GitReads(s) = [count |-> s[3], objects |-> r[hi].objects,
                                 whole |-> r[hi].next = "type"]
  BY <1>4, GitReadsIs
<1>6. r[3] = Start /\ Runs(r, s, 3, hi)
  <2>1. \A p \in 3 .. hi : r[p] = IF p = 3 THEN Start ELSE Reads(r[p - 1], s[p])
    BY <1>5 DEF ReaderFcn
  <2>2. 3 \in 3 .. hi /\ \A p \in 3 + 1 .. hi : p \in 3 .. hi /\ p # 3
    BY <1>4
  <2>. QED  BY <2>1, <2>2 DEF Runs
<1>. HIDE DEF hi
<1>. DEFINE P(i) == r[cut[i + 2]] = Reader("type", 0, 0, 0, first(i))
            T == {i \in 0 .. n : ~P(i)}
<1>7. P(0)
  <2>1. first(0) = <<>> /\ 0 + 2 = 2
    OBVIOUS
  <2>. HIDE DEF first
  <2>. QED  BY <1>3, <1>6, <2>1 DEF Start
<1>8. ASSUME NEW i \in 1 .. n, P(i - 1)
      PROVE  P(i)
  <2>1. /\ i + 1 \in 1 .. n + 2 /\ i + 1 \in 1 .. n + 3 /\ i + 2 \in 1 .. n + 3
        /\ 2 \in 1 .. n + 3 /\ n + 2 \in 1 .. n + 3
        /\ 2 <= i + 1 /\ i + 2 <= n + 2 /\ i + 1 <= n + 2
        /\ (i + 1) + 1 = i + 2 /\ (i - 1) + 2 = i + 1
    BY <1>1
  <2>. DEFINE q == cut[i + 1]
              read == first(i - 1)
  <2>2. /\ q \in Nat /\ 3 <= q /\ q <= hi
        /\ cut[i + 2] = q + Len(piece(i)) /\ cut[i + 2] <= hi
        /\ Stands(s, q, piece(i))
    <3>1. Pack[i + 1] = piece(i)
      BY <1>1
    <3>2. cut[(i + 1) + 1] = cut[i + 1] + Len(Pack[i + 1]) /\ Stands(s, cut[i + 1], Pack[i + 1])
      BY <1>2, <2>1
    <3>3. cut[i + 1] \in Nat /\ cut[2] <= cut[i + 1] /\ cut[i + 1] <= cut[n + 2]
          /\ cut[i + 2] <= cut[n + 2]
      BY <1>2, <2>1
    <3>. HIDE DEF piece
    <3>. QED  BY <1>3, <1>4, <2>1, <3>1, <3>2, <3>3
  <2>3. r[q] = Reader("type", 0, 0, 0, read)
    <3>. HIDE DEF first
    <3>. QED  BY <1>8, <2>1
  <2>. HIDE DEF q, read
  <2>4. q \in 3 .. hi /\ size(i) \in Nat /\ 3 \in Nat
    <3>1. size(i) \in Nat
      BY <1>1, Zenon
    <3>2. \A h \in Nat : \A k \in Nat : 3 <= k /\ k <= h => k \in 3 .. h
      OBVIOUS
    <3>3. q \in 3 .. hi
      BY <1>4, <2>2, <3>2, Zenon
    <3>. QED  BY <3>1, <3>3
  <2>5. r[q + Len(piece(i))] = Reader("type", 0, 0, 0, Append(read, blob(i)))
    <3>. DEFINE x == size(i)
                d == data(i)
    <3>1. x \in Nat /\ 3 \in Nat /\ hi \in Nat /\ q \in 3 .. hi /\ Runs(r, s, 3, hi)
      BY <1>4, <1>6, <2>4
    <3>2. /\ q + Len(Append(ObjectHeader(x), d)) <= hi
          /\ Stands(s, q, Append(ObjectHeader(x), d))
      BY <2>2
    <3>. HIDE DEF x, d, P, T, first
    <3>3. r[q + Len(Append(ObjectHeader(x), d))]
             = Reader("type", 0, 0, 0, Append(read, [type |-> 3, size |-> x, data |-> d]))
      BY <2>3, <3>1, <3>2, ObjectRead
    <3>. QED  BY <3>3 DEF x, d
  <2>6. Append(read, blob(i)) = first(i)
    <3>. HIDE DEF blob
    <3>. DEFINE S == {blob(j) : j \in 1 .. n}
    <3>0. \A j \in 1 .. i : blob(j) \in S
      BY <1>1
    <3>. HIDE DEF S
    <3>1. /\ read \in Seq(S) /\ Len(read) = i - 1 /\ blob(i) \in S
          /\ \A j \in 1 .. i - 1 : read[j] = blob(j)
      <4>1. read = [j \in 1 .. i - 1 |-> blob(j)]
        BY DEF read
      <4>2. i - 1 \in Nat /\ i \in 1 .. i /\ \A j \in 1 .. i - 1 : blob(j) \in S
        BY <3>0
      <4>. QED  BY <3>0, <4>1, <4>2
    <3>2. first(i) \in Seq(S) /\ Len(first(i)) = i /\ \A j \in 1 .. i : first(i)[j] = blob(j)
      BY <3>0
    <3>3. /\ Append(read, blob(i)) \in Seq(S) /\ Len(Append(read, blob(i))) = i
          /\ \A j \in 1 .. i : Append(read, blob(i))[j] = blob(j)
      BY <3>1
    <3>. HIDE DEF first
    <3>. QED  BY <3>2, <3>3, SeqEqual
  <2>. HIDE DEF first, piece, blob
  <2>. QED  BY <2>2, <2>5, <2>6
<1>. HIDE DEF P
<1>9. T = {}
  <2>. SUFFICES ASSUME T # {} PROVE FALSE
    OBVIOUS
  <2>1. T \subseteq Nat
    OBVIOUS
  <2>2. PICK i \in T : \A m \in T : ~(m < i)
    <3>. HIDE DEF T
    <3>. QED  BY <2>1, Least, Zenon
  <2>3. i \in 1 .. n /\ i - 1 \in 0 .. n /\ i - 1 < i
    BY <1>1, <1>7, <2>2
  <2>4. P(i - 1)
    BY <2>2, <2>3
  <2>. QED  BY <1>8, <2>2, <2>3, <2>4
<1>10. P(n)
  BY <1>1, <1>9
<1>11. r[hi] = Reader("type", 0, 0, 0, first(n))
  BY <1>4, <1>10 DEF P
<1>12. r[hi].objects = first(n) /\ r[hi].next = "type"
  <2>. HIDE DEF first
  <2>. QED  BY <1>11 DEF Reader
<1>13. GitReads(s) = [count |-> n, objects |-> first(n), whole |-> TRUE]
  <2>. HIDE DEF first
  <2>. QED  BY <1>3, <1>5, <1>12
<1>. QED  BY <1>13 DEF n, size, data

-----------------------------------------------------------------------------

Answer == IF source = "backend" THEN Wire ELSE IF mode = "binary" THEN Pack ELSE Summary

\* The client has the first pieces of the answer, the rest is to be written.
Sent ==
    \E k \in 0 .. Len(Answer) :
        /\ todo = SubSeq(Answer, k + 1, Len(Answer))
        /\ \E cut : Laid(out, Answer, k, cut)

Sending ==
    /\ step \in {"begin", "walk", "read", "fetch"} => out = <<>> /\ result # "ok"
    /\ step = "write" => source # "nowhere" /\ result # "ok" /\ out \in Seq(Item) /\ Sent
    /\ result = "ok" => source # "nowhere" /\ out \in Seq(Item) /\ Sent /\ todo = <<>>

LEMMA FourPieces ==
    ASSUME NEW S, NEW a \in S, NEW b \in S, NEW c \in S, NEW d \in S
    PROVE  LET w == <<<<a>>, <<b>>, <<c>>, <<d>>>>
           IN  /\ w \in Seq(Seq(S)) /\ Len(w) = 4
               /\ Len(w[1]) = 1 /\ Len(w[2]) = 1 /\ Len(w[3]) = 1 /\ Len(w[4]) = 1
OBVIOUS

LEMMA WireItems ==
    /\ Wire \in Seq(Seq(Item)) /\ Len(Wire) = 4
    /\ Len(Wire[1]) = 1 /\ Len(Wire[2]) = 1 /\ Len(Wire[3]) = 1 /\ Len(Wire[4]) = 1
<1>1. "status line" \in Item /\ "headers" \in Item /\ "blank line" \in Item /\ "body" \in Item
  BY Zenon DEF Item, Marks
<1>. QED  BY <1>1, FourPieces, Zenon DEF Wire

LEMMA SummaryItems ==
    ASSUME objects \in Seq(Object)
    PROVE  Summary \in Seq(Seq(Item)) /\ Len(Summary) = 1 /\ Len(Summary[1]) = 1
<1>. DEFINE n == Len(objects)
            line(i) == [name |-> objects[i].name, size |-> SizeOf[objects[i].data]]
            lines == [i \in 1 .. n |-> line(i)]
            list == [count |-> n, files |-> lines]
<1>1. n \in Nat /\ \A i \in 1 .. n : objects[i] \in Object
  OBVIOUS
<1>2. ASSUME NEW i \in 1 .. n PROVE line(i) \in [name : Files, size : Nat]
  BY <1>1, SizeAssumption DEF Object
<1>3. Summary = <<<<list>>>>
  BY DEF Summary
<1>. HIDE DEF n, line
<1>4. lines \in Seq([name : Files, size : Nat])
  BY <1>1, <1>2
<1>. HIDE DEF lines
<1>5. list \in [count : Nat, files : Seq([name : Files, size : Nat])]
  BY <1>1, <1>4
<1>. HIDE DEF list
<1>6. list \in Item
  BY <1>5, Zenon DEF Item
<1>7. <<list>> \in Seq(Item) /\ Len(<<list>>) = 1
  BY <1>6
<1>. QED  BY <1>3, <1>7

LEMMA AnswerItems ==
    ASSUME objects \in Seq(Object)
    PROVE  Answer \in Seq(Seq(Item)) /\ Len(Answer) \in Nat
BY WireItems, PackPieces, SummaryItems DEF Answer

(* Nothing is sent when the answer is ready. *)
LEMMA NothingSent ==
    ASSUME NEW answer \in Seq(Seq(Item))
    PROVE  \E k \in 0 .. Len(answer) :
               /\ answer = SubSeq(answer, k + 1, Len(answer))
               /\ \E cut : Laid(<<>>, answer, k, cut)
<1>. DEFINE c == [i \in 1 .. 1 |-> 0]
<1>1. c \in [1 .. 0 + 1 -> Nat] /\ c[1] = 0 /\ c[0 + 1] = 0
  OBVIOUS
<1>2. \A i, j \in 1 .. 0 + 1 : c[i] <= c[j]
  OBVIOUS
<1>. HIDE DEF c
<1>3. Laid(<<>>, answer, 0, c)
  BY <1>1, <1>2 DEF Laid
<1>4. answer = SubSeq(answer, 0 + 1, Len(answer)) /\ 0 \in 0 .. Len(answer)
  OBVIOUS
<1>. QED  BY <1>3, <1>4

LEMMA TailOfRest ==
    ASSUME NEW S, NEW a \in Seq(S), NEW k \in 0 .. Len(a) - 1
    PROVE  Tail(SubSeq(a, k + 1, Len(a))) = SubSeq(a, (k + 1) + 1, Len(a))
<1>. DEFINE r == SubSeq(a, k + 1, Len(a))
            t == SubSeq(a, (k + 1) + 1, Len(a))
<1>1. /\ r \in Seq(S) /\ Len(r) = Len(a) - k
      /\ \A i \in 1 .. Len(a) - k : r[i] = a[k + i]
  OBVIOUS
<1>2. /\ t \in Seq(S) /\ Len(t) = Len(a) - (k + 1)
      /\ \A i \in 1 .. Len(a) - (k + 1) : t[i] = a[(k + 1) + i]
  OBVIOUS
<1>. HIDE DEF r, t
<1>3. Len(a) \in Nat /\ k \in Nat /\ k < Len(a) /\ r # <<>>
  BY <1>1
<1>4. /\ Tail(r) \in Seq(S) /\ Len(Tail(r)) = Len(a) - (k + 1)
      /\ \A i \in 1 .. Len(a) - (k + 1) : Tail(r)[i] = r[i + 1]
  BY <1>1, <1>3
<1>5. ASSUME NEW i \in 1 .. Len(a) - (k + 1) PROVE Tail(r)[i] = t[i]
  <2>1. i + 1 \in 1 .. Len(a) - k /\ k + (i + 1) = (k + 1) + i
    BY <1>3
  <2>. QED  BY <1>1, <1>2, <1>4, <2>1
<1>6. Tail(r) = t
  BY <1>2, <1>4, <1>5, SeqEqual
<1>. QED  BY <1>6 DEF r, t

LEMMA SendingSame ==
    ASSUME Sending, UNCHANGED <<step, source, mode, objects, todo, out, result>>
    PROVE  Sending'
<1>1. Answer' = Answer
  BY DEF Answer, Pack, Summary, Wire
<1>2. Sent' <=> Sent
  BY <1>1 DEF Sent
<1>. QED  BY <1>2 DEF Sending

LEMMA SendingBefore ==
    ASSUME Sending, step \in {"begin", "walk", "read", "fetch"}, out' = out, result' = result,
           step' \in {"begin", "walk", "read", "fetch"}
    PROVE  Sending'
BY DEF Sending

LEMMA SendingFails == result' = "error" /\ step' = "done" => Sending'
BY DEF Sending

LEMMA SendingNoPack ==
    ASSUME Sending, step \in {"begin", "walk"}, NoPack
    PROVE  Sending'
<1>1. CASE Goto("fetch")
  BY <1>1, SendingBefore DEF Goto
<1>2. CASE Done("error")
  BY <1>2, SendingFails DEF Done
<1>. QED  BY <1>1, <1>2 DEF NoPack

LEMMA SendingReady ==
    ASSUME Sending, IInv, WalkEnds \/ Fetch
    PROVE  Sending'
<1>1. /\ out' = <<>> /\ result' = result /\ result # "ok" /\ objects' = objects /\ mode' = mode
      /\ step' = "write" /\ source' \in {"root", "backend"}
  BY DEF WalkEnds, Fetch, Sending, request
<1>2. todo' = Answer'
  <2>1. CASE WalkEnds
    <3>1. source' = "root" /\ todo' = IF mode = "binary" THEN Pack ELSE Summary
      BY <2>1 DEF WalkEnds
    <3>2. Pack' = Pack /\ Summary' = Summary
      BY <1>1 DEF Pack, Summary
    <3>. QED  BY <1>1, <3>1, <3>2 DEF Answer
  <2>2. CASE Fetch
    <3>1. source' = "backend" /\ todo' = Wire
      BY <2>2 DEF Fetch
    <3>2. Wire' = Wire
      BY Zenon DEF Wire
    <3>. QED  BY <3>1, <3>2 DEF Answer
  <2>. QED  BY <2>1, <2>2
<1>3. Answer' \in Seq(Seq(Item))
  <2>1. objects \in Seq(Object)
    BY DEF IInv, TypeOK
  <2>. DEFINE a == Answer
  <2>2. Pack' = Pack /\ Summary' = Summary /\ Wire' = Wire
    BY <1>1 DEF Pack, Summary, Wire
  <2>3. Pack \in Seq(Seq(Item)) /\ Summary \in Seq(Seq(Item)) /\ Wire \in Seq(Seq(Item))
    BY <2>1, WireItems, PackPieces, SummaryItems
  <2>. QED  BY <2>2, <2>3 DEF Answer
<1>4. \E k \in 0 .. Len(Answer') :
          /\ Answer' = SubSeq(Answer', k + 1, Len(Answer'))
          /\ \E cut : Laid(<<>>, Answer', k, cut)
  BY <1>3, NothingSent
<1>5. Sent'
  BY <1>1, <1>2, <1>4 DEF Sent
<1>6. <<>> \in Seq(Item)
  OBVIOUS
<1>. QED  BY <1>1, <1>5, <1>6 DEF Sending

LEMMA SendingWrite ==
    ASSUME Sending, IInv, Write
    PROVE  Sending'
<1>1. /\ out' = out \o Head(todo) /\ todo' = Tail(todo) /\ todo # <<>>
      /\ step = "write" /\ UNCHANGED <<step, source, mode, objects, result>>
      /\ source # "nowhere" /\ result # "ok" /\ out \in Seq(Item)
  BY DEF Write, Sending, request
<1>2. PICK k \in 0 .. Len(Answer) :
          /\ todo = SubSeq(Answer, k + 1, Len(Answer))
          /\ \E cut : Laid(out, Answer, k, cut)
  BY <1>1 DEF Sending, Sent
<1>3. PICK cut : Laid(out, Answer, k, cut)
  BY <1>2
<1>4. Answer' = Answer
  BY <1>1 DEF Answer, Pack, Summary, Wire
<1>5. Answer \in Seq(Seq(Item)) /\ Len(Answer) \in Nat
  BY AnswerItems DEF IInv, TypeOK
<1>. DEFINE a == Answer
<1>. HIDE DEF a
<1>6. /\ k \in Nat /\ k + 1 \in 0 .. Len(a) /\ Head(todo) = a[k + 1] /\ a[k + 1] \in Seq(Item)
      /\ Tail(todo) = SubSeq(a, (k + 1) + 1, Len(a))
  <2>1. a \in Seq(Seq(Item)) /\ k \in 0 .. Len(a) /\ todo = SubSeq(a, k + 1, Len(a)) /\ todo # <<>>
    BY <1>1, <1>2, <1>5 DEF a
  <2>2. k < Len(a)
    BY <2>1
  <2>3. Head(todo) = a[k + 1] /\ a[k + 1] \in Seq(Item)
    BY <2>1, <2>2
  <2>4. Tail(todo) = SubSeq(a, (k + 1) + 1, Len(a))
    <3>1. k \in 0 .. Len(a) - 1 /\ a \in Seq(Seq(Item)) /\ todo = SubSeq(a, k + 1, Len(a))
      BY <2>1, <2>2
    <3>2. Tail(SubSeq(a, k + 1, Len(a))) = SubSeq(a, (k + 1) + 1, Len(a))
      BY <3>1, TailOfRest, Zenon
    <3>. QED  BY <3>1, <3>2, Zenon
  <2>5. k \in Nat /\ k + 1 \in 0 .. Len(a)
    BY <2>1, <2>2
  <2>. QED  BY <2>3, <2>4, <2>5
<1>7. \E c : Laid(out \o a[k + 1], a, k + 1, c)
  BY <1>1, <1>3, <1>6, LaidMore DEF a
<1>8. Sent'
  <2>1. /\ k + 1 \in 0 .. Len(Answer') /\ todo' = SubSeq(Answer', (k + 1) + 1, Len(Answer'))
        /\ \E c : Laid(out', Answer', k + 1, c)
    BY <1>1, <1>4, <1>6, <1>7 DEF a
  <2>. QED  BY <2>1, Zenon DEF Sent
<1>9. out' \in Seq(Item)
  BY <1>1, <1>6
<1>. QED  BY <1>1, <1>8, <1>9 DEF Sending

LEMMA InitSending == Init => Sending
BY DEF Init, Sending

LEMMA NextSending == IInv /\ Sending /\ [Next]_vars => Sending'
<1>. SUFFICES ASSUME IInv, Sending, [Next]_vars PROVE Sending'
  OBVIOUS
<1>1. ASSUME NEW t, NEW paths, NEW file, Edit(t, paths, file) PROVE Sending'
  BY <1>1, SendingSame DEF Edit, request
<1>2. ASSUME NEW p, NEW q, MakeDir(p) \/ WriteFile(p) \/ Delete(p) \/ Move(p, q) PROVE Sending'
  BY <1>1, <1>2 DEF MakeDir, WriteFile, Delete, Move
<1>3. CASE Begin
  <2>1. CASE Goto("walk")
    BY <1>3, <2>1, SendingBefore DEF Begin, Goto
  <2>. QED  BY <1>3, <2>1, SendingNoPack DEF Begin
<1>4. CASE Walk
  <2>1. PICK p \in pending : Visit(p)
    BY <1>4 DEF Walk
  <2>2. step = "walk"
    BY <1>4 DEF Walk
  <2>3. CASE Descend(p)
    BY <2>2, <2>3, SendingBefore DEF Descend, Goto
  <2>4. CASE OpenFile(p)
    BY <2>2, <2>4, SendingBefore DEF OpenFile
  <2>. QED  BY <2>1, <2>2, <2>3, <2>4, SendingNoPack DEF Visit
<1>5. CASE WalkEnds \/ Fetch
  BY <1>5, SendingReady
<1>6. CASE FetchFails \/ WriteFails
  BY <1>6, SendingFails DEF FetchFails, WriteFails, Done
<1>7. CASE Write
  BY <1>7, SendingWrite
<1>8. CASE Written
  <2>1. /\ step = "write" /\ todo = <<>> /\ step' = "done" /\ result' = "ok"
        /\ UNCHANGED <<source, mode, objects, todo, out>>
    BY <1>8 DEF Written, Done, request
  <2>2. Answer' = Answer
    BY <2>1 DEF Answer, Pack, Summary, Wire
  <2>3. Sent' <=> Sent
    BY <2>1, <2>2 DEF Sent
  <2>. QED  BY <2>1, <2>3 DEF Sending
<1>9. CASE UNCHANGED vars
  BY <1>9, SendingSame DEF vars
<1>10. CASE ReadFile
  <2>1. step = "read" /\ step' = "walk" /\ out' = out /\ result' = result
    BY <1>10 DEF ReadFile
  <2>. QED  BY <2>1, SendingBefore
<1>. QED  BY <1>2, <1>3, <1>4, <1>5, <1>6, <1>7, <1>8, <1>9, <1>10 DEF Next

(* All the pieces of the answer, and nothing else, make it whole. *)
LEMMA WholeWhenSent == IInv /\ Sending => AnswerIsWhole
<1>. SUFFICES ASSUME IInv, Sending, result = "ok" PROVE AnswerIsWhole
  BY DEF AnswerIsWhole
<1>1. PICK k \in 0 .. Len(Answer) :
          /\ todo = SubSeq(Answer, k + 1, Len(Answer))
          /\ \E cut : Laid(out, Answer, k, cut)
  BY DEF Sending, Sent
<1>2. PICK cut : Laid(out, Answer, k, cut)
  BY <1>1
<1>3. objects \in Seq(Object) /\ todo = <<>> /\ out \in Seq(Item)
  BY DEF Sending, IInv, TypeOK
<1>4. Laid(out, Answer, Len(Answer), cut)
  <2>1. Answer \in Seq(Seq(Item)) /\ Len(Answer) \in Nat
    BY <1>3, AnswerItems
  <2>2. k = Len(Answer)
    <3>. DEFINE a == Answer
    <3>1. a \in Seq(Seq(Item)) /\ SubSeq(a, k + 1, Len(a)) = <<>> /\ k \in 0 .. Len(a)
      BY <1>1, <1>3, <2>1
    <3>. HIDE DEF a
    <3>2. Len(a) \in Nat /\ (k < Len(a) => Len(SubSeq(a, k + 1, Len(a))) = Len(a) - k)
      BY <3>1
    <3>3. Len(SubSeq(a, k + 1, Len(a))) = 0
      <4>1. \A r : r = <<>> => Len(r) = 0
        OBVIOUS
      <4>. QED  BY <3>1, <4>1, Zenon
    <3>4. k = Len(a)
      BY <3>1, <3>2, <3>3
    <3>. QED  BY <3>4 DEF a
  <2>. QED  BY <1>2, <2>2
<1>5. CASE source = "backend"
  <2>1. Laid(out, Wire, 4, cut)
    BY <1>4, <1>5, WireItems DEF Answer
  <2>2. /\ cut \in [1 .. 5 -> Nat] /\ cut[1] = 0 /\ Len(out) = cut[4 + 1]
        /\ cut[1 + 1] = cut[1] + 1 /\ cut[2 + 1] = cut[2] + 1
        /\ cut[3 + 1] = cut[3] + 1 /\ cut[4 + 1] = cut[4] + 1
    <3>1. /\ cut \in [1 .. 4 + 1 -> Nat] /\ cut[1] = 0 /\ Len(out) = cut[4 + 1]
          /\ \A i \in 1 .. 4 : cut[i + 1] = cut[i] + Len(Wire[i])
      BY <2>1, Zenon DEF Laid
    <3>2. 1 \in 1 .. 4 /\ 2 \in 1 .. 4 /\ 3 \in 1 .. 4 /\ 4 \in 1 .. 4 /\ 4 + 1 = 5
      OBVIOUS
    <3>. HIDE DEF Wire
    <3>. QED  BY <3>1, <3>2, WireItems
  <2>3. Len(out) = 4
    BY <2>2
  <2>4. mode = "binary"
    BY <1>5 DEF IInv
  <2>. QED  BY <1>5, <2>3, <2>4 DEF AnswerIsWhole
<1>6. CASE source # "backend" /\ mode = "binary"
  <2>1. Laid(out, Pack, Len(Pack), cut)
    BY <1>4, <1>6 DEF Answer
  <2>2. mode # "text"
    BY <1>6
  <2>. QED  BY <1>3, <1>6, <2>1, <2>2, PackRead DEF AnswerIsWhole
<1>7. CASE source # "backend" /\ mode = "text"
  <2>1. Laid(out, Summary, 1, cut)
    BY <1>3, <1>4, <1>7, SummaryItems DEF Answer
  <2>. DEFINE w == Summary[1]
  <2>2. w \in Seq(Item) /\ Len(w) = 1
    BY <1>3, SummaryItems
  <2>. HIDE DEF w
  <2>3. Len(out) = Len(w) /\ \A j \in 1 .. Len(w) : out[j] = w[j]
    BY <1>3, <2>1, <2>2 DEF Laid, Stands, w
  <2>4. out = w
    BY <1>3, <2>2, <2>3, SeqEqual
  <2>. QED  BY <1>7, <2>4 DEF AnswerIsWhole, w
<1>8. mode \in {"binary", "text"}
  BY DEF IInv, TypeOK
<1>. QED  BY <1>5, <1>6, <1>7, <1>8

(* What a client gets in a command that succeeds is the whole answer, and   *)
(* Git reads a packfile as the files that were read, whatever their number  *)
(* and sizes (WriteTo, encodeObject, receivePackBinary).                    *)
THEOREM AnswerKept == Spec => []AnswerIsWhole
<1>1. Spec => []Sending
  BY InitSending, NextSending, Invariant, PTL DEF Spec
<1>. QED  BY <1>1, WholeWhenSent, Invariant, PTL

=============================================================================
